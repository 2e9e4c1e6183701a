SPECIFICATION Spec
CONSTANTS
    MaxTokens = 2
    Can = {"unlink", "sync", "connect", "signout", "keep"}
INVARIANTS TypeOK AskedOnce
CHECK_DEADLOCK FALSE
