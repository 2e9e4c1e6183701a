SPECIFICATION Spec
CONSTANTS
    MaxTokens = 2
    Can = {"unlink"}
INVARIANT UnlinkedStaysUnlinked
CHECK_DEADLOCK FALSE
