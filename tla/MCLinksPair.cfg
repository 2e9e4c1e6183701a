SPECIFICATION FairSpec
CONSTANTS
    MaxTokens = 2
    Can = {"pair", "again", "unlink"}
PROPERTY LoopsGoOn
CHECK_DEADLOCK FALSE
