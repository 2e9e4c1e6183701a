SPECIFICATION ApprovalsSpec
CONSTANTS
    s1 = s1
    s2 = s2
    site = site
    command = command
    a1 = a1
    a2 = a2
    a3 = a3
    Synths = {s1, s2}
    Scopes = {site, command}
    Asks = {a1, a2}
    Owner = Owner
    AskKey <- MCAskKey
    AskRemember <- MCAskRemember
    AskAhead <- MCAskAhead
    OneByOne = {command}
    MaxTime = 1
INVARIANTS TypeOK OwnersWord TakenBackStaysOff NoAnswerIsRefusal
CHECK_DEADLOCK FALSE
