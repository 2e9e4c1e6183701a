SPECIFICATION Spec
CONSTANTS
    Synths = {s1, s2}
    Nobody = Nobody
    MaxConns = 2
    OutQueue = 3
    MaxChanges = 4
    Apps = {a1, a2}
    NoApp = NoApp
    MaxTries = 1
    MaxQuestions = 3
    MaxVersion = 2
    Accounts = {own, other}
    MaxLogins = 2
INVARIANTS LinksAreTheOwners HelperIsRight SignInIsOwn
PROPERTIES ToldWhatWasAsked LinkedIsConfirmed QuestionsEnd
CHECK_DEADLOCK FALSE
