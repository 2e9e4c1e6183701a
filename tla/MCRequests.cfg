SPECIFICATION ControlSpec
CONSTANTS
    c1 = c1
    c2 = c2
    Calls = {c1, c2}
    MaxPending = 1
    MaxGeneration = 3
    window = window
    island = island
    Changers = {window, island}
    MaxRev = 3
    MaxSteps = 5
    None = None
INVARIANTS ControlTypeOK TableIsRight LateEndSpares PushNotStale PolicyIsTheOwners
PROPERTIES KeepsPromise NothingWaitsForEver
\* The bounded sets of calls and streams run out.
CHECK_DEADLOCK FALSE
