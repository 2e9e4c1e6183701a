SPECIFICATION Spec
CONSTANTS
    Commands = {c1}
    Conns = {n1}
    Cap = 2
    FlushAt = 2
    MaxBytes = 2
    MaxMonth = 2
    Chunks = {f1, f2}
    Synths = {s1}
    MaxFile = 2
INVARIANTS NothingLeftBehind CrashLosesLittle ChunksInPlace
PROPERTIES StreamsEnd
CHECK_DEADLOCK FALSE
