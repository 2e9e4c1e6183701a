SPECIFICATION Spec
CONSTANTS
    m1 = m1
    ModelFiles = {m1}
    Size = 2
    Tries = 2
    Runs = {1, 2}
    Newest = 1
    Holds = {"one", "two"}
    Engines = {"whisper", "parakeet"}
    Nothing = Nothing
    MaxAudio = 5
    MaxUpsets = 1
INVARIANTS WholeOrAbsent OwnerIsHeard
PROPERTIES InstallsEnd
CHECK_DEADLOCK FALSE
