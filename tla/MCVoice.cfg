SPECIFICATION Spec
CONSTANTS
    Kinds = {"voice"}
    VoiceKey = "voice"
    MaxHolds = 2
    ToCrossing = TRUE
    MaxMessages = 2
    Events = {"working", "done"}
INVARIANTS MicIsTheOwners IslandIsRight
PROPERTY VoiceMovesOn
CHECK_DEADLOCK FALSE
