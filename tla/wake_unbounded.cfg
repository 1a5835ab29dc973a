\* A wake-word dictation and a command chord.
SPECIFICATION PttSpec
CONSTANTS
    Keys = {"k1", "k2"}
    Modes <- TwoModes
    NoMode = NoMode
    Chord <- NestedChords
    Order <- ConfigOrder
    InitialModes <- Hold
    ModeSwitch = FALSE
    MaxGen = 4
    MaxBus = 3
    Dictation = "dictation"
    WakeWord = TRUE
INVARIANTS
    RecordingIsBounded
CHECK_DEADLOCK FALSE
