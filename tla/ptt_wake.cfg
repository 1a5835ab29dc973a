\* One chord, both activation modes and a switch between them, and a wake word.
SPECIFICATION PttFairSpec
CONSTANTS
    Keys = {"k1"}
    Modes <- OneMode
    NoMode = NoMode
    Chord <- OneKeyChord
    Order <- ConfigOrder
    InitialModes <- Either
    ModeSwitch = TRUE
    MaxGen = 3
    MaxBus = 1
    Dictation = "dictation"
    WakeWord = TRUE
INVARIANTS
    RecordingIsBounded
PROPERTIES
    RecordingEnds
CHECK_DEADLOCK FALSE
