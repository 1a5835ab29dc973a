\* Hold-to-talk with two nested chords, without a wake word.
SPECIFICATION PttSpec
CONSTANTS
    Keys = {"k1", "k2"}
    Modes <- TwoModes
    NoMode = NoMode
    Chord <- NestedChords
    Order <- ConfigOrder
    InitialModes <- Hold
    ModeSwitch = FALSE
    MaxGen = 5
    MaxBus = 1
    Dictation = "dictation"
    WakeWord = FALSE
INVARIANTS
    NoListenerAfterStop
    OneCurrentListener
    ReleaseEndsRecording
PROPERTIES
    ShutdownIsSilent
CHECK_DEADLOCK FALSE
