\* One connection: two texts, one chunk each, barge-ins, tts.cancel, a close, and a
\* voice or a device that may raise.
SPECIFICATION Spec
CONSTANTS
    MaxTexts = 2
    MaxCancels = 2
    MaxQueue = 1
    Chunks = 1
    MayFail = TRUE
INVARIANTS
    CancelledChunksAreSilent
    GateCoversSound
    GateIsOwned
    ClosedIsSilent
CHECK_DEADLOCK FALSE
