\* Two utterances in either mode; every call may fail; stop at any moment.
SPECIFICATION Spec
CONSTANTS
    Enter = 0
    InjectorMayFail = TRUE
    ClipboardMayFail = TRUE
    VaultMayRefuse = TRUE
    MaxUtterances = 2
INVARIANTS
    WordsAreKept
    VaultKeepsFailures
PROPERTIES
    Answered
    IsSession
CHECK_DEADLOCK FALSE
