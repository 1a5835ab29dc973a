\* Two streaming utterances around plain dictations and undos; the injector and the
\* overlay may raise, and the clipboard and the recovery store refuse, at any call.
SPECIFICATION Spec
CONSTANTS
    Pieces = {"a", "b"}
    Texts <- Heard
    Finals <- Polished
    Passes = 3
    FirstPasses = 2
    MayFail = TRUE
    VaultMayRefuse = TRUE
    MaxUtterances = 2
    MaxDoc = 2
INVARIANTS
    LedgerIsField
    WordsAreKept
PROPERTIES
    LatePassesAreSilent
    StopIsFinal
CHECK_DEADLOCK FALSE
