\* Two holds, a dead default and an alternate, watchers that may outlive theirs.
SPECIFICATION Spec
CONSTANTS
    Default = "default"
    Alternates = {"sonar", "webcam"}
    Closed = Closed
    Watchers = {w1, w2}
    OpenMayFail = TRUE
    SlowListing = TRUE
    MaxHolds = 2
INVARIANTS
    OwnAudio
    ExplicitInput
    ClosedBetween
PROPERTIES
CHECK_DEADLOCK FALSE
