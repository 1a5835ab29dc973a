\* Two processes, two phrases with two targets each, room for both.
SPECIFICATION Spec
CONSTANTS
    Stores = {tray, engine}
    Phrases = {p1, p2}
    Targets = {t1, t2}
    MaxTerms = 2
    Missing = Missing
    Damaged = Damaged
    Unset = Unset
    WriteMayFail = TRUE
SYMMETRY Interchangeable
INVARIANTS
PROPERTIES
    RamFollowsDisk
    NoSilentOverwrite
    IsMemory
