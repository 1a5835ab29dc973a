\* Two saves from two windows, two results, a crash; a vault and reloads that may fail.
SPECIFICATION FairSpec
CONSTANTS
    Savers = {settings, wizard}
    Reloader = Reloader
    Worker = Worker
    MaxItems = 1
    MaxSaves = 2
    MaxRecords = 2
    MaxCrashes = 1
    ReloadMayFail = TRUE
    VaultMayFail = TRUE
INVARIANTS
    RetentionIsEnforced
PROPERTIES
    PolicyConverges
CHECK_DEADLOCK FALSE
