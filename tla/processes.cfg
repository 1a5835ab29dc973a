\* Three launches and three lock files; two processes that insert; two threads that share consents.
SPECIFICATION ProcessesSpec
CONSTANTS
    Launches = {l1, l2, l3}
    Nobody = Nobody
    MaxFiles = 3
    MaxRetries = 2
    MaxErrors = 1
    MaxKills = 1
    Clients = {app, helper}
    Opaque = {2}
    Empty = Empty
    Free = Free
    Abandoned = Abandoned
    MaxCopies = 2
    MaxInjections = 2
    MaxCrashes = 1
    t1 = t1
    t2 = t2
    p1 = p1
    p2 = p2
    Threads = {t1, t2}
    Processes = {p1, p2}
    ProcessOf <- OneEach
    Keys = {k1, k2}
    None = None
    MaxOps = 3
    MaxFaults = 1
    MaxDeaths = 1
SYMMETRY Interchangeable
INVARIANTS
    SingleOwner
    OwnerKeepsPath
    StaleNeverBlocks
    LatestCopyKept
    InsertedOnce
    OwnText
    LedgerIsAgreed
    SentOnlyAgreed
    SentIsLogged
CHECK_DEADLOCK FALSE
