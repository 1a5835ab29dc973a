\* A pool of two threads, and a provider that may go down and hang once, and come up again.
SPECIFICATION Spec
CONSTANTS
    Callers = {c1}
    Probe = Probe
    Nobody = Nobody
    Workers = 2
    MaxPools = 2
    MaxTasks = 4
    MaxOutages = 1
PROPERTIES
    CleanReturns
    Recovers
CHECK_DEADLOCK FALSE
