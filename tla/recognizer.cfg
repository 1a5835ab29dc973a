\* Two transcribing threads, a startup load, one change of the model.
SPECIFICATION AsrSpec
CONSTANTS
    Clients = {worker, stream}
    Starter = Starter
    Reloader = Reloader
    Releaser = Releaser
    Free = Free
    MaxProviders = 2
    Kinds <- OneToOther
    MaxUses = 2
    LoadMayFail = TRUE
INVARIANTS
    OneDecode
    ReadyIsLoaded
PROPERTIES
    UsedIsReleased
CHECK_DEADLOCK FALSE
