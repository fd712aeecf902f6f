SPECIFICATION Spec
CONSTANTS
    Conns = {c1, c2}
    Rooms = {r1}
    Timer = Timer
    Threads = {t1}
    PoolCapacity = 1
    QueueCapacity = 1
    SchedulerCapacity = 3
    MaxMessages = 1
    MaxAwaits = 1
    MaxScans = 0
    MaxObjs = 2
    Kinds = {"join", "room"}
    None = None
INVARIANTS
    RegistryAgrees
    CompletionsAreCurrent
    HoldersNeverWaitForOthers
    IdleMeansDone
PROPERTIES
    UsesPoolCorrectly
SYMMETRY Symmetry
