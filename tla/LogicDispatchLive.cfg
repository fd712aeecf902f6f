SPECIFICATION FairSpec
CONSTANTS
    Conns = {c1}
    Rooms = {r1}
    Timer = Timer
    Threads = {t1}
    PoolCapacity = 2
    QueueCapacity = 1
    SchedulerCapacity = 2
    MaxMessages = 1
    MaxAwaits = 1
    MaxScans = 1
    MaxObjs = 2
    Kinds = {"join", "room", "plain"}
    None = None
PROPERTIES
    ConnectionInOrder
    DisconnectHandled
    ShutdownCompletes
