SPECIFICATION FairSpec
CONSTANTS
    Rooms <- MCRooms
    Hash <- MCHash
    WorkerCount = 2
    MaxTasks = 2
    NoRoom = NoRoom
INVARIANTS
    NoLostWakeup
    DrainedBeforeExit
PROPERTIES
    ImplementsSerialRooms
    NeverOvertaken
    EveryTaskHandled
