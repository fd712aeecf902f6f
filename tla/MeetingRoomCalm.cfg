SPECIFICATION FairSpec
CONSTANTS
    ann = ann  bob = bob  a1 = a1  a2 = a2  b1 = b1  m1 = m1  m2 = m2
    None = None
    Users = {ann, bob}
    Sessions = {a1, a2, b1}
    Meetings = {m1}
    Owner <- MCOwner
    Token <- MCTwoDevices
    Creator <- MCHost
    MaxParticipants = 2
    Grace = 2
    MaxFaults = 0
    MaxJumps = 0
    MaxTasks = 1
INVARIANTS EndedRoomEmpty RejoinInGrace
PROPERTIES OfflineOccupantResolved
