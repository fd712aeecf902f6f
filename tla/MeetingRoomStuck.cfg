SPECIFICATION Spec
CONSTANTS
    ann = ann  bob = bob  a1 = a1  a2 = a2  b1 = b1  m1 = m1  m2 = m2
    None = None
    Users = {ann}
    Sessions = {a1, a2}
    Meetings = {m1}
    Owner <- MCOwner
    Token <- MCToken
    Creator <- MCHost
    MaxParticipants = 1
    Grace = 1
    MaxFaults = 1
    MaxJumps = 0
    MaxTasks = 1
INVARIANT NotStuckReconnecting
