SPECIFICATION Spec
CONSTANTS
    ann = ann  bob = bob  a1 = a1  a2 = a2  b1 = b1  m1 = m1  m2 = m2
    None = None
    Users = {ann}
    Sessions = {a1, a2}
    Meetings = {m1, m2}
    Owner <- MCOwner
    Token <- MCToken
    Creator <- MCHost
    MaxParticipants = 1
    Grace = 2
    MaxFaults = 1
    MaxJumps = 1
    MaxTasks = 2
SYMMETRY Symmetry
INVARIANTS MembershipAgrees
PROPERTIES GraceKept
