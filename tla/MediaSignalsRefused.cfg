SPECIFICATION Spec
CONSTANTS
  Users = {ann, bob}
  First = ann
  NoPeer = NoPeer
  MaxConns = 1
  MaxPending = 3
  MaxRtp = 1
  MaxPcs = 3
  MaxSessions = 1
  MaxRoomQueue = 3
  MaxExtras = 0
  MaxFaults = 1
INVARIANT PendingIsOffered
CHECK_DEADLOCK FALSE
