SPECIFICATION Spec
CONSTANTS
  Users = {ann, bob}
  First = ann
  NoPeer = NoPeer
  MaxConns = 2
  MaxPending = 3
  MaxRtp = 1
  MaxPcs = 3
  MaxSessions = 2
  MaxRoomQueue = 3
  MaxExtras = 1
  MaxFaults = 1
INVARIANTS
  FramesAreForThisPc
  OneOfferOutstanding
  NoOrphans
  RtpKeepsIdentity
  QuietMeansSubscribed
CHECK_DEADLOCK FALSE
