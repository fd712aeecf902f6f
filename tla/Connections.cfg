SPECIFICATION Spec
CONSTANTS
  MaxTokens = 2
  MaxPending = 2
  Batch = 1
  Room = 1
  Budget = 2
  MaxSends = 2
  MaxBytes = 3
  MaxPayload = 2
  MaxActs = 1
INVARIANTS
  NothingStranded
  FramesInOrder
  OneDisconnectEach
PROPERTIES
  SilentClientIsDropped
CHECK_DEADLOCK FALSE
