SPECIFICATION Spec
CONSTANTS
  NSlots = 2
  NBatch = 1
  MinBatch = 1
  NCtx = 3
  Shapes <- Crowd
  MaxRequests = 3
  Clients = {c1}
  DecodeMayFail = TRUE
INVARIANTS TypeOK AnsweredAtMostOnce OnePlace Tracked CancelledIsInterrupted CheckpointNotMissed BatchWithinCapacity
PROPERTY ServiceSpec
CHECK_DEADLOCK FALSE
