SPECIFICATION FairSpec
CONSTANTS
  NSlots = 2
  NBatch = 3
  MinBatch = 2
  NCtx = 4
  Shapes <- AllShapes
  MaxRequests = 2
  Clients = {c1}
  DecodeMayFail = TRUE
PROPERTIES EveryRequestLeaves EveryRequestAnswered
CHECK_DEADLOCK FALSE
