SPECIFICATION Spec
CONSTANTS
  NSlots = 1
  NBatch = 3
  MinBatch = 2
  NCtx = 4
  Shapes <- PlainOnly
  MaxRequests = 2
  Clients = {c1}
  DecodeMayFail = FALSE
INVARIANT OwnOutput
CHECK_DEADLOCK FALSE
