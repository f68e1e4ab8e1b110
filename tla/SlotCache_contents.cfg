SPECIFICATION Spec
CONSTANTS
  NSlots = 2
  NBatch = 2
  NCtx = 3
  Tokens <- Text
  Null = Null
  Shapes <- AllShapes
  Recurrent <- Both
  MaxRequests = 3
  DecodeMayFail = TRUE
INVARIANTS TypeOK OwnMemory PositionsFollow FileMatches
CHECK_DEADLOCK FALSE
