SPECIFICATION FairSpec
CONSTANTS
  Callers = {c1, c2}
  NSlots = 2
  MaxRequests = 1
  MaxStarts = 1
PROPERTY StopReturns
CHECK_DEADLOCK FALSE
