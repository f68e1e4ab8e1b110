SPECIFICATION FairSpec
CONSTANTS
  Callers = {c1, c2}
  NSlots = 1
  MaxRequests = 2
  MaxStarts = 2
INVARIANTS TypeOK NoLostRequest OneThread
PROPERTY RequestsTaken
CHECK_DEADLOCK FALSE
