SPECIFICATION Spec
CONSTANTS
  MaxCalls = 4
  Platforms = {"android", "ios"}
INVARIANTS TypeOK FreedNotUsed HeldByMap OwnContext RefusedForAReason
PROPERTY EveryCallReturns
CHECK_DEADLOCK FALSE
