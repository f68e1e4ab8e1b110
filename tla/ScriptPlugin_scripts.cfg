SPECIFICATION Spec
CONSTANTS
  MaxCalls = 4
  Platforms = {"web", "electron"}
  NSequences = 1
  Kinds <- FourKinds
INVARIANTS TypeOK StopReaches ListenersBalanced SequencesComeBack OwnContext
PROPERTY AbortedEnds
CHECK_DEADLOCK FALSE
