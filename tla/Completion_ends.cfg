SPECIFICATION FairSpec
CONSTANTS
  Tokens <- AllWords
  CharKind <- AllKind
  NCtx = 5
  NBatch = 2
  NKeep = 1
  CtxShift = FALSE
  IgnoreEos = FALSE
  PartialRemoval = FALSE
  DecodeMayFail = TRUE
  Kinds <- ModelCalls
  Prompts <- ThreePrompts
  Predicts <- Limits
  Unset = Unset
  SizeMax = 8
  MaxCalls = 3
PROPERTY CallEnds
PROPERTY LimitHonoured
CHECK_DEADLOCK FALSE
