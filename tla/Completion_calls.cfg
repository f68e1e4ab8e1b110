SPECIFICATION Spec
CONSTANTS
  Tokens <- AllWords
  CharKind <- AllKind
  NCtx = 5
  NBatch = 2
  NKeep = 1
  CtxShift = TRUE
  IgnoreEos = FALSE
  PartialRemoval = TRUE
  DecodeMayFail = TRUE
  Kinds <- AnyCall
  Prompts <- OtherOrLong
  Predicts <- OneOrNot
  Unset = Unset
  SizeMax = 3
  MaxCalls = 3
INVARIANT TypeOK
INVARIANT WithinContext
INVARIANT MemoryMatchesTokens
INVARIANT LogitsBeforeSample
INVARIANT StopTakesEffect
CHECK_DEADLOCK FALSE
