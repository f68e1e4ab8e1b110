SPECIFICATION UnstoppedSpec
CONSTANTS
  Tokens <- XYWords
  CharKind <- XYKind
  NCtx = 6
  NBatch = 2
  NKeep = 1
  CtxShift = TRUE
  IgnoreEos = FALSE
  PartialRemoval = TRUE
  DecodeMayFail = FALSE
  Kinds <- OnlyCompletion
  Prompts <- AgainAndLonger
  Predicts <- OneToken
  Unset = Unset
  SizeMax = 8
  MaxCalls = 3
INVARIANT ReusedIsInMemory
CHECK_DEADLOCK FALSE
