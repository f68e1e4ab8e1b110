SPECIFICATION Spec
CONSTANTS
  Width <- TwoByte
  Pieces <- Tokens
  Stops <- StopLists
  Predicts <- Limits
  MaxTokens = 5
INVARIANTS TypeOK ShownIsKept CutAtFirstStop
CHECK_DEADLOCK FALSE
