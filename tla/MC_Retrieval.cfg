CONSTANTS
  Documents <- Docs
  MaxTokens = 4
  OverlapTokens = 2
  PieceWords = 3
  LongPdf = 2
  K = 2
  RankConstant = 60
  TopFused = 3
  Relevances = {0, 1}
  HeaderTokens = 1
  TokenBudget = 8
  Searched <- Few
  MaxCited = 2
SPECIFICATION Spec
CHECK_DEADLOCK FALSE
INVARIANTS TextCovered SourcesResolve
