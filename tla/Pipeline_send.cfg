SPECIFICATION Spec
CONSTANTS
  Workers = {w1}
  Threads = {t1}
  NoThread = NoThread
  Opps = {1, 2}
  Fit <- FitByRank
  Incomplete = {2}
  MaxTokens = 1
  MaxRequests = 3
INVARIANT PausesBeforeSend
CHECK_DEADLOCK FALSE
