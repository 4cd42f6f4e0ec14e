SPECIFICATION Spec
CONSTANTS
  Workers = {w1, w2}
  Threads = {t1}
  NoThread = NoThread
  Opps = {1, 2}
  Fit <- FitByRank
  Incomplete = {}
  MaxTokens = 2
  MaxRequests = 5
INVARIANTS ActsOnlyOnApproval SavedSubmissionsWereSent
PROPERTY RefusedTokensStayRefused
SYMMETRY WorkerSymmetry
CHECK_DEADLOCK FALSE
