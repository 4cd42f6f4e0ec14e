SPECIFICATION Spec
CONSTANTS
  Workers = {w1, w2}
  Roles = {"extract", "draft", "fallback"}
  Providers = {"deepseek", "groq"}
  FreeRoles = {"fallback"}
  FreeProviders = {"groq"}
  RoleCost <- Prices
  Budget = 3
  LastDay = 2
  MaxCalls = 6
  MaxFaults = 1
INVARIANTS TypeOK RecordedWithinBudget RecordedWasSpent RefusalsAreJustified SerialSpendIsExact
SYMMETRY WorkerSymmetry
CHECK_DEADLOCK FALSE
