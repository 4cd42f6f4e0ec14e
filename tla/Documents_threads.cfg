SPECIFICATION Spec
CONSTANTS
  Workers = {w1, w2}
  Paths = {p1}
  NoPath = NoPath
  Contents = {"blank", "v1", "v2"}
  NoText = "blank"
  MaxIds = 2
  MaxFiles = 3
  MaxRequests = 4
INVARIANTS FactsAreOfTheText RowsKeepTheirFiles BuildsSettle
SYMMETRY Symmetry
CHECK_DEADLOCK FALSE
