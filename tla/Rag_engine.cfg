SPECIFICATION Spec
CONSTANTS
  a = a
  b = b
  Queries = {blank, a, b, c}
  BlankQuery = blank
  Evidence = {"e1"}
  Dossier = {"d1"}
  TopK = 1
  Likeness <- MCLikeness
  Threshold = 2
  MaxEntries = 2
  HasToken = TRUE
  MaxRounds = 2
  MaxCalls = 4
SYMMETRY Symmetry
INVARIANTS ServedAsGraded EntriesAreDistinct
CHECK_DEADLOCK FALSE
