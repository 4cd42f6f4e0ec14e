SPECIFICATION FairSpec
CONSTANTS
  Api = {a1}
  Cli = {c1}
  Urls = {u1, u2}
  NoWorker = NoWorker
  MaxCrashes = 2
INVARIANTS InsertsDoNotCollide StoredRunsAreConcluded CyclesAreRecorded
PROPERTIES HandlersEnd ImplementsSearches
CHECK_DEADLOCK FALSE
