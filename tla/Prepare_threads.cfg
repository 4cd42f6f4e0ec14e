SPECIFICATION FairSpec
CONSTANTS
  Workers = {w1, w2}
  Kinds = {"cover_letter", "outreach_email"}
  Fallback = "outreach_email"
  MaxEvidence = 2
  MaxRuns = 3
  MaxBuilds = 1
  MaxFaults = 1
INVARIANTS DraftsOfOneRun PreparingHasAWorker CitesStoredEvidence
PROPERTIES ReadyDraftsAreStable PreparationEnds
CHECK_DEADLOCK FALSE
