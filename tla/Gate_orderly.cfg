SPECIFICATION OrderlySpec
CONSTANTS
  Workers = {w1, w2}
  Apps = {a1, a2}
  Forms = {f1, f2}
  InvalidForms = {}
  NoEmailForms = {f2}
  Adapters = {"email", "sandbox"}
  ApplyAsMe = TRUE
  TTL = 1
  NoForm = NoForm
  NoApp = NoApp
  MaxTokens = 2
  MaxTime = 1
  MaxEdits = 1
  MaxFailures = 0
SYMMETRY RoleSymmetry
INVARIANTS AtMostOncePerToken RecordMatchesDispatch OppFollowsApplication
PROPERTIES SubmittedIsTerminal NoSendWhileRejected ImplementsLedger
CHECK_DEADLOCK FALSE
