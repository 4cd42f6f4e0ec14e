SPECIFICATION Spec
CONSTANTS
  Workers = {w1, w2}
  Apps = {a1}
  Forms = {f1, f2}
  InvalidForms = {}
  NoEmailForms = {}
  Adapters = {"email"}
  ApplyAsMe = TRUE
  TTL = 1
  NoForm = NoForm
  NoApp = NoApp
  MaxTokens = 2
  MaxTime = 0
  MaxEdits = 1
  MaxFailures = 1
SYMMETRY GateSymmetry
INVARIANTS SentWhatWasApproved CompletedTokenIsDead SubmittedWasSent DispatchIsLogged
PROPERTY RetiredTokensStayRetired
CHECK_DEADLOCK FALSE
