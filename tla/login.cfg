SPECIFICATION Spec
CONSTANTS
  NoCode = NoCode
  None = None
  Browsers = {b1, b2}
  Flows = {f1, f2}
  Codes = {k1, k2}
  People = {ann, eve}
  Allowed = {ann}
  ChecksPKCE = FALSE
  KeepsSecret = TRUE
  TTL = 1
  MaxClock = 2
  MaxRestarts = 1
  Requests = {r1, r2}
SYMMETRY LoginSymmetry
INVARIANTS TypeOK SessionsAreOwn ExpiredAnswerIsTrue
PROPERTY AnsweredFlowsAreOver
