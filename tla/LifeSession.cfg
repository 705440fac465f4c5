CONSTANTS
  j1 = j1
  j2 = j2
  s1 = s1
  SessionOf <- OneSession
  NoApproval = NoApproval
  None = None
  Jobs = {j1, j2}
  Interactive = {j1}
  Workers = {w1, w2}
  Approvals = {}
  MaxAttempts = 2
  MaxToken = 2
  MaxCrashes = 1
  ExpiringJobs = {j1}
  CardsMayFail = FALSE
SYMMETRY WorkerSymmetry
SPECIFICATION LifeSpec
INVARIANT LifeInv
CHECK_DEADLOCK FALSE
