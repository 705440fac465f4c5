CONSTANTS
  j1 = j1
  j2 = j2
  j3 = j3
  s1 = s1
  s2 = s2
  Jobs = {j1, j2, j3}
  SessionOf <- MCSessionOf
  MaxAttempts = 2
  Approvals = {a1}
  NoApproval = NoApproval
  ExpiringJobs = {j1}
  MaxToken = 4
SPECIFICATION QueueSpec
INVARIANT QueueInv
PROPERTIES TerminalIsFinal LostTokensStayLost ImplementsSessionWriter
CHECK_DEADLOCK FALSE
