CONSTANTS
  j1 = j1
  j2 = j2
  s1 = s1
  SessionOf <- OneSession
  NoApproval = NoApproval
  None = None
  Jobs = {j1}
  Interactive = {j1}
  Workers = {w1}
  Approvals = {a1}
  MaxAttempts = 1
  MaxToken = 2
  MaxCrashes = 1
  ExpiringJobs = {}
  CardsMayFail = FALSE
SPECIFICATION FairLifeSpec
PROPERTIES ParkedJobsGiveSlotBack FinalIsEnqueued JobsComeToRest
CHECK_DEADLOCK FALSE
