CONSTANTS
  None = None
  Callers = {c1, c2}
  Reservations = {r1, r2}
  MaxConcurrentJobs = 1
  MaxResponsesPerHour = 1
  MaxHour = 1
  MaxCrashes = 1
  Stalls = FALSE
SPECIFICATION FairSpec
INVARIANTS AdmissionInv ActiveCountsCharges
PROPERTY CompletedIsReleased
