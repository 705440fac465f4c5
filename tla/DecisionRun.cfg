CONSTANTS
  None = None
  Observations = {q1, i1, i2}
  Incidents = {i1, i2}
  Quiet = {i2}
  Deciders = {d1, d2}
  MaxFaults = 1
  Stalls = FALSE
SPECIFICATION FairSpec
INVARIANTS DecisionInv RecordedReplyIsGiven
PROPERTY DecisionsEnd
CHECK_DEADLOCK FALSE
