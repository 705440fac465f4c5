CONSTANTS
  d1 = d1
  d2 = d2
  None = None
  Deliveries = {d1, d2}
  Senders = {s1, s2}
  Files = 1
  Items = 3
  RewriteOf <- NoRewrites
  MaxAttempts = 2
  MaxCrashes = 1
  Expiring = {d2}
  Stalls = FALSE
SPECIFICATION FairSpec
 
PROPERTY DeliveriesEnd
CHECK_DEADLOCK FALSE
