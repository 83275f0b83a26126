SPECIFICATION Spec
CONSTANTS
  s1 = s1
  s2 = s2
  t1 = t1
  t2 = t2
  NoSub = NoSub
  Subs <- OneSub
  Sitting <- OneSub
  Threads <- TwoThreads
  MaxTrigger = 2
  TransportTries = 1
  MintIds = {1, 2}
  Costs = {1, 2}
  GraceCovers = FALSE
  MaxRetries = 1
  MaxCrashes = 0
SYMMETRY Interchangeable
\* Callbacks with a cost come to a submission one at a time.
CONSTRAINT PricedApart
\* Everything graded and announced, nothing to retry: the system rests.
CHECK_DEADLOCK FALSE
INVARIANTS BilledAsReported
