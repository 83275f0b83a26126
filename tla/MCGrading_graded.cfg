SPECIFICATION FairSpec
CONSTANTS
  s1 = s1
  s2 = s2
  t1 = t1
  t2 = t2
  NoSub = NoSub
  Subs <- OneSub
  Sitting <- OneSub
  Threads <- TwoThreads
  MaxTrigger = 2
  TransportTries = 2
  MintIds = {}
  Costs = {}
  GraceCovers = TRUE
  MaxRetries = 0
  MaxCrashes = 1
\* Everything graded and announced, nothing to retry: the system rests.
CHECK_DEADLOCK FALSE
INVARIANTS OneTriggerInFlight
PROPERTIES EventuallyGraded
