SPECIFICATION FairSpec
CONSTANTS
  s1 = s1
  s2 = s2
  t1 = t1
  t2 = t2
  NoSub = NoSub
  Subs <- TwoSubs
  Sitting <- TwoSubs
  Threads <- TwoThreads
  MaxTrigger = 1
  TransportTries = 1
  MintIds = {}
  Costs = {}
  GraceCovers = TRUE
  MaxRetries = 0
  MaxCrashes = 0
\* Everything graded and announced, nothing to retry: the system rests.
CHECK_DEADLOCK FALSE
PROPERTIES EventuallyAnnounced
