SPECIFICATION FairSpec
CONSTANTS
  o1 = o1
  s1 = s1
  s2 = s2
  c1 = c1
  c2 = c2
  t1 = t1
  t2 = t2
  w1 = w1
  starter = starter
  NoOrg = NoOrg
  NoSub = NoSub
  NoCustomer = NoCustomer
  Free = Free
  Unlisted = Unlisted
  Orgs <- OneOrg
  Subs <- TwoSubs
  Customers <- TwoCustomers
  Plans <- OnePlan
  Threads <- TwoThreads
  Workers <- OneWorker
  MaxEvents = 3
  MaxStripe = 4
  MaxFaults = 1
\* The events are spent.
CHECK_DEADLOCK FALSE
INVARIANTS AgreesWhenDrained Evidenced PurgeEndsBilling
PROPERTIES CatchesUp
