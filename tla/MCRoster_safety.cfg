SPECIFICATION Spec
CONSTANTS
  p1 = p1
  p2 = p2
  p3 = p3
  t1 = t1
  t2 = t2
  o1 = o1
  o2 = o2
  i1 = i1
  i2 = i2
  NoPerson = NoPerson
  NoOrg = NoOrg
  NoInvite = NoInvite
  People <- ThreePeople
  Threads <- TwoThreads
  Orgs <- TwoOrgs
  Invites <- TwoInvites
  Limits = {2, 3}
  Enforced = TRUE
  MaxRequests = 4
SYMMETRY Interchangeable
\* The bounded requests have been made.
CHECK_DEADLOCK FALSE
INVARIANTS AdminRemains SeatsWithinPlan NothingDangles
PROPERTIES LeavingDestroysNothing
