SPECIFICATION Spec
CONSTANTS
  i1 = i1
  i2 = i2
  ann = ann
  bob = bob
  t1 = t1
  t2 = t2
  NoInvite = NoInvite
  NoEmail = NoEmail
  Invites <- TwoInvites
  Emails <- TwoEmails
  Threads <- TwoThreads
  Servers <- OneThread
  Cases <- TwoSittings
  MaxRequests = 2
  MaxErasures = 2
SYMMETRY Interchangeable
\* The bounded requests and erasures have been made.
CHECK_DEADLOCK FALSE
INVARIANTS Forgotten NobodyStranded KeysHold SittingWhole
PROPERTIES ErasedOnlyWhenDue
