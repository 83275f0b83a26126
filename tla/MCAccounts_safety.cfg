SPECIFICATION Spec
CONSTANTS
  i1 = i1
  i2 = i2
  e1 = e1
  e2 = e2
  e3 = e3
  t1 = t1
  t2 = t2
  Ids <- TwoIds
  Emails <- ThreeEmails
  Threads <- TwoThreads
  MaxHashes = 4
  MaxVisits = 2
  MaxMails = 3
SYMMETRY Interchangeable
\* The bounded passwords, sign-ins and mails have been spent.
CHECK_DEADLOCK FALSE
INVARIANTS SessionsFollowPassword ResetOnce AddressProven
