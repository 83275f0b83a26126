SPECIFICATION Spec
CONSTANTS
  s1 = s1
  s2 = s2
  t1 = t1
  t2 = t2
  NoSub = NoSub
  Subs <- OneSub
  Sitting <- OneSub
  Threads <- TwoThreads
  MaxTrigger = 2
  TransportTries = 1
  MintIds = {}
  Costs = {}
  GraceCovers = FALSE
  MaxRetries = 1
  MaxCrashes = 1
SYMMETRY Interchangeable
\* Everything graded and announced, nothing to retry: the system rests.
CHECK_DEADLOCK FALSE
INVARIANTS AttemptHeldOnce CallbackFindsItsRow NotifiedOncePerOpening
PROPERTIES TerminalLeftOnlyByHand AutomaticAttemptsBounded ImplementsLedger
