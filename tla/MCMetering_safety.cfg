SPECIFICATION Spec
CONSTANTS
  t1 = t1
  t2 = t2
  Threads <- TwoThreads
  Limits = {1, 2}
  Units = {1, 2}
  Debts = {1}
  LastMonth = 3
  MaxCalls = 2
  MaxCrashes = 1
SYMMETRY Interchangeable
\* Every call made, the last month reached: nothing is left to do.
CHECK_DEADLOCK FALSE
INVARIANTS WithinAllowance CountsWhatHappened DebtIsCarried
PROPERTIES ImplementsBudget
