SPECIFICATION Spec
CONSTANTS
  t1 = t1
  t2 = t2
  cat = cat
  ann = ann
  bob = bob
  q1 = q1
  q2 = q2
  q3 = q3
  NoEmail = NoEmail
  NoName = NoName
  Blank = Blank
  NoQuestion = NoQuestion
  Emails <- OneEmail
  Threads <- TwoThreads
  Names <- TwoNames
  Slots <- TwoSlots
  Pool <- ApartPool
  SetSlots <- SecondSlot
  QuickScreen = FALSE
  Timed = TRUE
  MaxElsewhere = 1
  MaxCrashes = 1
SYMMETRY Interchangeable
\* A revoked link, with every handler done: nothing more can happen.
CHECK_DEADLOCK FALSE
INVARIANTS ChargedOncePerSitting SubmissionsAreServed OneNamePerSitting
PROPERTIES ImplementsExam
