SPECIFICATION Spec
CONSTANTS
  q1 = q1
  q2 = q2
  s1 = s1
  a1 = a1
  brief = brief
  long = long
  t1 = t1
  t2 = t2
  NoQuestion = NoQuestion
  NoSet = NoSet
  Questions <- TwoQuestions
  Sets <- OneSet
  Assessments <- OneAssessment
  Terms <- TwoTerms
  NewTerms <- OnlyBrief
  Batches <- SmallBatches
  Lists <- ShortLists
  Threads <- TwoThreads
  MaxInvites = 4
  MaxEdits = 2
  MaxRequests = 3
  Cases <- FourCases
SYMMETRY Interchangeable
\* The bounded invitations, edits and requests have been made.
CHECK_DEADLOCK FALSE
INVARIANTS GuardsSuffice Readable EvenlyUsed
PROPERTIES RecordsStay SlotsLocked SittingsKeepTheirLink
