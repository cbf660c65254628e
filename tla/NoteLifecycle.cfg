SPECIFICATION MCSpec
CONSTANTS
  t1 = t1
  t2 = t2
  p1 = p1
  p2 = p2
  c1 = c1
  Threads <- MCThreads
  Processes <- MCProcesses
  Contents <- OneContent
  Spans <- MCSpans
  MaxNotes = 3
  MaxTime = 2
SYMMETRY Symmetry
INVARIANTS
  OneReplacement
  ProposalsWaitForConfirmation
  PromotedOnce
  IndexedRowsHaveVectors
  StoredTextIsRedacted
  MoreSignalsReachLess
PROPERTIES
  RetiredStaysRetired
  OnlyDueRowsExpire
\* the bounds on the rows and the clock stop the model, and a judgment ends
CHECK_DEADLOCK FALSE
