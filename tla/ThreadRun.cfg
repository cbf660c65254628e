SPECIFICATION MCSpec
CONSTANTS
  t1 = t1
  t2 = t2
  p1 = p1
  c1 = c1
  c2 = c2
  Threads <- MCThreads
  CallIds <- MCCallIds
  Recoverers <- MCRecoverers
  MaxRuns = 3
  MaxNotes = 1
  MaxMessages = 5
SYMMETRY Symmetry
INVARIANTS
  TypeOK
  RunningRunIsNewest
  RunsDoNotInterleave
  ThreadsReadable
PROPERTIES
  TerminalRunsAreFrozen
  ImplementsJournal
\* the bounds on runs and messages stop the model
CHECK_DEADLOCK FALSE
