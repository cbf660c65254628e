SPECIFICATION MCSpec
CONSTANTS
  t1 = t1
  a1 = a1
  a2 = a2
  c1 = c1
  c2 = c2
  Threads <- OneThread
  CallIds <- MCCallIds
  Recoverers <- NoRecoverers
  Procs <- MCProcs
  MaxRuns = 2
  MaxNotes = 0
  MaxMessages = 14
  MaxTurns = 2
  Pieces <- MCPieces
  Indices <- MCIndices
  Fragments <- MCFragments
  MaxChunks = 4
INVARIANTS
  CompletedRunsAreAnswered
  AbandonedRunsCrashed
  ShownIsTheAnswer
PROPERTIES
  RunsEnd
  RequestsEnd
\* every thread may be archived and the bound on runs be reached; a request ends
CHECK_DEADLOCK FALSE
