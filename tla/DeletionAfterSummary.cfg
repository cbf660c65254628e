SPECIFICATION SettledRunsSpec

CONSTANTS
  r1 = r1
  r2 = r2
  d1 = d1
  d2 = d2
  x1 = x1
  Runs <- OneRun
  Deleters <- OneDeleter
  Indexers <- NoIndexers
  MaxRows = 2
  MaxJobs = 1
  MaxVersion = 3

SYMMETRY Symmetry

INVARIANTS
  ThreadDeletable

CHECK_DEADLOCK FALSE
