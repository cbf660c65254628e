SPECIFICATION MCSpec
CONSTANTS
  r1 = r1
  r2 = r2
  d1 = d1
  d2 = d2
  x1 = x1
  Runs <- MCRuns
  Deleters <- MCDeleters
  Indexers <- MCIndexers
  MaxRows = 3
  MaxJobs = 2
  MaxVersion = 2
SYMMETRY Symmetry
INVARIANTS
  DeletionTypeOK
  CommittedJobsRevoke
  OnlyConfirmedRowsAreDestroyed
  OnlyLatePutsSurvive
  OneCopyPerRetention
PROPERTIES
  RevokedStaysRevoked
\* the bounds on rows and jobs stop the model
CHECK_DEADLOCK FALSE
