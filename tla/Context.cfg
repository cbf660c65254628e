SPECIFICATION MCSpec
CONSTANTS
  t1 = t1
  b1 = b1
  b2 = b2
  c1 = c1
  c2 = c2
  f1 = f1
  f2 = f2
  l1 = l1
  l2 = l2
  Threads <- MCThreads
  Builders <- MCBuilders
  CallIds <- OneCallId
  Recoverers <- NoRecoverers
  MaxRuns = 2
  MaxNotes = 0
  MaxMessages = 4
  MaxSummaries = 2
  MaxItems = 4
  CurrentRun = 2
  Transcripts <- MCTranscripts
  Providers <- MCProviders
  Summaries <- MCActiveSummaries
  Recalls <- MCRecalls
  Budgets <- MCBudgets
  Files <- MCFiles
  Lines <- MCLines
  MaxScript = 4
  MaxPair = 1
SYMMETRY Symmetry
INVARIANTS
  SummariesCoverPrefix
  WatermarksKeepGroups
  PromptsKeepToTotal
  PromptsKeepGroups
  OnlyTheSummaryHides
  DiffsMakeTheNewFile
  DryRunsForetell
PROPERTIES
  BuildsAreAtomic
\* the bounds on runs, messages and summaries stop the model; a prompt and a patch end
CHECK_DEADLOCK FALSE
