CONSTANTS
  Tools = {"improve"}
  Files = {"f1", "f2"}
  Severities = {"warn"}
  Bodies <- MCBodies
  Titles <- MCTitles
  normalizeTitle <- MCNormalizeTitle
  firstLine <- MCFirstLine
  tokenize <- MCTokenize
  Provider = "github"
  Versions = {1, 2}
  Faults = {"resolve"}
  Procs <- MCProcs
  ToolOf <- MCToolOf
  Stores <- Runs
  StoreOf <- MCStoreOf
  Mutexes <- Runs
  MuOf <- MCStoreOf
  Backend = "mem"
  ToolResults <- InlineResults
  ReportStatus = FALSE
  Free = Free
  MaxRuns = 2
  MaxHead = 2
  MaxEdits = 0
  Overlap = FALSE
  Cancels = FALSE
  Reviewers = TRUE
  Deletes = FALSE
SPECIFICATION Spec
INVARIANTS TypeOK NoDuplicateThreads EveryFindingOnPR
PROPERTIES UntouchedThreadsStayOpen ResolvedStaysGone KeepsBoard
CHECK_DEADLOCK FALSE
