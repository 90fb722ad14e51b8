CONSTANTS
  Tools = {"review"}
  Files = {"f1"}
  Severities = {"warn"}
  Bodies <- MCBodies
  Titles <- MCTitles
  normalizeTitle <- MCNormalizeTitle
  firstLine <- MCFirstLine
  tokenize <- MCTokenize
  Provider = "gitlab"
  Versions = {1, 2}
  Faults = {}
  Procs <- MCProcs
  ToolOf <- MCToolOf
  Stores <- Runs
  StoreOf <- MCStoreOf
  Mutexes <- Runs
  MuOf <- MCStoreOf
  Backend = "mem"
  ToolResults <- ReviewResults
  ReportStatus = TRUE
  Free = Free
  MaxRuns = 2
  MaxHead = 2
  MaxEdits = 0
  Overlap = FALSE
  Cancels = FALSE
  Reviewers = FALSE
  Deletes = FALSE
SPECIFICATION FairSpec
INVARIANTS RepeatedFindingKeepsThread
CHECK_DEADLOCK FALSE
