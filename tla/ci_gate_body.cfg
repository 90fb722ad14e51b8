CONSTANTS
  Tools = {"describe", "review"}
  Files = {"f1"}
  Severities = {"block"}
  Bodies <- MCBodies
  Titles <- MCTitles
  normalizeTitle <- MCNormalizeTitle
  firstLine <- MCFirstLine
  tokenize <- MCTokenize
  Provider = "github"
  Versions = {1, 2}
  Faults = {"body"}
  Procs <- MCProcs
  ToolOf <- MCToolOf
  Stores <- Runs
  StoreOf <- MCStoreOf
  Mutexes <- Runs
  MuOf <- MCStoreOf
  Backend = "mem"
  ToolResults <- GateResults
  ReportStatus = TRUE
  Free = Free
  MaxRuns = 3
  MaxHead = 2
  MaxEdits = 1
  Overlap = FALSE
  Cancels = FALSE
  Reviewers = TRUE
  Deletes = FALSE
SPECIFICATION Spec
PROPERTIES EditsBeforeRunSurvive RedGateHasThread
CHECK_DEADLOCK FALSE
