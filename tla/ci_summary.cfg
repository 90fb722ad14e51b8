CONSTANTS
  Tools = {"improve", "changelog"}
  Files = {"f1"}
  Severities = {"warn"}
  Bodies <- MCBodies
  Titles <- MCTitles
  normalizeTitle <- MCNormalizeTitle
  firstLine <- MCFirstLine
  tokenize <- MCTokenize
  Provider = "gitlab"
  Versions = {1}
  Faults = {"create", "tool", "readback"}
  Procs <- MCProcs
  ToolOf <- MCToolOf
  Stores <- Runs
  StoreOf <- MCStoreOf
  Mutexes <- Runs
  MuOf <- MCStoreOf
  Backend = "mem"
  ToolResults <- SummaryResults
  ReportStatus = FALSE
  Free = Free
  MaxRuns = 2
  MaxHead = 1
  MaxEdits = 0
  Overlap = FALSE
  Cancels = TRUE
  Reviewers = FALSE
  Deletes = TRUE
SPECIFICATION FairSpec
INVARIANTS OneWrapperComment WrapperShowsAllSections
PROPERTIES RunsEnd
CHECK_DEADLOCK FALSE
