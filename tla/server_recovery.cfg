CONSTANTS
  Tools = {"review"}
  Files = {"f1"}
  Severities = {"warn"}
  Bodies <- MCTitles
  Titles <- MCTitles
  normalizeTitle <- MCSame
  firstLine <- MCSame
  tokenize <- MCTokenize
  Provider = "github"
  Versions = {1}
  Faults = {"tool", "list", "store", "create", "update", "inline", "lost"}
  Procs <- MCProcs
  ToolOf <- MCToolOf
  Stores = {"posted"}
  StoreOf <- MCStoreOf
  Mutexes <- Workers
  MuOf <- MCMuOf
  Backend = "db"
  ToolResults <- Either
  ReportStatus = TRUE
  Free = Free
  QueueKind = "river"
  Workers = {"w1"}
  Slots = 1
  AutoRun <- MCAuto
  Legacy <- OldFinding
  QueueCap = 2
  MaxCommands = 1
  MaxHead = 1
  MaxAttempts = 2
  MaxCrashes = 1
SPECIFICATION FairSpec
PROPERTIES DroppedIsOnPR ComesToRest OpenedPRIsReported
CHECK_DEADLOCK FALSE
