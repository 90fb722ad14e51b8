CONSTANTS
  Tools = {"review"}
  Files = {"f1"}
  Severities = {"warn"}
  Bodies <- MCTitles
  Titles <- MCTitles
  normalizeTitle <- MCSame
  firstLine <- MCSame
  tokenize <- MCTokenize
  Provider = "github"
  Versions = {1}
  Faults = {"fetch", "tool", "inline", "lost", "check"}
  Procs <- MCProcs
  ToolOf <- MCToolOf
  Stores = {"posted"}
  StoreOf <- MCStoreOf
  Mutexes <- Workers
  MuOf <- MCMuOf
  Backend = "db"
  ToolResults <- Either
  ReportStatus = TRUE
  Free = Free
  QueueKind = "river"
  Workers = {"w1"}
  Slots = 2
  AutoRun <- MCAuto
  Legacy <- OldFinding
  QueueCap = 2
  MaxCommands = 1
  MaxHead = 1
  MaxAttempts = 2
  MaxCrashes = 1
SPECIFICATION Spec
PROPERTIES DroppedIsOnPR
CHECK_DEADLOCK FALSE
