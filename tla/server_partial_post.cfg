CONSTANTS
  Tools = {"review"}
  Files = {"f1"}
  Severities = {"warn"}
  Bodies <- MCTitles
  Titles <- MCTitles
  normalizeTitle <- MCSame
  firstLine <- MCSame
  tokenize <- MCTokenize
  Provider = "gitlab"
  Versions = {1}
  Faults = {"inline"}
  Procs <- MCProcs
  ToolOf <- MCToolOf
  Stores = {"posted"}
  StoreOf <- MCStoreOf
  Mutexes <- Workers
  MuOf <- MCMuOf
  Backend = "db"
  ToolResults <- OneFinding
  ReportStatus = TRUE
  Free = Free
  QueueKind = "river"
  Workers = {"w1"}
  Slots = 1
  AutoRun <- MCAuto
  Legacy <- NoLegacy
  QueueCap = 2
  MaxCommands = 1
  MaxHead = 1
  MaxAttempts = 1
  MaxCrashes = 0
SPECIFICATION FairSpec
PROPERTIES DroppedIsOnPR
CHECK_DEADLOCK FALSE
