CONSTANTS
  Tools = {"review"}
  Files = {"f1"}
  Severities = {"warn"}
  Bodies <- MCTitles
  Titles <- MCTitles
  normalizeTitle <- MCSame
  firstLine <- MCSame
  tokenize <- MCTokenize
  Provider = "gitlab"
  Versions = {1, 2}
  Faults = {"enqueue"}
  Procs <- MCProcs
  ToolOf <- MCToolOf
  Stores = {"posted"}
  StoreOf <- MCStoreOf
  Mutexes <- Workers
  MuOf <- MCMuOf
  Backend = "mem"
  ToolResults <- ReviewResults
  ReportStatus = TRUE
  Free = Free
  QueueKind = "memory"
  Workers = {"w1"}
  Slots = 1
  AutoRun <- MCAlways
  Legacy <- NoLegacy
  QueueCap = 1
  MaxCommands = 1
  MaxHead = 2
  MaxAttempts = 1
  MaxCrashes = 0
SPECIFICATION Spec
INVARIANTS TypeOK NoTwinThreads AbsentFindingClosed
PROPERTIES KeepsBoard
CHECK_DEADLOCK FALSE
