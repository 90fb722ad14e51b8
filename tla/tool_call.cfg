CONSTANTS
  NFiles = 3
  Sizes = {0, 5, 9}
  Patches <- MCPatches
  MaxTokens = 12
  PerFileMax = 8
  Tools = {"review", "check", "deep_review"}
  NRules = 2
  RuleSev <- MCRuleSev
  Configs <- MCConfigs
  Outputs <- MCOutputs
  CallLists <- MCCallLists
  KnownTools = {"read_file", "grep"}
  MaxAttempts = 3
  MaxIter = 2
SPECIFICATION MCSpec
INVARIANTS TypeOK WithinBudget NothingLost RequestsBounded GatesRestOnAnswers CommentsStartOnAddedLines DialogueAnswered
PROPERTIES OnlyTransientRepeated CallEnds
CHECK_DEADLOCK FALSE
