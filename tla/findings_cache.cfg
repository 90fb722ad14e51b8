SPECIFICATION Spec
CONSTANTS
  t1 = t1
  g1 = g1
  g2 = g2
  a = a
  b = b
  id1 = id1
  s1 = s1
  f1 = f1
  Tools <- MCTools
  Files = {f1}
  Severities = {"warn"}
  Bodies <- MCBodies
  Titles <- MCTitles
  normalizeTitle <- MCNormalize
  firstLine <- MCFirstLine
  tokenize <- MCTokenize
  PRKeys <- MCPRKeys
  Threads = {g1, g2}
  Comments <- MCComments
  Ids = {id1}
  SectionTexts = {s1}
  MaxCrashes = 1
SYMMETRY GoroutineSymmetry
INVARIANTS
  TypeOK
  AckedIsSaved
PROPERTIES
  SurvivesRestarts
CHECK_DEADLOCK FALSE
