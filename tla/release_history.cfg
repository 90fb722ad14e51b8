SPECIFICATION FairSpec
CONSTANTS
  Tags = {v1, v2}
  v1 = v1
  v2 = v2
  Jobs = {j1, j2}
  j1 = j1
  j2 = j2
  Pages <- MCPages
  Wordings = {w1}
  w1 = w1
  MaxAttempts = 3
  MaxFailures = 0
  MaxEdits = 0
PROPERTIES
  HistoryKept
CHECK_DEADLOCK FALSE
