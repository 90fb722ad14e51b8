SPECIFICATION Spec
CONSTANTS
  Tags = {v1, v2}
  v1 = v1
  v2 = v2
  Jobs = {j1, j2}
  j1 = j1
  j2 = j2
  Pages <- MCPages
  Wordings = {w1}
  w1 = w1
  MaxAttempts = 3
  MaxFailures = 1
  MaxEdits = 1
SYMMETRY Interchangeable
INVARIANTS
  TypeOK
  OneManagedSection
  QuietEditsSurvive
  NoSectionTwice
  OpenPRHasSection
  FinishedIsPublished
  RetryCompletes
CHECK_DEADLOCK FALSE
