CONSTANTS
  Rev = {1, 2, 3}
  Before <- Linear
  Root = 1
  None = None
  RetentionCount = 3
  RetentionDays = 0
  ForgivenessLimit = 1
  PageSize = 3
  ForcePush = FALSE
  MaxLag = 0
  MaxRuns = 3
  MaxDays = 0
  MaxRetries = 0
SPECIFICATION Spec
PROPERTY NothingMovesBackwards
