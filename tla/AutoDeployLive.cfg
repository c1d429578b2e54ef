CONSTANTS
  Rev = {1, 2}
  Before <- Linear
  Root = 1
  None = None
  RetentionCount = 2
  RetentionDays = 0
  ForgivenessLimit = 1
  PageSize = 2
  ForcePush = FALSE
  MaxLag = 1
  MaxRuns = 2
  MaxDays = 0
  MaxRetries = 1
SPECIFICATION LiveSpec
INVARIANTS TypeOK ReachedOncePerGrant
PROPERTY NoReleaseWaitsForever
