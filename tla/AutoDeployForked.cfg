CONSTANTS
  Rev = {1, 2, 3, 4}
  Before <- Forked
  Root = 1
  None = None
  RetentionCount = 1
  RetentionDays = 0
  ForgivenessLimit = 0
  PageSize = 2
  ForcePush = TRUE
  MaxLag = 1
  MaxRuns = 2
  MaxDays = 1
  MaxRetries = 0
SPECIFICATION ForkedSpec
INVARIANTS VerifiedIsWhatRuns OnlyReleasedReachesNas
PROPERTIES SuccessOnlyMovesForward MovesAlongReleases
