CONSTANTS
  Process = {"converge", "prune"}
  Kind <- KindOf
  Nobody = Nobody
  Tries <- TriesOf
  MayFail = {}
  MaxKills = 1
SPECIFICATION Spec
INVARIANT PruneNeverMeetsADeployment
CHECK_DEADLOCK FALSE
