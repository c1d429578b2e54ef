CONSTANTS
  Process = {"poll", "bare"}
  Kind <- KindOf
  Nobody = Nobody
  Tries <- TriesOf
  MayFail = {}
  MaxKills = 0
SPECIFICATION Spec
PROPERTY OnlyHoldersRefuse
CHECK_DEADLOCK FALSE
