CONSTANTS
  Process = {"poll", "converge", "verify", "prune", "bare"}
  Kind <- KindOf
  Nobody = Nobody
  Tries <- TriesOf
  MayFail = {"write"}
  MaxKills = 1
SPECIFICATION SmallSpec
INVARIANTS TypeOK RecordIsTheWorkers OwnPlaysNotRefused NoRoleUnderKnownDeployment
PROPERTIES ScheduledRunsEnd TakesTurns
CHECK_DEADLOCK FALSE
