CONSTANTS
  Thread = {t1, t2}
  NoOne = NoOne
  Unset = Unset
  Former <- Renaming
  Events <- Mixed
  ContainerCeiling = 1
  OomCeiling = 2
  GlobalCeiling = 2
  MaxEntries = 1
  MaxCounters = 2
  MaxSize = 2
  Retention = 0
  Window = 2
  Capacity = 2
  TicksPerDay = 2
  MaxClock = 2
  MaxRequests = 4
  MaxRestarts = 1
  Legacy = {3}
  Identity = {1, 2, 3}
SYMMETRY Alike
SPECIFICATION SmallSpec
INVARIANTS TypeOK WithinAllowance SilenceIsAnnounced UnhealthyIsTold RepeatsDroppedInOrder
PROPERTY HealthMovesForward
CHECK_DEADLOCK FALSE
