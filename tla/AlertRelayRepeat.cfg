CONSTANTS
  Thread = {t1, t2}
  NoOne = NoOne
  Unset = Unset
  Former <- Renaming
  Events <- Crash
  ContainerCeiling = 1
  OomCeiling = 2
  GlobalCeiling = 2
  MaxEntries = 1
  MaxCounters = 2
  MaxSize = 2
  Retention = 0
  Window = 2
  Capacity = 2
  TicksPerDay = 2
  MaxClock = 2
  MaxRequests = 2
  MaxRestarts = 0
  Legacy = {}
  Identity = {1, 2, 3}
SYMMETRY Alike
SPECIFICATION Spec
INVARIANT RepeatsDropped
CHECK_DEADLOCK FALSE
