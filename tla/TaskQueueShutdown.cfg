CONSTANTS
  v = v
  NTasks = 3
  Action <- Actions
  VolumeOf <- Volumes
  NoVolume = NoVolume
  Remover = {r1}
SPECIFICATION QueueSpec
CHECK_DEADLOCK FALSE
INVARIANT JoinsOnlyStarted
