CONSTANTS
  None = None
  Absent = Absent
  NTasks = 3
  Action <- Actions
  VolumeOf <- Volumes
  NoVolume = NoVolume
  Remover = {remover}
  BlindPollThreshold = 2
  Refusals = {r1}
  Checks <- Verifications
  MaxCrashes = 1
  NReleases = 2
  Container = {app, db, cache}
  ImageOf <- Manifests
  VersionOf <- Versions
  MaxLines = 8
  Revision = {rev1, rev2}
  Tree = {t1, t2}
  FilesOf <- Contents
  Image = {i1, i2, i3}
  Age <- Ages
  RetentionHours = 48
  DanglingRetentionHours = 24
  MinimumRetentionHours = 24
  Job = {j1, j2}
  Unprintable = {j2}
  Pings = 2
  Asset = {a1, a2}
  Place = {upload, library}
  Nowhere = Nowhere
  Sampled = {a1}
  Major = {1, 2}
  MaxChanges = 3
  NoBackup = NoBackup
  v = v
  r1 = r1
  services = services
  backup_tag = backup_tag
  app = app
  db = db
  cache = cache
  v1 = v1
  v1_repinned = v1_repinned
  v2 = v2
  f1 = f1
  f2 = f2
  t1 = t1
  t2 = t2
  i1 = i1
  i2 = i2
  i3 = i3
  a1 = a1
  a2 = a2
  upload = upload
  library = library
SPECIFICATION SmallSpec
CHECK_DEADLOCK FALSE
INVARIANTS
  TypeOK
  RemovalJoinsStarted
  RecordsWereHeard
  MessageTellsTheMove AlertTellsRetry
  RolesReadOwnTree LeftoversDoNoHarm
  ReportMatchesPrune
  RefusedIsInfected FailedScanIsTold
  LoadMeetsNoTables 
PROPERTIES
  ServesInOrder SwitchesWhole QueueMoves NoNeedlessRepeat BlindnessIsHeard
  AnnouncedOnce HeartbeatTellsFailure
  PulledImageSurvives NeverStartsAfresh
