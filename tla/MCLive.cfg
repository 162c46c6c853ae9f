SPECIFICATION LiveSpec
CONSTANTS
  tidal = tidal
  apple = apple
  z1 = z1
  z2 = z2
  f1 = f1
  r1 = r1
  w1 = w1
  w2 = w2
  NoWorker = NoWorker
  NoRequest = NoRequest
  NoFingerprint = NoFingerprint
  Unset = Unset
  Providers = {tidal}
  Method <- MCMethod
  Flows = {z1, z2}
  NoFlow = NoFlow
  Messages = {1}
  MaxFaults = 0
  MaxResets = 0
  MayClose = TRUE
  Album = {"album"}
  Item = {z1, z2}
  AlbumOf <- MCAlbumOf
  AlbumWorker = {"coordinator"}
  Absent = Absent
  MaxItemAttempts = 3
  MaxAlbumRestarts = 1
  Worker = {w1}
  Watchdog = Watchdog
  Dir = {z1}
  NoDir = NoDir
  Site = {"tidal"}
  Plans <- MCPlans
  MaxConcurrent = 1
  MaxCrashes = 1
  Slot = {z1, z2}
  Job = {"job"}
  Maximum = 2
  MaxChanges = 2
  MayStop = TRUE
PROPERTIES
  RequestIsSettled
  AuthorizationEnds
  AlbumEndIsTold
  OrphansAreSwept
  PoolSettles
CHECK_DEADLOCK FALSE
