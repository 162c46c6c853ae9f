SPECIFICATION SFFairSpec
CONSTANTS
  Job = {1}
  DownloadWorker = {d1, d2}
  UploadWorker = {u1, u2}
  User = {}
  NoWorker = NoWorker
  DownloadMax = 2
  UploadMax = 2
  MaxActive = 2
  UserLimit = 1
  LateCancel = TRUE
  MaxStops = 1
  Key = {k1}
  Request = {r1, r2}
  NoKey = NoKey
PROPERTIES
  WaiterIsTold
  JobSettles
