SPECIFICATION FRSpec
CONSTANTS
  Job = {1, 2}
  DownloadWorker = {d1}
  UploadWorker = {u1}
  User = {}
  NoWorker = NoWorker
  DownloadMax = 1
  UploadMax = 1
  MaxActive = 2
  UserLimit = 1
  LateCancel = TRUE
  MaxStops = 1
  Key = {k1}
  Request = {r1, r2}
  NoKey = NoKey
SYMMETRY RequestSymmetry
INVARIANT WaiterHasFlight
