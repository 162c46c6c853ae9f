SPECIFICATION Spec
CONSTANTS
  Job = {1, 2}
  DownloadWorker = {d1, d2}
  UploadWorker = {u1}
  User = {x}
  NoWorker = NoWorker
  DownloadMax = 2
  UploadMax = 2
  MaxActive = 2
  UserLimit = 1
  LateCancel = FALSE
  MaxStops = 1
SYMMETRY WorkerSymmetry
INVARIANT PerUserLimit
