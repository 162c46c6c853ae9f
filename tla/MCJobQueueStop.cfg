SPECIFICATION Spec
CONSTANTS
  Job = {1}
  DownloadWorker = {d1}
  UploadWorker = {u1}
  User = {}
  NoWorker = NoWorker
  DownloadMax = 2
  UploadMax = 2
  MaxActive = 2
  UserLimit = 1
  LateCancel = TRUE
  MaxStops = 1
INVARIANT OpenUploadHasArtifact
