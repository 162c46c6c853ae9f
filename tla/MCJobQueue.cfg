SPECIFICATION Spec
CONSTANTS
  Job = {1, 2}
  DownloadWorker = {d1, d2}
  UploadWorker = {u1}
  User = {}
  NoWorker = NoWorker
  DownloadMax = 2
  UploadMax = 2
  MaxActive = 2
  UserLimit = 1
  LateCancel = FALSE
  MaxStops = 2
SYMMETRY WorkerSymmetry
INVARIANTS
  TypeOK
  AttemptFence
  OpenUploadHasArtifact
  AttemptsBounded
PROPERTIES
  CancelIsFinal
  TerminalIsFinal
