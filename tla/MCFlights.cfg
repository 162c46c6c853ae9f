SPECIFICATION FlightsSpec
CONSTANTS
  Job = {1, 2}
  DownloadWorker = {d1}
  UploadWorker = {u1}
  User = {}
  NoWorker = NoWorker
  DownloadMax = 2
  UploadMax = 1
  MaxActive = 2
  UserLimit = 1
  LateCancel = TRUE
  MaxStops = 1
  Key = {k1}
  Request = {r1, r2}
  NoKey = NoKey
SYMMETRY RequestSymmetry
INVARIANTS
  FRTypeOK
  FlightsAreKept
  WorkIsShared
  ReadyIsUploaded
PROPERTIES
  SharesResult
  ToldIsFinal
