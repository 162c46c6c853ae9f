SPECIFICATION PathSpec
CONSTANTS
  x1 = x1
  x2 = x2
  y1 = y1
  y2 = y2
  z1 = z1
  z2 = z2
  a1 = a1
  a2 = a2
  b1 = b1
  r1 = r1
  c1 = c1
  c2 = c2
  c3 = c3
  c4 = c4
  m1 = m1
  m2 = m2
  t1 = t1
  t2 = t2
  NoOne = NoOne
  Confirmation = {c1, c2, c3, c4}
  Message = {m1, m2}
  Title = {t1, t2}
  LeaseWorker = {x1, x2}
  MaxAttempts = 2
  Submitter = {x1, x2, z1}
  Courier = {y1, y2, z2}
  Dialog = {c4}
  CardOf <- MCCardOf
  MaxClaims = 2
  Batch = {b1, r1}
  ParentOf <- MCParentOf
  ChildOf <- MCChildOf
  SourceOf <- MCSourceOf
  CardSent <- MCCardSent
  FirstMessage = m2
  MaxActive = 1
  MaxRestarts = 1
  Album = {a1, a2}
  Item = {x1, x2, z1}
  AlbumOf <- MCAlbumOf
  AlbumWorker = {w1}
  Absent = Absent
  MaxItemAttempts = 2
  MaxAlbumRestarts = 1
  Download = {x1, x2}
  MediaSource = {"tidal", "qobuz", "deezer"}
  Account = {y1, y2, z1}
  HeldAt <- MCHeldAt
  NoAccount = NoAccount
  Rankings <- MCRankings
  MaxRecords = 1
  Worker = {x1, x2}
  Watchdog = Watchdog
  Dir = {y1, y2}
  NoDir = NoDir
  Site = {"tidal"}
  Plans <- MCPlans
  MaxConcurrent = 1
  MaxCrashes = 1
  Editor = {x1, x2}
  Choices = {"lossless", "flac", "mp3", "m4a"}
  Offers <- MCOffers
  Actual <- MCActual
SYMMETRY PathSymmetry
INVARIANTS
  RecordsAreTrue
  ClosedIsOver
  ExecutionIsAudited
  PipelineIsSafe
  MediaIsHonest
PROPERTIES
  EndsAreFinal
  CooldownsAreKept
CHECK_DEADLOCK FALSE
