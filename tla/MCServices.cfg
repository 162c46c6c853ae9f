SPECIFICATION ServicesSpec
CONSTANTS
  x1 = x1
  x2 = x2
  y1 = y1
  y2 = y2
  z1 = z1
  l1 = l1
  l2 = l2
  spotify = spotify
  apple = apple
  tidal = tidal
  deezer = deezer
  Unset = Unset
  Providers = {spotify, apple, tidal, deezer}
  Method <- MCMethod
  Flows = {x1, x2}
  NoFlow = NoFlow
  Messages = {1}
  MaxFaults = 1
  MaxResets = 1
  MayClose = TRUE
  Person = {x1, x2}
  Nobody = Nobody
  Task = {y1, y2}
  Operator = {x1, x2}
  Link = {l1, l2}
  Key = {"key"}
  Fingerprint = {y1, y2}
  MaxWorkers = 2
  MaxTries = 2
  MaxAudits = 2
  MaxReboots = 1
  Slot = {x1, x2, z1}
  Job = {y1, y2}
  Maximum = 2
  MaxChanges = 3
  MayStop = TRUE
  Process = {x1, x2}
  Conversation = {x1, x2}
  Update = {y1, y2}
  Offer = {y1, y2}
  NoChat = NoChat
  Resolver = {x1, x2}
  Source = {"s1", "s2"}
  Track = {y1, y2}
  NoTrack = NoTrack
  ProviderOf <- MCProviderOf
  Metadata <- MCMetadata
  MaxCandidates = 1
  MaxPersists = 2
SYMMETRY ServiceSymmetry
INVARIANTS
  LinksAreTrue
  ChangesAreAudited
  RegistrationIsTrue
  PoolIsBounded
  RuntimeIsSafe
  DialogIsSound
  CatalogueIsSound
PROPERTY FlowIsFinal
CHECK_DEADLOCK FALSE
