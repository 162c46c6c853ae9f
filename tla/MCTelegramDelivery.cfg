SPECIFICATION MCDeliverySpec
CONSTANTS
  Request = {r1, r2}
  Worker = {w1, w2}
  Fingerprint = {f1, f2}
  Job = {1, 2}
  NoWorker = NoWorker
  NoRequest = NoRequest
  NoFingerprint = NoFingerprint
  MaxAttempts = 2
  SplitRetry = FALSE
  MaxStops = 2
SYMMETRY DeliverySymmetry
INVARIANTS
  DeliveryTypeOK
  ClaimsAreJustified
  OutcomeIsTrue
  ReadyWasStoredOrRescued
PROPERTIES
  SettledIsFinal
  KeepsPromise
CHECK_DEADLOCK FALSE
