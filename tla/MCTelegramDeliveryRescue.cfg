SPECIFICATION DeliverySpec
CONSTANTS
  Request = {r1, r2}
  Worker = {w1}
  Fingerprint = {f1, f2}
  Job = {1, 2}
  NoWorker = NoWorker
  NoRequest = NoRequest
  NoFingerprint = NoFingerprint
  MaxAttempts = 2
  SplitRetry = FALSE
  MaxStops = 1
INVARIANT ReadyWasStored
CHECK_DEADLOCK FALSE
