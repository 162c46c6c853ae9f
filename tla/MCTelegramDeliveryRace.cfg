SPECIFICATION DeliverySpec
CONSTANTS
  Request = {r1}
  Worker = {w1, w2}
  Fingerprint = {f1}
  Job = {1, 2}
  NoWorker = NoWorker
  NoRequest = NoRequest
  NoFingerprint = NoFingerprint
  MaxAttempts = 2
  SplitRetry = TRUE
  MaxStops = 0
PROPERTY SettledIsFinal
CHECK_DEADLOCK FALSE
