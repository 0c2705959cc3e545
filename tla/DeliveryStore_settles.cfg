SPECIFICATION RetentionSpec
CONSTANTS
  Delivery = {d1, d2}
  Key = {k1, k2}
  Owner = {worker1}
  Publisher = {}
  Token = {t1, t2}
  BatchToken = {}
  NULL = NULL
  LeaseDuration = 1
  PublisherLease = 1
  RetryWindow = 2
  WatchdogAge = 1
  SuccessRetention = 1
  FailureRetention = 1
  BacklogLimit = 1
  BatchSize = 1
  MaxLag = 0
  MaxTime = 4
  LastOpening = 0
  MaxGeneration = 1
INVARIANTS
  IInv
  KeyIsUnique
  BacklogExceededOnlyByReplay
PROPERTIES
  EveryDeliverySettles
  EveryRecordExpires
