SPECIFICATION Spec
CONSTANTS
  Delivery = {d1}
  Key = {k1}
  Owner = {worker1}
  Publisher = {p1}
  Token = {t1, t2}
  BatchToken = {b1, b2}
  NULL = NULL
  LeaseDuration = 1
  PublisherLease = 1
  RetryWindow = 2
  WatchdogAge = 1
  SuccessRetention = 1
  FailureRetention = 1
  BacklogLimit = 1
  BatchSize = 1
  MaxLag = 0
  MaxTime = 3
  LastOpening = 0
  MaxGeneration = 1
SYMMETRY TokenSymmetry
INVARIANTS
  PendingIsReachable
PROPERTIES
  OutboxLeaseProtectsEvent
