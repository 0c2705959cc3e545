SPECIFICATION FairNotifierSpec
CONSTANTS
  Delivery = {d1}
  Key = {k1}
  Owner = {worker1}
  Publisher = {p1}
  Token = {1, 2, 3, 4, 5, 6}
  BatchToken = {1, 2, 3, 4, 5}
  NULL = NULL
  LeaseDuration = 1
  PublisherLease = 1
  RetryWindow = 4
  WatchdogAge = 1
  SuccessRetention = 9
  FailureRetention = 9
  BacklogLimit = 1
  BatchSize = 1
  MaxLag = 0
  MaxTime = 1
  LastOpening = 0
  MaxGeneration = 0
  Process = {v1, v2}
  Goroutine = {g1}
  MaxConcurrency = 1
  MaxFaults = 1
  LastFault = 0
PROPERTIES
  ImplementsStore
  EveryDeliveryDecided
CHECK_DEADLOCK FALSE
