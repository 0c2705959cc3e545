SPECIFICATION NotifierSpec
CONSTANTS
  Delivery = {d1}
  Key = {k1}
  Owner = {worker1}
  Publisher = {p1}
  Token = {1, 2}
  BatchToken = {1, 2, 3, 4, 5}
  NULL = NULL
  LeaseDuration = 1
  PublisherLease = 1
  RetryWindow = 2
  WatchdogAge = 1
  SuccessRetention = 9
  FailureRetention = 9
  BacklogLimit = 1
  BatchSize = 1
  MaxLag = 0
  MaxTime = 1
  LastOpening = 0
  MaxGeneration = 1
  Process = {v1}
  Goroutine = {g1, g2}
  MaxConcurrency = 1
  MaxFaults = 1
  LastFault = 1
SYMMETRY PipelineSymmetry
INVARIANTS
  PipelineInv
  NoSignalDropped
CHECK_DEADLOCK FALSE
