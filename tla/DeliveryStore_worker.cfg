SPECIFICATION Spec
CONSTANTS
  Delivery = {d1}
  Key = {k1}
  Owner = {worker1}
  Publisher = {}
  Token = {t1, t2, t3}
  BatchToken = {}
  NULL = NULL
  LeaseDuration = 2
  PublisherLease = 1
  RetryWindow = 3
  WatchdogAge = 1
  SuccessRetention = 1
  FailureRetention = 2
  BacklogLimit = 1
  BatchSize = 1
  MaxLag = 1
  MaxTime = 8
  LastOpening = 3
  MaxGeneration = 2
SYMMETRY TokenSymmetry
INVARIANTS
  OneLeasePerGeneration
  EveryLeaseAccountedFor
  AttemptsInGenerationOrder
  NoEarlySignal
  ReplayNeverConflicts
PROPERTIES
  LeaseProtectsRow
  ImplementsLifecycle
