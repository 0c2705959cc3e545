SPECIFICATION Spec
CONSTANTS
  Hour = 2
  Goroutine = {g1, g2}
  Approved = {"public"}
  Forbidden = {"private"}
  Policy = "public-internet"
  RetryAfter <- SmallRetryAfter
  RequestTimeout = 2
  LeaseDuration = 3
  RetryWindow = 7
  MaxClock = 1
  MaxStall = 2
  MaxTime = 8
  MaxGeneration = 2
SYMMETRY GoroutineSymmetry
INVARIANTS
  OnlyApprovedDialled
  SuccessWasObserved
  LeaseOutlivesAttempt
  RetryIsDueInTime
  NotGivenUpEarly
CHECK_DEADLOCK FALSE
