SPECIFICATION FairSpec
CONSTANTS
  Malformed = {poison}
  Busy = {busy1, busy2}
  Prompt = {prompt}
  NULL = NULL
  Prefetch = 2
  MaxFaults = 1
INVARIANTS
  EverySignalKept
PROPERTIES
  PoisonIsRemoved
  CreditIsReleased
  RunReturns
CHECK_DEADLOCK FALSE
