SPECIFICATION LimiterSpec
CONSTANTS
  Caller = {g1, g2, g3}
  Version <- MCVersion
  NULL = NULL
  LastTime = 4
  MaxSequence = 5
SYMMETRY CallerSymmetry
INVARIANTS
  LimiterInv
  ActiveIsOutstanding
  SendsSpaced
  GrantedWithinLimit
CHECK_DEADLOCK FALSE
