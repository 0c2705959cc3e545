SPECIFICATION Spec
CONSTANTS
  Request = {r1, r2}
  Key = {k1, k2}
  Content = {c1, c2}
  Config = {{c1}, {c2}}
  Version = {1, 2}
  NULL = NULL
  BacklogLimit = 1
  MaxDeliveries = 2
  MaxAnswers = 2
SYMMETRY AdmissionSymmetry
INVARIANTS
  AcceptedIsOriginal
  BoundVersionWasCurrent
  BoundVersionAdmits
  RetryReturnsOriginalOfVersion
