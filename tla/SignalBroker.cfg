SPECIFICATION FairBrokerSpec
CONSTANTS
  Caller = {g1, g2, g3}
  Nobody = Nobody
  MaxMessages = 4
INVARIANTS
  NilMeansStored
PROPERTY
  OneFailureEndsWithReconnect
