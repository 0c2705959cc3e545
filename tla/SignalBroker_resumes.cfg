SPECIFICATION FairBrokerSpec
CONSTANTS
  Caller = {g1, g2}
  Nobody = Nobody
  MaxMessages = 3
PROPERTY
  EndsWithReconnect
