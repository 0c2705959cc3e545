SPECIFICATION RulesSpec
CONSTANTS
  Ordinary = {"x-one", "x-two", "x-key"}
  Separated = {"x/three"}
  Blanked = {"x four"}
  Bytes <- SmallBytes
  Cases <- SmallCases
  Reference <- SmallReference
INVARIANTS
  AcceptedIsSendable
  SentIsComplete
  HashIsFaithful
CHECK_DEADLOCK FALSE
