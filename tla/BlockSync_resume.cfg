SPECIFICATION FairSpec
CONSTANTS
  Kinds = {"none", "cross", "first", "later", "broken"}
  MaxBlocks = 3
  MaxFaults = 1
  MaxDeaths = 2
  Stops = TRUE
CHECK_DEADLOCK FALSE
INVARIANTS
  HandledInOrder
  LossBounded
PROPERTIES
  BlocksHandled
