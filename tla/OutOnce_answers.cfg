SPECIFICATION FairSpec
CONSTANTS
  Reqs = {r1, r2}
  OutChain = TRUE
  MaxBlockEvents = 2
  MaxDeliveries = 2
  MaxForeign = 1
  MaxFaults = 1
  MaxCrashes = 1
CHECK_DEADLOCK FALSE
INVARIANTS
  AnswersPaid
  AnswersComplete
PROPERTIES
  LastOfBlockAnswered
