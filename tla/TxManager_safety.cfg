SPECIFICATION Spec
CONSTANTS
  Ids = {c1, c2}
  None = None
  PendingCap = 1
  ExecutedCap = 1
  RacyPushes = TRUE
  ReceiptFrom = "any"
  FaultKinds = {"send", "invoke", "db"}
  MaxFaults = 1
  MaxCrashes = 1
  MaxReceipts = 1
SYMMETRY Symmetry
CHECK_DEADLOCK FALSE
INVARIANTS
  StatusBacked
  CommitBacked
  InitTracked
  ReceiptTracked
