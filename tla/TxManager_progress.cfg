SPECIFICATION FairSpec
CONSTANTS
  Ids = {c1, c2}
  None = None
  PendingCap = 1
  ExecutedCap = 1
  RacyPushes = FALSE
  ReceiptFrom = "saved"
  FaultKinds = {"send", "invoke", "db"}
  MaxFaults = 1
  MaxCrashes = 0
  MaxReceipts = 1
CHECK_DEADLOCK FALSE
PROPERTIES
  PrecommitRelayed
  ReceiptCommitted
