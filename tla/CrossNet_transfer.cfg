SPECIFICATION FairSpec
CONSTANTS
  Viewers = {v1, v2}
  Couriers = {c1}
  Makes = {m1}
  Pres = {p1}
  Blank = Blank
  Outchains <- OneOrNone
  Quorum = 2
  MaxEvents = 2
INVARIANTS
  TransfersBounded
PROPERTIES
  ImplementsTransfer
  OrdersSettle
CHECK_DEADLOCK FALSE
