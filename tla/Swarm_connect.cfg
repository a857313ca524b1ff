SPECIFICATION FairSpec
CONSTANTS
  Hubs = {h1, h2}
  Keys = {k1, k2}
  WireCap = 2
  InboxCap = 1
  Senders = {h1}
  MaxMessages = 3
  MaxTimeouts = 1
  MaxFaults = 1
  MaxCrashes = 1
INVARIANTS
  LossBounded
  ArriveInOrder
  OnlyTrustedConnected
PROPERTY HubsMeet
CHECK_DEADLOCK FALSE
