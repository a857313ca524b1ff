SPECIFICATION FairSpec
CONSTANTS
  Ids = {o1}
  RemoteIds = {r1}
  Signers = {a1}
  None = None
  Window = 1
  Word = 16
  EventCap = 1
  MessageCap = 1
  StartHead = 1
  MaxHead = 4
  MaxFaults = 1
  MaxDeaths = 1
  MaxMessages = 1
INVARIANTS
  EventsCovered
  LocalMirrorsChain
  TakenNotKept
  ActedForAnchors
PROPERTY EventsBroadcast
CHECK_DEADLOCK FALSE
