SPECIFICATION CliFairSpec
CONSTANTS
  o1 = o1
  o2 = o2
  p1 = p1
  p2 = p2
  nobody = nobody
  w1 = w1
  w2 = w2
  None = None
  Workers = {w1, w2}
  Iterations = 3
  Calls = 2
  QueueLength = 1
  Orgs = {o1, o2}
  PeersOf <- MCPeersOf
  Versions = {1, 2}
  Wallets <- MCWallets
  Flags <- MCFlags
  Policies <- MCPolicies
  MaxFaults = 1
INVARIANTS
  AllCallsMade
  Serves
PROPERTIES
  EveryOrgTried
  CommandReturns
CHECK_DEADLOCK FALSE
