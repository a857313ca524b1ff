SPECIFICATION Spec
CONSTANTS
  a = a
  b = b
  c1 = c1
  c2 = c2
  r1 = r1
  Accounts = {a, b}
  Opening <- MCOpening
  Contracts = {c1, c2}
  Terms <- MCTerms
  Transfers <- MCTransfers
  Requests <- MCRequests
  Gone = Gone
  MaxCalls = 4
  MaxBlock = 2
INVARIANTS
  EventsTellState
  MoneyAccounted
CHECK_DEADLOCK FALSE
PROPERTIES
  KeepsAgreement
