SPECIFICATION Spec
CONSTANTS
  a1 = a1
  a2 = a2
  a3 = a3
  a4 = a4
  u1 = u1
  u2 = u2
  h1 = h1
  h2 = h2
  c1 = c1
  Addrs = {a1, a2, a3, a4}
  MaxAnchors = 3
  RingCap = 1
  Users = {u1, u2}
  Anyone = Anyone
  Orders = {o1}
  Hashes = {h1, h2}
  NoHash = NoHash
  TakerOf <- MCTakerOf
  Foreign <- MCForeign
  Counts = {0, 2, 3}
  Batches <- MCBatches
  Values = {1, 3}
  Rewards = {0, 1}
  MaxStray = 0
  Attached = {0}
  Signatures <- MCSignatures
  MaxOwnerOps = 1
CHECK_DEADLOCK FALSE
PROPERTY
  RemovesNamed
