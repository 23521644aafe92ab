SPECIFICATION Spec
CONSTANTS
  p1 = p1
  p2 = p2
  m1 = m1
  m2 = m2
  c1 = c1
  u1 = u1
  u2 = u2
  Proc = {p1, p2}
  Addr = {m1, m2, c1}
  Uplink = {u1, u2}
  Configs <- Modes
  Publications <- TwoPublications
  Ttl = {1}
  MaxDecisions = 1
  MaxOrphans = 0
  NoProc = NoProc
  NoAddr = NoAddr
  NoDoc = NoDoc
  NoValue = NoValue
  NoPolicy = NoPolicy
INVARIANTS
  Reconcilable
SYMMETRY Symmetry
