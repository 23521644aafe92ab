SPECIFICATION Spec
CONSTANTS
  p1 = p1
  p2 = p2
  m1 = m1
  m2 = m2
  k1 = k1
  k2 = k2
  s1 = s1
  Proc = {p1, p2}
  Machine = {m1, m2}
  Key = {k1, k2}
  Slot = {s1}
  NoDir = NoDir
  NoDoc = NoDoc
  Ttl = 1
  Age = 0
  MaxClock = 1
  MaxGrants = 2
  MaxInc = 2
  MaxRestores = 1
INVARIANTS
  OneIdentityPerGeneration
  KeyStaysBound
PROPERTIES
  AuthenticatedIsCurrent
  AcceptedMovesForward
SYMMETRY Symmetry
CHECK_DEADLOCK FALSE
