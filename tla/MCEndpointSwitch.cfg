SPECIFICATION Spec
CONSTANTS
  c1 = c1
  c2 = c2
  o1 = o1
  o2 = o2
  t1 = t1
  t2 = t2
  e1 = e1
  e2 = e2
  Coordinator = {c1, c2}
  Op = {o1, o2}
  Target = {t1, t2}
  Exposure = {e1, e2}
  Intent = {"switch"}
  NoOp = NoOp
  NoPlan = NoPlan
  MaxGen = 3
  MaxPlans = 2
  AckFaults = FALSE
INVARIANTS AtMostOnce SuccessIsCommitted
PROPERTIES RefusalIsFinal OnlyClaimedPlansSwitch ImplementsRegister
SYMMETRY Symmetry
