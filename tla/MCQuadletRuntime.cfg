SPECIFICATION Spec
CONSTANTS
  Ports = {port1, port2}
  NoPort = NoPort
  Kinds = {"run", "failure", "prepare", "cleanup"}
  MaxFaults = 1
  MaxReruns = 1
SYMMETRY PortSymmetry
INVARIANTS
  FailureIsInjected
  MigratesOnce
  NothingIsLeft
PROPERTIES
  ForeignIsKept
