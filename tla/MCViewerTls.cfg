SPECIFICATION Spec
CONSTANTS
  MaxGen = 3
  MaxFaults = 2
  MaxCrashes = 2
INVARIANTS
  PredecessorIsKept
  ServesTheAccepted
  SuccessIsCurrent
  QuietIsBound
