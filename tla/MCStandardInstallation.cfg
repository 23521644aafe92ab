CONSTANTS
  Proc = {p1, p2}
  Sources <- Generations
  MaxRuns = 2
  MaxFaults = 1
SYMMETRY Shells
VIEW Live
SPECIFICATION Spec
INVARIANTS ConflictsChangeNothing RepeatChangesNothing StateIsWhole
PROPERTIES VerifiedIsTrue OnlyTornIsRefused
CHECK_DEADLOCK FALSE
