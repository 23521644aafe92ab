CONSTANTS
  Instances = {"i"}
  Instance = "i"
  Units = {"u", "v"}
  MaxCalls = 2
  MaxFaults = 2
  DeviationCost = 2
  MaxId = 2
  MaxRanges = 2
  Roles = {"api", "migrate", "scheduler"}
  PodmanMap <- TwoRanges
  User = 1
SPECIFICATION Spec
INVARIANTS UnitsAreRecorded AcceptedIsTrue AdmittedIsReviewed OthersAreKept PassedLeavesNothing MapsCompose
CHECK_DEADLOCK FALSE
