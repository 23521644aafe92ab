SPECIFICATION LiveSpec
CONSTANTS
  MaxGen = 2
  MaxFaults = 2
  MaxCrashes = 0
PROPERTIES
  LocksAreReleased
