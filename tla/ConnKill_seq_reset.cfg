SPECIFICATION Spec
CONSTANTS
  Nodes = {n1}
  Services = {s1}
  MaxSignals = 2
  MaxCordons = 0
  MaxCrashes = 0
  MaxFaults = 0
INVARIANT SkippedMeansProcessed
CHECK_DEADLOCK FALSE
