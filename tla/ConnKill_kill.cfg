SPECIFICATION FairSpec
CONSTANTS
  Nodes = {n1, n2}
  Services = {s1}
  MaxSignals = 2
  MaxCordons = 1
  MaxCrashes = 1
  MaxFaults = 1
INVARIANTS TypeOK AckedMeansKilled AckEvidence SkipsAnswered
PROPERTIES SignalsAnswered
CHECK_DEADLOCK FALSE
