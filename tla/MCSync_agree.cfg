SPECIFICATION FairSpec
CONSTANTS
  east = east
  west = west
  Cluster = {east, west}
  ClusterID <- IDs
  MaxFlips = 2
  MaxTime = 2
  MaxFaults = 1
  MaxRaces = 1
INVARIANTS TypeOK OneWinner
PROPERTIES GenerationsGrow ImplementsProtocol Agreement
CHECK_DEADLOCK FALSE
