SPECIFICATION Spec
CONSTANTS
  east = east
  west = west
  Cluster = {east, west}
  ClusterID <- IDs
  MaxFlips = 1
  MaxTime = 2
  MaxFaults = 0
  MaxRaces = 0
INVARIANT FlipStands
CHECK_DEADLOCK FALSE
