SPECIFICATION FairSpec
CONSTANTS
  Address <- Targets
  IPAddress <- IPTargets
  IPv6Address <- IPv6Targets
  MaxRetargets = 3
  MaxMeddling = 2
  MaxFaults = 1
INVARIANTS TypeOK SuccessRoutes
PROPERTIES TrafficSteps ForeignUntouched TrafficReachesTarget
CHECK_DEADLOCK FALSE
