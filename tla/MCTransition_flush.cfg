SPECIFICATION FairSpec
CONSTANTS
  HookChoices <- HooksWait
  InitHooks <- InitWait
  AddrChoices <- OneAddr
  InitAddr <- Addrs
  Address <- MCAddress
  IPAddress <- MCIPAddress
  RemoteGens = {}
  MaxRetries = 0
  MaxChanges = 2
  MaxForce = 1
  MaxEdits = 0
  MaxDeletes = 0
  MaxFaults = 1
INVARIANTS EventsFollowStatus NoLostWakeup
PROPERTIES ImplementsPipeline Converges
CHECK_DEADLOCK FALSE
