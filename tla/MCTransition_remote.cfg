SPECIFICATION Spec
CONSTANTS
  HookChoices <- HooksEdit
  InitHooks <- InitPre
  AddrChoices <- TwoAddrs
  InitAddr <- Addrs
  Address <- MCAddress
  IPAddress <- MCIPAddress
  RemoteGens = {1}
  MaxRetries = 0
  MaxChanges = 2
  MaxForce = 0
  MaxEdits = 1
  MaxDeletes = 0
  MaxFaults = 1
INVARIANTS TypeOK CurrentCopy
PROPERTIES TrafficSwitch ImplementsPipeline
CHECK_DEADLOCK FALSE
