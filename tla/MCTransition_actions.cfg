SPECIFICATION Spec
CONSTANTS
  HookChoices <- HooksCallJob
  InitHooks <- InitCallJob
  AddrChoices <- OneAddr
  InitAddr <- Addrs
  Address <- MCAddress
  IPAddress <- NoIP
  RemoteGens = {}
  MaxRetries = 1
  MaxChanges = 2
  MaxForce = 1
  MaxEdits = 0
  MaxDeletes = 1
  MaxFaults = 1
INVARIANTS ExecutionOrder ActionInFlight
PROPERTIES TrafficSwitch JobsCleaned
CHECK_DEADLOCK FALSE
