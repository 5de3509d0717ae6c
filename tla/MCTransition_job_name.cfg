SPECIFICATION Spec
CONSTANTS
  HookChoices <- HooksPair
  InitHooks <- InitPair
  AddrChoices <- OneAddr
  InitAddr <- Addrs
  Address <- MCAddress
  IPAddress <- NoIP
  RemoteGens = {}
  MaxRetries = 0
  MaxChanges = 1
  MaxForce = 0
  MaxEdits = 0
  MaxDeletes = 0
  MaxFaults = 0
INVARIANT SucceededActionsRan
CHECK_DEADLOCK FALSE
