CONSTANTS
    Object = {x, y}
    MaxChanges = 2
    MaxRotations = 2
    MaxFaults = 1
SPECIFICATION FairSpec
INVARIANTS TypeOK NothingSkipped CredentialsMatch
PROPERTY CatchesUp
CHECK_DEADLOCK FALSE
