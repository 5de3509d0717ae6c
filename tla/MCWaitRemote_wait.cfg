CONSTANTS
    c1 = c1
    c2 = c2
    Cluster = {c1, c2}
    HookSets <- MCHookSets
    MaxFlips = 3
    MaxTime = 1
    MaxTrouble = 1
SPECIFICATION FairSpec
INVARIANTS TypeOK SuccessBacked FailureBacked EventsAccurate
PROPERTIES ResultsStand EveryWaitEnds
CHECK_DEADLOCK FALSE
