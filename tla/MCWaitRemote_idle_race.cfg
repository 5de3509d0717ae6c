CONSTANTS
    c1 = c1
    c2 = c2
    Cluster = {c1, c2}
    HookSets <- IdleHookSets
    MaxFlips = 2
    MaxTime = 1
    MaxTrouble = 0
SPECIFICATION Spec
INVARIANT IdleMeansCompleted
CHECK_DEADLOCK FALSE
