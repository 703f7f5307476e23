SPECIFICATION FairSpec
CONSTANTS
    Sessions = {s1}
    CacheCap = 2
    CacheBytes = 3
    Sizes = {1, 3}
    MaxRequests = 2
    MaxDispatches = 3
    MaxPanics = 1
    MaxRemovals = 1
INVARIANTS OneWorkerPerSession NotStranded RunningIsHeard
PROPERTIES SessionOrder EveryRequestAnswered ExecutedOnce
CHECK_DEADLOCK FALSE
