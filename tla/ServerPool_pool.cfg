SPECIFICATION FairSpec
CONSTANTS
    Threads = {t1, t2, t3}
    Nobody = Nobody
    MaxCalls = 4
INVARIANTS UsedIsCurrent
PROPERTIES ImplementsSharedServer EveryCallReturns UnusedIsStopped
CHECK_DEADLOCK FALSE
