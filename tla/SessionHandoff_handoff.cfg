SPECIFICATION FairSpec
CONSTANTS
    Locals = {TRUE, FALSE}
    ReplayCursor = 1
    BufferCap = 2
    MaxSeq = 4
    MaxProcesses = 2
    MaxDrops = 2
    MaxTimeouts = 1
INVARIANTS ForwardedInOrder Accounted ExitIsReal
PROPERTIES HandoffCompletes
CHECK_DEADLOCK FALSE
