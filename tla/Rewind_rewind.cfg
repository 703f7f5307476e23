SPECIFICATION Spec
CONSTANTS
    MaxIds = 3
    MaxCount = 2
    MaxEdits = 1
    Halts = TRUE
    MaxEvents = 2
INVARIANTS NothingDestroyed
PROPERTIES RewindRestores CheckpointsKept
CHECK_DEADLOCK FALSE
