SPECIFICATION Spec
CONSTANTS
    MaxIds = 2
    MaxCount = 1
    MaxEdits = 1
    Halts = FALSE
    MaxEvents = 1
INVARIANTS CheckpointIsOwn
CHECK_DEADLOCK FALSE
