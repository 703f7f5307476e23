SPECIFICATION SyncSpec
CONSTANTS
    Clients = {c1, c2}
    Submitters = {c1, c2}
    Renamers = {c2}
    MaxRuntimes = 2
    MaxEvents = 2
    MaxSaves = 3
    MaxClock = 1
    MaxRestarts = 0
PROPERTIES SkeletonNeverStored
CHECK_DEADLOCK FALSE
