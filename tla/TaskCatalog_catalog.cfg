SPECIFICATION Spec
CONSTANTS
    Clients = {c1, c2, c3}
    Editors = {c1}
    Titles = {"a", "b"}
    Absent = Absent
    MaxSaves = 2
    MaxClock = 1
INVARIANTS WatchersAgree RemovedStaysRemoved
PROPERTY WatchersFollow
CHECK_DEADLOCK FALSE
