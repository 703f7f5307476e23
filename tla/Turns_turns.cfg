SPECIFICATION Spec
CONSTANTS
    Messages = {m1, m2}
    None = None
    MaxIncidents = 2
INVARIANTS NothingLost SentOnce CompletedIsAnswered ShownOnce EarlierSettled
PROPERTIES BusyEnds QueueMoves
CHECK_DEADLOCK FALSE
