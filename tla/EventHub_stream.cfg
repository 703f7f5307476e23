SPECIFICATION FairSpec
CONSTANTS
    s1 = s1
    s2 = s2
    c1 = c1
    c2 = c2
    NoClient = NoClient
    Clients <- OneClient
    Sessions <- TwoSessions
    JournalCap = 2
    QueueCap = 2
    MaxRuntimes = 2
    MaxEvents = 3
    MaxEpochs = 2
    MaxDrops = 1
INVARIANTS NoSilentGap JournalOfActive DeliveredInOrder
PROPERTIES ImplementsStream EventuallyCaughtUp
