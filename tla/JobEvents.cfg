SPECIFICATION FairSpec
CONSTANTS
    w1 = w1
    w2 = w2
    r1 = r1
    r2 = r2
    Writers <- TwoWriters
    Readers <- TwoReaders
    MaxConnections = 1
    Batch = 2
    MaxEvents = 3
    MaxGaps = 1
    MaxDisconnects = 1
INVARIANTS
    HistoryOrdered
    ReceivedIsPrefix
PROPERTY
    FollowerCatchesUp
CHECK_DEADLOCK FALSE
