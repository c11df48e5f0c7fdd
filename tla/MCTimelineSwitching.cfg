SPECIFICATION FairSpec
CONSTANTS
    Conversations = {c1, c2}
    Nothing = Nothing
    Opens = {o1, o2}
    Sends = {s1}
    HistorySize = 1
    SyncSize = 1
    MaxLog <- TwoRows
    MaxConnections = 0
    MaxWire = 0
INVARIANTS TypeOK ReportsOwnPositions
PROPERTIES RefreshEnds
CHECK_DEADLOCK FALSE
