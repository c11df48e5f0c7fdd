SPECIFICATION Spec
CONSTANTS
    Conversations = {c1}
    Nothing = Nothing
    Opens = {o1}
    Sends = {}
    HistorySize = 1
    SyncSize = 1
    MaxLog <- ThreeRows
    MaxConnections = 1
    MaxWire = 1
INVARIANTS PagingLeavesNoHole SyncLeavesNoHole
CHECK_DEADLOCK FALSE
