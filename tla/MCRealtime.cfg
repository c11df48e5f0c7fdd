SPECIFICATION MCSpec
CONSTANTS
    Sockets = {s1, s2}
    Residents = {s2}
    MaxFaults = 1
    Gateways = {g1, g2}
    Calls = {c1, c2, c3}
    NoCall = NoCall
    Loads = {l1}
    MarkRead = MarkRead
    Sync = Sync
    NotLoaded = NotLoaded
    MaxMessages = 2
    MaxUpsets = 1
    Users = {u1, u2}
    Admins = {d1, d2}
    Members = {u1}
    Author = u1
    Ids = {i1}
    Nobody = Nobody
    MaxDecisions = 2
INVARIANTS ConnectedIsActive QuietIsTold VisibleEnds UnreadIsRight DecisionIsLogged
CHECK_DEADLOCK FALSE
