SPECIFICATION MCSpec
CONSTANTS
    Requests = {r1, r2}
    Sessions = {s1, s2}
    NoSession = NoSession
    MaxPassword = 1
    MaxNonce = 3
    OverlapSession = s1
    OverlapCalls = {"profile", "revoke", "logout", "connect", "refresh", "login", "reset", "ban"}
    OverlapNonces = 2
SYMMETRY Symmetry
INVARIANTS TypeOK RevokedIsOver ResetEndsOldSessions BanIsFinal DeviceCanRefresh
CHECK_DEADLOCK FALSE
