SPECIFICATION MCSpec
CONSTANTS
    Requests = {r1, r2}
    Sessions = {s1}
    NoSession = NoSession
    MaxPassword = 0
    MaxNonce = 2
    OverlapSession = s1
    OverlapCalls = {"profile", "revoke", "logout", "connect", "refresh", "login", "reset", "ban"}
    OverlapNonces = 2
INVARIANTS RevocationIsFinal
CHECK_DEADLOCK FALSE
