SPECIFICATION Spec
CONSTANTS
    u1 = u1
    u2 = u2
    s1 = s1
    s2 = s2
    Members <- MCMembers
    Sessions <- MCSessions
    Owner <- MCOwner
    Tokens = {t1, t2}
    Calls = {c1, c2}
    Nobody = Nobody
SYMMETRY DeliverySymmetry
INVARIANTS EveryMemberLearns OneTokenPerSession
CHECK_DEADLOCK FALSE
