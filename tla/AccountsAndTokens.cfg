SPECIFICATION Spec
CONSTANTS
    Users = {a1, u1, u2}
    Admins = {a1}
    SessionIds = {s1, s2}
    Tokens = {t1}
    Objects = {p1}
    RequestIds = {r1}
    Password = Password
    MaxHashes = 2
SYMMETRY Symmetry
INVARIANTS
    TypeOK
    NothingOutlivesItsUser
PROPERTIES
    SessionsEndForAReason
    ScopedReachGrowsOnlyByGrant
CHECK_DEADLOCK FALSE
