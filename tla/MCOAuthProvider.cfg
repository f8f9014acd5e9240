SPECIFICATION Spec
CONSTANTS
    Users = {ann}
    Households = {home, office}
    Clients = {claude, codex}
    Requests = {q1, q2}
    Codes = {k1, k2}
    Tokens = {t1, t2, t3}
    Exchanges = {x1, x2}
    MaxChanges = 1
SYMMETRY MCSymmetry
INVARIANTS
    TypeOK
    UsedOnce
    OneRefreshPerLogin
    GrantFollowsLogin
PROPERTIES
    RevocationEndsLogin
CHECK_DEADLOCK FALSE
