SPECIFICATION Spec
CONSTANTS
    Requests = {r1, r2}
    NoOne = NoOne
    Names = {n1, n2}
    Tokens = {t1, t2, t3}
    NoToken = NoToken
    Ttl = 2
    MaxWait = 1
    MaxTime = 5
SYMMETRY SessionSymmetry
INVARIANTS
    TypeOK
    OneOperator
    SessionsPurged
PROPERTIES
    LiveSessionsStay
