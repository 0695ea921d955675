SPECIFICATION Spec
CONSTANTS
    r1 = r1
    r2 = r2
    t1 = t1
    c1 = c1
    c2 = c2
    c3 = c3
    Requests <- MCRequests
    Typists <- MCTypists
    Codes <- MCCodes
    SendLimit = 1
    Cooldown = 2
    TTL = 2
    Window = 5
    Rate = 2
    Attempts = 2
SYMMETRY MCSymmetry
INVARIANTS
    TypeOK
    OneLiveCode
    RateHolds
PROPERTIES
    CodesLast
