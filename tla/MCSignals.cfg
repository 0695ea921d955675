CONSTANTS
    Kinds <- MCKinds
    TTL <- MCTTL
    Keep <- MCKeep
    Ahead = 1
    Oldest = 2
    Keys <- MCKeys
    KindOf <- MCKindOf
    d1 = d1
    d2 = d2
    near = near
    far = far
    Deliveries <- MCDeliveries
    MaxProfiles = 2
    MaxStamp = 2
    MaxSettings = 2
SPECIFICATION Spec
SYMMETRY MCSymmetry
INVARIANTS
    TypeOK
    OnePerKey
    RevocationHolds
PROPERTIES
    KnownUntilStale
