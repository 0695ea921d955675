SPECIFICATION Spec
CONSTANTS
    ada = ada
    c1 = c1
    c2 = c2
    Users <- MCUsers
    Calls <- MCCalls
    UserOf <- MCUserOf
    CallMax = 1
    SyncReach = 2
    None = None
INVARIANTS
    TypeOK
    OneCallPerPerson
    ActiveCallShows
    HangUpTargetsOwnCall
PROPERTIES
    ImplementsLease
    SlotReopens
CHECK_DEADLOCK FALSE
