SPECIFICATION Spec
CONSTANTS
    Messages <- MCMessages
    Saves <- MCSaves
    Handlers <- MCHandlers
    MaxRounds = 2
    TTL = 0
    MaxClock = 1
    MaxDeliveries = 3
    MaxFaults = 1
INVARIANTS
    TypeOK
    OneTurnPerMessage
PROPERTIES
    
    
    EveryDeliveryAnswered
CHECK_DEADLOCK FALSE
