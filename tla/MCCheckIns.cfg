SPECIFICATION CISpec
CONSTANTS
    Users <- MCUsers
    Workers <- MCWorkers
    Hours <- MCHours
    Frequencies <- MCFrequencies
    MaxAsked = 1
    MaxChanges = 1
    MaxLost = 1
    StoreFails = TRUE
INVARIANTS
    CITypeOK
    OncePerSlot
PROPERTIES
    SlotsServed
