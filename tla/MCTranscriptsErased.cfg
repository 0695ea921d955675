SPECIFICATION Spec
CONSTANTS
    Calls <- MCCalls
    Numbers <- MCNumbers
    NumberOf <- MCNumberOf
    Retention = 2
    SyncReach = 1
    MaxProfiles = 3
INVARIANT ErasedStaysErased
