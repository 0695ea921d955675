SPECIFICATION Spec
CONSTANTS
    Users <- MCUsers
    Workers <- MCWorkers
    Words <- MCWords
    Inside <- MCInside
    Tags <- MCTags
    Audiences <- MCAudiences
    Details <- MCDetails
    Exports <- MCExports
    Profiles <- MCProfiles
    Day = 2
    Soon = 2
    Later = 3
    MaxClock = 1
    MaxSeeds = 2
    MaxOffers = 2
    MaxYeses = 1
    MaxRetries = 1
INVARIANTS
    ActedOnOnlyAfterYes
CHECK_DEADLOCK FALSE
