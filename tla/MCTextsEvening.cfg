SPECIFICATION Spec
CONSTANTS
    Messages <- MCTexts4
    Saves <- MCNoSaves
    Handlers <- MCHandlers
    MaxRounds = 2
    TTL = 0
    MaxClock = 1
    MaxDeliveries = 4
    MaxFaults = 0
PROPERTIES
    QuestionComesBack
CHECK_DEADLOCK FALSE
