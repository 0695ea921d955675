SPECIFICATION Spec
CONSTANTS
    w1 = w1
    w2 = w2
    Workers <- MCWorkers
    Template <- MCTemplate
    Profile <- MCProfile
    Replies <- MCReplies
    MaxTurns = 4
    MaxSessions = 2
    MaxOffers = 1
    StoreFails = TRUE
INVARIANTS
    TypeOK
    OneQuestionAtATime
    SignedUpOnlyOnYes
SYMMETRY Symmetry
CHECK_DEADLOCK FALSE
