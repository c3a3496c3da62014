CONSTANTS
    s1 = s1
    s2 = s2
    r1 = r1
    Senders <- MCSenders
    Receivers <- MCReceivers
    Cap = 2
    MaxSends = 3
    MaxInterrupts = 1
    MaxSets = 1
SPECIFICATION Spec
INVARIANTS
    TypeOK
    NoMissedArrival
    NothingIsLost
PROPERTY
    EveryArrivalIsTaken
CHECK_DEADLOCK FALSE
