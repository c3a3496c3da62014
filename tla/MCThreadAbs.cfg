CONSTANTS
    c1 = c1
    c2 = c2
    Controllers <- MCControllers
    Starters <- MCStarters
    MaxThreads = 2
    Sums = {1, 6}
    Large = {6}
    Freqs = {3, 9}
    MaxSums = 1
    Word = 16
    LongWord = 64
    BILLION = 4
    MILLION = 2
    THOUSAND = 1
SPECIFICATION AbsSpec
INVARIANTS
    AbsTypeOK
    OneThread
    MapIsExact
    LockIsReleased
    PauseIsExact
PROPERTIES
    JoinLeavesInactive
    CancelledIsJoined
    StoppedThreadEnds
CHECK_DEADLOCK FALSE
