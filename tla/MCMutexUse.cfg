CONSTANTS
    Loopers = 3
    Rounds = 2
SPECIFICATION Spec
INVARIANTS
    Exclusion
PROPERTY
    MainComesToEnd
CHECK_DEADLOCK FALSE
