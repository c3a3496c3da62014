CONSTANTS
    owner = owner
    u1 = u1
    u2 = u2
    Procs <- MCProcs
    Owners <- MCOwners
    MaxOwners = 2
    MaxBinds = 5
    MaxCrashes = 0
    MaxSignals = 0
SPECIFICATION Spec
INVARIANT
    FoundMemoryIsLocked
CHECK_DEADLOCK FALSE
