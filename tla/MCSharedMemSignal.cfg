CONSTANTS
    owner = owner
    u1 = u1
    u2 = u2
    Procs <- MCProcs
    Owners <- MCOwners
    MaxOwners = 1
    MaxBinds = 5
    MaxCrashes = 0
    MaxSignals = 1
SPECIFICATION Spec
INVARIANT
    FoundMemoryIsLocked
CHECK_DEADLOCK FALSE
