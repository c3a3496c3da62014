CONSTANTS
    owner = owner
    u1 = u1
    u2 = u2
    Procs <- MCProcs
    Owners <- MCOwners
    MaxOwners = 1
    MaxBinds = 5
    MaxCrashes = 0
    MaxSignals = 0
SPECIFICATION Spec
INVARIANT
    MemoryIsLocked
CHECK_DEADLOCK FALSE
