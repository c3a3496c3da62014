CONSTANTS
    owner = owner
    u1 = u1
    u2 = u2
    Procs <- MCProcs
    Owners <- MCOwners
    MaxOwners = 2
    MaxBinds = 5
    MaxCrashes = 1
    MaxSignals = 1
SPECIFICATION Spec
INVARIANTS
    SemaphoreIsBinary
    LockExcludes
    OwnerIsFound
PROPERTY
    LockIsHandedOn
CHECK_DEADLOCK FALSE
