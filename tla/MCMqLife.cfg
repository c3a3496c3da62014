CONSTANTS
    o1 = o1
    o2 = o2
    o3 = o3
    p1 = p1
    p2 = p2
    Objects <- MCObjects
    Processes <- MCProcesses
    Home <- MCHome
    MaxQueues = 2
    MaxFd = 4
SPECIFICATION Spec
INVARIANTS
    DescriptorsAreKept
    OwnerHasTheName
    NotifiedObjectsExist
