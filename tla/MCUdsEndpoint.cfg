CONSTANTS
    o1 = o1
    o2 = o2
    p1 = p1
    Owners <- MCOwners
    Others <- MCOthers
    MaxSockets = 2
    MaxFails = 2
SPECIFICATION EndpointSpec
INVARIANTS
    PeersAreConnected
    NoSocketIsLeaked
    OpenSucceeds
