CONSTANTS
    s1 = s1
    s2 = s2
    Nobody = Nobody
    Senders <- MCSenders
    PhLen = 1
    HdrMax = 1
    FragSize = 2
    Cap = 2
    HdrLens = {1, 2}
    Sizes = {0, 3}
    Limits = {0, 2}
    MaxMsgs = 3
    MaxCloses = 1
SPECIFICATION Spec
INVARIANTS
    TypeOK
    Intact
    InOrder
    OnlySentIsReceived
    NothingDisappears
PROPERTIES
    SendReturns
    ImplementsMsgChannel
CHECK_DEADLOCK FALSE
