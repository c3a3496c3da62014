CONSTANTS
    c1 = c1
    c2 = c2
    n1 = n1
    Callers <- OneCaller
    Notifiers <- OneNotifier
    Run = Run
    Nobody = Nobody
    None = None
    PhLen = 1
    HdrMax = 1
    FragSize = 1
    Cap = 2
    CallTypes = {0}
    NoteTypes = {1, 3}
    Sizes = {1, 2}
    ClientLimit = 1
    ServerLimit = 0
    MaxCalls = 2
    MaxNotes = 2
    MaxStops = 1
SPECIFICATION Spec
INVARIANTS
    LocksAreHeld
    NoLostWakeup
    RequestsAreHandledOnce
    MessagesDoNotInterleave
CHECK_DEADLOCK FALSE
