CONSTANTS
    c1 = c1
    c2 = c2
    n1 = n1
    Callers <- TwoCallers
    Notifiers = {}
    Run = Run
    Nobody = Nobody
    None = None
    PhLen = 1
    HdrMax = 1
    FragSize = 1
    Cap = 2
    CallTypes = {0, 2}
    NoteTypes = {}
    Sizes = {0, 2}
    ClientLimit = 0
    ServerLimit = 0
    MaxCalls = 3
    MaxNotes = 0
    MaxStops = 0
SPECIFICATION Spec
INVARIANTS
    TypeOK
    OkMeansAnswered
PROPERTIES
    CallReturns
    ImplementsRpcCalls
