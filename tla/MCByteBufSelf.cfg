CONSTANTS
    Ints <- MCInts
    Sizes = {1, 5, 20}
    Texts <- MCTexts
    Vectors <- MCVectors
    Maps <- MCMaps
    Word = 12
    LongWord = 64
    LOG_TEXT_MAX_LEN = 3
    MaxItems = 3
SPECIFICATION Spec
INVARIANTS
    OrderIsKept
