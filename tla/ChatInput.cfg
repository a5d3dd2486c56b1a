CONSTANTS
    Turn = {t1, t2}
    Memory = {m}
    NoMemory = NoMemory
    KeepMessages = 12
    TrimStep = 8
    PhotoMessages = 3
    MaxMessages = 28
    MaxWithPhotos = 1
    MaxLag = 4
SPECIFICATION Spec
SYMMETRY Symmetric
INVARIANTS
    TypeOK
    RolesTakeTurns
PROPERTIES
    WindowIsRecent
    PrefixSurvives
    WindowMovesInJumps
CHECK_DEADLOCK FALSE
