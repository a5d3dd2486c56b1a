CONSTANTS
    Owner = {o1, o2}
    Conv = {c1, c2}
    Senders = {s1, s2}
    Readers = {}
    None = None
    MaxPhotos = 1
    MaxCrashes = 1
SPECIFICATION Spec
SYMMETRY Symmetric
INVARIANTS
    TypeOK
    ExchangesAreWhole
    NothingOrphaned
    TitleIsSettled
    OutcomesAreTrue
    PhotosImmutable
    PrivateToOwner
PROPERTIES
    RefinesLog
CHECK_DEADLOCK FALSE
