CONSTANTS
    Owner = {o1}
    Conv = {c1}
    Senders = {s1, s2}
    Readers = {r1}
    None = None
    MaxPhotos = 1
    MaxCrashes = 1
SPECIFICATION Spec
SYMMETRY Symmetric
INVARIANTS
    HistoriesAreTrue
CHECK_DEADLOCK FALSE
