CONSTANTS
    Owner = {o1}
    Conv = {c1}
    Senders = {s1, s2}
    Readers = {}
    None = None
    MaxPhotos = 1
    MaxCrashes = 0
SPECIFICATION Spec
SYMMETRY Symmetric
INVARIANTS
    OnlyCompleteAnswersStored
CHECK_DEADLOCK FALSE
