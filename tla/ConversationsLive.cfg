CONSTANTS
    Owner = {o1}
    Conv = {c1}
    Senders = {s1, s2}
    Readers = {r1}
    None = None
    MaxPhotos = 0
    MaxCrashes = 0
SPECIFICATION FairSpec
PROPERTIES
    AnswerConcluded
    GoneClientReleased
CHECK_DEADLOCK FALSE
