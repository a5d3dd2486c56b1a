CONSTANTS
    Kid = {k1, k2}
    Call = {a, b}
    None = None
    TTL = 3
    Cooldown = 2
    Timeout = 1
    MaxTime = 5
    MaxChanges = 2
SPECIFICATION FairSpec
INVARIANTS
    TypeOK
PROPERTIES
    TrustExpires
    RotationNoticed
    CacheNeverGoesBack
    SignInEnds
