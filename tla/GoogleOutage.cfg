CONSTANTS
    Kid = {k1}
    Call = {a, b}
    None = None
    TTL = 3
    Cooldown = 2
    Timeout = 1
    MaxTime = 3
    MaxChanges = 1
SPECIFICATION Spec
PROPERTIES
    CooldownRationsRequests
