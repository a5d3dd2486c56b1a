CONSTANTS
    Email <- Typed
    Account = {"ann", "bob"}
    Lower <- LowerCase
    Secret = {s1, s2}
    Lists <- AllowLists
    Second = 2
    SessionTTL = 2
    TokenTTL = 1
    Down = Down
    MaxTime = 5
    MaxStarts = 3
    MaxTokens = 1
    Req = {r1}
    Address = {home}
    None = None
SPECIFICATION Spec
SYMMETRY Symmetric
INVARIANTS
    TypeOK
    EveryoneSpendsTheirOwn
PROPERTIES
    AdmissionIsEarned
    SignInLasts
CHECK_DEADLOCK FALSE
