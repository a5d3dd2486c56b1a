CONSTANTS
    Owner = {o1, o2}
    Word <- Typed
    Name = {"milk", "rice"}
    Lower <- LowerCase
    Day <- Days
    Tab = {a, b}
    None = None
    ListEntries = 2
    MemoryEntries = 1
    MaxIds = 2
SPECIFICATION Spec
SYMMETRY Symmetric
INVARIANTS
    TypeOK
    IdsKeepTheirMeaning
    SameIngredientOnce
    MemoryIsFresh
PROPERTIES
    RefinesPantry
