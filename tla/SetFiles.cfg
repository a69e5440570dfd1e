SPECIFICATION Spec
CONSTANTS
    a = a
    b = b
    Sets = {a, b}
    Users = {a, b}
    BlockBits = 2
    Universe = {0, 1, 2}
    Damaged = Damaged
    Names = {"data", "old", "plain", "lock"}
    MemFiles = {1, 2, 3, 4, 5, 6}
    NoFile = 0
    NoName = ""
    AtomicNames = {"data", "old"}
    PlainName = "plain"
    LockName = "lock"
    MaxCalls = 5
    Nothing = Nothing
    Loading = Loading
SYMMETRY Symmetry
INVARIANTS
    LockIsExclusive
    QueriesAgree
PROPERTIES
    ImplementsSavedSets
