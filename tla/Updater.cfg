SPECIFICATION Spec
CONSTANTS
    k1 = k1
    k2 = k2
    Proc = Proc
    NoUser = NoUser
    NoConn = NoConn
    NoAnswer = NoAnswer
    Users <- MCUsers
    Conns <- MCConns
    Docs <- MCDocs
    MaxId = 3
    BatchSize = 2
    InOrder = TRUE
SYMMETRY Symmetry
INVARIANTS
    TypeOK
    NothingSkipped
CHECK_DEADLOCK FALSE
