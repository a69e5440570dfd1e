SPECIFICATION Spec
CONSTANTS
    k1 = k1
    k2 = k2
    Proc = Proc
    NoUser = NoUser
    NoConn = NoConn
    NoAnswer = NoAnswer
    Users <- MCUsers
    Conns <- MCConns
    Docs <- MCDocs
    MaxId = 2
    BatchSize = 2
    InOrder = FALSE
INVARIANTS
    NothingSkipped
CHECK_DEADLOCK FALSE
