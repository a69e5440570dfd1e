SPECIFICATION FairSpec
CONSTANTS
    k1 = k1
    k2 = k2
    Proc = Proc
    NoUser = NoUser
    NoConn = NoConn
    NoAnswer = NoAnswer
    Users <- MCUsers
    Conns <- OneConn
    Docs <- MCDocs
    MaxId = 2
    BatchSize = 2
    InOrder = TRUE
PROPERTIES
    CatchesUp
CHECK_DEADLOCK FALSE
