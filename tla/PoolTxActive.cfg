SPECIFICATION Spec
CONSTANTS
    c1 = c1
    c2 = c2
    k1 = k1
    k2 = k2
    Evictor = Evictor
    NoUser = NoUser
    NoConn = NoConn
    NoAnswer = NoAnswer
    Users <- MCUsers
    Calls <- MCCalls
    Conns <- MCConns
    Docs <- MCDocs
    Method <- TwoInserts
    Batch <- OneDoc
    MaxTotal = 1
INVARIANTS
    NoBeginInsideTx
CHECK_DEADLOCK FALSE
