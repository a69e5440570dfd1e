SPECIFICATION FairSpec
CONSTANTS
    c1 = c1
    c2 = c2
    k1 = k1
    k2 = k2
    Evictor = Evictor
    NoUser = NoUser
    NoConn = NoConn
    NoAnswer = NoAnswer
    Users <- MCUsers
    Calls <- MCCalls
    Conns <- OneConn
    Docs <- MCDocs
    Method <- InsertAndSearch
    Batch <- OneDoc
    MaxTotal = 1
PROPERTIES
    DeadlinedCallReturns
    EveryCallReturns
CHECK_DEADLOCK FALSE
