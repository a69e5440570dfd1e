SPECIFICATION Spec
CONSTANTS
    c1 = c1
    c2 = c2
    k1 = k1
    k2 = k2
    Evictor = Evictor
    NoUser = NoUser
    NoConn = NoConn
    NoAnswer = NoAnswer
    Users <- MCUsers
    Calls <- MCCalls
    Conns <- MCConns
    Docs <- MCDocs
    Method <- InsertAndSearch
    Batch <- MCBatch
    MaxTotal = 2
SYMMETRY ConnSymmetry
INVARIANTS
    TypeOK
    OneOwner
    AllOrNothing
    IdleIsClean
    OwnReply
    DeadlineIsTheCallers
PROPERTIES
    ImplementsService
CHECK_DEADLOCK FALSE
