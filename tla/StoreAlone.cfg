SPECIFICATION FairSpec
CONSTANTS
    QueryStart = 1
    QuerySize = 2
    SilenceHash = 0
    LowBits = 1
    a = a
    b = b
    r1 = r1
    r2 = r2
    NoFp = NoFp
    Requests <- OneRequest
    Calls <- MoreCalls
    Fps <- MCFps
    Hashes <- MCHashes
    Similar <- MCSimilar
    LegacyRow <- MCLegacy
    Hits <- MCHits
    NewIds = {3, 4}
INVARIANTS
    InsertsOnce
PROPERTIES
    EveryRequestEnds
