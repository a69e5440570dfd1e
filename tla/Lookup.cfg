SPECIFICATION FairSpec
CHECK_DEADLOCK FALSE
CONSTANTS
    QueryStart = 2
    QuerySize = 4
    SilenceHash = 0
    LowBits = 4
    HashLowBits = 2
    MaxCandidates = 1
    MinHits = 2
    MinHitsPercent = 50
    Requests = {1}
    Inputs <- MCInputs
    Fingerprints = {1, 2, 3, 4}
    HashesOf <- MCHashesOf
    Length <- MCLength
    Score <- MCScore
    MinDuration = 1
    MaxDuration = 32767
    NaN = NaN
INVARIANTS
    AnswersAreBest
    FoundOnceIndexed
PROPERTIES
    EveryLookupEnds
