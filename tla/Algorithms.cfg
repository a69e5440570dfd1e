SPECIFICATION Spec
CHECK_DEADLOCK FALSE
CONSTANTS
    HashBits = 32
    MaxTotal = 16777216
    NoData = NoData
    Invalid = Invalid
    Width = 32
    NumAlignBits = 14
    MaxOffset = 2
    MaxHashes = 9
    Versions = {1}
    MaxScore = 13
    Err = Err
    QueryStart = 2
    QuerySize = 2
    SilenceHash = 0
    LowBits = 4
    HashLowBits = 2
    MaxCandidates = 1
    MinHits = 2
    MinHitsPercent = 50
    WordSize = 16
    NoNumber = NoNumber
    Panic = Panic
    ByteLists <- MCByteLists
    Words <- MCWords
    Numbers <- MCNumbers
    Buffers <- MCBuffers
    Arrays <- MCArrays
    Limits = {0, 1, 2, 3, 4}
    Prints <- MCPrints
    Datas <- MCDatas
    Pairs <- MCPairs
    HashLists <- MCHashLists
    IndexAnswers <- MCIndexAnswers
    NoAnswer = NoAnswer
INVARIANTS
    RoundTrip
    TruncationIsRefused
    AcceptedCanBeWritten
    HitsOverlap
    ExcerptIsFound
    SectionsAgree
    QueryIsFull
    CandidatesAreBest
    PackedReadsBack
    VarintsReadBack
    VarintNeverWraps
    ArraysReadBack
