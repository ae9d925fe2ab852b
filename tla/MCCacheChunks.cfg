SPECIFICATION Spec
CONSTANTS
    HeadLengths <- FixedHead
    SourceLengths <- SourceData
    TailLengths <- FixedTail
    SourceCounts <- EverySourceCount
    LenMax = 1410
    IdLow = 256
INVARIANTS
    TypeOK
    DumpsWholeCache
CHECK_DEADLOCK FALSE
