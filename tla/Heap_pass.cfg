\* Callers that never allocate above a hole, and that free what is found
SPECIFICATION AlignedSpec
CONSTANTS
    HeapAddr = 101
    HeapLength = 41
    Requests <- SmallRequests
    Alignments <- TwoWords
    MaxBlocks = 4
    AnyOrder = FALSE
    Contents <- ClearOrSet
CHECK_DEADLOCK FALSE
INVARIANTS
    TypeOK
    NoOverlap
    NoPointerIntoData
    ChainTilesHeap
    AllRecovered
    NoneHidden
    GivenInside
    MovedFound
