\* Callers that free and allocate in any order
SPECIFICATION AlignedSpec
CONSTANTS
    HeapAddr = 100
    HeapLength = 40
    Requests <- SmallRequests
    Alignments <- NoAlignment
    MaxBlocks = 4
    AnyOrder = TRUE
    Contents <- ClearOnly
INVARIANT
    NoOverlap
