\* A header over a word with bit 63 set: no alignedAlloc is needed
SPECIFICATION AlignedSpec
CONSTANTS
    HeapAddr = 101
    HeapLength = 41
    Requests <- AnyRequests
    Alignments <- NoAlignment
    MaxBlocks = 3
    AnyOrder = FALSE
    Contents <- ClearOrSet
INVARIANT
    FreeFindsSegment
