\* A heap that was full once
SPECIFICATION AlignedSpec
CONSTANTS
    HeapAddr = 100
    HeapLength = 40
    Requests <- SmallRequests
    Alignments <- NoAlignment
    MaxBlocks = 4
    AnyOrder = FALSE
    Contents <- ClearOnly
PROPERTY
    NullMeansNoFreeSegment
