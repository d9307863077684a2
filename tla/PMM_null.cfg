\* All of the memory is usable
SPECIFICATION Spec
CONSTANTS
    IntBits = 3
    WordBytes = 1
    PageBytes = 4
    KernEnd = 2
    MemMaps <- FlatMaps
    Garbage <- ZeroRam
    StrayPtrs <- KernelPtrs
INVARIANT
    NullMeansOutOfMemory
