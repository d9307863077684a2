\* The memory map of a PC
SPECIFICATION Spec
CONSTANTS
    IntBits = 3
    WordBytes = 1
    PageBytes = 4
    KernEnd = 2
    MemMaps <- PCMaps
    Garbage <- ZeroRam
    StrayPtrs <- KernelPtrs
INVARIANT
    HeapNeverGranted
