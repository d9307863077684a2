\* Words of 4 bytes: the bitmap needs three pages, one is reserved
SPECIFICATION Spec
CONSTANTS
    IntBits = 3
    WordBytes = 4
    PageBytes = 4
    KernEnd = 5
    MemMaps <- FlatMaps
    Garbage <- ZeroRam
    StrayPtrs <- KernelPtrs
INVARIANT
    BitmapNeverGranted
