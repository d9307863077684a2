\* The bitmap ends inside its page: a pointer behind it is freed
SPECIFICATION Spec
CONSTANTS
    IntBits = 3
    WordBytes = 1
    PageBytes = 8
    KernEnd = 2
    MemMaps <- FlatMaps
    Garbage <- ZeroRam
    StrayPtrs <- ZonePtrs
INVARIANT
    ProtectedStayBusy
