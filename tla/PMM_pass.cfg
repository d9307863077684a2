\* The bitmap is one page; pointers into the protected zone are freed too
SPECIFICATION Spec
CONSTANTS
    IntBits = 3
    WordBytes = 1
    PageBytes = 4
    KernEnd = 1
    MemMaps <- SmallMaps
    Garbage <- SomeGarbage
    StrayPtrs <- ZonePtrs
INVARIANTS
    TypeOK
    NoDoubleGrant
    ProtectedNeverGranted
    ReservedNeverGranted
    GuardedStayBusy
PROPERTY
    ImplementsFramePool
