\* Clients that reload cr3 and take no attribute back; memory runs out in the
\* middle of a map
SPECIFICATION Spec
CONSTANTS
    Index <- TwoIndices
    BootTables <- FirstFrames
    IdentityMap <- Identity
    Pool = {5, 6, 7, 8}
    Dirt <- OldTable
    Devices = {20}
    Presets <- ReadOnly
    Pages <- Spread
    KernelPage <- Kernel
    StackPage <- Stack
    Narrows = FALSE
    TrustFlush = FALSE
CHECK_DEADLOCK FALSE
INVARIANTS
    TypeOK
    TablesFormTree
    FramesAccounted
    NoUseAfterFree
    TLBCoherent
PROPERTY
    ImplementsAddressSpace
