\* The kernel initializes its address space
SPECIFICATION Spec
CONSTANTS
    Index <- TwoIndices
    BootTables <- FirstFrames
    IdentityMap <- Identity
    Pool = {5, 6, 7, 8}
    Dirt <- OldTable
    Devices = {20}
    Presets <- ReadOnly
    Pages <- Spread
    KernelPage <- Kernel
    StackPage <- Stack
    Narrows = TRUE
    TrustFlush = FALSE
CHECK_DEADLOCK FALSE
INVARIANT
    KernelStaysMapped
