\* Clients that rely on vm_flush_tlb_entry
SPECIFICATION Spec
CONSTANTS
    Index <- TwoIndices
    BootTables <- FirstFrames
    IdentityMap <- Identity
    Pool = {5, 6, 7, 8}
    Dirt <- OldTable
    Devices = {20}
    Presets <- ReadOnly
    Pages <- Spread
    KernelPage <- Kernel
    StackPage <- Stack
    Narrows = TRUE
    TrustFlush = TRUE
CHECK_DEADLOCK FALSE
INVARIANT
    TLBCoherent
