\* Clients that map a page anew with fewer attributes, and that look up its
\* entries; both are violated (-continue shows both)
SPECIFICATION Spec
CONSTANTS
    Index <- TwoIndices
    BootTables <- FirstFrames
    IdentityMap <- Identity
    Pool = {5, 6, 7, 8}
    Dirt <- OldTable
    Devices = {20}
    Presets <- ReadOnly
    Pages <- Spread
    KernelPage <- Kernel
    StackPage <- Stack
    Narrows = TRUE
    TrustFlush = FALSE
CHECK_DEADLOCK FALSE
INVARIANT
    LookupsFindEntries
PROPERTY
    ImplementsAddressSpace
