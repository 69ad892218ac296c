\* MODULE: MCPageAllocator
SPECIFICATION FairSpec
CONSTANTS
    MaxOrder = 3
    NrPages = 17
    NoPage = NoPage
    Normal <- MapWithHole
    Kernel <- KernelLow
    NrTables = 1
INVARIANTS
    FreeListsAreSound
    
PROPERTIES
    ImplementsPageSource
    CallsReturn
