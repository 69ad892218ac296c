\* MODULE: MCHeap
SPECIFICATION HeapSpec
CONSTANTS
    NrPages = 9
    MaxOrder = 2
    Usable <- Memory
    Behind = {"RESERVED"}
    PageUnits = 8
    Granularity = 16
    MmapThreshold = 20
    TrimThreshold = 24
    ReleaseRate = 2
    TreeShift = 3
    TreeBins = 12
    TreeDepth = 6
    Requests = {8, 120, 300}
    Alignment = 4
    MaxLive = 2
    MaxOther = 2
INVARIANTS
    BlocksArePrivate
    HeapIsSound
PROPERTIES
    AsksOnlyWhenFull
    ImplementsPageSource
