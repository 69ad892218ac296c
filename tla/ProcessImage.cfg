\* MODULE: MCProcessImage
SPECIFICATION Spec
CONSTANTS
    PageSize = 4
    NrFrames = 20
    NrPages = 16
    Procs <- Two
    Creators = 1
    Launches <- Assorted
    StackPage = 0
    ArgsPage = 2
    ThreadStacks = 7
    MaxHandle = 3
    HandleWrap = 8
INVARIANTS
    
    MemoryIsPrivate
PROPERTIES
    MappingsStay
