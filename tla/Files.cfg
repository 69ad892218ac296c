\* MODULE: MCFiles
SPECIFICATION PartsSpec
CONSTANTS
    Archives <- Small
    BlockSize = 2
    ReadSizes = {1, 3}
    Offsets = {0, 1, 2, 4}
    Junk = Junk
    Proc = {p, q}
    Path <- SomePaths
    BootArgs <- Args
    DeviceOf <- Devices
    BlockDevice = {"ata0"}
    FileDevice = {"tty0"}
    BootTree <- Tree
    BootFile <- PlainFiles
    Program <- Programs
    MaxCalls = 3
INVARIANTS
    TreeMatchesArchive
    PathsResolve
    ListingIsExact
PROPERTIES
    SeekStaysInNonemptyFile
CHECK_DEADLOCK FALSE
