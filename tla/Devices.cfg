\* MODULE: MCDevices
SPECIFICATION DevicesSpec
CONSTANTS
    Thread = {t1, t2}
    Drive = {"master", "slave"}
    Byte = 4
    Request <- SomeRequests
    MaxTransfers = 3
    CpuThread = {c1, c2}
    MaxVector = 11
    Exceptions = 4
    ClassSize = 4
    PageFault = 2
    Trap = 1
    ErrorCodes = {2}
    KernelSyscall = 8
    UserSyscall = 9
    Pins = 2
    KeyboardPin = 1
    MaxRaised = 4
    Ticks = {0, 1, 3, 7}
    Divide = 2
    Periods = 3
    Word32 = 32
    Machines <- SomeMachines
    Slots = 2
    Funcs = 2
    Drives = 3
    Entries = 2
    Firmwares <- SomeFirmwares
    TableSize = 4
    MaxBlocks = 3
    BootTables = 2
    Image = {6, 7}
    Stack = {8}
    HeapStart = 9
    PerPage = 8
    KernelTables = 4
    StartTimes <- AroundTheClock
    Modes <- TwentyFourHours
    UpdatesDuringRead = FALSE
    TicksPerSecond = 3
    MaxUpdates = 1
    MaxTicks = 8
    Entity = {e1, e2, e3}
    IdleEntity = idle
    MaxRuntime = 5
INVARIANTS
    
    CfsIsFair
    StartIsSound
    
    BlocksAreRight
    InterruptsAreRouted
PROPERTIES
    TransfersEnd
    KeysAreHandled
CHECK_DEADLOCK FALSE
