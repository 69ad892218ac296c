\* MODULE: MCConsole
SPECIFICATION FairSpec
CONSTANTS
    a = a
    Letter <- OneLetter
    Readers <- Both
    Size = 2
    NoThread = NoThread
    Interruptible <- OutsideWait
    TypeAhead = 1
    MaxTyped = 2
    MaxWritten = 0
PROPERTIES
    InputDelivered
