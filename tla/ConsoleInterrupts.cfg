\* MODULE: MCConsole
SPECIFICATION Spec
CONSTANTS
    a = a
    Letter <- OneLetter
    Readers <- First
    Size = 3
    NoThread = NoThread
    Interruptible <- OutsideStore
    TypeAhead = 2
    MaxTyped = 3
    MaxWritten = 2
INVARIANTS
    InputIsSound
    OutputKept
