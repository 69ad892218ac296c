\* MODULE: MCKernelMutex
SPECIFICATION FairSpec
CHECK_DEADLOCK FALSE
CONSTANTS
    Systems <- Assorted
INVARIANTS
    LockIsSound
    UpdatesAreIsolated
PROPERTIES
    MutexIsReleased
