CONSTANTS
    p = p
    q = q
    main = main
    child = child
    w1 = w1
    w2 = w2
    NoEntity = NoEntity
    Idle = Idle
    Boot = p
    Algorithm = "rr"
    Process <- TwoProcesses
    Thread <- Family
    Owner <- OwnerFamily
    Main <- MainFamily
    Program <- Session
    Preemptible <- OutsideStateChange
    MaxWaiters = 2
SPECIFICATION FairSpec
INVARIANTS
    TypeOK
    RunqueueMatchesState
    ActivateAssertion
    UserCodeIsRunnable
PROPERTY NoStarvation
