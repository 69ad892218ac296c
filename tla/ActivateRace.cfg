CONSTANTS
    p = p
    q = q
    main = main
    child = child
    w1 = w1
    w2 = w2
    NoEntity = NoEntity
    Idle = Idle
    Boot = p
    Algorithm = "cfs"
    Process <- OneProcess
    Thread <- Trio
    Owner <- OwnerAlone
    Main <- MainAlone
    Program <- SchedTest
    Preemptible <- Everywhere
    MaxWaiters = 2
SPECIFICATION Spec
INVARIANT ActivateAssertion
