\* FIFO, one process more than places: admission, page faults, a device, a segmentation fault.
SPECIFICATION FairSpec
CONSTANTS
    p1 = p1
    p2 = p2
    p3 = p3
    disk = disk
    NoProcess = NoProcess
    Process <- Three
    Device <- Disk
    Algorithm = "FIFO"
    Grado = 2
    Program <- MixedProgram
INVARIANTS
    TypeOK
    OneCopy
    GradeAccounted
    MemoryBounded
    AdmissionExclusive
    ReadyAnnounced
PROPERTIES
    ImplementsLifecycle
    EveryProcessEnds
CHECK_DEADLOCK FALSE
