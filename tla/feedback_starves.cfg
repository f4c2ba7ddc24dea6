\* Multilevel feedback with page faults.
SPECIFICATION Spec
CONSTANTS
    p1 = p1
    p2 = p2
    p3 = p3
    disk = disk
    NoProcess = NoProcess
    Process <- Two
    Device <- Disk
    Algorithm = "FEEDBACK"
    Grado = 2
    Program <- PagingProgram
INVARIANTS
    NoStandstill
CHECK_DEADLOCK FALSE
