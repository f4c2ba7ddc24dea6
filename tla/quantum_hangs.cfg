\* Round robin, three processes that only compute.
SPECIFICATION Spec
CONSTANTS
    p1 = p1
    p2 = p2
    p3 = p3
    disk = disk
    NoProcess = NoProcess
    Process <- Three
    Device <- Disk
    Algorithm = "RR"
    Grado = 2
    Program <- ComputeProgram
INVARIANTS
    NoStandstill
CHECK_DEADLOCK FALSE
