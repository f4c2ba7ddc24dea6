\* Multilevel feedback without page faults.
SPECIFICATION Spec
CONSTANTS
    p1 = p1
    p2 = p2
    p3 = p3
    disk = disk
    NoProcess = NoProcess
    Process <- Three
    Device <- Disk
    Algorithm = "FEEDBACK"
    Grado = 2
    Program <- ComputeProgram
INVARIANTS
    NoEmptyRemove
    CpuExclusive
    HangsOnlyAtClock
PROPERTIES
    ImplementsLifecycle
SYMMETRY ComputeSymmetry
CHECK_DEADLOCK FALSE
