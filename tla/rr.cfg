\* Round robin: the quantum may expire at any moment; one of three processes uses its console.
SPECIFICATION Spec
CONSTANTS
    p1 = p1
    p2 = p2
    p3 = p3
    disk = disk
    NoProcess = NoProcess
    Process <- Three
    Device <- Disk
    Algorithm = "RR"
    Grado = 2
    Program <- QuantumProgram
INVARIANTS
    OneCopy
    CpuExclusive
    ReadyAnnounced
    HangsOnlyAtClock
SYMMETRY QuantumSymmetry
CHECK_DEADLOCK FALSE
