\* Page tables in memory against places.
SPECIFICATION Spec
CONSTANTS
    p1 = p1
    p2 = p2
    p3 = p3
    disk = disk
    NoProcess = NoProcess
    Process <- Three
    Device <- Disk
    Algorithm = "FIFO"
    Grado = 2
    Program <- MixedProgram
INVARIANTS
    PlaceMeansMemory
CHECK_DEADLOCK FALSE
