\* prueba-memoria: FIFO, one place, two consoles whose programs use the screen.
SPECIFICATION Spec
CONSTANTS
    p1 = p1
    p2 = p2
    p3 = p3
    disk = disk
    NoProcess = NoProcess
    Process <- Two
    Device <- Disk
    Algorithm = "FIFO"
    Grado = 1
    Program <- ScreenProgram
INVARIANTS
    NoStandstill
CHECK_DEADLOCK FALSE
