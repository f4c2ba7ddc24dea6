\* A TLB and replacement.
SPECIFICATION SistemaSpec
CONSTANTS
    p1 = p1
    p2 = p2
    NoProcess = NoProcess
    Unset = Unset
    Process <- Two
    Device = {}
    Algorithm = "FIFO"
    Grado = 2
    Program <- SharingProgram
    Code <- SharingCode
    Segments <- SharingSegments
    Register = {"AX", "BX"}
    Words = 4
    TAM_PAGINA = 2
    ENTRADAS_POR_TABLA = 2
    ENTRADAS_TLB = 4
    REEMPLAZO_TLB = "LRU"
    Frames = 4
    SwapPages = 6
    MARCOS_POR_PROCESO = 2
    ALGORITMO_REEMPLAZO = "CLOCK"
INVARIANTS
    ReadsItsAddress
CHECK_DEADLOCK FALSE
