\* FIFO: the page faults of two processes, more pages than frames, CLOCK, a TLB of one entry.
SPECIFICATION FairSistema
CONSTANTS
    p1 = p1
    p2 = p2
    NoProcess = NoProcess
    Unset = Unset
    Process <- Two
    Device = {}
    Algorithm = "FIFO"
    Grado = 2
    Program <- SharingProgram
    Code <- SharingCode
    Segments <- SharingSegments
    Register = {"AX", "BX"}
    Words = 4
    TAM_PAGINA = 2
    ENTRADAS_POR_TABLA = 2
    ENTRADAS_TLB = 1
    REEMPLAZO_TLB = "FIFO"
    Frames = 4
    SwapPages = 6
    MARCOS_POR_PROCESO = 2
    ALGORITMO_REEMPLAZO = "CLOCK"
INVARIANTS
    SistemaTypeOK
    MemorySurvives
    ReadsItsAddress
PROPERTIES
    KeepsProtocol
    ImplementsAislado
    EveryProgramEnds
CHECK_DEADLOCK FALSE
