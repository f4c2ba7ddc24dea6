\* prueba-tlb: round robin, one TLB entry for two pages, a frame for every page.
SPECIFICATION SistemaSpec
CONSTANTS
    p1 = p1
    p2 = p2
    NoProcess = NoProcess
    Unset = Unset
    Process <- Two
    Device = {}
    Algorithm = "RR"
    Grado = 2
    Program <- TlbProgram
    Code <- TlbCode
    Segments <- TlbSegments
    Register = {"AX", "BX"}
    Words = 4
    TAM_PAGINA = 2
    ENTRADAS_POR_TABLA = 2
    ENTRADAS_TLB = 1
    REEMPLAZO_TLB = "LRU"
    Frames = 4
    SwapPages = 4
    MARCOS_POR_PROCESO = 2
    ALGORITMO_REEMPLAZO = "CLOCK"
INVARIANTS
    TlbAgrees
PROPERTIES
    ImplementsAislado
CHECK_DEADLOCK FALSE
