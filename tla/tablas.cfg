\* Two frames per process, three frames and four swap pages for six pages; contents left out.
SPECIFICATION Spec
CONSTANTS
    p1 = p1
    p2 = p2
    p3 = p3
    Process <- Three
    Segments <- SegmentsOfThree
    TAM_PAGINA = 1
    Frames = 3
    SwapPages = 4
    MARCOS_POR_PROCESO = 2
    ALGORITMO_REEMPLAZO = "CLOCK-M"
    Zero = 0
    Unset = 0
    Word = {0}
INVARIANTS
    TypeOK
    FrameHasOneOwner
    SwapHasOneOwner
    ClockMatchesTables
CHECK_DEADLOCK FALSE
