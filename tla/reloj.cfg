\* Four frames, both algorithms.
SPECIFICATION FairSpec
CONSTANTS
    MARCOS_POR_PROCESO = 4
INVARIANTS
    TypeOK
PROPERTIES
    ReplacesAsDecided
    NewestSpared
    SearchEnds
