CONSTANTS
    Names <- AllNames
    Graphs <- AllGraphs
SPECIFICATION FairSpec
INVARIANTS
    TypeOK
    ValidateExact
    ReachableExact
    WavesAreLayers
PROPERTIES
    EveryLoopEnds
CHECK_DEADLOCK FALSE
