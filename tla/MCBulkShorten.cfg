CONSTANTS
    Codes = {"a", "b", "c"}
    Requests = {1, 2, 3}
    MayPost <- ThreeClients
    MaxItems = 3
    Tries = 2
SPECIFICATION FairSpec
CHECK_DEADLOCK FALSE
INVARIANTS
    TypeOK
    TakenMeansTaken
PROPERTIES
    KeepsAllocation
    EveryRequestEnds
