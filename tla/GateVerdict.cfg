SPECIFICATION Spec
CONSTANTS
    Runs = {c1, c2}
    Components = {1, 2}
    PollLimit = 2
INVARIANTS
    TypeOK
    TestedIsConforming
    BvtGuards
    GreenMeansInstalled
    GreenMeansRan
PROPERTIES
    EveryRunEnds
CHECK_DEADLOCK FALSE
