SPECIFICATION FairSpec
CONSTANTS
    c1 = c1
    c2 = c2
    c3 = c3
    NEndpoints = 3
    Conns <- ThreeConns
    MaxSets = 2
INVARIANTS
    TypeOK
    NetworkAsBelieved
    DeadHasFailover
PROPERTIES
    MintsAreServed
    SilenceEnds
CHECK_DEADLOCK FALSE
