CONSTANTS
    n1 = n1
    n2 = n2
    n3 = n3
    Msg <- Messages
    Groups <- Partitions
    Late = {n3}
    MaxFilters = 2
SPECIFICATION FairSpec
CHECK_DEADLOCK FALSE
INVARIANTS
    TypeOK
    PartitionIsolates
PROPERTIES
    ImplementsNetwork
    CallsReturn
    EveryMessageLeaves
