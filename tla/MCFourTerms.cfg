CONSTANTS
    n1 = n1
    n2 = n2
    n3 = n3
    Node = {n1, n2, n3}
    Command = {c1}
    None = None
    MaxTerm = 4
    MaxIndex = 1
    Contenders <- Alternating
    RelayActions = {"Duplicate"}
SPECIFICATION Spec
CHECK_DEADLOCK FALSE
VIEW RecentView
ACTION_CONSTRAINTS
    NoOldDelivery
    EarlyRequests
INVARIANTS
    LeaderCompleteness
    StateMachineSafety
PROPERTIES
    ReplicatesOneLog
