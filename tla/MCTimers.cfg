CONSTANTS
    n1 = n1
    n2 = n2
    n3 = n3
    Node = {n1, n2, n3}
    Command = {c1}
    None = None
    MaxTerm = 4
    MaxIndex = 1
    Contenders <- Succession
    RelayActions = {"Forward", "Drop"}
    HeartbeatInterval = 2
    MinTimeout = 6
    MaxTimeout = 6
    MaxLosses = 1
SPECIFICATION TSpec
CHECK_DEADLOCK FALSE
VIEW View
ACTION_CONSTRAINTS
    RequestsInFirstTerm
    RepliesArrive
PROPERTIES
    StableLeader
