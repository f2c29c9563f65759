CONSTANTS
    n1 = n1
    n2 = n2
    n3 = n3
    Node = {n1, n2}
    Command = {c1}
    None = None
    MaxTerm = 3
    MaxIndex = 1
    Contenders <- BackToFirst
    RelayActions = {"Forward", "Drop"}
SPECIFICATION FairSpec
CHECK_DEADLOCK FALSE

PROPERTIES
    CatchUp
