CONSTANTS
    n1 = n1
    n2 = n2
    n3 = n3
    Node = {n1, n2}
    Command = {c1}
    None = None
    MaxTerm = 2
    MaxIndex = 2
    Contenders <- Anyone
    RelayActions = {"Duplicate"}
SPECIFICATION Spec
CHECK_DEADLOCK FALSE
SYMMETRY Symmetry
VIEW LiveView
INVARIANTS
    TypeOK
    AppliedIsCommitted
    NextIndexInLog
PROPERTIES
    CommitMonotonic
    KeepsEntriesOfTerm
    LeaderAppendOnly
