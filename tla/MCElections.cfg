CONSTANTS
    n1 = n1
    n2 = n2
    n3 = n3
    Node = {n1, n2, n3}
    Command = {c1}
    None = None
    MaxTerm = 3
    MaxIndex = 0
    Contenders <- Anyone
    RelayActions = {"Duplicate"}
SPECIFICATION Spec
CHECK_DEADLOCK FALSE
SYMMETRY Symmetry
VIEW LiveView
INVARIANTS
    VoteOncePerTerm
    ElectionSafety
    LeaderHintSound
