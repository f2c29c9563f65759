CONSTANTS
    Node = {n1, n2, n3}
    Command = {c1}
    None = None
    MaxTerm = 1
    MaxIndex = 0
    Contenders <- Anyone
    RelayActions = {"Duplicate"}
    MaxRestarts = 1
SYMMETRY Symmetry
SPECIFICATION RSpec
CHECK_DEADLOCK FALSE
INVARIANTS
    ElectionSafety
