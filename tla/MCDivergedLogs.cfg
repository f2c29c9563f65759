CONSTANTS
    n1 = n1
    n2 = n2
    n3 = n3
    Node = {n1, n2, n3}
    Command = {c1}
    None = None
    MaxTerm = 2
    MaxIndex = 2
    Contenders <- FirstThenSecond
    RelayActions = {"Forward", "Drop"}
SPECIFICATION Spec
CHECK_DEADLOCK FALSE
VIEW RecentView
CONSTRAINT FewThatMatter
ACTION_CONSTRAINTS
    NoOldDelivery
    QuietHeartbeats
INVARIANTS
    LogMatching
    MatchIndexSound
