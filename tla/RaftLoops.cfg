CONSTANTS
    Command = {c1}
    None = None
    Peer = {p1, p2, p3, p4}
    Leader = leader
    MaxTerm = 3
    MaxIndex = 3
SPECIFICATION Spec
CHECK_DEADLOCK FALSE
INVARIANTS
    LoopComputesMerged
    IndexIsPosition
    MedianIsAgreed
