CONSTANTS
    a = a
    b = b
    Process = {a, b}
    Request = {r1, r2}
    Users = {a}
    Link <- Chain
    Addition <- Additions
    Value = {v}
    Mortal = {b}
    MaxLife = 1
SPECIFICATION FairSpec
CHECK_DEADLOCK FALSE
INVARIANTS
    TypeOK
    OwnAnswer
    HandleComplete
PROPERTIES
    Drains
