CONSTANTS
    Node = {n1, n2}
    Client = client
SPECIFICATION FairSpec
CHECK_DEADLOCK FALSE
PROPERTIES
    EnvelopeCarries
