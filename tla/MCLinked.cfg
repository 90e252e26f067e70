SPECIFICATION Spec
CONSTANTS
    Capacity = 3
    Events = {e1, e2}
    Null = Null
    NoNode = NoNode
    NodeOrder <- MCNodeOrder
    CaptureMayFail = TRUE
INVARIANTS
    LinkedInv
    NoConcurrentNodeAccess
    AuditTellsTheTruth
PROPERTIES
    ImplementsFifo
