SPECIFICATION Spec
CONSTANTS
    Capacity = 3
    Events = {e1, e2}
    Null = Null
    CaptureMayFail = TRUE
    MaxDistance = 10
INVARIANTS
    RingInv
    TargetsLieAhead
PROPERTIES
    ImplementsFifo
