SPECIFICATION Spec
CONSTANTS
    o1 = o1
    o2 = o2
    a1 = a1
    a2 = a2
    r = r
    x = x
    Objects = {o1, o2}
    Artifacts = {a1, a2}
    Records = {r}
    Payloads = {x}
SYMMETRY Symmetry
INVARIANTS
    CopiesInv
    SealedResultIsOnDisk
PROPERTIES
    PublishedIsPermanent
