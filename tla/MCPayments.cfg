CONSTANTS
    CardIds = {k1}
    ComandaIds = {c1}
    ItemIds = {x1}
    Refs = {i1, i2}
    Requests = {p1, p2}
    MaxTotal = 2
    MaxDesconto = 0
    MaxPago = 2
    None = None
SPECIFICATION MCSpec
SYMMETRY Symmetry
INVARIANTS
    PaidByApproved
    RecordedOnceApart
PROPERTIES
    IntentLifecycle
