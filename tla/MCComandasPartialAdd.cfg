CONSTANTS
    CardIds = {k1}
    ComandaIds = {c1}
    ItemIds = {x1, x2}
    Refs = {}
    Requests = {p1}
    MaxTotal = 1
    MaxDesconto = 1
    MaxPago = 2
    None = None
SPECIFICATION MCSpec
SYMMETRY Symmetry
INVARIANTS
    PaidCoversItems
