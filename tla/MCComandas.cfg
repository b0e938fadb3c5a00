CONSTANTS
    CardIds = {k1}
    ComandaIds = {c1, c2}
    ItemIds = {x1}
    Refs = {}
    Requests = {p1, p2}
    MaxTotal = 2
    MaxDesconto = 1
    MaxPago = 3
    None = None
SPECIFICATION MCSpec
SYMMETRY Symmetry
INVARIANTS
    NeverOverstated
    WalletPaymentsDebited
    OneActiveComanda
    FinalMatchesPayments
    TotalMatchesItems
    NoOverpay
PROPERTIES
    ComandaLifecycle
