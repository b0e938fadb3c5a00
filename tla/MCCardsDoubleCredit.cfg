CONSTANTS
    CardIds = {c1}
    ReserveIds = {}
    IntentIds = {i1}
    CaixaIds = {s1}
    Requests = {p1, p2}
    MaxValor = 1
    MaxSaldo = 2
    MaxDivida = 1
    ExigeCaixa = TRUE
    None = None
SPECIFICATION MCSpec
SYMMETRY Symmetry
INVARIANTS
    OneRechargePerIntent
