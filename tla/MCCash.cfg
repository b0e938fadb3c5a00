CONSTANTS
    CaixaIds = {s1, s2}
    Pdvs = {d1}
    Requests = {p1, p2}
    None = None
    MaxValor = 1
    MaxMovimentos = 1
SPECIFICATION MCSpec
SYMMETRY Symmetry
INVARIANTS
    OneOpenPerPdv
    DiferencaCounts
    TotalsBacked
PROPERTIES
    ClosedIsFinal
