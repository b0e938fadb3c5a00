CONSTANTS
    OrderIds = {o1}
    Requests = {p1}
    None = None
    Precos = {1}
    DocIds = {}
    Emissores = {}
    MaxItens = 1
    MaxNumero = 1
SPECIFICATION MCSpec
SYMMETRY Symmetry
INVARIANTS
    PagoCobrado
