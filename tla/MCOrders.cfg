CONSTANTS
    OrderIds = {o1}
    Requests = {p1, p2}
    None = None
    Precos = {0, 1}
    DocIds = {d1, d2, d3}
    Emissores = {e1, e2}
    MaxItens = 2
    MaxNumero = 3
SPECIFICATION MCSpec
SYMMETRY Symmetry
INVARIANTS
    PagoConfere
    UmaNotaPorPedido
    NumeroUnico
PROPERTIES
    PagoFica
