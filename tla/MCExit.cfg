CONSTANTS
    CardIds = {k1}
    ComandaIds = {c1, c2}
    ItemIds = {x1}
    Refs = {}
    Clientes = {g1, g2}
    Requests = {p1, p2}
    MaxTotal = 1
    MaxDesconto = 1
    MaxPago = 2
    MaxSaidas = 1
    None = None
SPECIFICATION MCSpec
SYMMETRY Symmetry
PROPERTIES
    ReleasedOwesNothing
    OnlyEmptyCancelled
    NaoHerda
