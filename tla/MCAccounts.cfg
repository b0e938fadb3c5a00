CONSTANTS
    Users = {u1, u2}
    Tabs = {t1, t2}
    Tokens = {k1, k2, k3}
    Calls = {c1, c2}
    None = None
    Papeis = {"cashier", "supervisor"}
    MaxEmCurso = 2
    Pedidos = {t1, t2}
    Recursos = {"usuarios", "terminais"}
    Linhas = {u1, u2}
    Faturas = {i1}
    Nulo = None
    MaxUsuarios = 2
    Planos <- Limites
    Sessoes = {t1, t2}
    Operadores = {c1, c2}
SPECIFICATION MCSpec
SYMMETRY Symmetry
INVARIANTS
    UmaSessao
    NuncaExpulso
    AgeComoMostra
    TelaRespondida
    DentroDoLimite
    OnlineTemSessao
PROPERTIES
    StatusPorComando
