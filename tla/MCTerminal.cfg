CONSTANTS
    Alvos = {a1, a2}
    Intents = {i1, i2}
    Tipos = {"pos", "celular", "recarga", "maquininha"}
    MaxPolls = 2
    None = None
    MaxPendentes = 2
    Alvo1 = a1
    Intent1 = i1
SPECIFICATION MCSpec
INVARIANTS
    PagoNoServidor
    TelaCoerente
    
PROPERTIES
    EsperaTermina
