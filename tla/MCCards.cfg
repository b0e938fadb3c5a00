CONSTANTS
    CardIds = {c1, c2}
    ReserveIds = {n1, n2}
    IntentIds = {i1}
    CaixaIds = {s1}
    Requests = {p1, p2}
    MaxValor = 1
    MaxSaldo = 2
    MaxDivida = 1
    ExigeCaixa = TRUE
    None = None
SPECIFICATION MCCardsSpec
SYMMETRY Symmetry
INVARIANTS
    ConfirmedHasDebit
    OneDebitPerConfirm
    NoOverReserve
    SaldoMatchesExtrato
    CreditWasApproved
    MovementAfterCredit
    CreditedOnce
PROPERTIES
    Implements
