------------------------------ MODULE Carteira ------------------------------
(***************************************************************************)
(* Cards implements Wallet: every step of a handler is one operation of    *)
(* the wallet or none, on the cards on which requests never overlapped and *)
(* which were never transferred to themselves; the others are lost         *)
(* accounts.  A hold is a reserve that is ACTIVE, past its time or not,    *)
(* and an order is a request about to save a status.                       *)
(***************************************************************************)
EXTENDS Cards

Situacao(c) == IF cards[c].status = "absent" THEN "none" ELSE cards[c].status

Conta(c) ==
    IF c \in sobrepostos THEN [saldo |-> 0, situacao |-> "lost"]
    ELSE [saldo |-> cards[c].saldo, situacao |-> Situacao(c)]

Estado == [none |-> "free", active |-> "held", confirmed |-> "paid",
           expired |-> "back", rolled_back |-> "back"]

Retencao(n) ==
    IF reserves[n].card \in sobrepostos
    THEN [conta |-> None, valor |-> 0, estado |-> "lost"]
    ELSE [conta |-> reserves[n].card, valor |-> reserves[n].valor,
          estado |-> Estado[reserves[n].status]]

Ordens ==
    {<<req[p].card, req[p].status>> : p \in {q \in Requests :
        At(q, "statusSave") /\ req[q].card \notin sobrepostos}}

contas == [c \in CardIds |-> Conta(c)]
retencoes == [n \in ReserveIds |-> Retencao(n)]

W == INSTANCE Wallet WITH
        Contas <- CardIds, Retencoes <- ReserveIds, Ninguem <- None,
        Situacoes <- CardStatus \ {"absent"},
        conta <- contas, retencao <- retencoes, ordens <- Ordens

\* The wallet keeps its promise: a reserve holds only money that is free, is paid
\* once or given back and then never used again, a transfer moves what no reserve
\* holds, a balance and a status change only by the operation that is to change them.
Implements == W!Spec
=============================================================================
