------------------------------- MODULE Wallet -------------------------------
(***************************************************************************)
(* What the wristband wallet promises to the rest of the system: accounts  *)
(* on which every operation takes effect at once.  Money is held only      *)
(* where it is free, and then either paid or given back, never both; a     *)
(* withdrawal takes what is free or the amount the desk names, which       *)
(* nothing bounds: it may take money that is held, or that is not there.   *)
(* The situation of an account is its owner's business, changed by an      *)
(* order and by a transfer out of it to another.                           *)
(*                                                                         *)
(* The code keeps this promise for the cards on which its requests never   *)
(* overlapped and which were never transferred to themselves.  An account  *)
(* it gives up is lost (Perde) and promises nothing from then on.  Cards   *)
(* implements this module (Carteira).                                      *)
(***************************************************************************)
EXTENDS Integers, FiniteSets

CONSTANTS
    Contas,       \* accounts
    Retencoes,    \* holds
    Valores,      \* amounts, 1 to the largest
    Situacoes,    \* what an order may make of an account
    Ninguem       \* no account

VARIABLES
    conta,      \* saldo and situacao; "none" is no account, "lost" a lost one
    retencao,   \* conta, valor and estado of every hold
    ordens      \* orders given and not yet carried out

vars == <<conta, retencao, ordens>>

Aberta(c) == conta[c].situacao \notin {"none", "lost"}
Perdida(c) == conta[c].situacao = "lost"
Retidas(c) == {h \in Retencoes : retencao[h].conta = c /\ retencao[h].estado = "held"}

\* A hold of v units is v cells.
Retido(c) ==
    Cardinality({x \in Retencoes \X Valores :
        x[1] \in Retidas(c) /\ x[2] <= retencao[x[1]].valor})
Livre(c) == conta[c].saldo - Retido(c)

SemRetencao == [conta |-> Ninguem, valor |-> 0, estado |-> "free"]
RetencaoPerdida == [SemRetencao EXCEPT !.estado = "lost"]
ContaPerdida == [saldo |-> 0, situacao |-> "lost"]

Init ==
    /\ conta = [c \in Contas |-> [saldo |-> 0, situacao |-> "none"]]
    /\ retencao = [h \in Retencoes |-> SemRetencao]
    /\ ordens = {}
-----------------------------------------------------------------------------
Abre(c, s) ==
    /\ conta[c].situacao = "none"
    /\ conta' = [conta EXCEPT ![c] = [saldo |-> s, situacao |-> "active"]]
    /\ UNCHANGED <<retencao, ordens>>

\* Of any amount: a recharge, or a transfer from an account that is lost.
Credita(c) ==
    /\ Aberta(c)
    /\ conta'[c].saldo > conta[c].saldo
    /\ conta' = [conta EXCEPT ![c].saldo = conta'[c].saldo]
    /\ UNCHANGED <<retencao, ordens>>

Saca(c, v) ==
    /\ Aberta(c)
    /\ conta' = [conta EXCEPT ![c].saldo = @ - v]
    /\ UNCHANGED <<retencao, ordens>>

Retem(h, c, v) ==
    /\ retencao[h] = SemRetencao
    /\ conta[c].situacao = "active"
    /\ v <= Livre(c)
    /\ retencao' = [retencao EXCEPT ![h] = [conta |-> c, valor |-> v, estado |-> "held"]]
    /\ UNCHANGED <<conta, ordens>>

\* Holds of one account end together when their time is over.
Devolve(hs) ==
    /\ retencao' = [h \in Retencoes |->
          IF h \in hs THEN [retencao[h] EXCEPT !.estado = "back"] ELSE retencao[h]]
    /\ UNCHANGED <<conta, ordens>>

Liquida(h) ==
    /\ retencao[h].estado = "held"
    /\ conta' = [conta EXCEPT ![retencao[h].conta].saldo = @ - retencao[h].valor]
    /\ retencao' = [retencao EXCEPT ![h].estado = "paid"]
    /\ UNCHANGED ordens

\* All that is free moves to another account, or to a lost one, and the first is
\* blocked.
Transfere(c, d) ==
    /\ c # d
    /\ Aberta(c) /\ Livre(c) > 0
    /\ Aberta(d) \/ Perdida(d)
    /\ conta' = [x \in Contas |->
          IF x = c THEN [saldo |-> Retido(c), situacao |-> "blocked"]
          ELSE IF x = d /\ Aberta(d) THEN [conta[d] EXCEPT !.saldo = @ + Livre(c)]
          ELSE conta[x]]
    /\ UNCHANGED <<retencao, ordens>>

Ordena(c, st) ==
    /\ Aberta(c)
    /\ ordens' = ordens \cup {<<c, st>>}
    /\ UNCHANGED <<conta, retencao>>

Cumpre(o) ==
    /\ conta' = [conta EXCEPT ![o[1]].situacao = o[2]]
    /\ ordens' = ordens \ {o}
    /\ UNCHANGED retencao

Recusa(o) ==
    /\ ordens' = ordens \ {o}
    /\ UNCHANGED <<conta, retencao>>

Perde(cs) ==
    /\ conta' = [c \in Contas |-> IF c \in cs THEN ContaPerdida ELSE conta[c]]
    /\ retencao' = [h \in Retencoes |->
          IF retencao[h].conta \in cs THEN RetencaoPerdida ELSE retencao[h]]
    /\ ordens' = {o \in ordens : o[1] \notin cs}

\* A hold taken in the name of a lost account.
RetemPerdida(h) ==
    /\ retencao[h] = SemRetencao
    /\ \E c \in Contas : Perdida(c)
    /\ retencao' = [retencao EXCEPT ![h] = RetencaoPerdida]
    /\ UNCHANGED <<conta, ordens>>
-----------------------------------------------------------------------------
Next ==
    \/ \E c \in Contas, v \in Valores \cup {0} : Abre(c, v)
    \/ \E c \in Contas : Credita(c)
    \/ \E c \in Contas : \E v \in Valores \cup 1..Livre(c) : Saca(c, v)
    \/ \E h \in Retencoes, c \in Contas, v \in Valores : Retem(h, c, v)
    \/ \E c \in Contas : \E hs \in SUBSET Retidas(c) : Devolve(hs)
    \/ \E h \in Retencoes : Liquida(h) \/ RetemPerdida(h)
    \/ \E c, d \in Contas : Transfere(c, d)
    \/ \E c \in Contas, st \in Situacoes : Ordena(c, st)
    \/ \E o \in ordens : Cumpre(o) \/ Recusa(o)
    \/ \E cs \in SUBSET Contas : Perde(cs)

Spec == Init /\ [][Next]_vars
=============================================================================
