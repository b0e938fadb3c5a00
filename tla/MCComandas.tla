----------------------------- MODULE MCComandas -----------------------------
(***************************************************************************)
(* TLC instances of Comandas.  MaxPago bounds the payments of a comanda    *)
(* and its debits, which overlapping or interrupted requests can repeat    *)
(* without end.  A collected card differs from a blocked one only for      *)
(* Exit, so that here cards are active or blocked.  Once two requests      *)
(* overlapped on one card (in any state reached until then) they run to    *)
(* their end, in any order of their steps, and the behaviour stops there   *)
(* (Fim); that meeting is explored with at most one comanda (UmaSo), for   *)
(* what is checked there is a matter of one comanda's requests.            *)
(***************************************************************************)
EXTENDS Comandas, TLC

CONSTANTS MaxPago

Bounded ==
    /\ \A c \in ComandaIds : pagos[c] <= MaxPago /\ debitado[c] <= MaxPago
    /\ \A k \in CardIds : cardStatus[k] # "exited"

UmaSo ==
    sobrepostos # {} => Cardinality({c \in ComandaIds : comandas[c].status # "none"}) <= 1

UltimoEncontro ==
    sobrepostos # {} => \A p \in Requests : At(p, "idle") => req'[p] = req[p]

Fim ==
    /\ sobrepostos # {}
    /\ \A p \in Requests : At(p, "idle")
    /\ UNCHANGED vars

MCSpec == Init /\ [][(Next /\ Bounded' /\ UmaSo' /\ UltimoEncontro) \/ Fim]_vars

Symmetry ==
    Permutations(CardIds) \cup Permutations(ComandaIds)
    \cup Permutations(ItemIds) \cup Permutations(Requests)
=============================================================================
