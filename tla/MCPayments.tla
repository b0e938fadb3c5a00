----------------------------- MODULE MCPayments -----------------------------
(***************************************************************************)
(* TLC instances of Payments.  MaxPago bounds the payments of a comanda;   *)
(* cards stay active and the comandas are paid by intents only, without    *)
(* discount: Comandas has a run of its own for the rest.  As in            *)
(* MCComandas, once two requests overlapped on one card they run to their  *)
(* end and the behaviour stops there (Fim).                                *)
(***************************************************************************)
EXTENDS Payments, TLC

CONSTANTS MaxPago

Bounded ==
    /\ \A c \in ComandaIds : pagos[c] <= MaxPago
    /\ \A k \in CardIds : cardStatus[k] = "active"
    /\ \A p \in Requests : req[p].saldo = 0 /\ (req[p].outro > 0 => req[p].ref # None)

UltimoEncontro ==
    sobrepostos # {} => \A p \in Requests : At(p, "idle") => req'[p] = req[p]

Fim ==
    /\ sobrepostos # {}
    /\ \A p \in Requests : At(p, "idle")
    /\ UNCHANGED paymentsVars

MCSpec ==
    PaymentsInit /\ [][(PaymentsNext /\ Bounded' /\ UltimoEncontro) \/ Fim]_paymentsVars

Symmetry ==
    Permutations(CardIds) \cup Permutations(ComandaIds)
    \cup Permutations(ItemIds) \cup Permutations(Refs) \cup Permutations(Requests)
=============================================================================
