------------------------------- MODULE MCExit -------------------------------
(***************************************************************************)
(* TLC instance of Customers, that is of check-in, the bar and the exit    *)
(* together.  MaxPago bounds the payments of a comanda and MaxSaidas the   *)
(* releases of a card; payments are by other means than the wristband,     *)
(* which decides neither the check-in nor the exit, and no card is blocked *)
(* (to the check-in a blocked card is what a collected one is).            *)
(***************************************************************************)
EXTENDS Customers, TLC

CONSTANTS MaxPago, MaxSaidas

Bounded ==
    /\ \A c \in ComandaIds : pagos[c] <= MaxPago
    /\ \A k \in CardIds : saidas[k] <= MaxSaidas /\ cardStatus[k] # "blocked"
    /\ \A p \in Requests : req[p].saldo = 0

\* The properties say nothing of a card on which requests have overlapped: with
\* one card the behaviour ends there.
Fim == sobrepostos # {} /\ UNCHANGED todasVars

MCSpec ==
    CustomersInit
    /\ [][(sobrepostos = {} /\ CustomersNext /\ Bounded') \/ Fim]_todasVars

Symmetry ==
    Permutations(CardIds) \cup Permutations(ComandaIds)
    \cup Permutations(ItemIds) \cup Permutations(Requests)
    \cup Permutations(Clientes)
=============================================================================
