------------------------------- MODULE MCCash -------------------------------
(***************************************************************************)
(* TLC instances of Cash.  MaxMovimentos bounds the sums of movements.     *)
(* Once two requests overlapped on one terminal (in any state reached      *)
(* until then) they run to their end and the behaviour stops there (Fim).  *)
(***************************************************************************)
EXTENDS Cash, TLC

CONSTANTS MaxMovimentos

Bounded ==
    \A s \in CaixaIds : entradas[s] <= MaxMovimentos /\ saidas[s] <= MaxMovimentos

UltimoEncontro ==
    sobrepostos # {} => \A p \in Requests : At(p, "idle") => req'[p] = req[p]

Fim ==
    /\ sobrepostos # {}
    /\ \A p \in Requests : At(p, "idle")
    /\ UNCHANGED vars

MCSpec == Init /\ [][(Next /\ Bounded' /\ UltimoEncontro) \/ Fim]_vars

Symmetry == Permutations(CaixaIds) \cup Permutations(Pdvs) \cup Permutations(Requests)
=============================================================================
