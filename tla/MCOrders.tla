------------------------------ MODULE MCOrders ------------------------------
(***************************************************************************)
(* TLC instances of Fiscal.  MaxItens bounds the items of an order and one *)
(* restart is enough to bring the sequence back.  Once two requests that   *)
(* may save an order overlapped on it, or one stopped half way, the sales  *)
(* end that are under way and no more begin; so do emissions after two     *)
(* overlapped.                                                             *)
(***************************************************************************)
EXTENDS Fiscal, TLC

CONSTANTS MaxItens, MaxNumero

Bounded ==
    /\ \A o \in OrderIds : linhas[o] <= MaxItens
    /\ sequencia <= MaxNumero

Termina ==
    /\ perturbados # {} => \A p \in Requests : At(p, "idle") => req'[p] = req[p]
    /\ emissaoDupla # {} => \A e \in Emissores : Em(e, "idle") => emissao'[e] = emissao[e]

MCSpec == FiscalInit /\ [][FiscalNext /\ Bounded' /\ Termina]_fiscalVars

Symmetry ==
    Permutations(OrderIds) \cup Permutations(Requests) \cup Permutations(DocIds)
    \cup Permutations(Emissores)
=============================================================================
