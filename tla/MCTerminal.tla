----------------------------- MODULE MCTerminal -----------------------------
(***************************************************************************)
(* TLC instance of Maquininha: one screen of any kind, two comandas (or    *)
(* wristbands) and charges enough to try again.  MaxPendentes bounds the   *)
(* requests in flight at once.  The screen starts with comanda Alvo1 and   *)
(* the first charge is Intent1, PosPage's only one: symmetry cannot be used *)
(* with liveness.                                                          *)
(***************************************************************************)
EXTENDS Maquininha

CONSTANTS MaxPendentes, Alvo1, Intent1

\* On the web screens, which learn of it from the poll alone, only an open charge
\* is paid at the acquirer.
Cobra ==
    ~E("maquininha") => \A i \in cobrados' \ cobrados : Aguarda(i) /\ ~intents[i].due

Bounded ==
    /\ Cardinality({o \in Ops : ~Na(o, "livre")}) <= MaxPendentes
    /\ \A i \in Intents \ {Intent1} : intents[i].status # "none" =>
          intents[Intent1].status # "none" /\ ~E("pos")

MCInit == MaquininhaInit /\ tela.alvo \in {None, Alvo1}

MCSpec == MCInit /\ [][Next /\ Cobra /\ Bounded']_allVars /\ Fairness
=============================================================================
