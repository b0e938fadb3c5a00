------------------------------ MODULE MCCards ------------------------------
(***************************************************************************)
(* TLC instances of Cards.  MaxSaldo bounds balances and statements, and   *)
(* MaxDivida how far a balance goes below zero: overlapping whole-row      *)
(* saves, refunds of a named amount and transfers of a card to itself      *)
(* create or destroy money without end.                                    *)
(* Requests on different cards overlap without limit.  Once two overlapped *)
(* on one card, one transfers a card to itself or one refunds more than is *)
(* free (in any state reached until then), those in flight run to their    *)
(* end, in any order of their steps, and the behaviour stops there (Fim).  *)
(* The event is closed while a request is in flight, if at all.            *)
(***************************************************************************)
EXTENDS Carteira, TLC

CONSTANTS MaxSaldo, MaxDivida

Bounded ==
    \A c \in CardIds :
        /\ cards[c].saldo \in -MaxDivida..MaxSaldo
        /\ extrato[c] \in -MaxSaldo..MaxSaldo

Encerrando == sobrepostos \cup descobertos # {}

UltimoEncontro == Encerrando => \A p \in Requests : At(p, "idle") => req'[p] = req[p]

\* From then on a request that stops is one that does not go on.
SemAbort == Encerrando => \A p \in Requests : ~Abort(p)

Fim == Encerrando /\ UNCHANGED vars

Encerra == evento' # evento => \E p \in Requests : ~At(p, "idle")

MCNext == (Next /\ Bounded' /\ UltimoEncontro /\ SemAbort /\ Encerra) \/ Fim
MCSpec == Init /\ [][MCNext]_vars

\* What the handlers ask of a status is whether it is ACTIVE, and of an intent whether
\* it is APPROVED or to be paid: one other is enough.
Estados ==
    /\ \A i \in IntentIds : intents[i].status # "cancelled"
    /\ \A c \in CardIds : cards[c].status # "exited"
    /\ \A p \in Requests : req[p].status # "exited"

\* A state belongs to the wallet or to recharges, which meet on the card row alone.
\* The wallet: reserves, refunds and transfers while the event is on.  Once a reserve
\* was given back the other is not ended; both may be confirmed.
PcsRecarga == {"rechargePayment", "rechargeCommit", "rechargeMovement"}
Encerradas(sts) == {n \in ReserveIds : reserves[n].status \in sts}
SoCarteira ==
    /\ \/ Cardinality(Encerradas({"confirmed", "expired", "rolled_back"})) <= 1
       \/ Encerradas({"expired", "rolled_back"}) = {}
    /\ evento = "active"
    /\ \A i \in IntentIds : intents[i] = NoIntent
    /\ \A s \in CaixaIds : caixa[s] = "none"
    /\ \A p \in Requests : req[p].pc \notin PcsRecarga

\* Recharges, refunds of a named amount and changes of status, with the drawers,
\* the end of the event and balances of at most 1; one of two requests recharges.
SoRecarga ==
    /\ \A n \in ReserveIds : reserves[n] = NoReserve
    /\ \A c \in CardIds : cards[c].saldo <= 1 /\ extrato[c] \in -1..1
    /\ \A p \in Requests :
          req[p].pc \in PcsRecarga \cup {"idle", "refundCommit", "statusSave"}
    /\ Cardinality({p \in Requests : req[p].pc \in {"refundCommit", "statusSave"}}) <= 1

Assunto == Estados /\ (SoCarteira \/ SoRecarga)

MCCardsSpec == Init /\ [][MCNext /\ Assunto']_vars

Symmetry ==
    Permutations(CardIds) \cup Permutations(ReserveIds)
    \cup Permutations(IntentIds) \cup Permutations(Requests)
=============================================================================
