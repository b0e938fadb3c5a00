-------------------------------- MODULE Exit --------------------------------
(***************************************************************************)
(* Control of the exit, backend/src/exit/exit.service.ts: release decides  *)
(* from the comandas of the card whether the customer may leave, cancels   *)
(* the empty open ones and collects the card; reactivateCard puts it back  *)
(* into use.  Composed with Comandas, whose handlers run meanwhile.        *)
(*                                                                         *)
(* A request of this module works in the slot p of Comandas: req[p] is at  *)
(* "outer" and ex[p] holds its variables.                                  *)
(***************************************************************************)
EXTENDS Comandas

VARIABLES
    saidas,   \* per card, its exits rows with status RELEASED
    ex        \* per slot, the handler of this module

exitVars == <<saidas, ex>>
allVars == <<vars, exitVars>>

ExitPcs == {"none", "check", "cancelEmpty", "insert", "saveExited",
            "countActive", "saveActive"}
\* saiu: the card was EXITED when it was read; forcada: the release is FORCED,
\* asked for by force where check found a debt.
ExitRequest == [pc : ExitPcs, forcar : BOOLEAN, saiu : BOOLEAN, forcada : BOOLEAN]
NoExit == [pc |-> "none", forcar |-> FALSE, saiu |-> FALSE, forcada |-> FALSE]

ExitTypeOK ==
    /\ TypeOK
    /\ saidas \in [CardIds -> Nat]
    /\ ex \in [Requests -> ExitRequest]

ExitInit ==
    /\ Init
    /\ saidas = [k \in CardIds |-> 0]
    /\ ex = [p \in Requests |-> NoExit]

ExAt(p, pc) == ex[p].pc = pc
ExGo(p, pc) == ex' = [ex EXCEPT ![p].pc = pc]

Enter(p, k, r) ==
    /\ At(p, "idle")
    /\ Go(p, [Idle EXCEPT !.pc = "outer", !.card = k])
    /\ ex' = [ex EXCEPT ![p] = r]

Leave(p) == Finish(p) /\ ex' = [ex EXCEPT ![p] = NoExit]

ExitAbort(p) ==
    /\ ~ExAt(p, "none")
    /\ Stop(p, ex[p].pc \in {"insert", "saveExited"})
    /\ Leave(p)
    /\ UNCHANGED <<tables, saidas>>
-----------------------------------------------------------------------------
(* check *)

\* A comanda that keeps the customer in: one awaiting payment with something
\* left to pay, or an open one that is not empty.
PendenteSoTotal(c) ==    \* mutant: an open comanda counts by its total alone
    \/ /\ comandas[c].status = "pending_payment"
       /\ comandas[c].total > comandas[c].totalPago
    \/ comandas[c].status = "open" /\ comandas[c].total > 0
Pendente(c) ==
    \/ /\ comandas[c].status = "pending_payment"
       /\ comandas[c].total > comandas[c].totalPago
    \/ comandas[c].status = "open" /\ (comandas[c].total > 0 \/ TemItens(c))

TemDivida(k) == \E c \in ComandaIds : comandas[c].card = k /\ Pendente(c)

\* release reads the card, then its comandas.
ReleaseRead(p, k, forcar) ==
    /\ Enter(p, k, [NoExit EXCEPT !.pc = "check", !.forcar = forcar,
                              !.saiu = cardStatus[k] = "exited"])
    /\ UNCHANGED <<tables, saidas>>

PodeLiberarSempre(k, forcar) == TRUE    \* mutant: the decision is only shown
PodeLiberar(k, forcar) == forcar \/ ~TemDivida(k)

\* ja_liberado: a card already collected is released again only by force.
ReleaseCheck(p) ==
    LET k == req[p].card
    IN  /\ ExAt(p, "check")
        /\ PodeLiberar(k, ex[p].forcar)
        /\ ex[p].saiu => ex[p].forcar
        /\ ex' = [ex EXCEPT ![p].pc = "cancelEmpty",
                            ![p].forcada = ex[p].forcar /\ TemDivida(k)]
        /\ UNCHANGED <<tables, req, saidas>>

Vazia(c) == comandas[c].status = "open" /\ comandas[c].total = 0

\* One UPDATE: the open comandas of the card that cost nothing are CANCELLED.
ReleaseCancelEmpty(p) ==
    /\ ExAt(p, "cancelEmpty")
    /\ comandas' = [c \in ComandaIds |->
          IF comandas[c].card = req[p].card /\ Vazia(c)
          THEN [comandas[c] EXCEPT !.status = "cancelled"] ELSE comandas[c]]
    /\ ExGo(p, "insert")
    /\ UNCHANGED <<cardStatus, itens, pagos, pagosSaldo, debitado, refs, req, saidas>>

ReleaseInsert(p) ==
    /\ ExAt(p, "insert")
    /\ saidas' = IF ex[p].forcada THEN saidas
                 ELSE [saidas EXCEPT ![req[p].card] = @ + 1]
    /\ ExGo(p, "saveExited")
    /\ UNCHANGED <<tables, req>>

ReleaseSave(p) ==
    /\ ExAt(p, "saveExited")
    /\ cardStatus' = [cardStatus EXCEPT ![req[p].card] = "exited"]
    /\ Leave(p)
    /\ UNCHANGED <<comandas, itens, pagos, pagosSaldo, debitado, refs, saidas>>
-----------------------------------------------------------------------------
(* reactivateCard *)

ReactivateRead(p, k) ==
    /\ Enter(p, k, [NoExit EXCEPT !.pc = "countActive"])
    /\ UNCHANGED <<tables, saidas>>

Reativavel(k) == ComandaAtiva(k) = {}

ReactivateCount(p) ==
    /\ ExAt(p, "countActive")
    /\ Reativavel(req[p].card)
    /\ ExGo(p, "saveActive")
    /\ UNCHANGED <<tables, req, saidas>>

ReactivateSave(p) ==
    /\ ExAt(p, "saveActive")
    /\ cardStatus' = [cardStatus EXCEPT ![req[p].card] = "active"]
    /\ Leave(p)
    /\ UNCHANGED <<comandas, itens, pagos, pagosSaldo, debitado, refs, saidas>>
-----------------------------------------------------------------------------
ExitStart(p) ==
    \/ \E k \in CardIds, forcar \in BOOLEAN : ReleaseRead(p, k, forcar)
    \/ \E k \in CardIds : ReactivateRead(p, k)

ExitContinue(p) ==
    \/ ReleaseCheck(p)
    \/ ReleaseCancelEmpty(p)
    \/ ReleaseInsert(p)
    \/ ReleaseSave(p)
    \/ ReactivateCount(p)
    \/ ReactivateSave(p)

\* The steps of Comandas; there a card is blocked or unblocked, not collected.
ComandasStep ==
    /\ Step
    /\ \A k \in CardIds : cardStatus'[k] = "exited" => cardStatus[k] = "exited"
    /\ UNCHANGED exitVars

ExitStep ==
    \/ ComandasStep
    \/ \E p \in Requests : ExitAbort(p)
    \/ /\ \E p \in Requests : ExitStart(p) \/ ExitContinue(p)
       /\ UNCHANGED interrompidos

ExitNext == ExitStep /\ Historia

ExitSpec == ExitInit /\ [][ExitNext]_allVars
-----------------------------------------------------------------------------
(* Properties of the cards on which requests never overlapped, though they may
   have stopped at any await *)

\* "so libera se nao houver pendencia" (README.md): a RELEASED row is written
\* only while the card has no debt, though check decided several awaits before.
ReleasedOwesNothing ==
    [][\A k \in CardIds \ sobrepostos' : saidas'[k] # saidas[k] => ~TemDivida(k)]_allVars

\* The release cancels residual comandas, never one that has items: the
\* customer's consumption would vanish with it.
OnlyEmptyCancelled ==
    [][\A p \in Requests, c \in ComandaIds :
          /\ Separada(c)'
          /\ ExAt(p, "cancelEmpty") /\ ~ex[p].forcada
          /\ comandas[c].status # "cancelled" /\ comandas'[c].status = "cancelled"
          /\ comandas[c].card = req[p].card
          => ~TemItens(c)]_allVars
=============================================================================
