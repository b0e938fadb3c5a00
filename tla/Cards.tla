------------------------------- MODULE Cards -------------------------------
(***************************************************************************)
(* The wristband wallet of backend/src/cards/cards.service.ts: balance,    *)
(* reserves with a time to live, recharge by payment intent or cash,       *)
(* refund, transfer and blocking.                                          *)
(*                                                                         *)
(* Every handler is an async function: between two awaits of one request   *)
(* the steps of the others run.  A request is a slot p of Requests and     *)
(* req[p] holds what its local variables hold, above all the card row it   *)
(* read (lido).  Saving an entity with TypeORM compares it with the row as *)
(* it is now and updates every column that differs, so a save writes the   *)
(* whole row back as the handler read it, changed where the handler        *)
(* changed it.  A database transaction is one step.                        *)
(*                                                                         *)
(* A check that throws leaves no trace but the request's end, which is     *)
(* Abort: it may stop any request between two awaits, as a failed check, a *)
(* database error or a restart of the server do.                           *)
(***************************************************************************)
EXTENDS Integers, FiniteSets

CONSTANTS
    CardIds,        \* wristbands (rows of cards, by uid)
    ReserveIds,     \* rows of saldo_reserves
    IntentIds,      \* rows of payment_intents with purpose 'recharge'
    CaixaIds,       \* rows of cash_sessions
    Requests,       \* requests that may be in flight at once
    None,           \* the null of the request fields below
    MaxValor,       \* largest amount a request names, in units of money
    ExigeCaixa      \* event.exigeCaixaAberto

ASSUME CardsAssumption ==
    /\ MaxValor \in Nat \ {0}
    /\ ExigeCaixa \in BOOLEAN
    /\ IsFiniteSet(ReserveIds)
    /\ None \notin CardIds \cup ReserveIds \cup IntentIds \cup CaixaIds

VARIABLES
    cards,        \* card rows: saldo and status; "absent" is no row
    inicial,      \* saldo_inicial each card row was created with
    extrato,      \* per card, credits minus debits and refunds of its Transaction rows
    reserves,     \* saldo_reserves rows; due: expiraEm is in the past
    debitos,      \* per reserve, the DEBIT transactions its confirmations wrote
    intents,      \* payment_intents rows; dinheiro: created by a cash recharge
    aprovados,    \* intents that were APPROVED at some time (history)
    recharges,    \* per intent, the rows of recharges that name it
    caixa,        \* cash_sessions rows: status
    movimentos,   \* per intent, the RECHARGE cash movements written for it
    evento,       \* status of the event the cards belong to
    req,          \* the requests in flight
    sobrepostos,  \* cards of which two copies were ever in flight at once (history)
    descobertos   \* cards of which more than is free was ever to be refunded (history)

tables == <<cards, inicial, extrato, reserves, debitos, intents, aprovados,
            recharges, caixa, movimentos, evento>>
vars == <<tables, req, sobrepostos, descobertos>>

Valores == 1..MaxValor
CardStatus == {"absent", "active", "blocked", "exited"}
ReserveStatus == {"none", "active", "confirmed", "expired", "rolled_back"}
IntentStatus == {"none", "awaiting_customer", "approved", "expired", "cancelled"}

CardRow == [saldo : Int, status : CardStatus]
ReserveRow == [card : CardIds \cup {None}, valor : Nat, status : ReserveStatus,
               due : BOOLEAN]
IntentRow == [card : CardIds \cup {None}, valor : Nat, status : IntentStatus,
              dinheiro : BOOLEAN]

NoCard == [saldo |-> 0, status |-> "absent"]
NoReserve == [card |-> None, valor |-> 0, status |-> "none", due |-> FALSE]
NoIntent == [card |-> None, valor |-> 0, status |-> "none", dinheiro |-> FALSE]

Pcs == {"idle", "rechargePayment", "rechargeCommit", "rechargeMovement",
        "reserveSum", "reserveInsert",
        "confirmReserve", "confirmExpire", "confirmCommit", "rollbackSave",
        "refundSum", "refundCommit", "statusSave",
        "transferTo", "transferSum", "transferCommit"}

Request == [pc : Pcs, card : CardIds \cup {None}, para : CardIds \cup {None},
            valor : Int, reserve : ReserveIds \cup {None},
            intent : IntentIds \cup {None}, caixa : CaixaIds \cup {None},
            status : CardStatus, lido : CardRow, lidoPara : CardRow]

Idle == [pc |-> "idle", card |-> None, para |-> None, valor |-> 0,
         reserve |-> None, intent |-> None, caixa |-> None,
         status |-> "absent", lido |-> NoCard, lidoPara |-> NoCard]

\* The tables and the requests in flight; TypeOK adds the history.
DataOK ==
    /\ cards \in [CardIds -> CardRow]
    /\ inicial \in [CardIds -> Nat]
    /\ extrato \in [CardIds -> Int]
    /\ reserves \in [ReserveIds -> ReserveRow]
    /\ debitos \in [ReserveIds -> Nat]
    /\ intents \in [IntentIds -> IntentRow]
    /\ aprovados \in SUBSET IntentIds
    /\ recharges \in [IntentIds -> Nat]
    /\ caixa \in [CaixaIds -> {"none", "open", "closed"}]
    /\ movimentos \in [IntentIds -> Nat]
    /\ evento \in {"active", "closed"}
    /\ req \in [Requests -> Request]

TypeOK ==
    /\ DataOK
    /\ sobrepostos \in SUBSET CardIds
    /\ descobertos \in SUBSET CardIds

Init ==
    /\ cards = [c \in CardIds |-> NoCard]
    /\ inicial = [c \in CardIds |-> 0]
    /\ extrato = [c \in CardIds |-> 0]
    /\ reserves = [r \in ReserveIds |-> NoReserve]
    /\ debitos = [r \in ReserveIds |-> 0]
    /\ intents = [i \in IntentIds |-> NoIntent]
    /\ aprovados = {}
    /\ recharges = [i \in IntentIds |-> 0]
    /\ caixa = [s \in CaixaIds |-> "none"]
    /\ movimentos = [i \in IntentIds |-> 0]
    /\ evento = "active"
    /\ req = [p \in Requests |-> Idle]
    /\ sobrepostos = {}
    /\ descobertos = {}
-----------------------------------------------------------------------------
(* Requests *)

At(p, pc) == req[p].pc = pc

CardsOf(q) == {req[q].card, req[q].para} \ {None}

Go(p, r) == req' = [req EXCEPT ![p] = r]
Finish(p) == Go(p, Idle)

Abort(p) ==
    /\ ~At(p, "idle")
    /\ Finish(p)
    /\ UNCHANGED tables

(* Reserved amounts: a reserve of v units is v cells, so that the sum of the
   ACTIVE ones is the number of their cells. *)

Cells(c, rs) ==
    {x \in ReserveIds \X Valores :
        /\ rs[x[1]].card = c
        /\ rs[x[1]].status = "active"
        /\ x[2] <= rs[x[1]].valor}

Reserved(c, rs) == Cardinality(Cells(c, rs))

\* expireOldReserves: the reserves of card c once those past their TTL are EXPIRED
ExpireOldReserves(c) ==
    [r \in ReserveIds |->
        IF reserves[r].card = c /\ reserves[r].status = "active" /\ reserves[r].due
        THEN [reserves[r] EXCEPT !.status = "expired"]
        ELSE reserves[r]]

\* getAvailableBalance: from the card row the caller already holds
Available(row, c) == row.saldo - Reserved(c, ExpireOldReserves(c))

\* The cards of which two copies are in flight, each to be saved over the other:
\* two requests work on the card, or a transfer reads it as its origin and as its
\* target.  The code keeps neither apart.
Cruzados ==
    {c \in CardIds : \E p, q \in Requests :
        IF p = q THEN req[p].card = c /\ req[p].para = c
                 ELSE c \in CardsOf(p) \cap CardsOf(q)}

\* The cards a refund is about to take more from than no ACTIVE reserve holds:
\* nothing compares dto.valor with the balance or with the reserves.
Excedidos ==
    {c \in CardIds : \E p \in Requests :
        /\ At(p, "refundCommit") /\ req[p].card = c
        /\ req[p].valor > req[p].lido.saldo - Reserved(c, reserves)}

Historia ==
    /\ sobrepostos' = sobrepostos \cup Cruzados'
    /\ descobertos' = descobertos \cup Excedidos'

\* Money added to a card row the handler holds.
PlusOverwrites(row, v) == [row EXCEPT !.saldo = v]    \* mutant: sets, not adds
Plus(row, v) == [row EXCEPT !.saldo = row.saldo + v]

SetReserve(r, st) == [reserves EXCEPT ![r].status = st]
-----------------------------------------------------------------------------
(* Cards and intents *)

\* Cards are created with the bar's first balance; the uid is unique in the
\* database, so that of two overlapping creations one fails.
Create(c, s) ==
    /\ cards[c].status = "absent"
    /\ cards' = [cards EXCEPT ![c] = [saldo |-> s, status |-> "active"]]
    /\ inicial' = [inicial EXCEPT ![c] = s]
    /\ UNCHANGED <<extrato, reserves, debitos, intents, aprovados, recharges,
                   caixa, movimentos, evento, req>>

\* PIX or card.  The card is ACTIVE when it is read; the row is inserted after the
\* charge at the provider, whatever became of the card meanwhile.
CreateRechargeIntent(c, i, v) ==
    /\ cards[c].status # "absent"
    /\ intents[i].status = "none"
    /\ intents' = [intents EXCEPT ![i] = [card |-> c, valor |-> v,
                       status |-> "awaiting_customer", dinheiro |-> FALSE]]
    /\ UNCHANGED <<cards, inicial, extrato, reserves, debitos, aprovados,
                   recharges, caixa, movimentos, evento, req>>

\* What payments.service does to a recharge intent: confirm approves it, expiry
\* and cancel end it, and a cancel or an expiry that read the row before the
\* approval overwrites it, as a confirmation may a cancel.  Payments models those handlers.
ResolveIntent(i, st) ==
    /\ intents[i].status # "none"
    /\ ~intents[i].dinheiro
    /\ st \in {"approved", "expired", "cancelled"}
    /\ intents' = [intents EXCEPT ![i].status = st]
    /\ aprovados' = IF st = "approved" THEN aprovados \cup {i} ELSE aprovados
    /\ UNCHANGED <<cards, inicial, extrato, reserves, debitos, recharges, caixa,
                   movimentos, evento, req>>

\* Time: the TTL of an ACTIVE reserve runs out (RESERVE_TTL_MS).
TtlPasses(r) ==
    /\ reserves[r].status = "active"
    /\ ~reserves[r].due
    /\ reserves' = [reserves EXCEPT ![r].due = TRUE]
    /\ UNCHANGED <<cards, inicial, extrato, debitos, intents, aprovados,
                   recharges, caixa, movimentos, evento, req>>

\* cash.service opens and closes the sessions, events.service closes the event.
Caixa(s) ==
    /\ \/ caixa[s] = "none" /\ evento = "active" /\ caixa' = [caixa EXCEPT ![s] = "open"]
       \/ caixa[s] = "open" /\ caixa' = [caixa EXCEPT ![s] = "closed"]
    /\ UNCHANGED <<cards, inicial, extrato, reserves, debitos, intents, aprovados,
                   recharges, movimentos, evento, req>>

EncerraEvento ==
    /\ evento = "active"
    /\ evento' = "closed"
    /\ UNCHANGED <<cards, inicial, extrato, reserves, debitos, intents, aprovados,
                   recharges, caixa, movimentos, req>>
-----------------------------------------------------------------------------
(* recharge *)

RechargeRead(p, c, v, i) ==
    /\ At(p, "idle")
    /\ cards[c].status = "active"
    /\ evento = "active"
    /\ Go(p, [Idle EXCEPT !.pc = "rechargePayment", !.card = c, !.valor = v,
                          !.intent = i, !.lido = cards[c]])
    /\ UNCHANGED tables

JaCreditadaNunca(i) == FALSE    \* mutant: the check of recharges is missing
JaCreditada(i) == recharges[i] > 0

AprovadoSeVivo(i) == intents[i].status # "cancelled"    \* mutant: a wrong status test
Aprovado(i) == intents[i].status = "approved"

\* A recharge paid by intent: purpose, card, status, amount, not yet credited.
RechargeCheckIntent(p) ==
    LET r == req[p]
        i == r.intent
    IN  /\ At(p, "rechargePayment")
        /\ i # None
        /\ intents[i].card = r.card
        /\ Aprovado(i)
        /\ intents[i].valor = r.valor
        /\ ~JaCreditada(i)
        /\ Go(p, [r EXCEPT !.pc = "rechargeCommit"])
        /\ UNCHANGED tables

\* A recharge in cash: requireOpen, then an intent born APPROVED.
RechargeCash(p, i, s) ==
    LET r == req[p]
    IN  /\ At(p, "rechargePayment")
        /\ r.intent = None
        /\ evento = "active"
        /\ IF ExigeCaixa THEN s # None /\ caixa[s] = "open" ELSE s = None
        /\ intents[i].status = "none"
        /\ intents' = [intents EXCEPT ![i] = [card |-> r.card, valor |-> r.valor,
                           status |-> "approved", dinheiro |-> TRUE]]
        /\ aprovados' = aprovados \cup {i}
        /\ Go(p, [r EXCEPT !.pc = "rechargeCommit", !.intent = i, !.caixa = s])
        /\ UNCHANGED <<cards, inicial, extrato, reserves, debitos, recharges,
                       caixa, movimentos, evento>>

\* One transaction: the card row, the recharge row and its CREDIT.
RechargeCommit(p) ==
    LET r == req[p]
    IN  /\ At(p, "rechargeCommit")
        /\ cards' = [cards EXCEPT ![r.card] = Plus(r.lido, r.valor)]
        /\ recharges' = [recharges EXCEPT ![r.intent] = @ + 1]
        /\ extrato' = [extrato EXCEPT ![r.card] = @ + r.valor]
        /\ IF r.caixa # None THEN Go(p, [r EXCEPT !.pc = "rechargeMovement"])
                             ELSE Finish(p)
        /\ UNCHANGED <<inicial, reserves, debitos, intents, aprovados, caixa,
                       movimentos, evento>>

RechargeMovementRetried(p) ==    \* mutant: a retry repeats the movement
    LET r == req[p]
    IN  /\ At(p, "rechargeMovement")
        /\ caixa[r.caixa] = "open"
        /\ movimentos' = [movimentos EXCEPT ![r.intent] = @ + 1]
        /\ UNCHANGED <<cards, inicial, extrato, reserves, debitos, intents,
                       aprovados, recharges, caixa, evento, req>>

\* After the commit: addMovement throws when the session closed meanwhile.
RechargeMovement(p) ==
    LET r == req[p]
    IN  /\ At(p, "rechargeMovement")
        /\ caixa[r.caixa] = "open"
        /\ movimentos' = [movimentos EXCEPT ![r.intent] = @ + 1]
        /\ Finish(p)
        /\ UNCHANGED <<cards, inicial, extrato, reserves, debitos, intents,
                       aprovados, recharges, caixa, evento>>
-----------------------------------------------------------------------------
(* reserve *)

ReserveRead(p, c, v) ==
    /\ At(p, "idle")
    /\ cards[c].status = "active"
    /\ Go(p, [Idle EXCEPT !.pc = "reserveSum", !.card = c, !.valor = v,
                          !.lido = cards[c]])
    /\ UNCHANGED tables

SaldoTotalSuficiente(row, c, v) == row.saldo >= v    \* mutant: ignores reserves
SaldoSuficiente(row, c, v) == Available(row, c) >= v

\* expireOldReserves stays even when the balance is too small.
ReserveSum(p) ==
    LET r == req[p]
    IN  /\ At(p, "reserveSum")
        /\ reserves' = ExpireOldReserves(r.card)
        /\ IF SaldoSuficiente(r.lido, r.card, r.valor)
           THEN Go(p, [r EXCEPT !.pc = "reserveInsert"])
           ELSE Finish(p)
        /\ UNCHANGED <<cards, inicial, extrato, debitos, intents, aprovados,
                       recharges, caixa, movimentos, evento>>

FreeRow(n) == reserves[n].status = "none"

ReserveInsert(p, n) ==
    LET r == req[p]
    IN  /\ At(p, "reserveInsert")
        /\ FreeRow(n)
        /\ reserves' = [reserves EXCEPT ![n] = [card |-> r.card, valor |-> r.valor,
                            status |-> "active", due |-> FALSE]]
        /\ Finish(p)
        /\ UNCHANGED <<cards, inicial, extrato, debitos, intents, aprovados,
                       recharges, caixa, movimentos, evento>>
-----------------------------------------------------------------------------
(* confirm and rollback *)

ConfirmRead(p, c, n) ==
    /\ At(p, "idle")
    /\ cards[c].status # "absent"
    /\ Go(p, [Idle EXCEPT !.pc = "confirmReserve", !.card = c, !.reserve = n,
                          !.lido = cards[c]])
    /\ UNCHANGED tables

ConfirmavelSempre(n, c) == reserves[n].card = c    \* mutant: any status
Confirmavel(n, c) == reserves[n].card = c /\ reserves[n].status = "active"

ConfirmReserveEarly(p) ==    \* mutant: CONFIRMED is saved before the transaction
    LET r == req[p]
        n == r.reserve
    IN  /\ At(p, "confirmReserve")
        /\ Confirmavel(n, r.card)
        /\ ~reserves[n].due
        /\ reserves' = SetReserve(n, "confirmed")
        /\ Go(p, [r EXCEPT !.pc = "confirmCommit", !.valor = reserves[n].valor])
        /\ UNCHANGED <<cards, inicial, extrato, debitos, intents, aprovados,
                       recharges, caixa, movimentos, evento>>

ConfirmReserve(p) ==
    LET r == req[p]
        n == r.reserve
    IN  /\ At(p, "confirmReserve")
        /\ Confirmavel(n, r.card)
        /\ Go(p, [r EXCEPT !.pc = IF reserves[n].due THEN "confirmExpire"
                                                    ELSE "confirmCommit",
                           !.valor = reserves[n].valor])
        /\ UNCHANGED tables

ConfirmExpire(p) ==
    /\ At(p, "confirmExpire")
    /\ reserves' = SetReserve(req[p].reserve, "expired")
    /\ Finish(p)
    /\ UNCHANGED <<cards, inicial, extrato, debitos, intents, aprovados,
                   recharges, caixa, movimentos, evento>>

\* One transaction: the card row, the reserve and its DEBIT.
ConfirmCommit(p) ==
    LET r == req[p]
    IN  /\ At(p, "confirmCommit")
        /\ cards' = [cards EXCEPT ![r.card] =
                        [r.lido EXCEPT !.saldo = r.lido.saldo - r.valor]]
        /\ reserves' = SetReserve(r.reserve, "confirmed")
        /\ debitos' = [debitos EXCEPT ![r.reserve] = @ + 1]
        /\ extrato' = [extrato EXCEPT ![r.card] = @ - r.valor]
        /\ Finish(p)
        /\ UNCHANGED <<inicial, intents, aprovados, recharges, caixa, movimentos,
                       evento>>

Reversivel(n) == reserves[n].status \notin {"none", "confirmed"}

\* rollback is by reserve id alone: the card row is not read.
RollbackRead(p, n) ==
    /\ At(p, "idle")
    /\ Reversivel(n)
    /\ Go(p, [Idle EXCEPT !.pc = "rollbackSave", !.card = reserves[n].card,
                          !.reserve = n])
    /\ UNCHANGED tables

RollbackSave(p) ==
    /\ At(p, "rollbackSave")
    /\ reserves' = SetReserve(req[p].reserve, "rolled_back")
    /\ Finish(p)
    /\ UNCHANGED <<cards, inicial, extrato, debitos, intents, aprovados,
                   recharges, caixa, movimentos, evento>>
-----------------------------------------------------------------------------
(* refund: v = 0 stands for no dto.valor, the whole available balance; an amount
   that is named is compared with nothing *)

RefundRead(p, c, v) ==
    /\ At(p, "idle")
    /\ cards[c].status # "absent"
    /\ Go(p, [Idle EXCEPT !.pc = IF v > 0 THEN "refundCommit" ELSE "refundSum",
                          !.card = c, !.valor = v, !.lido = cards[c]])
    /\ UNCHANGED tables

RefundSum(p) ==
    LET r == req[p]
        v == Available(r.lido, r.card)
    IN  /\ At(p, "refundSum")
        /\ reserves' = ExpireOldReserves(r.card)
        /\ IF v > 0 THEN Go(p, [r EXCEPT !.pc = "refundCommit", !.valor = v])
                    ELSE Finish(p)
        /\ UNCHANGED <<cards, inicial, extrato, debitos, intents, aprovados,
                       recharges, caixa, movimentos, evento>>

RefundCommit(p) ==
    LET r == req[p]
    IN  /\ At(p, "refundCommit")
        /\ cards' = [cards EXCEPT ![r.card] =
                        [r.lido EXCEPT !.saldo = r.lido.saldo - r.valor]]
        /\ extrato' = [extrato EXCEPT ![r.card] = @ - r.valor]
        /\ Finish(p)
        /\ UNCHANGED <<inicial, reserves, debitos, intents, aprovados, recharges,
                       caixa, movimentos, evento>>
-----------------------------------------------------------------------------
(* block, unblock; exit.service and customers.service save card rows the same
   way, to EXITED on release and to ACTIVE on reactivation and check-in *)

StatusRead(p, c, st) ==
    /\ At(p, "idle")
    /\ cards[c].status # "absent"
    /\ Go(p, [Idle EXCEPT !.pc = "statusSave", !.card = c, !.status = st,
                          !.lido = cards[c]])
    /\ UNCHANGED tables

StatusSave(p) ==
    LET r == req[p]
    IN  /\ At(p, "statusSave")
        /\ cards' = [cards EXCEPT ![r.card] = [r.lido EXCEPT !.status = r.status]]
        /\ Finish(p)
        /\ UNCHANGED <<inicial, extrato, reserves, debitos, intents, aprovados,
                       recharges, caixa, movimentos, evento>>
-----------------------------------------------------------------------------
(* transfer from card c to card d, created when it has no row; nothing compares
   the two uids *)

TransferRead(p, c, d) ==
    /\ At(p, "idle")
    /\ cards[c].status # "absent"
    /\ Go(p, [Idle EXCEPT !.pc = "transferTo", !.card = c, !.para = d,
                          !.lido = cards[c]])
    /\ UNCHANGED tables

TargetRowActive(d) ==    \* mutant: activates the card that receives
    [saldo |-> cards[d].saldo, status |-> "active"]
TargetRow(d) ==
    IF cards[d].status = "absent" THEN [saldo |-> 0, status |-> "active"]
                                  ELSE cards[d]

TransferTo(p) ==
    LET r == req[p]
        row == TargetRow(r.para)
    IN  /\ At(p, "transferTo")
        /\ cards' = [cards EXCEPT ![r.para] = row]
        /\ Go(p, [r EXCEPT !.pc = "transferSum", !.lidoPara = row])
        /\ UNCHANGED <<inicial, extrato, reserves, debitos, intents, aprovados,
                       recharges, caixa, movimentos, evento>>

TransferSum(p) ==
    LET r == req[p]
        v == Available(r.lido, r.card)
    IN  /\ At(p, "transferSum")
        /\ reserves' = ExpireOldReserves(r.card)
        /\ IF v > 0 THEN Go(p, [r EXCEPT !.pc = "transferCommit", !.valor = v])
                    ELSE Finish(p)
        /\ UNCHANGED <<cards, inicial, extrato, debitos, intents, aprovados,
                       recharges, caixa, movimentos, evento>>

\* One transaction: both rows, in this order, a DEBIT and a CREDIT.
TransferCommit(p) ==
    LET r == req[p]
        from == [saldo |-> r.lido.saldo - r.valor, status |-> "blocked"]
        to == Plus(r.lidoPara, r.valor)
    IN  /\ At(p, "transferCommit")
        /\ cards' = [cards EXCEPT ![r.card] = from, ![r.para] = to]
        /\ extrato' = [extrato EXCEPT ![r.card] = @ - r.valor,
                                      ![r.para] = @ + r.valor]
        /\ Finish(p)
        /\ UNCHANGED <<inicial, reserves, debitos, intents, aprovados, recharges,
                       caixa, movimentos, evento>>
-----------------------------------------------------------------------------
Start(p) ==
    \/ \E c \in CardIds, v \in Valores, i \in IntentIds \cup {None} :
          RechargeRead(p, c, v, i)
    \/ \E c \in CardIds, v \in Valores : ReserveRead(p, c, v)
    \/ \E c \in CardIds, n \in ReserveIds : ConfirmRead(p, c, n)
    \/ \E n \in ReserveIds : RollbackRead(p, n)
    \/ \E c \in CardIds, v \in Valores \cup {0} : RefundRead(p, c, v)
    \/ \E c \in CardIds, st \in CardStatus \ {"absent"} : StatusRead(p, c, st)
    \/ \E c, d \in CardIds : TransferRead(p, c, d)

Continue(p) ==
    \/ RechargeCheckIntent(p)
    \/ \E i \in IntentIds, s \in CaixaIds \cup {None} : RechargeCash(p, i, s)
    \/ RechargeCommit(p)
    \/ RechargeMovement(p)
    \/ ReserveSum(p)
    \/ \E n \in ReserveIds : ReserveInsert(p, n)
    \/ ConfirmReserve(p)
    \/ ConfirmExpire(p)
    \/ ConfirmCommit(p)
    \/ RollbackSave(p)
    \/ RefundSum(p)
    \/ RefundCommit(p)
    \/ StatusSave(p)
    \/ TransferTo(p)
    \/ TransferSum(p)
    \/ TransferCommit(p)

Outside ==
    \/ \E c \in CardIds, s \in Valores \cup {0} : Create(c, s)
    \/ \E c \in CardIds, i \in IntentIds, v \in Valores : CreateRechargeIntent(c, i, v)
    \/ \E i \in IntentIds, st \in IntentStatus : ResolveIntent(i, st)
    \/ \E n \in ReserveIds : TtlPasses(n)
    \/ \E s \in CaixaIds : Caixa(s)
    \/ EncerraEvento

Next ==
    /\ \/ Outside
       \/ \E p \in Requests : Start(p) \/ Continue(p) \/ Abort(p)
    /\ Historia

Spec == Init /\ [][Next]_vars
-----------------------------------------------------------------------------
(* Properties that hold under every interleaving *)

\* A reserve is CONFIRMED only together with the DEBIT that takes its value
\* from the card: confirm writes both in one transaction and no other handler
\* writes CONFIRMED, however rollback and expiry overlap with it.
ConfirmedHasDebit ==
    \A n \in ReserveIds : reserves[n].status = "confirmed" => debitos[n] > 0

\* Nobody is credited for a payment that was never approved, or approved for
\* another card or amount: the check sees the intent APPROVED for both.
CreditWasApproved ==
    /\ \A i \in IntentIds : recharges[i] > 0 => i \in aprovados
    /\ \A p \in Requests : At(p, "rechargeCommit") =>
          /\ req[p].intent \in aprovados
          /\ intents[req[p].intent].card = req[p].card
          /\ intents[req[p].intent].valor = req[p].valor

\* Cash enters the drawer only for a recharge that was credited, and once:
\* the movement follows the commit.
MovementAfterCredit ==
    \A i \in IntentIds :
        /\ movimentos[i] <= recharges[i]
        /\ movimentos[i] > 0 => intents[i].dinheiro

\* No handler makes a reserve ACTIVE again or gives it another card or value,
\* so money once released is never held a second time by the same reserve.
ReserveNeverRevives ==
    [][\A n \in ReserveIds : reserves[n].status # "none" =>
          /\ reserves'[n].status = "active" => reserves[n].status = "active"
          /\ reserves'[n].card = reserves[n].card
          /\ reserves'[n].valor = reserves[n].valor]_vars
-----------------------------------------------------------------------------
(* Properties of the cards on which requests never overlapped and which were
   never transferred to themselves *)

\* The balance of a card is what it was created with plus its Transaction
\* rows: no write of recharge, confirm, refund or transfer is lost.
SaldoMatchesExtrato ==
    \A c \in CardIds \ sobrepostos : cards[c].saldo = inicial[c] + extrato[c]

\* One approved payment is credited once ("Esta recarga já foi creditada").
CreditedOnce ==
    \A i \in IntentIds : intents[i].card \notin sobrepostos => recharges[i] <= 1

\* A reserve is debited exactly when it is CONFIRMED, and once.
OneDebitPerConfirm ==
    \A n \in ReserveIds : reserves[n].card \notin sobrepostos =>
        debitos[n] = IF reserves[n].status = "confirmed" THEN 1 ELSE 0

\* As long as no refund names more than is free, the reserves that still hold
\* money never exceed the balance: every one of them can be confirmed without the
\* balance going below zero.
Held(c) == Reserved(c, ExpireOldReserves(c))
NoOverReserve ==
    \A c \in CardIds \ (sobrepostos \cup descobertos) : Held(c) <= cards[c].saldo
-----------------------------------------------------------------------------
(* What the code claims whatever overlaps *)

\* "bloqueia double credit" (money-guards.spec.ts): an approved intent is never
\* credited twice, not even by two terminals at once.
OneRechargePerIntent ==
    \A i \in IntentIds : recharges[i] <= 1
=============================================================================
