------------------------------ MODULE Comandas ------------------------------
(***************************************************************************)
(* The tabs of backend/src/comandas/comandas.service.ts: opening by NFC    *)
(* tap, items, closing, reopening, payment and cancellation.               *)
(*                                                                         *)
(* Requests interleave at every await.  comandasRepo.save(row) writes the  *)
(* whole row back as the handler read it, comandasRepo.update only the     *)
(* columns it names; the two differ when somebody wrote in between.        *)
(* TypeORM may also refuse to save a row whose list of items or payments   *)
(* has grown since it was read: Abort covers the refusal, the save the     *)
(* other outcome.                                                          *)
(***************************************************************************)
EXTENDS Integers, FiniteSets

CONSTANTS
    CardIds,        \* wristbands
    ComandaIds,     \* rows of comandas
    ItemIds,        \* rows of comanda_items
    Refs,           \* referencia_externa of payments made for an intent
    Requests,       \* requests that may be in flight at once
    None,           \* the null of request fields
    MaxTotal,       \* largest total of one item row, in units of money
    MaxDesconto     \* largest discount a close may grant

ASSUME ComandasAssumption ==
    /\ MaxTotal \in Nat \ {0}
    /\ MaxDesconto \in Nat
    /\ IsFiniteSet(ItemIds)
    /\ None \notin CardIds \cup ComandaIds \cup ItemIds \cup Refs

VARIABLES
    cardStatus,   \* status of the card rows
    comandas,     \* comandas rows; status "none" is no row
    itens,        \* comanda_items rows; comanda None is no row
    pagos,        \* per comanda, the sum of its CONFIRMED comanda_payments
    pagosSaldo,   \* of that, the payments with SALDO_PULSEIRA
    debitado,     \* per comanda, what pay took from the wristband's balance
    refs,         \* per reference, the comanda_payments rows that carry it
    req,          \* the requests in flight
    sobrepostos,  \* cards on which two requests were ever in flight at once (history)
    interrompidos \* cards on which a handler stopped between two writes (history)

tables == <<cardStatus, comandas, itens, pagos, pagosSaldo, debitado, refs>>
vars == <<tables, req, sobrepostos, interrompidos>>

ComandaStatus == {"none", "open", "pending_payment", "paid", "cancelled"}
CardStatus == {"active", "blocked", "exited"}
Aberta == {"open", "pending_payment"}

ComandaRow == [card : CardIds \cup {None}, status : ComandaStatus, subtotal : Nat,
               desconto : Nat, total : Nat, totalPago : Nat]
ItemRow == [comanda : ComandaIds \cup {None}, total : Nat]

NoComanda == [card |-> None, status |-> "none", subtotal |-> 0, desconto |-> 0,
              total |-> 0, totalPago |-> 0]
NoItem == [comanda |-> None, total |-> 0]
NoItens == [x \in ItemIds |-> 0]

\* "outer": a handler of another module works on the card (Payments, Exit).
Pcs == {"idle", "outer", "tapFind", "tapInsert", "addItem", "addNext",
        "removeFind", "removeItem", "recalcRead", "recalcSave", "closeSave", "reopenSave",
        "payClose", "paySum", "payAlready", "payDebit", "payInsert",
        "payUpdate", "cancelSave"}

\* A handler that stops here leaves some of its writes done and others not.
MidWrite == {"addNext", "recalcRead", "recalcSave", "payInsert", "payUpdate"}

\* lido and itens: the rows read; itens[x] = 0 when row x was not among them.
\* A payment takes saldo from the wristband and outro by other means; saldoIns
\* and outroIns are what is not yet inserted, jaPago what was paid before.
Request == [pc : Pcs, card : CardIds \cup {None}, comanda : ComandaIds \cup {None},
            item : ItemIds \cup {None}, lido : ComandaRow, itens : [ItemIds -> Nat],
            saldo : Nat, outro : Nat, saldoIns : Nat, outroIns : Nat,
            jaPago : Nat, ref : Refs \cup {None}]

Idle == [pc |-> "idle", card |-> None, comanda |-> None, item |-> None,
         lido |-> NoComanda, itens |-> NoItens, saldo |-> 0, outro |-> 0,
         saldoIns |-> 0, outroIns |-> 0, jaPago |-> 0, ref |-> None]

TypeOK ==
    /\ cardStatus \in [CardIds -> CardStatus]
    /\ comandas \in [ComandaIds -> ComandaRow]
    /\ itens \in [ItemIds -> ItemRow]
    /\ pagos \in [ComandaIds -> Nat]
    /\ pagosSaldo \in [ComandaIds -> Nat]
    /\ debitado \in [ComandaIds -> Nat]
    /\ refs \in [Refs -> Nat]
    /\ req \in [Requests -> Request]
    /\ sobrepostos \in SUBSET CardIds
    /\ interrompidos \in SUBSET CardIds

Init ==
    /\ cardStatus = [k \in CardIds |-> "active"]
    /\ comandas = [c \in ComandaIds |-> NoComanda]
    /\ itens = [x \in ItemIds |-> NoItem]
    /\ pagos = [c \in ComandaIds |-> 0]
    /\ pagosSaldo = [c \in ComandaIds |-> 0]
    /\ debitado = [c \in ComandaIds |-> 0]
    /\ refs = [f \in Refs |-> 0]
    /\ req = [p \in Requests |-> Idle]
    /\ sobrepostos = {}
    /\ interrompidos = {}
-----------------------------------------------------------------------------
(* Requests *)

At(p, pc) == req[p].pc = pc

Go(p, r) == req' = [req EXCEPT ![p] = r]
Finish(p) == Go(p, Idle)

\* Request p stops: after some of its writes and before others when meio.
Stop(p, meio) ==
    interrompidos' = IF meio THEN interrompidos \cup {req[p].card} ELSE interrompidos

Abort(p) ==
    /\ req[p].pc \notin {"idle", "outer"}
    /\ Stop(p, req[p].pc \in MidWrite)
    /\ Finish(p)
    /\ UNCHANGED tables

\* The cards that two requests work on, and the history of them: the code does
\* nothing to keep requests on one card apart.
Cruzados ==
    {k \in CardIds : \E p, q \in Requests :
        p # q /\ req[p].card = k /\ req[q].card = k}
Historia == sobrepostos' = sobrepostos \cup Cruzados'

\* The items of a comanda as find(relations: items) returns them.
ItensDe(c) == [x \in ItemIds |-> IF itens[x].comanda = c THEN itens[x].total ELSE 0]
TemItens(c) == \E x \in ItemIds : itens[x].comanda = c

\* x can be the id of a new row: ids are not given out twice, so no request
\* still holds it.
ItemNovo(x) ==
    /\ itens[x].comanda = None
    /\ \A q \in Requests : req[q].itens[x] = 0 /\ req[q].item # x

\* Sum of item totals: an item of total v is v cells.
Soma(f) == Cardinality({y \in ItemIds \X (1..MaxTotal) : y[2] <= f[y[1]]})

ComDesconto(subtotal, desconto) ==
    IF subtotal > desconto THEN subtotal - desconto ELSE 0

\* A request on comanda c that keeps what it needs of the row it read.
Lendo(pc, c, row) == [Idle EXCEPT !.pc = pc, !.card = comandas[c].card,
                                  !.comanda = c, !.lido = row]

Grava(c, row) == comandas' = [comandas EXCEPT ![c] = row]
-----------------------------------------------------------------------------
(* nfcTap *)

TapRead(p, k) ==
    /\ At(p, "idle")
    /\ cardStatus[k] = "active"
    /\ Go(p, [Idle EXCEPT !.pc = "tapFind", !.card = k])
    /\ UNCHANGED tables

ComandaSoAberta(k) ==    \* mutant: forgets the comandas awaiting payment
    {c \in ComandaIds : comandas[c].card = k /\ comandas[c].status = "open"}
ComandaAtiva(k) ==
    {c \in ComandaIds : comandas[c].card = k /\ comandas[c].status \in Aberta}

TapFind(p) ==
    /\ At(p, "tapFind")
    /\ IF ComandaAtiva(req[p].card) # {}
       THEN Finish(p)
       ELSE Go(p, [req[p] EXCEPT !.pc = "tapInsert"])
    /\ UNCHANGED tables

TapInsert(p, c) ==
    /\ At(p, "tapInsert")
    /\ comandas[c].status = "none"
    /\ Grava(c, [NoComanda EXCEPT !.card = req[p].card, !.status = "open"])
    /\ Finish(p)
    /\ UNCHANGED <<cardStatus, itens, pagos, pagosSaldo, debitado, refs>>
-----------------------------------------------------------------------------
(* addItems, removeItem and recalcTotals *)

AceitaItens(c) == comandas[c].status = "open"

AddRead(p, c) ==
    /\ comandas[c].status # "none"
    /\ At(p, "idle")
    /\ AceitaItens(c)
    /\ Go(p, [Lendo("addItem", c, NoComanda) EXCEPT !.itens = ItensDe(c)])
    /\ UNCHANGED tables

\* One input of dto.itens: a row of its own, or one more unit of the row x of
\* the list read at the start, saved whole.  More inputs may follow.
AddItem(p, x) ==
    LET r == req[p]
        v == r.itens[x] + 1
    IN  /\ r.pc \in {"addItem", "addNext"}
        /\ r.itens[x] > 0 \/ ItemNovo(x)
        /\ v <= MaxTotal
        /\ itens' = [itens EXCEPT ![x] = [comanda |-> r.comanda, total |-> v]]
        /\ Go(p, [r EXCEPT !.pc = "addNext", !.itens[x] = IF @ > 0 THEN v ELSE 0])
        /\ UNCHANGED <<cardStatus, comandas, pagos, pagosSaldo, debitado, refs>>

RemoveRead(p, c, x) ==
    /\ comandas[c].status = "open"
    /\ At(p, "idle")
    /\ Go(p, [Lendo("removeFind", c, NoComanda) EXCEPT !.item = x])
    /\ UNCHANGED tables

RemoveFind(p) ==
    /\ At(p, "removeFind")
    /\ itens[req[p].item].comanda = req[p].comanda
    /\ Go(p, [req[p] EXCEPT !.pc = "removeItem"])
    /\ UNCHANGED tables

RemoveItem(p) ==
    LET r == req[p]
    IN  /\ At(p, "removeItem")
        /\ itens' = [itens EXCEPT ![r.item] = NoItem]
        /\ Go(p, [r EXCEPT !.pc = "recalcRead"])
        /\ UNCHANGED <<cardStatus, comandas, pagos, pagosSaldo, debitado, refs>>

RecalcRead(p) ==
    LET c == req[p].comanda
    IN  /\ req[p].pc \in {"addNext", "recalcRead"}
        /\ Go(p, [Lendo("recalcSave", c, comandas[c]) EXCEPT !.itens = ItensDe(c)])
        /\ UNCHANGED tables

RecalculadaBruta(row, f) ==    \* mutant: the discount is lost
    [row EXCEPT !.subtotal = Soma(f), !.total = Soma(f)]
Recalculada(row, f) ==
    [row EXCEPT !.subtotal = Soma(f), !.total = ComDesconto(Soma(f), row.desconto)]

RecalcSave(p) ==
    /\ At(p, "recalcSave")
    /\ Grava(req[p].comanda, Recalculada(req[p].lido, req[p].itens))
    /\ Finish(p)
    /\ UNCHANGED <<cardStatus, itens, pagos, pagosSaldo, debitado, refs>>
-----------------------------------------------------------------------------
(* close, reopen and cancel *)

\* d is dto.desconto, or the discount the comanda has.
CloseRead(p, c, d) ==
    LET row == comandas[c]
    IN  /\ row.status = "open"
        /\ At(p, "idle")
        /\ TemItens(c)
        /\ Go(p, Lendo("closeSave", c,
                       [row EXCEPT !.desconto = d,
                                   !.total = ComDesconto(row.subtotal, d),
                                   !.status = "pending_payment"]))
        /\ UNCHANGED tables

Reabrivel(row) == row.status = "pending_payment" /\ row.totalPago = 0

ReopenRead(p, c) ==
    /\ Reabrivel(comandas[c])
    /\ At(p, "idle")
    /\ Go(p, Lendo("reopenSave", c, [comandas[c] EXCEPT !.status = "open"]))
    /\ UNCHANGED tables

CancelavelPorStatus(c) == comandas[c].status # "paid"    \* mutant: payments ignored
Cancelavel(c) == comandas[c].status # "paid" /\ pagos[c] = 0

CancelRead(p, c) ==
    /\ comandas[c].status # "none"
    /\ Cancelavel(c)
    /\ At(p, "idle")
    /\ Go(p, Lendo("cancelSave", c, [comandas[c] EXCEPT !.status = "cancelled"]))
    /\ UNCHANGED tables

\* The save that ends close, reopen and cancel: the whole row as it was read.
SaveRow(p) ==
    /\ req[p].pc \in {"closeSave", "reopenSave", "cancelSave"}
    /\ Grava(req[p].comanda, req[p].lido)
    /\ Finish(p)
    /\ UNCHANGED <<cardStatus, itens, pagos, pagosSaldo, debitado, refs>>
-----------------------------------------------------------------------------
(* pay: saldo units from the wristband and outro units by other means *)

PagavelSempre(c) == comandas[c].status # "none"    \* mutant: any status
Pagavel(c) ==
    \/ comandas[c].status = "pending_payment"
    \/ comandas[c].status = "open" /\ TemItens(c)

\* What pay has once it read the comanda: of the row, only its total.
PayStart(c, saldo, outro, ref) ==
    [Lendo(IF comandas[c].status = "open" THEN "payClose" ELSE "paySum", c,
           [NoComanda EXCEPT !.total = comandas[c].total])
        EXCEPT !.saldo = saldo, !.outro = outro, !.saldoIns = saldo,
               !.outroIns = outro, !.ref = ref]

PayRead(p, c, saldo, outro) ==
    /\ Pagavel(c)
    /\ At(p, "idle")
    /\ Go(p, PayStart(c, saldo, outro, None))
    /\ UNCHANGED tables

PayClose(p) ==
    LET r == req[p]
    IN  /\ At(p, "payClose")
        /\ Grava(r.comanda, [comandas[r.comanda] EXCEPT !.status = "pending_payment"])
        /\ Go(p, [r EXCEPT !.pc = "paySum"])
        /\ UNCHANGED <<cardStatus, itens, pagos, pagosSaldo, debitado, refs>>

CabeNoTotal(row, ja, soma) == soma > 0 /\ soma <= row.total    \* mutant: ja ignored
Cabe(row, ja, soma) == soma > 0 /\ soma <= row.total - ja

PaySum(p) ==
    LET r == req[p]
        ja == pagos[r.comanda]
    IN  /\ At(p, "paySum")
        /\ \/ r.lido.total <= ja /\ Go(p, [r EXCEPT !.pc = "payAlready"])
           \/ /\ Cabe(r.lido, ja, r.saldo + r.outro)
              /\ Go(p, [r EXCEPT !.jaPago = ja,
                                 !.pc = IF r.saldo > 0 THEN "payDebit" ELSE "payInsert"])
        /\ UNCHANGED tables

PayAlready(p) ==
    LET r == req[p]
    IN  /\ At(p, "payAlready")
        /\ Grava(r.comanda, [comandas[r.comanda] EXCEPT !.status = "paid",
                                                        !.totalPago = r.lido.total])
        /\ Finish(p)
        /\ UNCHANGED <<cardStatus, itens, pagos, pagosSaldo, debitado, refs>>

PayDebitUnchecked(p) ==    \* mutant: a debit that fails does not stop the payment
    LET r == req[p]
    IN  /\ At(p, "payDebit")
        /\ debitado' = IF cardStatus[r.card] = "active"
                       THEN [debitado EXCEPT ![r.comanda] = @ + r.saldo] ELSE debitado
        /\ Go(p, [r EXCEPT !.pc = "payInsert"])
        /\ UNCHANGED <<cardStatus, comandas, itens, pagos, pagosSaldo, refs>>

\* cardsService.reserve and confirm, which need an active card (see Cards).
PayDebit(p) ==
    LET r == req[p]
    IN  /\ At(p, "payDebit")
        /\ cardStatus[r.card] = "active"
        /\ debitado' = [debitado EXCEPT ![r.comanda] = @ + r.saldo]
        /\ Go(p, [r EXCEPT !.pc = "payInsert"])
        /\ UNCHANGED <<cardStatus, comandas, itens, pagos, pagosSaldo, refs>>

\* One comanda_payments row: the wristband's or the other, in either order.
PayInsert(p, s, o) ==
    LET r == req[p]
        rest == [r EXCEPT !.saldoIns = r.saldoIns - s, !.outroIns = r.outroIns - o]
    IN  /\ At(p, "payInsert")
        /\ s + o > 0
        /\ \/ s = r.saldoIns /\ o = 0
           \/ s = 0 /\ o = r.outroIns
        /\ pagos' = [pagos EXCEPT ![r.comanda] = @ + s + o]
        /\ pagosSaldo' = [pagosSaldo EXCEPT ![r.comanda] = @ + s]
        /\ refs' = IF r.ref # None THEN [refs EXCEPT ![r.ref] = @ + 1] ELSE refs
        /\ Go(p, IF rest.saldoIns + rest.outroIns = 0
                 THEN [rest EXCEPT !.pc = "payUpdate"] ELSE rest)
        /\ UNCHANGED <<cardStatus, comandas, itens, debitado>>

QuitaTudo(row, lido, novo) ==    \* mutant: a partial payment records the total
    [row EXCEPT !.totalPago = lido.total,
                !.status = IF novo >= lido.total THEN "paid" ELSE "pending_payment"]

\* totalPago and status from what pay read at its start.
Quitacao(row, lido, novo) ==
    IF novo >= lido.total
    THEN [row EXCEPT !.totalPago = lido.total, !.status = "paid"]
    ELSE [row EXCEPT !.totalPago = novo, !.status = "pending_payment"]

PayUpdate(p) ==
    LET r == req[p]
    IN  /\ At(p, "payUpdate")
        /\ Grava(r.comanda, Quitacao(comandas[r.comanda], r.lido,
                                     r.jaPago + r.saldo + r.outro))
        /\ Finish(p)
        /\ UNCHANGED <<cardStatus, itens, pagos, pagosSaldo, debitado, refs>>
-----------------------------------------------------------------------------
\* Cards are blocked, unblocked, collected and reactivated (Cards, Exit).
SetCard(k, st) ==
    /\ cardStatus' = [cardStatus EXCEPT ![k] = st]
    /\ UNCHANGED <<comandas, itens, pagos, pagosSaldo, debitado, refs, req>>

Start(p) ==
    \/ \E k \in CardIds : TapRead(p, k)
    \/ \E c \in ComandaIds :
          \/ AddRead(p, c)
          \/ \E x \in ItemIds : RemoveRead(p, c, x)
          \/ \E d \in {comandas[c].desconto} \cup 0..MaxDesconto : CloseRead(p, c, d)
          \/ ReopenRead(p, c)
          \/ CancelRead(p, c)
          \/ \E saldo, outro \in 0..MaxTotal : PayRead(p, c, saldo, outro)

Continue(p) ==
    \/ TapFind(p)
    \/ \E c \in ComandaIds : TapInsert(p, c)
    \/ \E x \in ItemIds : AddItem(p, x)
    \/ RemoveFind(p)
    \/ RemoveItem(p)
    \/ RecalcRead(p)
    \/ RecalcSave(p)
    \/ SaveRow(p)
    \/ PayClose(p)
    \/ PaySum(p)
    \/ PayAlready(p)
    \/ PayDebit(p)
    \/ \E s \in {0, req[p].saldoIns}, o \in {0, req[p].outroIns} : PayInsert(p, s, o)
    \/ PayUpdate(p)

Step ==
    \/ \E p \in Requests : Abort(p)
    \/ /\ \/ \E p \in Requests : Start(p) \/ Continue(p)
          \/ \E k \in CardIds, st \in CardStatus : SetCard(k, st)
       /\ UNCHANGED interrompidos

Next == Step /\ Historia

Spec == Init /\ [][Next]_vars
-----------------------------------------------------------------------------
(* Properties that hold under every interleaving *)

\* totalPago never claims more than the confirmed payments add up to, however
\* stale the row a handler saves: exit and the list of debtors trust it.
NeverOverstated ==
    \A c \in ComandaIds : comandas[c].totalPago <= pagos[c]

\* A payment recorded as taken from the wristband was taken from it: pay debits
\* all of them before it inserts the first row.
WalletPaymentsDebited ==
    \A c \in ComandaIds : pagosSaldo[c] <= debitado[c]
-----------------------------------------------------------------------------
(* Properties of the cards on which requests never overlapped, though they may
   have stopped at any await *)

Separada(c) == comandas[c].card \notin sobrepostos

\* A wristband carries one comanda at a time: nfcTap returns the active one,
\* open or awaiting payment, and opens another only when there is none.
OneActiveComanda ==
    \A c, d \in ComandaIds :
        /\ Separada(c)
        /\ comandas[c].status \in Aberta
        /\ comandas[d].status \in Aberta
        /\ comandas[c].card = comandas[d].card
        => c = d

\* paid is final, a cancelled comanda stays so, a comanda is paid only after it
\* stopped taking items ("nao aceita mais itens"), and its items change only while
\* it is open.
ComandaLifecycle ==
    [][\A c \in ComandaIds : Separada(c)' =>
          LET was == comandas[c].status
              is == comandas'[c].status
          IN  /\ was # is =>
                    \/ was = "none" /\ is = "open"
                    \/ was = "open" /\ is \in {"pending_payment", "cancelled"}
                    \/ was = "pending_payment" /\ is \in {"open", "paid", "cancelled"}
              /\ was \notin {"none", "open"} => ItensDe(c)' = ItensDe(c)]_vars
-----------------------------------------------------------------------------
(* Properties of the cards on which, besides, no handler stopped half way *)

Calma(c) == comandas[c].card \notin sobrepostos \cup interrompidos

\* Between requests the totals of a comanda are those of its items.
TotalMatchesItems ==
    \A c \in ComandaIds :
        /\ Calma(c)
        /\ comandas[c].status # "none"
        /\ \A p \in Requests : req[p].card # comandas[c].card
        => /\ comandas[c].subtotal = Soma(ItensDe(c))
           /\ comandas[c].total = ComDesconto(comandas[c].subtotal, comandas[c].desconto)

\* The customer never pays more than the comanda costs.
NoOverpay ==
    \A c \in ComandaIds : Calma(c) => pagos[c] <= comandas[c].total

\* A paid comanda is covered by its payments and says so, none with money in it is
\* cancelled ("estorne antes de cancelar"), and none that takes items has any, for
\* reopen refuses one that was paid in part; the last unless a handler stopped.
FinalMatchesPayments ==
    \A c \in ComandaIds : Separada(c) =>
        /\ comandas[c].status = "paid" =>
              /\ comandas[c].total <= pagos[c]
              /\ comandas[c].totalPago = comandas[c].total
        /\ comandas[c].status = "cancelled" => pagos[c] = 0
        /\ Calma(c) /\ comandas[c].status = "open" => pagos[c] = 0
-----------------------------------------------------------------------------
(* What the code claims whatever overlaps or stops *)

\* "so libera o cartao para nova comanda apos quitacao total": what was paid
\* covers the items of a paid comanda, less its discount.
PaidCoversItems ==
    \A c \in ComandaIds : comandas[c].status = "paid" =>
        ComDesconto(Soma(ItensDe(c)), comandas[c].desconto) <= pagos[c]
=============================================================================
