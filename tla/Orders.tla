------------------------------- MODULE Orders -------------------------------
(***************************************************************************)
(* Counter sales, backend/src/orders/orders.service.ts: an order is        *)
(* opened, items are added, and checkout debits its total to a wristband   *)
(* by a reserve that it confirms at once (cards.service, of which this     *)
(* module keeps what they leave to an order: the debits).                  *)
(*                                                                         *)
(* Requests are slots as in Cards, and a save writes back the whole order  *)
(* as it was read, its relation items with it: a row of order_items that   *)
(* is not among the items that were read would lose its order_id, which is *)
(* not nullable, so the save throws once an item was inserted since        *)
(* (Inalterado).  That is what becomes of every addItems that inserts one: *)
(* its items stay and the order's total does not grow.                     *)
(*                                                                         *)
(* A check or a save that throws, and a stop of the server, are Desiste.   *)
(***************************************************************************)
EXTENDS Integers, FiniteSets

CONSTANTS
    OrderIds,    \* rows of orders
    Requests,    \* requests that may be in flight at once
    None,        \* null
    Precos       \* line totals of the items requests name; a product may be free

ASSUME OrdersAssumption ==
    /\ Precos \subseteq Nat
    /\ None \notin OrderIds

VARIABLES
    orders,       \* rows: status and total
    linhas,       \* per order, the rows of order_items
    itens,        \* per order, the sum of their totals
    debitado,     \* per order, what its checkouts debited to a wristband
    debitos,      \* per order, how many debits that was
    demo,         \* orders created by fiscal/demo-order, which no wristband pays
    req,          \* the requests in flight
    perturbados   \* orders two requests that may save them ever worked on at once,
                  \* or on which one stopped that had debited, or a demo (history)

orderTables == <<orders, linhas, itens, debitado, debitos, demo>>
orderVars == <<orderTables, req, perturbados>>

OrderStatus == {"none", "open", "paid"}
OrderRow == [status : OrderStatus, total : Nat]
Request == [pc : {"idle", "addItems", "reserve", "confirm", "paid", "demo"},
            order : OrderIds \cup {None},
            lido : OrderRow, lidas : Nat,     \* the order and its items as read
            novas : Nat, novo : Nat]          \* items inserted, and their sum

NoOrder == [status |-> "none", total |-> 0]
Idle == [pc |-> "idle", order |-> None, lido |-> NoOrder, lidas |-> 0,
         novas |-> 0, novo |-> 0]

OrdersTypeOK ==
    /\ orders \in [OrderIds -> OrderRow]
    /\ linhas \in [OrderIds -> Nat]
    /\ itens \in [OrderIds -> Nat]
    /\ debitado \in [OrderIds -> Nat]
    /\ debitos \in [OrderIds -> Nat]
    /\ demo \in SUBSET OrderIds
    /\ req \in [Requests -> Request]
    /\ perturbados \in SUBSET OrderIds

OrdersInit ==
    /\ orders = [o \in OrderIds |-> NoOrder]
    /\ linhas = [o \in OrderIds |-> 0]
    /\ itens = [o \in OrderIds |-> 0]
    /\ debitado = [o \in OrderIds |-> 0]
    /\ debitos = [o \in OrderIds |-> 0]
    /\ demo = {}
    /\ req = [p \in Requests |-> Idle]
    /\ perturbados = {}

At(p, pc) == req[p].pc = pc
Go(p, r) == req' = [req EXCEPT ![p] = r]
Finish(p) == Go(p, Idle)

\* A request that may still save its order: not an addItems that inserted an item.
Grava(r) == r.pc # "addItems" \/ r.novas = 0

Cruzados ==
    {o \in OrderIds : \E p, q \in Requests :
        /\ p # q /\ req[p].order = o /\ req[q].order = o
        /\ Grava(req[p]) /\ Grava(req[q])}
Historia(parado) == perturbados' = perturbados \cup Cruzados' \cup parado

\* Something was written that the request's last save was to complete: a debit, or
\* the items of a demo order.  An addItems that stops is the normal course.
Incompleto(p) == At(p, "paid") \/ At(p, "demo")

\* What the save of an order read with its items needs.
Inalterado(p) == linhas[req[p].order] = req[p].lidas

Desiste(p) ==
    /\ ~At(p, "idle")
    /\ Finish(p)
    /\ UNCHANGED orderTables
    /\ Historia(IF Incompleto(p) THEN {req[p].order} ELSE {})
-----------------------------------------------------------------------------
Create(o) ==
    /\ orders[o] = NoOrder
    /\ orders' = [orders EXCEPT ![o].status = "open"]
    /\ UNCHANGED <<linhas, itens, debitado, debitos, demo, req>>
    /\ Historia({})

\* addItems: the order, then every item with its product, then the order again.
Aberto(o) == orders[o].status = "open"
NaoCancelado(o) == orders[o].status # "none"    \* mutant: a paid order takes items

Aceita(o) == Aberto(o)

AddRead(p, o) ==
    /\ At(p, "idle")
    /\ Aceita(o)
    /\ Go(p, [Idle EXCEPT !.pc = "addItems", !.order = o, !.lido = orders[o],
                          !.lidas = linhas[o]])
    /\ UNCHANGED orderTables
    /\ Historia({})

AddItem(p, preco) ==
    /\ At(p, "addItems")
    /\ linhas' = [linhas EXCEPT ![req[p].order] = @ + 1]
    /\ itens' = [itens EXCEPT ![req[p].order] = @ + preco]
    /\ Go(p, [req[p] EXCEPT !.novas = @ + 1, !.novo = @ + preco])
    /\ UNCHANGED <<orders, debitado, debitos, demo>>
    /\ Historia({})

\* The request may name no item at all: then the row is written as it was read.
AddSave(p) ==
    LET q == req[p]
    IN  /\ At(p, "addItems")
        /\ Inalterado(p)
        /\ orders' = [orders EXCEPT ![q.order] = [q.lido EXCEPT !.total = @ + q.novo]]
        /\ Finish(p)
        /\ UNCHANGED <<linhas, itens, debitado, debitos, demo>>
        /\ Historia({})
-----------------------------------------------------------------------------
(* checkout *)

QualquerStatus(o) == orders[o].status # "none"    \* mutant: a paid order again
Finalizavel(o) == Aberto(o)

CheckoutRead(p, o) ==
    /\ At(p, "idle")
    /\ Finalizavel(o)
    /\ Go(p, [Idle EXCEPT !.pc = "reserve", !.order = o, !.lido = orders[o],
                          !.lidas = linhas[o]])
    /\ UNCHANGED orderTables
    /\ Historia({})

\* cards.reserve of the total that was read: a reserve is no debit.
Reserve(p) ==
    /\ At(p, "reserve")
    /\ Go(p, [req[p] EXCEPT !.pc = "confirm"])
    /\ UNCHANGED orderTables
    /\ Historia({})

\* cards.confirm: one transaction.
Confirm(p) ==
    LET o == req[p].order
    IN  /\ At(p, "confirm")
        /\ debitado' = [debitado EXCEPT ![o] = @ + req[p].lido.total]
        /\ debitos' = [debitos EXCEPT ![o] = @ + 1]
        /\ Go(p, [req[p] EXCEPT !.pc = "paid"])
        /\ UNCHANGED <<orders, linhas, itens, demo>>
        /\ Historia({})

CheckoutSave(p) ==
    /\ At(p, "paid")
    /\ Inalterado(p)
    /\ orders' = [orders EXCEPT ![req[p].order] = [req[p].lido EXCEPT !.status = "paid"]]
    /\ Finish(p)
    /\ UNCHANGED <<linhas, itens, debitado, debitos, demo>>
    /\ Historia({})
-----------------------------------------------------------------------------
(* fiscal.createDemoPaidOrder: a paid order of total 0, items, then its total; the
   order that is saved is the one that was inserted, without a relation items *)

DemoInsert(p, o) ==
    /\ At(p, "idle")
    /\ orders[o] = NoOrder
    /\ orders' = [orders EXCEPT ![o].status = "paid"]
    /\ demo' = demo \cup {o}
    /\ Go(p, [Idle EXCEPT !.pc = "demo", !.order = o])
    /\ UNCHANGED <<linhas, itens, debitado, debitos>>
    /\ Historia({})

DemoItem(p, preco) ==
    /\ At(p, "demo")
    /\ linhas' = [linhas EXCEPT ![req[p].order] = @ + 1]
    /\ itens' = [itens EXCEPT ![req[p].order] = @ + preco]
    /\ Go(p, [req[p] EXCEPT !.novas = @ + 1, !.novo = @ + preco])
    /\ UNCHANGED <<orders, debitado, debitos, demo>>
    /\ Historia({})

DemoSave(p) ==
    /\ At(p, "demo")
    /\ req[p].novas > 0
    /\ orders' = [orders EXCEPT ![req[p].order] = [status |-> "paid", total |-> req[p].novo]]
    /\ Finish(p)
    /\ UNCHANGED <<linhas, itens, debitado, debitos, demo>>
    /\ Historia({})
-----------------------------------------------------------------------------
OrdersOwnNext ==
    \/ \E o \in OrderIds : Create(o)
    \/ \E p \in Requests :
          \/ \E o \in OrderIds : AddRead(p, o) \/ CheckoutRead(p, o) \/ DemoInsert(p, o)
          \/ \E preco \in Precos : AddItem(p, preco) \/ DemoItem(p, preco)
          \/ AddSave(p) \/ Reserve(p) \/ Confirm(p) \/ CheckoutSave(p) \/ DemoSave(p)
          \/ Desiste(p)

OrdersSpec == OrdersInit /\ [][OrdersOwnNext]_orderVars
-----------------------------------------------------------------------------
(* Properties *)

\* A checkout debits a wristband the order's total, once, and the order is PAID exactly
\* when it was; and the total of a demo order is that of its items: on every order of
\* which no two requests that may save it overlapped and no checkout stopped between
\* the debit and its save, whatever the addItems on it do.
PagoConfere ==
    \A o \in OrderIds \ perturbados :
        (\A p \in Requests : req[p].order = o => ~Grava(req[p])) =>
            /\ o \in demo => itens[o] = orders[o].total
            /\ o \notin demo =>
                 /\ debitado[o] = IF orders[o].status = "paid" THEN orders[o].total ELSE 0
                 /\ debitos[o] = IF orders[o].status = "paid" THEN 1 ELSE 0

\* An addItems that found the order open and has inserted an item.
Acrescentando(o) == \E p \in Requests : req[p].order = o /\ ~Grava(req[p])

\* What was paid for stays as it was: no later request opens a paid order again, debits
\* it a second time or adds items to it, but for an addItems that was inserting them
\* before.
PagoFica ==
    [][\A o \in OrderIds \ (perturbados' \cup demo) :
         orders[o].status = "paid" =>
             /\ orders'[o] = orders[o] /\ debitos'[o] = debitos[o]
             /\ Acrescentando(o) \/ (linhas'[o] = linhas[o] /\ itens'[o] = itens[o])
      ]_orderVars
-----------------------------------------------------------------------------
(* What the repository says of a checkout *)

\* "Pedidos e checkout via pulseira" (README.md:119): a sale that a wristband paid was
\* debited what the order holds.
PagoCobrado ==
    \A o \in OrderIds \ (perturbados \cup demo) :
        orders[o].status = "paid" => debitado[o] = itens[o]
=============================================================================
