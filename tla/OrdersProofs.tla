---------------------------- MODULE OrdersProofs ----------------------------
(***************************************************************************)
(* Theorems about Orders, and about Fiscal composed with it, for every     *)
(* number of orders, requests, emissions and documents and every price.    *)
(*                                                                         *)
(* The argument: an addItems that inserted an item can no longer save its  *)
(* order, for the order has more rows than it read (Held).  An order       *)
(* outside perturbados is in the hands of at most one request that can     *)
(* (Apart), so what that request read is what the row says, and the debits *)
(* stand where its program counter says they are between its writes        *)
(* (Busy).  When no such request has it, row and debits agree (Settled).   *)
(***************************************************************************)
EXTENDS Fiscal, FiniteSetTheorems, TLAPS

\* A request names an order while it is in flight, which it found open unless it
\* is a demo, and has a sum only if it inserted an item.
SoundRequest ==
    {r \in Request :
        /\ IF r.pc = "idle" THEN r.order = None ELSE r.order \in OrderIds
        /\ r.pc \in {"addItems", "reserve", "confirm", "paid"} => r.lido.status = "open"
        /\ r.novas = 0 => r.novo = 0}

TypeInv == OrdersTypeOK /\ req \in [Requests -> SoundRequest]

\* What a request in flight may count on, whoever else is at work on its order.
Holds(p) ==
    ~At(p, "idle") =>
        /\ orders[req[p].order].status # "none"
        /\ req[p].order \in demo <=> At(p, "demo")
        /\ At(p, "addItems") => req[p].lidas + req[p].novas <= linhas[req[p].order]

Held ==
    /\ \A p \in Requests : Holds(p)
    /\ \A o \in demo : orders[o].status = "paid"

\* Request r is at work on order o and may save it.
Tem(o, r) == r.order = o /\ Grava(r)

Apart ==
    \A p, q \in Requests :
        p # q /\ Tem(req[p].order, req[p]) /\ Tem(req[p].order, req[q]) =>
            req[p].order \in {None} \cup perturbados

\* What no request that may save it is at work on.
Settled(o) ==
    /\ orders[o].status = "none" => itens[o] = 0
    /\ o \in demo => itens[o] = orders[o].total
    /\ o \notin demo =>
         /\ debitado[o] = IF orders[o].status = "paid" THEN orders[o].total ELSE 0
         /\ debitos[o] = IF orders[o].status = "paid" THEN 1 ELSE 0

\* An order between the writes of request r, the one request that may save it.
Busy(o, r) ==
    IF r.pc = "demo"
    THEN orders[o] = [status |-> "paid", total |-> 0] /\ itens[o] = r.novo
    ELSE /\ orders[o] = r.lido
         /\ debitado[o] = IF r.pc = "paid" THEN r.lido.total ELSE 0
         /\ debitos[o] = IF r.pc = "paid" THEN 1 ELSE 0

Kept(o) ==
    /\ (\A p \in Requests : ~Tem(o, req[p])) => Settled(o)
    /\ \A p \in Requests : Tem(o, req[p]) => Busy(o, req[p])

OrderInv == TypeInv /\ Held /\ Apart /\ \A o \in OrderIds \ perturbados : Kept(o)
-----------------------------------------------------------------------------
LEMMA IdleSound == Idle \in SoundRequest
BY DEF Idle, SoundRequest, Request, NoOrder, OrderRow, OrderStatus

\* Every step of a request moves its slot and records meetings.
LEMMA HistoryApart ==
    ASSUME TypeInv', NEW parado, Historia(parado)
    PROVE  Apart' /\ perturbados \subseteq perturbados' /\ parado \subseteq perturbados'
<1>1. \A p \in Requests : req'[p].order \in OrderIds \cup {None}
  BY DEF TypeInv, SoundRequest, Request
<1> QED BY <1>1 DEF Apart, Tem, Historia, Cruzados, Grava

LEMMA OrdersInitInv == OrdersInit => OrderInv
BY OrdersAssumption, IdleSound
DEF OrdersInit, OrderInv, TypeInv, OrdersTypeOK, Held, Holds, At, Apart, Kept, Tem, Settled,
    Idle, NoOrder, OrderRow, OrderStatus, SoundRequest, Request
-----------------------------------------------------------------------------
(* What one step of request p on order o leaves alone, and what is then left *)
(* to show of o.                                                             *)

Rows(x) == <<orders[x], linhas[x], itens[x], debitado[x], debitos[x], x \in demo>>

OnlyAt(p, o) ==
    /\ req' = [req EXCEPT ![p] = req'[p]]
    /\ \A x \in OrderIds \ {o} : Rows(x)' = Rows(x)
    /\ req[p].order \in {None, o} /\ req'[p].order \in {None, o}
    /\ o \in {req[p].order, req'[p].order}
    /\ perturbados \subseteq perturbados'

\* Order o does not vanish or become a demo, and loses no row.
Onward(o) ==
    /\ orders[o].status # "none" => orders'[o].status # "none" /\ (o \in demo' <=> o \in demo)
    /\ o \in demo' => orders'[o].status = "paid"
    /\ linhas[o] <= linhas'[o]

\* An order another request is at work on: its rows are as they were.
LEMMA StepElsewhere ==
    ASSUME OrderInv, NEW p \in Requests, NEW o \in OrderIds, OnlyAt(p, o),
           NEW x \in OrderIds \ perturbados', x # o
    PROVE  Kept(x)'
<1>1. x \notin perturbados /\ Kept(x)
  BY DEF OnlyAt, OrderInv
<1>2. \A q \in Requests : q # p => req'[q] = req[q]
  BY DEF OnlyAt, OrderInv, TypeInv, OrdersTypeOK
<1>3. req[p].order # x /\ req'[p].order # x
  BY OrdersAssumption DEF OnlyAt
<1>4. \A q \in Requests : Tem(x, req'[q]) <=> Tem(x, req[q])
  BY <1>2, <1>3 DEF Tem
<1>5. /\ orders'[x] = orders[x] /\ itens'[x] = itens[x] /\ debitado'[x] = debitado[x]
      /\ debitos'[x] = debitos[x] /\ (x \in demo) = (x \in demo')
  BY DEF OnlyAt, Rows
<1>6. Settled(x) => Settled(x)'
  BY <1>5 DEF Settled
<1>7. ASSUME NEW q \in Requests, Tem(x, req'[q]), Busy(x, req[q]) PROVE Busy(x, req[q])'
  <2>1. req'[q] = req[q]
    BY <1>2, <1>3, <1>7 DEF Tem
  <2> QED BY <1>7, <2>1, <1>5 DEF Busy
<1>8. /\ (\A q \in Requests : ~Tem(x, req'[q])) => Settled(x)'
      /\ \A q \in Requests : Tem(x, req'[q]) => Busy(x, req[q])'
  BY <1>1, <1>4, <1>6, <1>7 DEF Kept
<1> QED BY <1>8 DEF Kept, Tem, Grava

\* What requests count on stands when p may count on it.
LEMMA HeldStep ==
    ASSUME OrderInv, TypeInv', NEW p \in Requests, NEW o \in OrderIds, OnlyAt(p, o),
           Onward(o), Holds(p)'
    PROVE  Held'
<1>1. ASSUME NEW q \in Requests PROVE Holds(q)'
  <2>1. CASE q = p
    BY <2>1
  <2>2. CASE q # p
    <3>1. req'[q] = req[q] /\ Holds(q) /\ req[q] \in SoundRequest
      BY <2>2 DEF OnlyAt, OrderInv, TypeInv, OrdersTypeOK, Held
    <3> SUFFICES ASSUME req[q].pc # "idle" PROVE Holds(q)'
      BY <3>1 DEF Holds, At
    <3>2. req[q].order \in OrderIds /\ req[q].lidas \in Nat /\ req[q].novas \in Nat
      BY <3>1 DEF SoundRequest, Request
    <3>3. linhas[req[q].order] \in Nat /\ linhas'[req[q].order] \in Nat
      BY <3>2 DEF OrderInv, TypeInv, OrdersTypeOK
    <3>4. CASE req[q].order = o
      BY <3>1, <3>2, <3>3, <3>4 DEF Holds, At, Onward
    <3>5. CASE req[q].order # o
      <4>1. /\ orders'[req[q].order] = orders[req[q].order]
            /\ linhas'[req[q].order] = linhas[req[q].order]
            /\ (req[q].order \in demo) = (req[q].order \in demo')
        BY <3>2, <3>5 DEF OnlyAt, Rows
      <4> QED BY <3>1, <4>1 DEF Holds, At
    <3> QED BY <3>4, <3>5
  <2> QED BY <2>1, <2>2
<1>2. ASSUME NEW x \in demo' PROVE orders'[x].status = "paid"
  <2>1. x \in OrderIds
    BY DEF TypeInv, OrdersTypeOK
  <2>2. x # o => orders'[x] = orders[x] /\ x \in demo
    BY <2>1 DEF OnlyAt, Rows
  <2> QED BY <2>2 DEF Onward, OrderInv, Held
<1> QED BY <1>1, <1>2 DEF Held

\* A step of a request that may save its order, or takes one up, keeps the invariant
\* when it leaves the order as Kept demands.
LEMMA StepInv ==
    ASSUME OrderInv, TypeInv', Apart', NEW p \in Requests, NEW o \in OrderIds, OnlyAt(p, o),
           Onward(o), Holds(p)', Grava(req[p]), req[p].order = o \/ Grava(req'[p]),
           o \notin perturbados' =>
               IF Tem(o, req'[p]) THEN Busy(o, req[p])' ELSE Settled(o)'
    PROVE  OrderInv'
<1>1. Held'
  BY HeldStep
<1>2. ASSUME NEW x \in OrderIds \ perturbados' PROVE Kept(x)'
  <2>1. CASE x # o
    BY <1>2, <2>1, StepElsewhere
  <2>2. CASE x = o
    <3>1. o \notin perturbados /\ Kept(o)
      BY <1>2, <2>2 DEF OnlyAt, OrderInv
    <3>2. \A q \in Requests : q # p => ~Tem(o, req'[q])
      <4> SUFFICES ASSUME NEW q \in Requests, q # p, Tem(o, req'[q]) PROVE FALSE
        OBVIOUS
      <4>1. Tem(o, req[q]) /\ req'[q] = req[q]
        BY DEF OnlyAt, OrderInv, TypeInv, OrdersTypeOK
      <4>2. CASE req[p].order = o
        <5>1. Tem(req[p].order, req[p]) /\ Tem(req[p].order, req[q])
          BY <4>1, <4>2 DEF Tem
        <5>2. o \in {None} \cup perturbados
          BY <5>1, <4>2 DEF OrderInv, Apart
        <5> QED BY <3>1, <5>2, OrdersAssumption
      <4>3. CASE req'[p].order = o /\ Grava(req'[p])
        <5>1. \A r, s \in Requests :
                r # s /\ req'[r].order = o /\ req'[s].order = o /\ Grava(req'[r])
                      /\ Grava(req'[s]) => o \in {None} \cup perturbados'
          BY DEF Apart, Tem, Grava
        <5> QED BY <4>1, <4>3, <5>1, <2>2, OrdersAssumption DEF Tem
      <4> QED BY <4>2, <4>3 DEF OnlyAt
    <3>3. /\ (\A q \in Requests : ~Tem(o, req'[q])) => Settled(o)'
          /\ \A q \in Requests : Tem(o, req'[q]) => Busy(o, req[q])'
      BY <2>2, <3>2
    <3> QED BY <2>2, <3>3 DEF Kept, Tem, Grava
  <2> QED BY <2>1, <2>2
<1> QED BY <1>1, <1>2 DEF OrderInv

\* An addItems that has inserted an item disturbs nobody: it inserts more, or ends.
LEMMA StepAside ==
    ASSUME OrderInv, TypeInv', Apart', NEW p \in Requests, NEW o \in OrderIds, OnlyAt(p, o),
           Onward(o), Holds(p)', ~Grava(req[p]), ~Tem(o, req'[p]),
           UNCHANGED <<orders, debitado, debitos, demo>>
    PROVE  OrderInv'
<1>1. Held'
  BY HeldStep
<1>2. ASSUME NEW x \in OrderIds \ perturbados' PROVE Kept(x)'
  <2>1. CASE x # o
    BY <1>2, <2>1, StepElsewhere
  <2>2. CASE x = o
    <3>1. o \notin perturbados /\ Kept(o)
      BY <1>2, <2>2 DEF OnlyAt, OrderInv
    <3>2. req[p].pc = "addItems" /\ req[p].order = o
      <4>1. req[p] \in SoundRequest /\ req[p].pc = "addItems"
        BY DEF OrderInv, TypeInv, Grava
      <4>2. req[p].order \in OrderIds
        BY <4>1 DEF SoundRequest
      <4> QED BY <4>1, <4>2, OrdersAssumption DEF OnlyAt
    <3>3. o \notin demo /\ orders[o].status # "none"
      BY <3>2 DEF OrderInv, Held, Holds, At
    <3>4. \A q \in Requests : q # p => req'[q] = req[q]
      BY DEF OnlyAt, OrderInv, TypeInv, OrdersTypeOK
    <3>5. \A q \in Requests : Tem(o, req'[q]) <=> Tem(o, req[q])
      BY <3>4 DEF Tem
    <3>6. Settled(o) => Settled(o)'
      BY <3>3 DEF Settled
    <3>7. ASSUME NEW q \in Requests, Tem(o, req'[q]) PROVE Busy(o, req[q])'
      <4>1. q # p /\ req'[q] = req[q] /\ Tem(o, req[q])
        BY <3>4, <3>7
      <4>2. req[q].pc # "demo"
        BY <3>3, <4>1 DEF OrderInv, Held, Holds, At, Tem
      <4>3. Busy(o, req[q])
        BY <3>1, <4>1 DEF Kept
      <4> QED BY <4>1, <4>2, <4>3 DEF Busy
    <3>8. /\ (\A q \in Requests : ~Tem(o, req'[q])) => Settled(o)'
          /\ \A q \in Requests : Tem(o, req'[q]) => Busy(o, req[q])'
      BY <3>1, <3>5, <3>6, <3>7 DEF Kept
    <3> QED BY <2>2, <3>8 DEF Kept, Tem, Grava
  <2> QED BY <2>1, <2>2
<1> QED BY <1>1, <1>2 DEF OrderInv

\* A step types the state when it types its rows and its own slot.
LEMMA StepType ==
    ASSUME TypeInv, NEW p \in Requests, NEW r \in SoundRequest, req' = [req EXCEPT ![p] = r],
           orders' \in [OrderIds -> OrderRow], linhas' \in [OrderIds -> Nat],
           itens' \in [OrderIds -> Nat],
           debitado' \in [OrderIds -> Nat], debitos' \in [OrderIds -> Nat],
           demo' \subseteq OrderIds, NEW parado \in SUBSET OrderIds, Historia(parado)
    PROVE  TypeInv' /\ req'[p] = r
<1>1. SoundRequest \subseteq Request
  BY DEF SoundRequest
<1>2. /\ req' \in [Requests -> SoundRequest] /\ req' \in [Requests -> Request]
      /\ req'[p] = r
  BY <1>1 DEF TypeInv
<1>3. perturbados' \subseteq OrderIds
  BY DEF TypeInv, OrdersTypeOK, Historia, Cruzados
<1> QED BY <1>2, <1>3 DEF TypeInv, OrdersTypeOK

\* What a request in flight and its order look like before its next step.
LEMMA BusyHere ==
    ASSUME OrderInv, NEW p \in Requests, ~At(p, "idle")
    PROVE  /\ req[p].order \in OrderIds /\ Holds(p)
           /\ req[p] \in SoundRequest /\ req[p] \in Request
           /\ req[p].order \notin perturbados /\ Grava(req[p]) => Busy(req[p].order, req[p])
BY DEF OrderInv, TypeInv, OrdersTypeOK, SoundRequest, At, Kept, Held, Tem

\* What an order looks like that a request takes up and nobody else may save.
LEMMA FreeHere ==
    ASSUME OrderInv, Apart', NEW p \in Requests, NEW o \in OrderIds, At(p, "idle"),
           Tem(o, req'[p]), req' = [req EXCEPT ![p] = req'[p]],
           perturbados \subseteq perturbados', o \notin perturbados'
    PROVE  Settled(o)
<1>1. \A q \in Requests : ~Tem(o, req[q])
  <2> SUFFICES ASSUME NEW q \in Requests, Tem(o, req[q]) PROVE FALSE
    OBVIOUS
  <2>1. q # p /\ req'[q] = req[q]
    BY OrdersAssumption DEF OrderInv, TypeInv, OrdersTypeOK, SoundRequest, At, Tem
  <2>2. \A r, s \in Requests :
          r # s /\ req'[r].order = o /\ req'[s].order = o /\ Grava(req'[r])
                /\ Grava(req'[s]) => o \in {None} \cup perturbados'
    BY DEF Apart, Tem, Grava
  <2> QED BY <2>1, <2>2, OrdersAssumption DEF Tem
<1> QED BY <1>1 DEF OrderInv, Kept

\* Only an addItems that inserted nothing gets past its save.
LEMMA SaveIsEmpty ==
    ASSUME OrderInv, NEW p \in Requests, At(p, "addItems"), Inalterado(p)
    PROVE  req[p].novas = 0 /\ req[p].novo = 0 /\ Grava(req[p])
<1>1. /\ req[p].lidas \in Nat /\ req[p].novas \in Nat
      /\ req[p].novas = 0 => req[p].novo = 0
      /\ req[p].lidas + req[p].novas <= linhas[req[p].order]
  BY BusyHere DEF Holds, At, SoundRequest, Request
<1>2. linhas[req[p].order] = req[p].lidas
  BY DEF Inalterado
<1> QED BY <1>1, <1>2 DEF Grava
-----------------------------------------------------------------------------
(* The steps *)

\* A request that takes up an order whose row it reads.
LEMMA ReadStep ==
    ASSUME OrderInv, NEW p \in Requests, NEW o \in OrderIds,
           AddRead(p, o) \/ CheckoutRead(p, o)
    PROVE  OrderInv'
<1>a. PICK pc \in {"addItems", "reserve"} :
        /\ req' = [req EXCEPT ![p] = [Idle EXCEPT !.pc = pc, !.order = o,
                                                  !.lido = orders[o], !.lidas = linhas[o]]]
        /\ req[p].pc = "idle" /\ orders[o].status = "open"
        /\ UNCHANGED <<orders, linhas, itens, debitado, debitos, demo>> /\ Historia({})
  BY DEF AddRead, CheckoutRead, Aceita, Finalizavel, Aberto, Go, At, orderTables
<1> DEFINE r == [Idle EXCEPT !.pc = pc, !.order = o, !.lido = orders[o], !.lidas = linhas[o]]
<1>r. /\ r.pc = pc /\ r.order = o /\ r.lido = orders[o] /\ r.lidas = linhas[o]
      /\ r.novas = 0 /\ r.novo = 0
  BY DEF Idle
<1>1. TypeInv' /\ req'[p] = r
  <2>1. TypeInv /\ orders[o] \in OrderRow /\ linhas[o] \in Nat
    BY DEF OrderInv, TypeInv, OrdersTypeOK
  <2>2. r \in SoundRequest
    BY <2>1, <1>a DEF Idle, SoundRequest, Request
  <2> HIDE DEF r
  <2>3. req' = [req EXCEPT ![p] = r]
    BY <1>a DEF r
  <2> QED
    BY <1>a, <2>1, <2>2, <2>3, StepType DEF TypeInv, OrdersTypeOK
<1> HIDE DEF r
<1>2. Apart' /\ perturbados \subseteq perturbados'
  BY <1>a, <1>1, HistoryApart
<1>3. req[p].order = None /\ Grava(req[p]) /\ Tem(o, req'[p])
  BY <1>a, <1>r, <1>1 DEF OrderInv, TypeInv, SoundRequest, Grava, Tem
<1>4. OnlyAt(p, o)
  BY <1>a, <1>r, <1>1, <1>2, <1>3 DEF OnlyAt, Rows, r
<1>5. o \notin demo /\ linhas[o] \in Nat
  BY <1>a DEF OrderInv, Held, TypeInv, OrdersTypeOK
<1>6. Onward(o) /\ Holds(p)'
  <2>1. Onward(o)
    BY <1>a, <1>5 DEF Onward
  <2>2. Holds(p)'
    <3>1. /\ req'[p].order = o /\ req'[p].pc \in {"addItems", "reserve"}
          /\ req'[p].lidas = linhas[o] /\ req'[p].novas = 0
      BY <1>r, <1>1
    <3>2. orders'[o].status # "none" /\ o \notin demo' /\ linhas'[o] = linhas[o]
      BY <1>a, <1>5
    <3> QED BY <1>5, <3>1, <3>2 DEF Holds, At
  <2> QED BY <2>1, <2>2
<1>7. ASSUME o \notin perturbados' PROVE Busy(o, req[p])'
  <2>1. Settled(o)
    BY <1>a, <1>1, <1>2, <1>3, <1>7, FreeHere DEF At, r
  <2> QED BY <1>a, <1>r, <1>1, <1>5, <2>1 DEF Busy, Settled
<1> QED BY <1>1, <1>2, <1>3, <1>4, <1>6, <1>7, StepInv DEF Tem

LEMMA AddItemStep ==
    ASSUME OrderInv, NEW p \in Requests, NEW preco \in Precos,
           AddItem(p, preco) \/ DemoItem(p, preco)
    PROVE  OrderInv'
<1> DEFINE r == [req[p] EXCEPT !.novas = @ + 1, !.novo = @ + preco]
<1>p. preco \in Nat
  BY OrdersAssumption
<1>a. /\ req' = [req EXCEPT ![p] = r] /\ req[p].pc \in {"addItems", "demo"}
      /\ linhas' = [linhas EXCEPT ![req[p].order] = @ + 1]
      /\ itens' = [itens EXCEPT ![req[p].order] = @ + preco]
      /\ UNCHANGED <<orders, debitado, debitos, demo>> /\ Historia({})
  BY DEF AddItem, DemoItem, Go, At
<1>0. PICK o \in OrderIds :
        /\ o = req[p].order /\ Holds(p) /\ req[p] \in SoundRequest /\ req[p] \in Request
        /\ o \notin perturbados /\ Grava(req[p]) => Busy(o, req[p])
  BY <1>a, BusyHere DEF At
<1>r. /\ r.pc = req[p].pc /\ r.order = o /\ r.lidas = req[p].lidas
      /\ r.novas = req[p].novas + 1 /\ r.novo = req[p].novo + preco
      /\ req[p].lidas \in Nat /\ req[p].novas \in Nat /\ req[p].novo \in Nat
  BY <1>0 DEF Request
<1>1. TypeInv' /\ req'[p] = r
  <2>1. TypeInv /\ itens' \in [OrderIds -> Nat] /\ linhas' \in [OrderIds -> Nat]
    BY <1>a, <1>p, <1>0 DEF OrderInv, TypeInv, OrdersTypeOK
  <2>2. r \in SoundRequest
    <3>1. r \in Request /\ r.pc # "idle" /\ r.order \in OrderIds /\ r.novas # 0
      <4>1. req[p] \in Request /\ req[p].novas + 1 \in Nat /\ req[p].novo + preco \in Nat
        BY <1>p, <1>0, <1>r
      <4>2. r \in Request
        BY <4>1 DEF Request
      <4> HIDE DEF r
      <4> QED BY <1>a, <1>0, <1>r, <4>2
    <3>2. r.lido = req[p].lido
      BY <1>0 DEF Request
    <3>3. r.pc \in {"addItems", "reserve", "confirm", "paid"} => r.lido.status = "open"
      BY <1>0, <1>r, <3>2 DEF SoundRequest
    <3> HIDE DEF r
    <3> QED BY <3>1, <3>3 DEF SoundRequest
  <2> HIDE DEF r
  <2> QED
    BY <1>a, <2>1, <2>2, StepType DEF TypeInv, OrdersTypeOK
<1> HIDE DEF r
<1>2. Apart' /\ perturbados \subseteq perturbados'
  BY <1>a, <1>1, HistoryApart
<1>3. /\ linhas'[o] = linhas[o] + 1 /\ linhas[o] \in Nat
      /\ itens'[o] = itens[o] + preco
  BY <1>a, <1>0 DEF OrderInv, TypeInv, OrdersTypeOK
<1>4. OnlyAt(p, o)
  BY <1>a, <1>0, <1>r, <1>1, <1>2 DEF OnlyAt, Rows, OrderInv, TypeInv, OrdersTypeOK
<1>5. Onward(o)
  BY <1>a, <1>3 DEF Onward, OrderInv, Held
<1>6. Holds(p)'
  BY <1>a, <1>0, <1>r, <1>1, <1>3 DEF Holds, At
<1>7. CASE Grava(req[p])
  <2>1. ASSUME o \notin perturbados'
        PROVE  IF Tem(o, req'[p]) THEN Busy(o, req[p])' ELSE Settled(o)'
    <3>1. Busy(o, req[p])
      BY <1>0, <1>2, <1>7, <2>1
    <3>2. CASE req[p].pc = "demo"
      BY <1>a, <1>0, <1>r, <1>1, <1>3, <3>1, <3>2 DEF Busy, Tem, Grava
    <3>3. CASE req[p].pc = "addItems"
      <4>1. orders[o].status = "open" /\ o \notin demo /\ ~Grava(req'[p])
        BY <1>0, <1>r, <1>1, <3>1, <3>3 DEF Busy, SoundRequest, Holds, At, Grava
      <4> QED BY <1>a, <3>1, <3>3, <4>1 DEF Busy, Settled, Tem
    <3> QED BY <1>a, <3>2, <3>3
  <2> QED BY <1>0, <1>1, <1>2, <1>4, <1>5, <1>6, <1>7, <2>1, StepInv
<1>8. CASE ~Grava(req[p])
  <2>1. ~Tem(o, req'[p])
    BY <1>r, <1>1, <1>8 DEF Tem, Grava
  <2> QED BY <1>a, <1>1, <1>2, <1>4, <1>5, <1>6, <1>8, <2>1, StepAside
<1> QED BY <1>7, <1>8

\* A request that ends with a save of its order.
LEMMA SaveStep ==
    ASSUME OrderInv, NEW p \in Requests, AddSave(p) \/ CheckoutSave(p) \/ DemoSave(p)
    PROVE  OrderInv'
<1>a. /\ req' = [req EXCEPT ![p] = Idle] /\ req[p].pc \in {"addItems", "paid", "demo"}
      /\ UNCHANGED <<linhas, itens, debitado, debitos, demo>> /\ Historia({})
  BY DEF AddSave, CheckoutSave, DemoSave, Finish, Go, At
<1>0. PICK o \in OrderIds :
        /\ o = req[p].order /\ Holds(p) /\ req[p] \in SoundRequest /\ req[p] \in Request
        /\ o \notin perturbados /\ Grava(req[p]) => Busy(o, req[p])
  BY <1>a, BusyHere DEF At
<1>g. Grava(req[p]) /\ (req[p].pc = "addItems" => req[p].novo = 0)
  BY <1>a, SaveIsEmpty DEF AddSave, CheckoutSave, DemoSave, At, Grava
<1>r. /\ req[p].lido \in OrderRow /\ req[p].lido.total \in Nat /\ req[p].novo \in Nat
      /\ orders \in [OrderIds -> OrderRow] /\ linhas[o] \in Nat
  BY <1>0 DEF Request, OrderRow, OrderInv, TypeInv, OrdersTypeOK
<1> DEFINE row == CASE req[p].pc = "addItems" -> req[p].lido
                    [] req[p].pc = "paid" -> [req[p].lido EXCEPT !.status = "paid"]
                    [] OTHER -> [status |-> "paid", total |-> req[p].novo]
<1>w. row \in OrderRow /\ row.status = (IF req[p].pc = "addItems" THEN "open" ELSE "paid")
  BY <1>a, <1>0, <1>r DEF OrderRow, OrderStatus, SoundRequest
<1>b. orders' = [orders EXCEPT ![o] = row]
  <2>1. CASE req[p].pc = "addItems"
    <3>1. [req[p].lido EXCEPT !.total = @ + req[p].novo] = req[p].lido
      BY <1>g, <1>r, <2>1 DEF OrderRow
    <3> QED BY <1>0, <2>1, <3>1 DEF AddSave, CheckoutSave, DemoSave, At
  <2>2. CASE req[p].pc = "paid"
    BY <1>0, <2>2 DEF AddSave, CheckoutSave, DemoSave, At
  <2>3. CASE req[p].pc = "demo"
    BY <1>0, <2>3 DEF AddSave, CheckoutSave, DemoSave, At
  <2> QED BY <1>a, <2>1, <2>2, <2>3
<1> HIDE DEF row
<1>1. TypeInv' /\ req'[p] = Idle
  BY <1>a, <1>b, <1>w, <1>r, IdleSound, StepType DEF OrderInv, TypeInv, OrdersTypeOK
<1>2. Apart' /\ perturbados \subseteq perturbados'
  BY <1>a, <1>1, HistoryApart
<1>3. orders'[o] = row /\ req'[p].order = None /\ req'[p].pc = "idle"
  BY <1>b, <1>r, <1>1 DEF Idle
<1>4. OnlyAt(p, o)
  BY <1>a, <1>b, <1>0, <1>1, <1>2, <1>3 DEF OnlyAt, Rows, OrderInv, TypeInv, OrdersTypeOK
<1>5. Onward(o) /\ Holds(p)'
  <2>1. o \in demo <=> req[p].pc = "demo"
    BY <1>a, <1>0 DEF Holds, At
  <2> QED BY <1>a, <1>3, <1>w, <1>r, <2>1 DEF Onward, Holds, At
<1>6. ASSUME o \notin perturbados' PROVE Settled(o)'
  <2>1. Busy(o, req[p]) /\ (o \in demo <=> req[p].pc = "demo")
    BY <1>a, <1>0, <1>g, <1>2, <1>6 DEF Holds, At
  <2>2. row = orders[o] \/ row.total = (IF req[p].pc = "demo" THEN req[p].novo ELSE orders[o].total)
    BY <1>a, <2>1, <1>r DEF row, Busy, OrderRow
  <2>3. CASE req[p].pc = "addItems"
    BY <1>a, <1>3, <1>w, <2>1, <2>3 DEF Settled, Busy
  <2>4. CASE req[p].pc = "paid"
    <3>1. row.total = req[p].lido.total
      BY <2>4, <1>r DEF row, OrderRow
    <3> QED BY <1>a, <1>3, <1>w, <2>1, <2>4, <3>1 DEF Settled, Busy
  <2>5. CASE req[p].pc = "demo"
    <3>1. row.total = req[p].novo
      BY <2>5 DEF row
    <3> QED BY <1>a, <1>3, <1>w, <2>1, <2>5, <3>1 DEF Settled, Busy
  <2> QED BY <1>a, <2>3, <2>4, <2>5
<1>7. ~Tem(o, req'[p])
  BY <1>3, OrdersAssumption DEF Tem
<1> QED BY <1>0, <1>g, <1>1, <1>2, <1>4, <1>5, <1>6, <1>7, StepInv

LEMMA DebitStep ==
    ASSUME OrderInv, NEW p \in Requests, Reserve(p) \/ Confirm(p)
    PROVE  OrderInv'
<1>a. /\ req[p].pc \in {"reserve", "confirm"} /\ Grava(req[p])
      /\ UNCHANGED <<orders, linhas, itens, demo>> /\ Historia({})
  BY DEF Reserve, Confirm, At, Grava, orderTables
<1>0. PICK o \in OrderIds :
        /\ o = req[p].order /\ Holds(p) /\ req[p] \in SoundRequest /\ req[p] \in Request
        /\ o \notin perturbados /\ Grava(req[p]) => Busy(o, req[p])
  BY <1>a, BusyHere DEF At
<1> DEFINE r == [req[p] EXCEPT !.pc = IF req[p].pc = "reserve" THEN "confirm" ELSE "paid"]
<1>b. /\ req' = [req EXCEPT ![p] = r]
      /\ req[p].pc = "reserve" => UNCHANGED <<debitado, debitos>>
      /\ req[p].pc = "confirm" =>
           /\ debitado' = [debitado EXCEPT ![o] = @ + req[p].lido.total]
           /\ debitos' = [debitos EXCEPT ![o] = @ + 1]
  BY <1>0 DEF Reserve, Confirm, Go, At, orderTables
<1>r. /\ r.pc = (IF req[p].pc = "reserve" THEN "confirm" ELSE "paid")
      /\ r.order = o /\ r.lido = req[p].lido /\ r.lido.total \in Nat
      /\ linhas[o] \in Nat /\ debitado[o] \in Nat /\ debitos[o] \in Nat
  BY <1>0 DEF Request, OrderRow, OrderInv, TypeInv, OrdersTypeOK
<1>1. TypeInv' /\ req'[p] = r
  <2>1. TypeInv
    BY DEF OrderInv
  <2>2. r \in SoundRequest
    BY <1>a, <1>0 DEF SoundRequest, Request
  <2>3. debitado' \in [OrderIds -> Nat] /\ debitos' \in [OrderIds -> Nat]
    BY <1>a, <1>b, <1>r, <2>1 DEF TypeInv, OrdersTypeOK
  <2> HIDE DEF r
  <2> QED
    BY <1>a, <1>b, <2>1, <2>2, <2>3, StepType DEF TypeInv, OrdersTypeOK
<1> HIDE DEF r
<1>2. Apart' /\ perturbados \subseteq perturbados'
  BY <1>a, <1>1, HistoryApart
<1>4. OnlyAt(p, o)
  BY <1>a, <1>b, <1>0, <1>r, <1>1, <1>2 DEF OnlyAt, Rows, OrderInv, TypeInv, OrdersTypeOK
<1>5. Onward(o) /\ Holds(p)'
  BY <1>a, <1>0, <1>r, <1>1 DEF Onward, Holds, At, OrderInv, Held
<1>6. ASSUME o \notin perturbados' PROVE Busy(o, req[p])'
  <2>1. Busy(o, req[p])
    BY <1>a, <1>0, <1>2, <1>6
  <2>2. CASE req[p].pc = "reserve"
    BY <1>a, <1>b, <1>r, <1>1, <2>1, <2>2 DEF Busy
  <2>3. CASE req[p].pc = "confirm"
    <3>1. /\ debitado'[o] = debitado[o] + req[p].lido.total
          /\ debitos'[o] = debitos[o] + 1
      BY <1>b, <2>3 DEF OrderInv, TypeInv, OrdersTypeOK
    <3> QED BY <1>a, <1>r, <1>1, <2>1, <2>3, <3>1 DEF Busy
  <2> QED BY <1>a, <2>2, <2>3
<1>7. Tem(o, req'[p])
  BY <1>r, <1>1 DEF Tem, Grava
<1> QED BY <1>a, <1>0, <1>1, <1>2, <1>4, <1>5, <1>6, <1>7, StepInv

\* A request that could save its order and stops leaves it settled, if it was not to
\* complete what it wrote.
LEMMA StopSettles ==
    ASSUME OrderInv, NEW p \in Requests, NEW o \in OrderIds, Tem(o, req[p]),
           o \notin perturbados, ~Incompleto(p)
    PROVE  Settled(o)
<1>1. ~At(p, "idle")
  BY OrdersAssumption DEF OrderInv, TypeInv, SoundRequest, Tem, At
<1>2. Busy(o, req[p]) /\ req[p] \in SoundRequest /\ Holds(p) /\ req[p] \in Request
  BY <1>1, BusyHere DEF Tem
<1>3. req[p].pc \in {"addItems", "reserve", "confirm"}
  BY <1>1, <1>2 DEF Incompleto, At, Request
<1>4. o \notin demo /\ orders[o].status = "open"
  BY <1>1, <1>2, <1>3 DEF Holds, At, Busy, SoundRequest, Tem
<1> QED BY <1>2, <1>3, <1>4 DEF Busy, Settled

\* A request that stops leaves its order settled, or recorded as left half way.
LEMMA DesisteStep ==
    ASSUME OrderInv, NEW p \in Requests, Desiste(p)
    PROVE  OrderInv'
<1> DEFINE parado == IF Incompleto(p) THEN {req[p].order} ELSE {}
<1>a. /\ ~At(p, "idle") /\ req' = [req EXCEPT ![p] = Idle]
      /\ UNCHANGED <<orders, linhas, itens, debitado, debitos, demo>>
      /\ Historia(parado)
  BY DEF Desiste, Finish, Go, orderTables
<1>0. PICK o \in OrderIds : o = req[p].order /\ Holds(p)
  BY <1>a, BusyHere
<1>p. parado \subseteq OrderIds /\ (Incompleto(p) => o \in parado)
  BY <1>0
<1> HIDE DEF parado
<1>1. TypeInv' /\ req'[p] = Idle
  BY <1>a, <1>p, IdleSound, StepType DEF OrderInv, TypeInv, OrdersTypeOK
<1>2. /\ Apart' /\ perturbados \subseteq perturbados'
      /\ Incompleto(p) => o \in perturbados'
  BY <1>a, <1>p, <1>1, HistoryApart
<1>3. req' = [req EXCEPT ![p] = req'[p]] /\ req'[p].order = None /\ req'[p].pc = "idle"
  <2>1. Idle.order = None /\ Idle.pc = "idle"
    BY DEF Idle
  <2> QED BY <1>a, <1>1, <2>1
<1>4. OnlyAt(p, o)
  BY <1>a, <1>0, <1>2, <1>3 DEF OnlyAt, Rows
<1>5. Onward(o) /\ Holds(p)' /\ ~Tem(o, req'[p])
  BY <1>a, <1>0, <1>3, OrdersAssumption
  DEF Onward, Holds, At, Tem, OrderInv, Held, TypeInv, OrdersTypeOK
<1>6. CASE Grava(req[p])
  <2>1. ASSUME o \notin perturbados' PROVE Settled(o)'
    <3>1. Settled(o)
      BY <1>0, <1>2, <1>6, <2>1, StopSettles DEF Tem
    <3> QED BY <1>a, <3>1 DEF Settled
  <2> QED BY <1>0, <1>1, <1>2, <1>4, <1>5, <1>6, <2>1, StepInv
<1>7. CASE ~Grava(req[p])
  BY <1>a, <1>1, <1>2, <1>4, <1>5, <1>7, StepAside
<1> QED BY <1>6, <1>7

\* An order that is not there has no request, is no demo and has no items.
LEMMA NewOrder ==
    ASSUME OrderInv, NEW o \in OrderIds, orders[o] = NoOrder
    PROVE  /\ \A p \in Requests : req[p].order # o
           /\ o \notin demo
<1>1. orders[o].status = "none"
  BY DEF NoOrder
<1>2. ASSUME NEW p \in Requests, req[p].order = o PROVE FALSE
  <2>1. ~At(p, "idle")
    BY <1>2, OrdersAssumption DEF OrderInv, TypeInv, SoundRequest, At
  <2> QED BY <1>1, <1>2, <2>1 DEF OrderInv, Held, Holds
<1> QED BY <1>1, <1>2 DEF OrderInv, Held

LEMMA DemoInsertStep ==
    ASSUME OrderInv, NEW p \in Requests, NEW o \in OrderIds, DemoInsert(p, o)
    PROVE  OrderInv'
<1> DEFINE r == [Idle EXCEPT !.pc = "demo", !.order = o]
<1>a. /\ req[p].pc = "idle" /\ req' = [req EXCEPT ![p] = r]
      /\ orders[o] = NoOrder /\ orders' = [orders EXCEPT ![o].status = "paid"]
      /\ demo' = demo \cup {o} /\ UNCHANGED <<linhas, itens, debitado, debitos>>
      /\ Historia({})
  BY DEF DemoInsert, Go, At
<1>r. r.pc = "demo" /\ r.order = o /\ r.novo = 0 /\ r \in SoundRequest
  BY DEF Idle, SoundRequest, Request, NoOrder, OrderRow, OrderStatus
<1> HIDE DEF r
<1>1. TypeInv' /\ req'[p] = r
  <2>1. orders' \in [OrderIds -> OrderRow]
    BY <1>a DEF OrderInv, TypeInv, OrdersTypeOK, OrderRow, OrderStatus
  <2> QED
    BY <1>a, <1>r, <2>1, StepType DEF OrderInv, TypeInv, OrdersTypeOK
<1>2. Apart' /\ perturbados \subseteq perturbados'
  BY <1>a, <1>1, HistoryApart
<1>3. /\ orders'[o] = [status |-> "paid", total |-> 0] /\ o \in demo'
      /\ orders[o].status = "none" /\ linhas[o] \in Nat
  BY <1>a DEF OrderInv, TypeInv, OrdersTypeOK, NoOrder
<1>4. req[p].order = None /\ Grava(req[p]) /\ Tem(o, req'[p])
  BY <1>a, <1>r, <1>1 DEF OrderInv, TypeInv, SoundRequest, Grava, Tem
<1>5. OnlyAt(p, o)
  <2>1. \A x \in OrderIds \ {o} : Rows(x)' = Rows(x)
    BY <1>a DEF Rows, OrderInv, TypeInv, OrdersTypeOK
  <2> QED BY <1>a, <1>r, <1>1, <1>2, <1>4, <2>1 DEF OnlyAt
<1>6. Onward(o) /\ Holds(p)'
  BY <1>a, <1>r, <1>1, <1>3 DEF Onward, Holds, At
<1>7. ASSUME o \notin perturbados' PROVE Busy(o, req[p])'
  <2>1. Settled(o)
    BY <1>a, <1>1, <1>2, <1>4, <1>7, FreeHere DEF At
  <2> QED BY <1>a, <1>r, <1>1, <1>3, <2>1 DEF Busy, Settled
<1> QED BY <1>1, <1>2, <1>4, <1>5, <1>6, <1>7, StepInv DEF Tem

\* A new order: no request has it, for none is at work on a row that is not there.
LEMMA CreateStep ==
    ASSUME OrderInv, NEW o \in OrderIds, Create(o)
    PROVE  OrderInv'
<1>a. /\ orders[o] = NoOrder /\ orders' = [orders EXCEPT ![o].status = "open"]
      /\ UNCHANGED <<linhas, itens, debitado, debitos, demo, req>> /\ Historia({})
  BY DEF Create
<1>b. (\A p \in Requests : req[p].order # o) /\ o \notin demo
  BY <1>a, NewOrder
<1>1. TypeInv'
  BY <1>a DEF OrderInv, TypeInv, OrdersTypeOK, Historia, Cruzados, OrderRow, OrderStatus
<1>2. Apart' /\ perturbados \subseteq perturbados'
  BY <1>a, <1>1, HistoryApart
<1>3. \A x \in OrderIds : x # o => orders'[x] = orders[x]
  BY <1>a DEF OrderInv, TypeInv, OrdersTypeOK
<1>4. Held'
  <2>1. \A p \in Requests : ~At(p, "idle") => req[p].order \in OrderIds \ {o}
    BY <1>b, BusyHere
  <2>2. \A p \in Requests : Holds(p)'
    BY <1>a, <1>3, <2>1 DEF Holds, At, OrderInv, Held
  <2>3. \A x \in demo' : orders'[x].status = "paid"
    BY <1>a, <1>b, <1>3 DEF OrderInv, Held, TypeInv, OrdersTypeOK
  <2> QED BY <2>2, <2>3 DEF Held
<1>5. ASSUME NEW x \in OrderIds \ perturbados' PROVE Kept(x)'
  <2>1. Kept(x)
    BY <1>2 DEF OrderInv
  <2>2. CASE x = o
    <3>1. \A q \in Requests : ~Tem(o, req[q]) /\ ~Tem(o, req'[q])
      BY <1>a, <1>b DEF Tem
    <3>2. Settled(o)
      BY <2>1, <2>2, <3>1 DEF Kept
    <3>3. orders'[o].status = "open"
      BY <1>a DEF OrderInv, TypeInv, OrdersTypeOK, OrderRow
    <3>4. Settled(o)'
      BY <1>a, <1>b, <3>2, <3>3 DEF Settled, NoOrder
    <3> QED BY <1>a, <2>2, <3>1, <3>4 DEF Kept, Tem, Grava
  <2>3. CASE x # o
    <3>1. orders'[x] = orders[x]
      BY <1>3, <2>3
    <3> QED BY <1>a, <2>1, <3>1 DEF Kept, Tem, Grava, Settled, Busy
  <2> QED BY <2>2, <2>3
<1> QED BY <1>1, <1>2, <1>4, <1>5 DEF OrderInv

LEMMA OrdersNextInv == OrderInv /\ [OrdersOwnNext]_orderVars => OrderInv'
<1> SUFFICES ASSUME OrderInv, [OrdersOwnNext]_orderVars PROVE OrderInv'
  OBVIOUS
<1>1. ASSUME NEW o \in OrderIds, Create(o) PROVE OrderInv'
  BY <1>1, CreateStep
<1>2. ASSUME NEW p \in Requests, NEW o \in OrderIds, AddRead(p, o) \/ CheckoutRead(p, o)
      PROVE  OrderInv'
  BY <1>2, ReadStep
<1>3. ASSUME NEW p \in Requests, NEW o \in OrderIds, DemoInsert(p, o) PROVE OrderInv'
  BY <1>3, DemoInsertStep
<1>4. ASSUME NEW p \in Requests, NEW preco \in Precos, AddItem(p, preco) \/ DemoItem(p, preco)
      PROVE  OrderInv'
  BY <1>4, AddItemStep
<1>5. ASSUME NEW p \in Requests, AddSave(p) \/ CheckoutSave(p) \/ DemoSave(p) PROVE OrderInv'
  BY <1>5, SaveStep
<1>6. ASSUME NEW p \in Requests, Reserve(p) \/ Confirm(p) PROVE OrderInv'
  BY <1>6, DebitStep
<1>7. ASSUME NEW p \in Requests, Desiste(p) PROVE OrderInv'
  BY <1>7, DesisteStep
<1>8. CASE UNCHANGED orderVars
  BY <1>8
  DEF orderVars, orderTables, OrderInv, TypeInv, OrdersTypeOK, Held, Holds, At, Apart, Kept,
      Tem, Grava, Settled, Busy
<1> QED
  BY <1>1, <1>2, <1>3, <1>4, <1>5, <1>6, <1>7, <1>8 DEF OrdersOwnNext
-----------------------------------------------------------------------------
LEMMA InvImpliesPago == OrderInv => PagoConfere
BY DEF OrderInv, Kept, Tem, Settled, PagoConfere

\* A checkout debits its order's total once, and the order is paid exactly when it
\* did, whenever no request that may save it has the order in hand: for any number of
\* orders, requests and items, on every order of which no two such requests overlapped
\* and no checkout stopped between its debit and its save.
THEOREM OrderAgrees == OrdersSpec => []PagoConfere
<1>1. OrdersSpec => []OrderInv
  BY OrdersInitInv, OrdersNextInv, PTL DEF OrdersSpec
<1> QED BY <1>1, InvImpliesPago, PTL

\* What a step leaves of a paid order.
Stays(o) ==
    /\ orders'[o] = orders[o] /\ debitos'[o] = debitos[o]
    /\ Acrescentando(o) \/ (linhas'[o] = linhas[o] /\ itens'[o] = itens[o])

LEMMA StepKeepsPaid ==
    ASSUME OrderInv, OrderInv', [OrdersOwnNext]_orderVars,
           NEW o \in OrderIds \ (perturbados' \cup demo), orders[o].status = "paid"
    PROVE  Stays(o)
<1>0. \A x \in OrderIds : orders[x] = NoOrder => x # o
  BY DEF NoOrder
<1>1. ASSUME NEW p \in Requests, ~At(p, "idle"), Grava(req[p]), perturbados \subseteq perturbados'
      PROVE  req[p].order # o
  <2> SUFFICES ASSUME req[p].order = o PROVE FALSE
    OBVIOUS
  <2>1. Busy(o, req[p]) /\ Holds(p) /\ req[p] \in SoundRequest /\ req[p] \in Request
    BY <1>1, BusyHere
  <2>2. req[p].pc # "demo"
    BY <1>1, <2>1 DEF Holds, At
  <2> QED BY <1>1, <2>1, <2>2 DEF Busy, SoundRequest, Request, At
<1>2. ASSUME NEW x \in OrderIds, Create(x) PROVE Stays(o)
  BY <1>0, <1>2 DEF Stays, Create, OrderInv, TypeInv, OrdersTypeOK
<1>3. ASSUME NEW p \in Requests, NEW x \in OrderIds, AddRead(p, x) \/ CheckoutRead(p, x)
      PROVE  Stays(o)
  BY <1>3 DEF Stays, AddRead, CheckoutRead, orderTables
<1>4. ASSUME NEW p \in Requests, NEW x \in OrderIds, DemoInsert(p, x) PROVE Stays(o)
  BY <1>0, <1>4 DEF Stays, DemoInsert, OrderInv, TypeInv, OrdersTypeOK
<1>5. ASSUME NEW p \in Requests, NEW preco \in Precos, AddItem(p, preco) \/ DemoItem(p, preco)
      PROVE  Stays(o)
  <2>1. CASE req[p].order = o
    <3>1. ~Grava(req[p])
      BY <1>1, <1>5, <2>1 DEF AddItem, DemoItem, At, Historia
    <3>2. Acrescentando(o)
      BY <2>1, <3>1 DEF Acrescentando
    <3> QED BY <1>5, <3>2 DEF Stays, AddItem, DemoItem
  <2>2. CASE req[p].order # o
    BY <1>5, <2>2 DEF Stays, AddItem, DemoItem, OrderInv, TypeInv, OrdersTypeOK
  <2> QED BY <2>1, <2>2
<1>6. ASSUME NEW p \in Requests, AddSave(p) \/ CheckoutSave(p) \/ DemoSave(p) PROVE Stays(o)
  <2>1. Grava(req[p]) /\ ~At(p, "idle") /\ perturbados \subseteq perturbados'
    BY <1>6, SaveIsEmpty DEF AddSave, CheckoutSave, DemoSave, Grava, At, Historia
  <2>2. req[p].order # o
    BY <1>1, <2>1
  <2> QED BY <1>6, <2>2
      DEF Stays, AddSave, CheckoutSave, DemoSave, OrderInv, TypeInv, OrdersTypeOK
<1>7. ASSUME NEW p \in Requests, Reserve(p) \/ Confirm(p) PROVE Stays(o)
  <2>1. req[p].order # o
    BY <1>1, <1>7 DEF Reserve, Confirm, Grava, At, Historia
  <2> QED BY <1>7, <2>1
      DEF Stays, Reserve, Confirm, orderTables, OrderInv, TypeInv, OrdersTypeOK
<1>8. ASSUME NEW p \in Requests, Desiste(p) PROVE Stays(o)
  BY <1>8 DEF Stays, Desiste, orderTables
<1>9. CASE UNCHANGED orderVars
  BY <1>9 DEF Stays, orderVars, orderTables
<1> QED
  BY <1>2, <1>3, <1>4, <1>5, <1>6, <1>7, <1>8, <1>9 DEF OrdersOwnNext

\* A paid order keeps its total and its single debit whatever later requests do, and
\* its items but for those an addItems was inserting when it was paid, on the same
\* condition.
THEOREM PaidStays == OrdersSpec => PagoFica
<1>1. OrdersSpec => []OrderInv
  BY OrdersInitInv, OrdersNextInv, PTL DEF OrdersSpec
<1>2. OrderInv /\ OrderInv' /\ [OrdersOwnNext]_orderVars =>
        [\A o \in OrderIds \ (perturbados' \cup demo) :
           orders[o].status = "paid" =>
             /\ orders'[o] = orders[o] /\ debitos'[o] = debitos[o]
             /\ Acrescentando(o) \/ (linhas'[o] = linhas[o] /\ itens'[o] = itens[o])
        ]_orderVars
  BY StepKeepsPaid DEF Stays
<1> QED BY <1>1, <1>2, PTL DEF OrdersSpec, PagoFica
-----------------------------------------------------------------------------
(***************************************************************************)
(* The documents of paid orders.  An emission that went past its insert    *)
(* is the only one at work on its document, which is pending until then    *)
(* (Propria); an emission that was not forced found its order without a    *)
(* document in force, and none appears while it alone is in flight         *)
(* (UmaPorVez); what it read of the order still stands, for a paid order   *)
(* stays as it was (DoVendido); and every number in a row or under way was *)
(* taken from a sequence that only advances (Numeros).                     *)
(***************************************************************************)

\* An emission between its insert and its last save.
Emitindo(q) == q.pc \in {"envia", "autoriza", "falha"}

\* What an emission holds is what its program counter says it read or wrote.
SoundEmissao ==
    {q \in Emissao :
        CASE q.pc = "idle"    -> q.order = None
          [] q.pc = "insere"  -> q.order \in OrderIds
          [] q.pc = "cancela" -> /\ q.order = None
                                 /\ q.doc \in DocIds
                                 /\ q.lido.status = "authorized"
          [] OTHER            -> /\ q.order \in OrderIds
                                 /\ q.doc \in DocIds
                                 /\ q.lido.order = q.order
                                 /\ q.lido.status = "pending"
                                 /\ q.lido.valor = q.valor
                                 /\ q.pc # "autoriza" => q.lido.numero = 0}

\* A row that is not there is empty; one that is there names its order.
SoundDoc == {r \in DocRow : IF r.status = "none" THEN r = NoDoc ELSE r.order \in OrderIds}

FiscalTypeInv ==
    /\ FiscalTypeOK
    /\ emissao \in [Emissores -> SoundEmissao]
    /\ docs \in [DocIds -> SoundDoc]

\* The document in the hands of emission or cancellation q.
Propria(q) ==
    /\ Emitindo(q) => docs[q.doc] = [q.lido EXCEPT !.numero = 0]
    /\ q.pc = "cancela" =>
         /\ docs[q.doc].status \in {"authorized", "cancelled"}
         /\ docs[q.doc].order = q.lido.order
         /\ docs[q.doc].valor = q.lido.valor
         /\ docs[q.doc].numero = q.lido.numero

Separadas ==
    \A e, f \in Emissores : e # f =>
        /\ emissao[e].order = emissao[f].order => emissao[e].order \in {None} \cup emissaoDupla
        /\ Emitindo(emissao[e]) /\ Emitindo(emissao[f]) => emissao[e].doc # emissao[f].doc

UmaPorVez ==
    \A o \in OrderIds \ (forcados \cup emissaoDupla) :
        /\ \A c, d \in Autorizados(o) : c = d
        /\ (\E e \in Emissores : emissao[e].order = o) => Autorizados(o) = {}

\* Order o was paid, and valor is what it was sold for.
Vendido(o, valor) == orders[o].status = "paid" /\ orders[o].total = valor

DoVendido ==
    \A o \in OrderIds \ (perturbados \cup demo) :
        /\ \A e \in Emissores : emissao[e].order = o => Vendido(o, emissao[e].valor)
        /\ \A d \in DocIds : docs[d].order = o => Vendido(o, docs[d].valor)

NoFisco ==
    \A d \in fisco \ perdidas :
        \/ docs[d].status \in {"authorized", "cancelled"}
        \/ \E e \in Emissores : Em(e, "autoriza") /\ emissao[e].doc = d

\* A number under way: in no row, and on no other emission.
Numeros ==
    ~reiniciou =>
        /\ \A d \in DocIds : docs[d].numero < sequencia
        /\ \A c, d \in DocIds : c # d /\ docs[c].numero > 0 => docs[c].numero # docs[d].numero
        /\ \A e \in Emissores : Em(e, "autoriza") /\ emissao[e].lido.numero > 0 =>
             /\ emissao[e].lido.numero < sequencia
             /\ \A d \in DocIds : docs[d].numero # emissao[e].lido.numero
             /\ \A f \in Emissores : f # e /\ Em(f, "autoriza") =>
                  emissao[f].lido.numero # emissao[e].lido.numero

FiscalInv ==
    /\ FiscalTypeInv
    /\ \A e \in Emissores : Propria(emissao[e])
    /\ Separadas /\ UmaPorVez /\ DoVendido /\ NoFisco /\ Numeros
-----------------------------------------------------------------------------
LEMMA EmptySound ==
    /\ NoDoc \in SoundDoc /\ NoDoc \in DocRow
    /\ SemEmissao \in SoundEmissao
BY DEF NoDoc, SemEmissao, SoundDoc, SoundEmissao, DocRow, NfceStatus, Emissao

\* A step types the state when it types its rows and its own emission, and two
\* emissions that meet on an order are recorded.
LEMMA FiscalStepType ==
    ASSUME FiscalTypeInv, NEW e \in Emissores, NEW r \in SoundEmissao, Vai(e, r),
           docs' \in [DocIds -> SoundDoc], fisco' \subseteq DocIds, sequencia' \in Nat \ {0},
           forcados' \subseteq OrderIds, perdidas' \subseteq DocIds, UNCHANGED reiniciou,
           Registra
    PROVE  /\ FiscalTypeInv' /\ emissaoDupla \subseteq emissaoDupla'
           /\ \A f, g \in Emissores : f # g /\ emissao'[f].order = emissao'[g].order =>
                emissao'[f].order \in {None} \cup emissaoDupla'
           /\ emissao'[e] = r /\ \A f \in Emissores : f # e => emissao'[f] = emissao[f]
<1>1. SoundEmissao \subseteq Emissao /\ SoundDoc \subseteq DocRow
  BY DEF SoundEmissao, SoundDoc
<1>2. emissao' \in [Emissores -> SoundEmissao]
  BY DEF FiscalTypeInv, Vai
<1>3. emissao' \in [Emissores -> Emissao] /\ docs' \in [DocIds -> DocRow]
  BY <1>1, <1>2
<1>4. emissaoDupla \subseteq emissaoDupla' /\ emissaoDupla' \subseteq OrderIds
  BY DEF Registra, Dupla, FiscalTypeInv, FiscalTypeOK
<1>5. FiscalTypeInv'
  BY <1>2, <1>3, <1>4 DEF FiscalTypeInv, FiscalTypeOK
<1>6. \A f, g \in Emissores : f # g /\ emissao'[f].order = emissao'[g].order =>
        emissao'[f].order \in {None} \cup emissaoDupla'
  <2> SUFFICES ASSUME NEW f \in Emissores, NEW g \in Emissores, f # g,
                      emissao'[f].order = emissao'[g].order, emissao'[f].order # None
               PROVE  emissao'[f].order \in emissaoDupla'
    OBVIOUS
  <2>1. emissao'[f].order \in OrderIds
    BY <1>3 DEF Emissao
  <2> QED BY <2>1 DEF Registra, Dupla
<1>7. emissao'[e] = r /\ \A f \in Emissores : f # e => emissao'[f] = emissao[f]
  BY DEF Vai, FiscalTypeInv
<1> QED BY <1>4, <1>5, <1>6, <1>7
-----------------------------------------------------------------------------
(* The steps *)

LEMMA EmitReadStep ==
    ASSUME OrderInv, FiscalInv, UNCHANGED orderVars, NEW e \in Emissores, NEW o \in OrderIds,
           NEW forcar \in BOOLEAN, EmitRead(e, o, forcar)
    PROVE  FiscalInv'
<1> DEFINE r == [SemEmissao EXCEPT !.pc = "insere", !.order = o, !.valor = orders[o].total]
<1>r. orders[o].total \in Nat
  BY DEF OrderInv, TypeInv, OrdersTypeOK, OrderRow
<1>0. r \in SoundEmissao /\ r.pc = "insere" /\ r.order = o /\ r.valor = orders[o].total
  BY <1>r DEF SemEmissao, SoundEmissao, Emissao, NoDoc, DocRow, NfceStatus
<1> HIDE DEF r
<1>1. /\ FiscalTypeInv' /\ emissaoDupla \subseteq emissaoDupla'
      /\ \A f, g \in Emissores : f # g /\ emissao'[f].order = emissao'[g].order =>
           emissao'[f].order \in {None} \cup emissaoDupla'
      /\ emissao'[e] = r /\ \A f \in Emissores : f # e => emissao'[f] = emissao[f]
  <2>1. Vai(e, r) /\ Registra
    BY DEF EmitRead, r
  <2> QED BY <1>0, <2>1, FiscalStepType
      DEF EmitRead, FiscalInv, FiscalTypeInv, FiscalTypeOK, fiscalTables
<1>2. UNCHANGED <<docs, fisco, sequencia, perdidas, reiniciou>> /\ emissao[e].pc = "idle"
      /\ orders[o].status = "paid" /\ Emissivel(o, forcar)
      /\ forcados' = IF forcar THEN forcados \cup {o} ELSE forcados
  BY DEF EmitRead, fiscalTables, Em
<1>3. ASSUME NEW f \in Emissores PROVE Propria(emissao[f])'
  BY <1>0, <1>1, <1>2, <1>3 DEF Propria, Emitindo, FiscalInv
<1>4. Separadas'
  BY <1>0, <1>1 DEF Separadas, Emitindo, FiscalInv
<1>5. UmaPorVez'
  <2> SUFFICES ASSUME NEW x \in OrderIds \ (forcados' \cup emissaoDupla')
               PROVE  /\ \A c, d \in Autorizados(x) : c = d
                      /\ (\E f \in Emissores : emissao'[f].order = x) => Autorizados(x) = {}
    BY <1>2 DEF UmaPorVez, Autorizados
  <2>1. x \notin forcados \cup emissaoDupla /\ (x = o => ~forcar)
    BY <1>1, <1>2
  <2>2. x = o => Autorizados(o) = {}
    BY <1>2, <2>1 DEF Emissivel
  <2> QED BY <1>0, <1>1, <2>1, <2>2 DEF FiscalInv, UmaPorVez
<1>6. DoVendido'
  BY <1>0, <1>1, <1>2 DEF DoVendido, Vendido, FiscalInv, orderVars, orderTables
<1>7. NoFisco'
  BY <1>1, <1>2 DEF NoFisco, Em, FiscalInv
<1>8. Numeros'
  BY <1>0, <1>1, <1>2 DEF Numeros, Em, FiscalInv
<1> QED BY <1>1, <1>3, <1>4, <1>5, <1>6, <1>7, <1>8 DEF FiscalInv

\* The row that an emission of order o inserts.
Nova(o, v) == [NoDoc EXCEPT !.order = o, !.status = "pending", !.valor = v]

LEMMA PendingRow ==
    ASSUME NEW o \in OrderIds, NEW v \in Nat, NEW row, row = Nova(o, v)
    PROVE  /\ row \in SoundDoc /\ row = [row EXCEPT !.numero = 0]
           /\ row.order = o /\ row.status = "pending" /\ row.valor = v /\ row.numero = 0
<1>1. row \in SoundDoc /\ row \in DocRow
  BY DEF Nova, NoDoc, SoundDoc, DocRow, NfceStatus
<1>2. row.order = o /\ row.status = "pending" /\ row.valor = v /\ row.numero = 0
  BY <1>1 DEF Nova, NoDoc
<1>3. row = [row EXCEPT !.numero = 0]
  BY <1>1, <1>2 DEF DocRow
<1> QED BY <1>1, <1>2, <1>3

LEMMA EmitInsertStep ==
    ASSUME OrderInv, FiscalInv, UNCHANGED orderVars, NEW e \in Emissores, NEW d \in DocIds,
           EmitInsert(e, d)
    PROVE  FiscalInv'
<1> DEFINE q == emissao[e]
           row == Nova(q.order, q.valor)
           r == [q EXCEPT !.pc = "envia", !.doc = d, !.lido = row]
<1>q. q \in SoundEmissao /\ q.pc = "insere" /\ q.order \in OrderIds /\ q.valor \in Nat
  BY DEF EmitInsert, Em, FiscalInv, FiscalTypeInv, SoundEmissao, Emissao
<1>0. /\ row \in SoundDoc /\ row = [row EXCEPT !.numero = 0]
      /\ row.order = q.order /\ row.status = "pending" /\ row.valor = q.valor /\ row.numero = 0
  BY <1>q, PendingRow
<1>r. /\ r \in SoundEmissao /\ r.pc = "envia" /\ r.doc = d /\ r.lido = row
      /\ r.order = q.order /\ r.valor = q.valor
  <2>1. row \in DocRow
    BY <1>0 DEF SoundDoc
  <2> HIDE DEF row
  <2> QED BY <1>q, <1>0, <2>1 DEF SoundEmissao, Emissao
<1>a. /\ docs[d] = NoDoc /\ docs' = [docs EXCEPT ![d] = row] /\ Vai(e, r) /\ Registra
      /\ UNCHANGED <<fisco, sequencia, forcados, perdidas, reiniciou>>
  BY DEF EmitInsert, Nova
<1> HIDE DEF row, r, q
<1>1. /\ FiscalTypeInv' /\ emissaoDupla \subseteq emissaoDupla'
      /\ \A f, g \in Emissores : f # g /\ emissao'[f].order = emissao'[g].order =>
           emissao'[f].order \in {None} \cup emissaoDupla'
      /\ emissao'[e] = r /\ \A f \in Emissores : f # e => emissao'[f] = emissao[f]
  <2>1. docs' \in [DocIds -> SoundDoc]
    BY <1>0, <1>a DEF FiscalInv, FiscalTypeInv
  <2> QED BY <1>r, <1>a, <2>1, FiscalStepType DEF FiscalInv, FiscalTypeInv, FiscalTypeOK
<1>2. docs'[d] = row /\ \A x \in DocIds : x # d => docs'[x] = docs[x]
  BY <1>a DEF FiscalInv, FiscalTypeInv
<1>3. \A f \in Emissores :
        (Emitindo(emissao[f]) \/ emissao[f].pc = "cancela") =>
            emissao[f].doc \in DocIds /\ emissao[f].doc # d
  <2> SUFFICES ASSUME NEW f \in Emissores, Emitindo(emissao[f]) \/ emissao[f].pc = "cancela"
               PROVE  emissao[f].doc \in DocIds /\ docs[emissao[f].doc].status # "none"
    BY <1>a DEF NoDoc
  <2>1. emissao[f] \in SoundEmissao /\ Propria(emissao[f])
    BY DEF FiscalInv, FiscalTypeInv
  <2>2. emissao[f].doc \in DocIds
    BY <2>1 DEF SoundEmissao, Emitindo
  <2>3. CASE Emitindo(emissao[f])
    BY <2>1, <2>2, <2>3 DEF SoundEmissao, Propria, Emitindo, Emissao, DocRow
  <2>4. CASE emissao[f].pc = "cancela"
    BY <2>1, <2>2, <2>4 DEF Propria
  <2> QED BY <2>2, <2>3, <2>4
<1>4. ASSUME NEW f \in Emissores PROVE Propria(emissao[f])'
  <2>1. CASE f = e
    BY <1>0, <1>r, <1>1, <1>2, <2>1 DEF Propria, Emitindo
  <2>2. CASE f # e
    BY <1>1, <1>2, <1>3, <2>2 DEF Propria, Emitindo, FiscalInv
  <2> QED BY <2>1, <2>2
<1>5. Separadas'
  BY <1>r, <1>1, <1>3 DEF Separadas, Emitindo, FiscalInv
<1>6. \A x \in OrderIds : Autorizados(x)' = Autorizados(x)
  BY <1>0, <1>2, <1>a DEF Autorizados, NoDoc
<1>7. UmaPorVez'
  BY <1>r, <1>1, <1>6, <1>a DEF UmaPorVez, FiscalInv, q
<1>8. DoVendido'
  BY <1>0, <1>r, <1>1, <1>2 DEF DoVendido, Vendido, FiscalInv, orderVars, orderTables, q
<1>9. NoFisco'
  BY <1>q, <1>1, <1>2, <1>3, <1>a DEF NoFisco, Em, Emitindo, FiscalInv, q, NoDoc
<1>10. Numeros'
  <2>1. \A x \in DocIds : docs'[x].numero = docs[x].numero
    BY <1>0, <1>2, <1>a DEF NoDoc
  <2> QED BY <1>r, <1>1, <1>a, <2>1 DEF Numeros, Em, FiscalInv
<1> QED BY <1>1, <1>4, <1>5, <1>7, <1>8, <1>9, <1>10 DEF FiscalInv

\* The provider's answer, or the number taken here: the rows stay as they were.
LEMMA EmitSendStep ==
    ASSUME OrderInv, FiscalInv, UNCHANGED orderVars, NEW e \in Emissores,
           \/ EmitLocal(e)
           \/ \E autorizado, respondido \in BOOLEAN : EmitViaFocus(e, autorizado, respondido)
    PROVE  FiscalInv'
<1> DEFINE q == emissao[e]
<1>q. /\ q \in SoundEmissao /\ q.pc = "envia" /\ q.order \in OrderIds /\ q.doc \in DocIds
      /\ q.lido \in DocRow /\ q.lido.order = q.order /\ q.lido.status = "pending"
      /\ q.lido.valor = q.valor /\ q.lido.numero = 0 /\ sequencia \in Nat \ {0}
  BY DEF EmitLocal, EmitViaFocus, Em, FiscalInv, FiscalTypeInv, FiscalTypeOK, SoundEmissao,
         Emissao
<1> DEFINE r == emissao'[e]
<1> DEFINE Moved ==
           /\ Vai(e, r) /\ r \in SoundEmissao /\ Registra
           /\ r.pc \in {"autoriza", "falha"} /\ r.order = q.order /\ r.doc = q.doc
           /\ r.valor = q.valor
           /\ [r.lido EXCEPT !.numero = 0] = [q.lido EXCEPT !.numero = 0]
           /\ \/ r.lido.numero = 0 /\ sequencia' = sequencia
              \/ EmitLocal(e) /\ r.lido.numero = sequencia /\ sequencia' = sequencia + 1
           /\ UNCHANGED <<docs, forcados, reiniciou>>
           /\ fisco \subseteq fisco' /\ fisco' \subseteq fisco \cup {q.doc}
           /\ perdidas \subseteq perdidas' /\ perdidas' \subseteq perdidas \cup {q.doc}
           /\ q.doc \in fisco' \ perdidas' => q.doc \in fisco \ perdidas \/ r.pc = "autoriza"
<1>0. Moved
  <2>e. e \in DOMAIN emissao
    BY DEF FiscalInv, FiscalTypeInv
  <2>1. CASE EmitLocal(e)
    <3>1. emissao' = [emissao EXCEPT ![e] =
                        [q EXCEPT !.pc = "autoriza", !.lido = [q.lido EXCEPT !.numero = sequencia]]]
      BY <2>1, <2>e, <1>q DEF EmitLocal, Vai, SoundEmissao, Emissao
    <3>2. r = [q EXCEPT !.pc = "autoriza", !.lido = [q.lido EXCEPT !.numero = sequencia]]
      BY <3>1, <2>e
    <3>3. [q.lido EXCEPT !.numero = sequencia] \in DocRow
      BY <1>q DEF DocRow
    <3>4. r \in SoundEmissao
      BY <1>q, <3>2, <3>3 DEF SoundEmissao, Emissao, DocRow
    <3>5. Vai(e, r)
      BY <3>1, <3>2 DEF Vai
    <3>6. /\ r.pc = "autoriza" /\ r.order = q.order /\ r.doc = q.doc /\ r.valor = q.valor
          /\ r.lido = [q.lido EXCEPT !.numero = sequencia]
      BY <1>q, <3>2 DEF SoundEmissao, Emissao
    <3>7. /\ [r.lido EXCEPT !.numero = 0] = [q.lido EXCEPT !.numero = 0]
          /\ r.lido.numero = sequencia
      BY <1>q, <3>6 DEF DocRow
    <3> QED BY <2>1, <3>4, <3>5, <3>6, <3>7 DEF EmitLocal, Avanca
  <2>2. ASSUME NEW autorizado \in BOOLEAN, NEW respondido \in BOOLEAN,
               EmitViaFocus(e, autorizado, respondido)
        PROVE  Moved
    <3> DEFINE pc == IF autorizado /\ respondido THEN "autoriza" ELSE "falha"
    <3>1. emissao' = [emissao EXCEPT ![e] = [q EXCEPT !.pc = pc]]
      BY <2>2 DEF EmitViaFocus, Vai
    <3>2. r = [q EXCEPT !.pc = pc]
      BY <3>1, <2>e
    <3>3. pc \in {"autoriza", "falha"}
      OBVIOUS
    <3>4. r \in SoundEmissao /\ r.pc = pc /\ r.order = q.order /\ r.doc = q.doc
          /\ r.valor = q.valor /\ r.lido = q.lido
      <4> HIDE DEF pc
      <4> QED BY <1>q, <3>2, <3>3 DEF SoundEmissao, Emissao
    <3>5. Vai(e, r)
      BY <3>1, <3>2 DEF Vai
    <3> QED BY <2>2, <3>3, <3>4, <3>5, <1>q DEF EmitViaFocus
  <2> HIDE DEF Moved
  <2> QED BY <2>1, <2>2
<1> HIDE DEF q, r
<1>1. /\ FiscalTypeInv' /\ emissaoDupla \subseteq emissaoDupla'
      /\ \A f, g \in Emissores : f # g /\ emissao'[f].order = emissao'[g].order =>
           emissao'[f].order \in {None} \cup emissaoDupla'
      /\ emissao'[e] = r /\ \A f \in Emissores : f # e => emissao'[f] = emissao[f]
  <2>1. /\ docs' \in [DocIds -> SoundDoc] /\ fisco' \subseteq DocIds
        /\ perdidas' \subseteq DocIds /\ sequencia' \in Nat \ {0}
        /\ forcados' \subseteq OrderIds
    BY <1>q, <1>0 DEF FiscalInv, FiscalTypeInv, FiscalTypeOK
  <2> QED BY <1>0, <2>1, FiscalStepType DEF FiscalInv
<1>2. Propria(q) /\ docs[q.doc] = q.lido
  <2>1. Propria(q)
    BY DEF FiscalInv, q
  <2>2. q.lido = [q.lido EXCEPT !.numero = 0]
    BY <1>q DEF DocRow
  <2> QED BY <1>q, <2>1, <2>2 DEF Propria, Emitindo
<1>3. ASSUME NEW f \in Emissores PROVE Propria(emissao[f])'
  <2>1. CASE f = e
    <3>1. docs'[r.doc] = [r.lido EXCEPT !.numero = 0]
      BY <1>q, <1>0, <1>2 DEF Propria, Emitindo
    <3> QED BY <1>0, <1>1, <2>1, <3>1 DEF Propria
  <2>2. CASE f # e
    BY <1>0, <1>1, <2>2 DEF Propria, Emitindo, FiscalInv
  <2> QED BY <2>1, <2>2
<1>4. Separadas'
  BY <1>q, <1>0, <1>1 DEF Separadas, Emitindo, FiscalInv, q
<1>5. UmaPorVez'
  BY <1>0, <1>1 DEF UmaPorVez, Autorizados, FiscalInv, q
<1>6. DoVendido'
  BY <1>0, <1>1 DEF DoVendido, Vendido, FiscalInv, orderVars, orderTables, q
<1>7. NoFisco'
  BY <1>q, <1>0, <1>1 DEF NoFisco, Em, FiscalInv, q
<1>8. Numeros'
  <2> SUFFICES ASSUME ~reiniciou PROVE Numeros'
    BY <1>0 DEF Numeros
  <2>t. /\ \A d \in DocIds : docs[d].numero \in Nat
        /\ \A f \in Emissores : emissao[f].lido.numero \in Nat
    BY DEF FiscalInv, FiscalTypeInv, FiscalTypeOK, DocRow, Emissao
  <2>1. /\ \A d \in DocIds : docs[d].numero < sequencia
        /\ \A c, d \in DocIds : c # d /\ docs[c].numero > 0 => docs[c].numero # docs[d].numero
        /\ \A f \in Emissores : Em(f, "autoriza") /\ emissao[f].lido.numero > 0 =>
             /\ emissao[f].lido.numero < sequencia
             /\ \A d \in DocIds : docs[d].numero # emissao[f].lido.numero
             /\ \A g \in Emissores : g # f /\ Em(g, "autoriza") =>
                  emissao[g].lido.numero # emissao[f].lido.numero
    BY DEF FiscalInv, Numeros
  <2>2. CASE r.lido.numero = 0 /\ sequencia' = sequencia
    BY <1>q, <1>0, <1>1, <2>1, <2>2, <2>t DEF Numeros, Em
  <2>3. CASE r.lido.numero = sequencia /\ sequencia' = sequencia + 1
    BY <1>q, <1>0, <1>1, <2>1, <2>3, <2>t DEF Numeros, Em
  <2> QED BY <1>0, <2>2, <2>3
<1> QED BY <1>1, <1>3, <1>4, <1>5, <1>6, <1>7, <1>8 DEF FiscalInv

LEMMA EmitSaveStep ==
    ASSUME OrderInv, FiscalInv, UNCHANGED orderVars, NEW e \in Emissores, EmitSave(e)
    PROVE  FiscalInv'
<1> DEFINE q == emissao[e]
           status == IF q.pc = "falha" THEN "failed" ELSE "authorized"
           row == [q.lido EXCEPT !.status = status]
<1>q. /\ q \in SoundEmissao /\ q.pc \in {"autoriza", "falha"} /\ q.order \in OrderIds
      /\ q.doc \in DocIds /\ q.lido \in DocRow /\ q.lido.order = q.order
      /\ q.lido.valor = q.valor /\ q.lido.status = "pending"
      /\ q.pc = "falha" => q.lido.numero = 0
      /\ docs[q.doc] = [q.lido EXCEPT !.numero = 0]
  BY DEF EmitSave, FiscalInv, FiscalTypeInv, SoundEmissao, Emissao, Propria, Emitindo
<1>p. /\ docs[q.doc].order = q.order /\ docs[q.doc].status = "pending"
      /\ docs[q.doc].numero = 0
  BY <1>q DEF DocRow
<1>0. /\ row \in SoundDoc /\ row.order = q.order /\ row.valor = q.valor
      /\ row.status = status /\ row.numero = q.lido.numero
  <2>1. status \in NfceStatus /\ status # "none"
    BY DEF NfceStatus
  <2> HIDE DEF status, q
  <2> QED BY <1>q, <2>1 DEF SoundDoc, DocRow
<1>a. /\ docs' = [docs EXCEPT ![q.doc] = row] /\ Vai(e, SemEmissao) /\ Registra
      /\ UNCHANGED <<fisco, sequencia, forcados, perdidas, reiniciou>>
  BY DEF EmitSave
<1>s. status = IF q.pc = "falha" THEN "failed" ELSE "authorized"
  OBVIOUS
<1> HIDE DEF row, q, status
<1>1. /\ FiscalTypeInv' /\ emissaoDupla \subseteq emissaoDupla'
      /\ \A f, g \in Emissores : f # g /\ emissao'[f].order = emissao'[g].order =>
           emissao'[f].order \in {None} \cup emissaoDupla'
      /\ emissao'[e] = SemEmissao /\ \A f \in Emissores : f # e => emissao'[f] = emissao[f]
  <2>1. docs' \in [DocIds -> SoundDoc]
    BY <1>0, <1>a DEF FiscalInv, FiscalTypeInv
  <2> QED BY <1>a, <2>1, EmptySound, FiscalStepType DEF FiscalInv, FiscalTypeInv, FiscalTypeOK
<1>2. docs'[q.doc] = row /\ \A x \in DocIds : x # q.doc => docs'[x] = docs[x]
  BY <1>q, <1>a DEF FiscalInv, FiscalTypeInv
<1>3. \A f \in Emissores : f # e /\ (Emitindo(emissao[f]) \/ emissao[f].pc = "cancela") =>
        emissao[f].doc \in DocIds /\ emissao[f].doc # q.doc
  <2> SUFFICES ASSUME NEW f \in Emissores, f # e,
                      Emitindo(emissao[f]) \/ emissao[f].pc = "cancela"
               PROVE  emissao[f].doc \in DocIds /\ emissao[f].doc # q.doc
    OBVIOUS
  <2>1. emissao[f] \in SoundEmissao /\ Propria(emissao[f])
    BY DEF FiscalInv, FiscalTypeInv
  <2>2. CASE Emitindo(emissao[f])
    BY <1>q, <2>1, <2>2 DEF SoundEmissao, Emitindo, FiscalInv, Separadas, q
  <2>3. CASE emissao[f].pc = "cancela"
    BY <1>p, <2>1, <2>3 DEF SoundEmissao, Propria
  <2> QED BY <2>2, <2>3
<1>n. emissao'[e].order = None /\ emissao'[e].pc = "idle"
  BY <1>1 DEF SemEmissao
<1>4. ASSUME NEW f \in Emissores PROVE Propria(emissao[f])'
  <2>1. CASE f = e
    BY <1>n, <2>1 DEF Propria, Emitindo
  <2>2. CASE f # e
    BY <1>1, <1>2, <1>3, <2>2 DEF Propria, Emitindo, FiscalInv
  <2> QED BY <2>1, <2>2
<1>5. Separadas'
  BY <1>n, <1>1 DEF Separadas, Emitindo, FiscalInv
<1>6. UmaPorVez'
  <2> SUFFICES ASSUME NEW x \in OrderIds \ (forcados' \cup emissaoDupla')
               PROVE  /\ \A c, d \in Autorizados(x)' : c = d
                      /\ (\E f \in Emissores : emissao'[f].order = x) => Autorizados(x)' = {}
    BY DEF UmaPorVez
  <2>1. x \notin forcados \cup emissaoDupla
    BY <1>1, <1>a
  <2>2. CASE x = q.order
    <3>1. Autorizados(x) = {}
      BY <2>1, <2>2 DEF FiscalInv, UmaPorVez, q
    <3>2. Autorizados(x)' \subseteq {q.doc}
      BY <1>2, <3>1 DEF Autorizados
    <3>3. \A f \in Emissores : emissao'[f].order # x
      BY <1>n, <1>1, <2>1, <2>2, OrdersAssumption DEF FiscalInv, Separadas, q
    <3> QED BY <3>2, <3>3
  <2>3. CASE x # q.order
    <3>1. Autorizados(x)' = Autorizados(x)
      BY <1>p, <1>0, <1>2, <2>3 DEF Autorizados
    <3>2. \A f \in Emissores : emissao'[f].order = x => emissao[f].order = x
      BY <1>n, <1>1, OrdersAssumption
    <3> QED BY <2>1, <3>1, <3>2 DEF FiscalInv, UmaPorVez
  <2> QED BY <2>2, <2>3
<1>7. DoVendido'
  BY <1>n, <1>0, <1>1, <1>2, OrdersAssumption
  DEF DoVendido, Vendido, FiscalInv, orderVars, orderTables, q
<1>8. NoFisco'
  <2> SUFFICES ASSUME NEW d \in fisco \ perdidas
               PROVE  \/ docs'[d].status \in {"authorized", "cancelled"}
                      \/ \E f \in Emissores : Em(f, "autoriza")' /\ emissao'[f].doc = d
    BY <1>a DEF NoFisco
  <2>0. d \in DocIds
    BY DEF FiscalInv, FiscalTypeInv, FiscalTypeOK
  <2>1. CASE docs[d].status \in {"authorized", "cancelled"}
    BY <1>p, <1>2, <2>0, <2>1
  <2>2. ASSUME NEW f \in Emissores, Em(f, "autoriza"), emissao[f].doc = d
        PROVE  \/ docs'[d].status \in {"authorized", "cancelled"}
               \/ \E g \in Emissores : Em(g, "autoriza")' /\ emissao'[g].doc = d
    <3>1. CASE f = e
      BY <1>0, <1>2, <1>s, <2>2, <3>1 DEF Em, q
    <3>2. CASE f # e
      BY <1>1, <2>2, <3>2 DEF Em
    <3> QED BY <3>1, <3>2
  <2> QED BY <2>1, <2>2 DEF FiscalInv, NoFisco
<1>9. Numeros'
  <2> SUFFICES ASSUME ~reiniciou PROVE Numeros'
    BY <1>a DEF Numeros
  <2>t. /\ \A d \in DocIds : docs[d].numero \in Nat
        /\ \A f \in Emissores : emissao[f].lido.numero \in Nat
        /\ sequencia \in Nat \ {0}
    BY DEF FiscalInv, FiscalTypeInv, FiscalTypeOK, DocRow, Emissao
  <2>1. /\ \A d \in DocIds : docs[d].numero < sequencia
        /\ \A c, d \in DocIds : c # d /\ docs[c].numero > 0 => docs[c].numero # docs[d].numero
        /\ \A f \in Emissores : Em(f, "autoriza") /\ emissao[f].lido.numero > 0 =>
             /\ emissao[f].lido.numero < sequencia
             /\ \A d \in DocIds : docs[d].numero # emissao[f].lido.numero
             /\ \A g \in Emissores : g # f /\ Em(g, "autoriza") =>
                  emissao[g].lido.numero # emissao[f].lido.numero
    BY DEF FiscalInv, Numeros
  <2>2. \A f \in Emissores : Em(f, "autoriza")' => f # e /\ Em(f, "autoriza")
    BY <1>n, <1>1 DEF Em
  <2>3. /\ q.lido.numero \in Nat /\ q.lido.numero < sequencia
        /\ q.lido.numero > 0 =>
             /\ \A d \in DocIds : docs[d].numero # q.lido.numero
             /\ \A f \in Emissores : f # e /\ Em(f, "autoriza") =>
                  emissao[f].lido.numero # q.lido.numero
    BY <1>q, <2>1, <2>t DEF Em, q
  <2>4. \A d \in DocIds : docs'[d].numero =
                             IF d = q.doc THEN q.lido.numero ELSE docs[d].numero
    BY <1>0, <1>2
  <2>5. /\ \A d \in DocIds : docs'[d].numero < sequencia
        /\ \A c, d \in DocIds :
             c # d /\ docs'[c].numero > 0 => docs'[c].numero # docs'[d].numero
    BY <2>1, <2>3, <2>4, <2>t
  <2>6. \A f \in Emissores : Em(f, "autoriza")' /\ emissao'[f].lido.numero > 0 =>
          /\ emissao'[f].lido.numero < sequencia
          /\ \A d \in DocIds : docs'[d].numero # emissao'[f].lido.numero
          /\ \A g \in Emissores : g # f /\ Em(g, "autoriza")' =>
               emissao'[g].lido.numero # emissao'[f].lido.numero
    BY <1>1, <2>1, <2>2, <2>3, <2>4, <2>t
  <2> QED BY <1>a, <2>5, <2>6 DEF Numeros
<1> QED BY <1>1, <1>4, <1>5, <1>6, <1>7, <1>8, <1>9 DEF FiscalInv

LEMMA CancelReadStep ==
    ASSUME OrderInv, FiscalInv, UNCHANGED orderVars, NEW e \in Emissores, NEW d \in DocIds,
           CancelRead(e, d)
    PROVE  FiscalInv'
<1> DEFINE r == [SemEmissao EXCEPT !.pc = "cancela", !.doc = d, !.lido = docs[d]]
<1>d. docs[d] \in DocRow /\ docs[d].status = "authorized"
  BY DEF CancelRead, FiscalInv, FiscalTypeInv, FiscalTypeOK
<1>0. /\ r \in SoundEmissao /\ r.pc = "cancela" /\ r.doc = d /\ r.lido = docs[d]
      /\ r.order = None
  BY <1>d DEF SemEmissao, SoundEmissao, Emissao
<1>a. Vai(e, r) /\ Registra /\ UNCHANGED <<fiscalTables, forcados, perdidas, reiniciou>>
      /\ emissao[e].pc = "idle"
  BY DEF CancelRead, Em
<1> HIDE DEF r
<1>1. /\ FiscalTypeInv' /\ emissaoDupla \subseteq emissaoDupla'
      /\ \A f, g \in Emissores : f # g /\ emissao'[f].order = emissao'[g].order =>
           emissao'[f].order \in {None} \cup emissaoDupla'
      /\ emissao'[e] = r /\ \A f \in Emissores : f # e => emissao'[f] = emissao[f]
  BY <1>0, <1>a, FiscalStepType DEF FiscalInv, FiscalTypeInv, FiscalTypeOK, fiscalTables
<1>3. ASSUME NEW f \in Emissores PROVE Propria(emissao[f])'
  BY <1>d, <1>0, <1>1, <1>a DEF Propria, Emitindo, FiscalInv, fiscalTables
<1>4. Separadas'
  BY <1>0, <1>1 DEF Separadas, Emitindo, FiscalInv
<1>5. UmaPorVez'
  BY <1>0, <1>1, <1>a, OrdersAssumption DEF UmaPorVez, Autorizados, FiscalInv, fiscalTables
<1>6. DoVendido'
  BY <1>0, <1>1, <1>a, OrdersAssumption
  DEF DoVendido, Vendido, FiscalInv, orderVars, orderTables, fiscalTables
<1>7. NoFisco'
  BY <1>1, <1>a DEF NoFisco, Em, FiscalInv, fiscalTables
<1>8. Numeros'
  BY <1>0, <1>1, <1>a DEF Numeros, Em, FiscalInv, fiscalTables
<1> QED BY <1>1, <1>3, <1>4, <1>5, <1>6, <1>7, <1>8 DEF FiscalInv

LEMMA CancelSaveStep ==
    ASSUME OrderInv, FiscalInv, UNCHANGED orderVars, NEW e \in Emissores, CancelSave(e)
    PROVE  FiscalInv'
<1> DEFINE q == emissao[e]
           row == [q.lido EXCEPT !.status = "cancelled"]
<1>q. /\ q \in SoundEmissao /\ q.pc = "cancela" /\ q.doc \in DocIds /\ q.lido \in DocRow
      /\ docs[q.doc].status \in {"authorized", "cancelled"}
      /\ docs[q.doc].order = q.lido.order /\ docs[q.doc].valor = q.lido.valor
      /\ docs[q.doc].numero = q.lido.numero
      /\ docs[q.doc].order \in OrderIds
  <2>1. q \in SoundEmissao /\ q.pc = "cancela" /\ q.doc \in DocIds /\ q.lido \in DocRow
    BY DEF CancelSave, Em, FiscalInv, FiscalTypeInv, SoundEmissao, Emissao
  <2>2. /\ docs[q.doc].status \in {"authorized", "cancelled"}
        /\ docs[q.doc].order = q.lido.order /\ docs[q.doc].valor = q.lido.valor
        /\ docs[q.doc].numero = q.lido.numero
    BY <2>1 DEF FiscalInv, Propria
  <2>3. docs[q.doc] \in SoundDoc
    BY <2>1 DEF FiscalInv, FiscalTypeInv
  <2> QED BY <2>1, <2>2, <2>3 DEF SoundDoc
<1>0. /\ row \in SoundDoc /\ row.order = q.lido.order /\ row.valor = q.lido.valor
      /\ row.status = "cancelled" /\ row.numero = q.lido.numero
  <2> HIDE DEF q
  <2> QED BY <1>q DEF SoundDoc, DocRow, NfceStatus
<1>a. /\ docs' = [docs EXCEPT ![q.doc] = row] /\ Vai(e, SemEmissao) /\ Registra
      /\ UNCHANGED <<fisco, sequencia, forcados, perdidas, reiniciou>>
  BY DEF CancelSave
<1> HIDE DEF row, q
<1>1. /\ FiscalTypeInv' /\ emissaoDupla \subseteq emissaoDupla'
      /\ \A f, g \in Emissores : f # g /\ emissao'[f].order = emissao'[g].order =>
           emissao'[f].order \in {None} \cup emissaoDupla'
      /\ emissao'[e] = SemEmissao /\ \A f \in Emissores : f # e => emissao'[f] = emissao[f]
  <2>1. docs' \in [DocIds -> SoundDoc]
    BY <1>0, <1>a DEF FiscalInv, FiscalTypeInv
  <2> QED BY <1>a, <2>1, EmptySound, FiscalStepType DEF FiscalInv, FiscalTypeInv, FiscalTypeOK
<1>2. /\ docs'[q.doc] = row /\ \A x \in DocIds : x # q.doc => docs'[x] = docs[x]
      /\ \A x \in DocIds : /\ docs'[x].order = docs[x].order /\ docs'[x].valor = docs[x].valor
                           /\ docs'[x].numero = docs[x].numero
                           /\ docs'[x].status \in {docs[x].status, "cancelled"}
  BY <1>q, <1>0, <1>a DEF FiscalInv, FiscalTypeInv
<1>n. emissao'[e].order = None /\ emissao'[e].pc = "idle"
  BY <1>1 DEF SemEmissao
<1>3. ASSUME NEW f \in Emissores PROVE Propria(emissao[f])'
  <2>1. CASE f = e
    BY <1>n, <2>1 DEF Propria, Emitindo
  <2>2. CASE f # e
    <3>1. emissao[f] \in SoundEmissao /\ Propria(emissao[f]) /\ emissao'[f] = emissao[f]
      BY <1>1, <2>2 DEF FiscalInv, FiscalTypeInv
    <3>2. CASE Emitindo(emissao[f])
      <4>1. /\ emissao[f].doc \in DocIds /\ emissao[f].pc # "cancela"
            /\ docs[emissao[f].doc] = [emissao[f].lido EXCEPT !.numero = 0]
        BY <3>1, <3>2 DEF Propria, Emitindo, SoundEmissao
      <4>2. docs[emissao[f].doc].status = "pending"
        BY <3>1, <3>2, <4>1 DEF SoundEmissao, Emitindo, Emissao, DocRow
      <4>3. docs'[emissao[f].doc] = docs[emissao[f].doc]
        BY <1>q, <1>2, <4>1, <4>2
      <4> QED BY <3>1, <4>1, <4>3 DEF Propria
    <3>3. CASE emissao[f].pc = "cancela"
      BY <1>2, <1>0, <3>1, <3>3 DEF Propria, Emitindo, SoundEmissao
    <3> QED BY <3>1, <3>2, <3>3 DEF Propria
  <2> QED BY <2>1, <2>2
<1>4. Separadas'
  BY <1>n, <1>1 DEF Separadas, Emitindo, FiscalInv
<1>5. UmaPorVez'
  <2>1. \A x \in OrderIds : Autorizados(x)' \subseteq Autorizados(x)
    BY <1>2 DEF Autorizados
  <2>2. \A x \in OrderIds, f \in Emissores : emissao'[f].order = x => emissao[f].order = x
    BY <1>n, <1>1, OrdersAssumption
  <2> QED BY <1>1, <1>a, <2>1, <2>2 DEF FiscalInv, UmaPorVez
<1>6. DoVendido'
  BY <1>n, <1>1, <1>2, OrdersAssumption
  DEF DoVendido, Vendido, FiscalInv, orderVars, orderTables
<1>7. NoFisco'
  <2>1. \A x \in DocIds : docs[x].status \in {"authorized", "cancelled"} =>
                            docs'[x].status \in {"authorized", "cancelled"}
    BY <1>2
  <2>2. \A f \in Emissores : Em(f, "autoriza") => Em(f, "autoriza")' /\ emissao'[f] = emissao[f]
    BY <1>q, <1>1 DEF Em, q
  <2> QED BY <1>a, <2>1, <2>2 DEF NoFisco, FiscalInv, FiscalTypeInv, FiscalTypeOK
<1>8. Numeros'
  <2>1. \A f \in Emissores : Em(f, "autoriza")' => Em(f, "autoriza") /\ emissao'[f] = emissao[f]
    BY <1>n, <1>1 DEF Em
  <2> QED BY <1>2, <1>a, <2>1 DEF Numeros, FiscalInv
<1> QED BY <1>1, <1>3, <1>4, <1>5, <1>6, <1>7, <1>8 DEF FiscalInv

LEMMA FiscalDesisteStep ==
    ASSUME OrderInv, FiscalInv, UNCHANGED orderVars, NEW e \in Emissores, FiscalDesiste(e)
    PROVE  FiscalInv'
<1>a. /\ Vai(e, SemEmissao) /\ Registra
      /\ UNCHANGED <<docs, fisco, sequencia, forcados, reiniciou>>
      /\ perdidas' = perdidas \cup NaoSalvas({e})
  BY DEF FiscalDesiste, fiscalTables
<1>0. /\ NaoSalvas({e}) \subseteq DocIds
      /\ Em(e, "autoriza") => emissao[e].doc \in NaoSalvas({e})
  <2>1. \A f \in {e} : Em(f, "autoriza") => emissao[f].doc \in DocIds
    BY DEF Em, FiscalInv, FiscalTypeInv, SoundEmissao
  <2> QED BY <2>1 DEF NaoSalvas
<1>1. /\ FiscalTypeInv' /\ emissaoDupla \subseteq emissaoDupla'
      /\ \A f, g \in Emissores : f # g /\ emissao'[f].order = emissao'[g].order =>
           emissao'[f].order \in {None} \cup emissaoDupla'
      /\ emissao'[e] = SemEmissao /\ \A f \in Emissores : f # e => emissao'[f] = emissao[f]
  <2>1. perdidas' \subseteq DocIds
    BY <1>a, <1>0 DEF FiscalInv, FiscalTypeInv, FiscalTypeOK
  <2> QED BY <1>a, <2>1, EmptySound, FiscalStepType DEF FiscalInv, FiscalTypeInv, FiscalTypeOK
<1>n. emissao'[e].order = None /\ emissao'[e].pc = "idle"
  BY <1>1 DEF SemEmissao
<1>3. ASSUME NEW f \in Emissores PROVE Propria(emissao[f])'
  BY <1>n, <1>1, <1>a DEF Propria, Emitindo, FiscalInv
<1>4. Separadas'
  BY <1>n, <1>1 DEF Separadas, Emitindo, FiscalInv
<1>5. UmaPorVez'
  BY <1>n, <1>1, <1>a, OrdersAssumption DEF UmaPorVez, Autorizados, FiscalInv
<1>6. DoVendido'
  BY <1>n, <1>1, <1>a, OrdersAssumption DEF DoVendido, Vendido, FiscalInv, orderVars, orderTables
<1>7. NoFisco'
  BY <1>1, <1>0, <1>a DEF NoFisco, Em, FiscalInv
<1>8. Numeros'
  BY <1>n, <1>1, <1>a DEF Numeros, Em, FiscalInv
<1> QED BY <1>1, <1>3, <1>4, <1>5, <1>6, <1>7, <1>8 DEF FiscalInv

\* Emissions move and the orders stay.
LEMMA FiscalOwnInv ==
    ASSUME OrderInv, FiscalInv, FiscalOwnNext, UNCHANGED orderVars
    PROVE  FiscalInv'
BY EmitReadStep, EmitInsertStep, EmitSendStep, EmitSaveStep, CancelReadStep, CancelSaveStep,
   FiscalDesisteStep
DEF FiscalOwnNext

\* Orders move and the emissions stay: what was paid for stays as it was.
LEMMA FiscalFrame ==
    ASSUME OrderInv, OrderInv', FiscalInv, UNCHANGED fiscalOwn,
           [OrdersOwnNext]_orderVars \/ UNCHANGED orderTables,
           perturbados \subseteq perturbados'
    PROVE  FiscalInv'
<1> USE DEF fiscalOwn, fiscalTables, fiscalHistory
<1>1. FiscalTypeInv'
  BY DEF FiscalInv, FiscalTypeInv, FiscalTypeOK
<1>2. \A e \in Emissores : Propria(emissao[e])'
  BY DEF FiscalInv, Propria
<1>3. Separadas' /\ UmaPorVez' /\ NoFisco' /\ Numeros'
  BY DEF FiscalInv, Separadas, UmaPorVez, Autorizados, NoFisco, Numeros, Em
<1>4. DoVendido'
  <2>1. ASSUME NEW o \in OrderIds \ (perturbados' \cup demo'), NEW v, Vendido(o, v)
        PROVE  o \notin perturbados \cup demo => Vendido(o, v)'
    <3> HAVE o \notin perturbados \cup demo
    <3>1. orders'[o] = orders[o]
      <4>1. CASE [OrdersOwnNext]_orderVars
        BY <2>1, <4>1, StepKeepsPaid DEF Vendido, Stays
      <4>2. CASE UNCHANGED orderTables
        BY <4>2 DEF orderTables
      <4> QED BY <4>1, <4>2
    <3> QED BY <2>1, <3>1 DEF Vendido
  <2>2. demo \subseteq demo'
    <3>1. CASE [OrdersOwnNext]_orderVars
      BY <3>1 DEF OrdersOwnNext, Create, AddRead, CheckoutRead, DemoInsert, AddItem, DemoItem,
                  AddSave, Reserve, Confirm, CheckoutSave, DemoSave, Desiste, orderTables,
                  orderVars
    <3>2. CASE UNCHANGED orderTables
      BY <3>2 DEF orderTables
    <3> QED BY <3>1, <3>2
  <2> QED BY <2>1, <2>2 DEF FiscalInv, DoVendido
<1> QED BY <1>1, <1>2, <1>3, <1>4 DEF FiscalInv

\* perturbados only grows.
LEMMA DisturbedStays == [OrdersOwnNext]_orderVars => perturbados \subseteq perturbados'
BY DEF OrdersOwnNext, Create, AddRead, CheckoutRead, DemoInsert, AddItem, DemoItem, AddSave,
       Reserve, Confirm, CheckoutSave, DemoSave, Desiste, Historia, orderTables, orderVars

\* A stop ends every request and every emission at once.
LEMMA ReiniciaStep ==
    ASSUME OrderInv, FiscalInv, Reinicia
    PROVE  OrderInv' /\ FiscalInv'
<1> DEFINE parado == {req[p].order : p \in {q \in Requests : Incompleto(q)}}
<1>a. /\ req' = [p \in Requests |-> Idle] /\ emissao' = [e \in Emissores |-> SemEmissao]
      /\ UNCHANGED <<orders, linhas, itens, debitado, debitos, demo, docs, fisco, forcados>>
      /\ sequencia' = 1 /\ reiniciou' = (reiniciou \/ sequencia > 1)
      /\ perdidas' = perdidas \cup NaoSalvas(Emissores)
      /\ Historia(parado) /\ Registra
  BY DEF Reinicia, orderTables
<1>p. parado \subseteq OrderIds
  BY DEF OrderInv, TypeInv, SoundRequest, Incompleto, At
<1>q. \A p \in Requests : Incompleto(p) => req[p].order \in parado
  OBVIOUS
<1> HIDE DEF parado
<1>1. TypeInv'
  <2>1. perturbados' \subseteq OrderIds
    BY <1>a, <1>p DEF OrderInv, TypeInv, OrdersTypeOK, Historia, Cruzados
  <2> QED BY <1>a, <2>1, IdleSound DEF OrderInv, TypeInv, OrdersTypeOK, SoundRequest
<1>2. Apart' /\ perturbados \subseteq perturbados' /\ parado \subseteq perturbados'
  BY <1>1, <1>a, HistoryApart
<1>3. ASSUME NEW x \in OrderIds \ perturbados' PROVE Kept(x)'
  <2>1. x \notin perturbados /\ Kept(x)
    BY <1>2 DEF OrderInv
  <2>2. Settled(x)
    <3>1. ASSUME NEW p \in Requests, Tem(x, req[p]) PROVE Settled(x)
      BY <1>2, <1>3, <1>q, <2>1, <3>1, StopSettles DEF Tem
    <3> QED BY <2>1, <3>1 DEF Kept
  <2>3. \A p \in Requests : ~Tem(x, req'[p])
    BY <1>a, OrdersAssumption DEF Idle, Tem
  <2>4. Settled(x)'
    BY <1>a, <2>2 DEF Settled
  <2> QED BY <2>3, <2>4 DEF Kept, Tem, Grava
<1>h. Held'
  BY <1>a DEF Held, Holds, At, Idle, OrderInv
<1>4. OrderInv'
  BY <1>1, <1>2, <1>3, <1>h DEF OrderInv
<1>n. \A e \in Emissores : emissao'[e].order = None /\ emissao'[e].pc = "idle"
  BY <1>a DEF SemEmissao
<1>5. /\ NaoSalvas(Emissores) \subseteq DocIds
      /\ \A e \in Emissores : Em(e, "autoriza") => emissao[e].doc \in NaoSalvas(Emissores)
  <2>1. \A e \in Emissores : Em(e, "autoriza") => emissao[e].doc \in DocIds
    BY DEF Em, FiscalInv, FiscalTypeInv, SoundEmissao
  <2> QED BY <2>1 DEF NaoSalvas
<1>6. FiscalTypeInv'
  <2>1. emissao' \in [Emissores -> SoundEmissao] /\ emissao' \in [Emissores -> Emissao]
    BY <1>a, EmptySound DEF SoundEmissao
  <2>2. emissaoDupla' \subseteq OrderIds /\ perdidas' \subseteq DocIds
    BY <1>a, <1>5 DEF FiscalInv, FiscalTypeInv, FiscalTypeOK, Registra, Dupla
  <2> QED BY <1>a, <2>1, <2>2 DEF FiscalInv, FiscalTypeInv, FiscalTypeOK
<1>7. \A e \in Emissores : Propria(emissao[e])'
  BY <1>n DEF Propria, Emitindo
<1>8. Separadas'
  BY <1>n DEF Separadas, Emitindo
<1>9. UmaPorVez'
  <2>1. emissaoDupla \subseteq emissaoDupla'
    BY <1>a DEF Registra
  <2> QED BY <1>a, <1>n, <2>1, OrdersAssumption DEF UmaPorVez, Autorizados, FiscalInv
<1>10. DoVendido'
  BY <1>a, <1>n, <1>2, OrdersAssumption DEF DoVendido, Vendido, FiscalInv
<1>11. NoFisco'
  BY <1>a, <1>5 DEF NoFisco, FiscalInv
<1>12. Numeros'
  <2> SUFFICES ASSUME ~reiniciou' PROVE Numeros'
    BY DEF Numeros
  <2>1. ~reiniciou /\ sequencia = 1 /\ sequencia' = sequencia
    <3>1. ~reiniciou /\ ~(sequencia > 1)
      BY <1>a, Zenon
    <3>2. sequencia \in Nat \ {0}
      BY DEF FiscalInv, FiscalTypeInv, FiscalTypeOK
    <3> QED BY <1>a, <3>1, <3>2
  <2> QED BY <1>a, <1>n, <2>1 DEF Numeros, Em, FiscalInv
<1> QED BY <1>4, <1>6, <1>7, <1>8, <1>9, <1>10, <1>11, <1>12 DEF FiscalInv

LEMMA FiscalInitInv == FiscalInit => OrderInv /\ FiscalInv
<1> SUFFICES ASSUME FiscalInit PROVE OrderInv /\ FiscalInv
  OBVIOUS
<1>1. OrderInv
  BY OrdersInitInv DEF FiscalInit
<1>2. FiscalTypeInv
  <2>1. SemEmissao \in Emissao
    BY EmptySound DEF SoundEmissao
  <2>2. docs \in [DocIds -> DocRow] /\ docs \in [DocIds -> SoundDoc]
    BY EmptySound DEF FiscalInit
  <2>3. emissao \in [Emissores -> Emissao] /\ emissao \in [Emissores -> SoundEmissao]
    BY <2>1, EmptySound DEF FiscalInit
  <2>4. reiniciou \in BOOLEAN
    BY Zenon DEF FiscalInit
  <2>5. /\ fisco \subseteq DocIds /\ perdidas \subseteq DocIds /\ sequencia \in Nat \ {0}
        /\ forcados \subseteq OrderIds /\ emissaoDupla \subseteq OrderIds
    BY DEF FiscalInit
  <2> QED BY <2>2, <2>3, <2>4, <2>5 DEF FiscalTypeInv, FiscalTypeOK
<1>3. \A e \in Emissores : emissao[e].order = None /\ emissao[e].pc = "idle"
  BY DEF FiscalInit, SemEmissao
<1>4. \A d \in DocIds : docs[d].order = None /\ docs[d].numero = 0
  BY DEF FiscalInit, NoDoc
<1>5. /\ \A e \in Emissores : Propria(emissao[e])
      /\ Separadas
  BY <1>3 DEF Propria, Emitindo, Separadas
<1>6. UmaPorVez /\ DoVendido
  BY <1>3, <1>4, OrdersAssumption DEF UmaPorVez, DoVendido, Autorizados
<1>7. NoFisco /\ Numeros
  BY <1>3, <1>4 DEF NoFisco, Numeros, Em, FiscalInit
<1> QED BY <1>1, <1>2, <1>5, <1>6, <1>7 DEF FiscalInv

LEMMA FiscalNextInv ==
    OrderInv /\ FiscalInv /\ [FiscalNext]_fiscalVars => OrderInv' /\ FiscalInv'
<1> SUFFICES ASSUME OrderInv, FiscalInv, [FiscalNext]_fiscalVars PROVE OrderInv' /\ FiscalInv'
  OBVIOUS
<1>1. CASE OrdersOwnNext /\ UNCHANGED fiscalOwn
  BY <1>1, OrdersNextInv, DisturbedStays, FiscalFrame
<1>2. CASE FiscalOwnNext /\ UNCHANGED orderVars
  BY <1>2, OrdersNextInv, FiscalOwnInv
<1>3. CASE Reinicia
  BY <1>3, ReiniciaStep
<1>4. CASE UNCHANGED fiscalVars
  BY <1>4, OrdersNextInv, DisturbedStays, FiscalFrame DEF fiscalVars
<1> QED BY <1>1, <1>2, <1>3, <1>4 DEF FiscalNext

LEMMA FiscalAlways == FiscalSpec => [](OrderInv /\ FiscalInv)
BY FiscalInitInv, FiscalNextInv, PTL DEF FiscalSpec
-----------------------------------------------------------------------------
LEMMA InvImpliesUmaNota == OrderInv /\ FiscalInv => UmaNotaPorPedido
<1> SUFFICES ASSUME OrderInv, FiscalInv PROVE UmaNotaPorPedido
  OBVIOUS
<1>1. ASSUME NEW o \in OrderIds \ (forcados \cup emissaoDupla)
      PROVE  Cardinality(Autorizados(o)) <= 1
  <2>1. \A c, d \in Autorizados(o) : c = d
    BY DEF FiscalInv, UmaPorVez
  <2>2. CASE Autorizados(o) = {}
    BY <2>2, FS_EmptySet
  <2>3. ASSUME NEW d \in Autorizados(o) PROVE Cardinality(Autorizados(o)) <= 1
    <3>1. Autorizados(o) = {d}
      BY <2>1, <2>3
    <3> QED BY <3>1, FS_Singleton
  <2> QED BY <2>2, <2>3
<1>2. ASSUME NEW o \in OrderIds \ (perturbados \cup demo), NEW d \in Autorizados(o)
      PROVE  docs[d].valor = debitado[o]
  <2>1. orders[o].status = "paid" /\ docs[d].valor = orders[o].total
    BY DEF FiscalInv, DoVendido, Vendido, Autorizados
  <2>2. Kept(o)
    BY DEF OrderInv
  <2>3. ASSUME NEW p \in Requests, Tem(o, req[p]) PROVE FALSE
    <3>1. ~At(p, "idle")
      BY <2>3, OrdersAssumption DEF OrderInv, TypeInv, SoundRequest, Tem, At
    <3>2. Busy(o, req[p]) /\ Holds(p) /\ req[p] \in SoundRequest /\ req[p] \in Request
      BY <2>3, <3>1, BusyHere DEF Tem
    <3>3. req[p].pc # "demo"
      BY <2>3, <3>1, <3>2 DEF Holds, At, Tem
    <3> QED BY <2>1, <3>1, <3>2, <3>3 DEF Busy, SoundRequest, Request, At
  <2> QED BY <2>1, <2>2, <2>3 DEF Kept, Settled
<1> QED BY <1>1, <1>2 DEF UmaNotaPorPedido, FiscalInv, NoFisco

\* A sale has one fiscal document in force, for what the wristband paid, and what the
\* provider authorized is authorized here: for any number of orders, documents and
\* emissions at once, with restarts and lost answers, outside the histories that the
\* property names.
THEOREM OneDocumentPerSale == FiscalSpec => []UmaNotaPorPedido
BY FiscalAlways, InvImpliesUmaNota, PTL

\* Until a restart no local number is on two documents.
THEOREM NumbersOnce == FiscalSpec => []NumeroUnico
<1>1. FiscalInv => NumeroUnico
  BY DEF FiscalInv, Numeros, NumeroUnico
<1> QED BY <1>1, FiscalAlways, PTL

\* With the fiscal side at work, and with restarts, which end every request at once,
\* a paid order is still debited its total once and stays as it was paid.
THEOREM OrderAgreesWithFiscal == FiscalSpec => []PagoConfere /\ PagoFica
<1>1. OrderInv /\ OrderInv' /\ [FiscalNext]_fiscalVars =>
        [\A o \in OrderIds \ (perturbados' \cup demo) :
           orders[o].status = "paid" =>
             /\ orders'[o] = orders[o] /\ debitos'[o] = debitos[o]
             /\ Acrescentando(o) \/ (linhas'[o] = linhas[o] /\ itens'[o] = itens[o])
        ]_orderVars
  <2> SUFFICES ASSUME OrderInv, OrderInv', [FiscalNext]_fiscalVars,
                      NEW o \in OrderIds \ (perturbados' \cup demo), orders[o].status = "paid"
               PROVE  Stays(o)
    BY DEF Stays
  <2>1. CASE [OrdersOwnNext]_orderVars
    BY <2>1, StepKeepsPaid
  <2>2. CASE FiscalOwnNext /\ UNCHANGED orderVars
    BY <2>2, StepKeepsPaid
  <2>3. CASE Reinicia
    BY <2>3 DEF Reinicia, orderTables, Stays
  <2> QED BY <2>1, <2>2, <2>3 DEF FiscalNext, fiscalVars
<1> QED BY <1>1, FiscalAlways, InvImpliesPago, PTL DEF FiscalSpec, PagoFica
=============================================================================
