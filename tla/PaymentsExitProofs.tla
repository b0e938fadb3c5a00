------------------------- MODULE PaymentsExitProofs -------------------------
(***************************************************************************)
(* Theorems about the modules composed with Comandas: Payments, and Exit   *)
(* with Customers, for every number of wristbands, comandas, items,        *)
(* intents, customers and requests.                                        *)
(*                                                                         *)
(* The steps of Comandas keep its invariant (TabKept, SheetKept in         *)
(* ComandasProofs) also when handlers of these modules interleave with     *)
(* them; here come the steps of those handlers, and what each module adds. *)
(***************************************************************************)
EXTENDS ComandasProofs, Payments, Customers
-----------------------------------------------------------------------------
(* What a step of Comandas does to the slot of its request *)

\* The program counters of pay, and those before its rows are inserted.
PayPath == {"payClose", "paySum", "payAlready", "payDebit", "payInsert", "payUpdate"}
Unpaid == {"payClose", "paySum", "payDebit", "payInsert"}

\* The handlers that, once started, may leave an active comanda as their mark.
AtWork == OnComanda \ {"cancelSave"}

Takes(o, r) ==
    /\ r.pc # "idle" /\ o.pc # "idle" => r.card = o.card
    /\ r.pc \in AtWork =>
          \/ o.pc \in AtWork /\ r.comanda = o.comanda
          \/ r.comanda \in ComandaIds /\ comandas[r.comanda].status \in Aberta
    /\ r.pc = "cancelSave" => r.lido.status = "cancelled"

Shape(o, r) ==
    /\ o.pc # "outer" /\ r.pc # "outer" /\ r \in Request /\ Takes(o, r)
    /\ \/ r.ref = None
       \/ /\ r.ref = o.ref /\ r.saldo = o.saldo
          /\ r.comanda = o.comanda /\ r.card = o.card
          /\ o.pc \in PayPath => r.pc \in PayPath
          /\ o.pc \in PayPath /\ r.pc \in Unpaid => o.pc \in Unpaid

LEMMA MovedShape ==
    ASSUME NEW o \in Request, NEW pc \in Pcs, o.pc # "outer", pc # "outer",
           o.pc \in PayPath => pc \in PayPath /\ (pc \in Unpaid => o.pc \in Unpaid),
           pc \in AtWork => o.pc \in AtWork, pc # "cancelSave"
    PROVE  Shape(o, [o EXCEPT !.pc = pc])
BY PcMoves DEF Shape, Takes

LEMMA IdleShape == ASSUME NEW o, o.pc # "outer" PROVE Shape(o, Idle)
BY IdleType DEF Shape, Takes, AtWork, OnComanda, Idle

LEMMA LendoRef == ASSUME NEW pc, NEW c, NEW row PROVE Lendo(pc, c, row).ref = None
BY DEF Lendo, Idle

LEMMA LendoShape ==
    ASSUME TablesOK, NEW o, o.pc = "idle", NEW pc \in Pcs, pc # "outer",
           NEW c \in ComandaIds, NEW row \in ComandaRow,
           pc \in AtWork => comandas[c].status \in Aberta,
           pc = "cancelSave" => row.status = "cancelled"
    PROVE  LET r == Lendo(pc, c, row)
           IN  Shape(o, r) /\ r.ref = None
BY LendoType, LendoRef DEF Shape, Takes

\* A slot of Comandas that p moves on: its new request keeps the reference it had.
Moved(p) == \E r : Go(p, r) /\ Shape(req[p], r)

LEMMA StartShapes ==
    ASSUME TabInv, NEW p \in Requests, Start(p)
    PROVE  Moved(p) /\ UNCHANGED tables
<1> DEFINE o == req[p]
<1>0. TablesOK /\ None \in ItemIds \cup {None} /\ NoComanda \in ComandaRow
  BY IdleType DEF TabInv
<1>1. ASSUME NEW k \in CardIds, TapRead(p, k) PROVE Moved(p) /\ UNCHANGED tables
  <2> DEFINE r == [Idle EXCEPT !.pc = "tapFind", !.card = k]
  <2>1. r \in Request /\ r.pc = "tapFind" /\ r.ref = None
    BY IdleType DEF Request, Pcs, Idle
  <2>2. Go(p, r) /\ UNCHANGED tables /\ o.pc = "idle"
    BY <1>1 DEF TapRead, At
  <2> HIDE DEF r
  <2> QED BY <2>1, <2>2 DEF Moved, Shape, Takes, AtWork, OnComanda
<1>2. ASSUME NEW c \in ComandaIds, AddRead(p, c) PROVE Moved(p) /\ UNCHANGED tables
  <2> DEFINE l == Lendo("addItem", c, NoComanda)
             r == [l EXCEPT !.itens = ItensDe(c)]
  <2>1. l \in Request /\ l.pc = "addItem" /\ l.ref = None /\ l.comanda = c
    BY <1>0, LendoType, LendoRef DEF Pcs
  <2>2. /\ Go(p, r) /\ UNCHANGED tables /\ o.pc = "idle"
        /\ comandas[c].status \in Aberta
    BY <1>2 DEF AddRead, AceitaItens, Aberta, At
  <2> HIDE DEF l
  <2>3. r \in Request /\ r.pc = "addItem" /\ r.ref = None /\ r.comanda = c
    BY <1>0, <2>1, ItensType DEF Request
  <2> HIDE DEF r
  <2> QED BY <2>2, <2>3 DEF Moved, Shape, Takes
<1>3. ASSUME NEW c \in ComandaIds, NEW x \in ItemIds, RemoveRead(p, c, x)
      PROVE  Moved(p) /\ UNCHANGED tables
  <2> DEFINE l == Lendo("removeFind", c, NoComanda)
             r == [l EXCEPT !.item = x]
  <2>1. l \in Request /\ l.pc = "removeFind" /\ l.ref = None /\ l.comanda = c
    BY <1>0, LendoType, LendoRef DEF Pcs
  <2>2. /\ Go(p, r) /\ UNCHANGED tables /\ o.pc = "idle"
        /\ comandas[c].status \in Aberta
    BY <1>3 DEF RemoveRead, Aberta, At
  <2> HIDE DEF l
  <2>3. r \in Request /\ r.pc = "removeFind" /\ r.ref = None /\ r.comanda = c
    BY <2>1 DEF Request
  <2> HIDE DEF r
  <2> QED BY <2>2, <2>3 DEF Moved, Shape, Takes
<1>4. ASSUME NEW c \in ComandaIds, NEW pc \in Rewrites, NEW row \in ComandaRow,
             Go(p, Lendo(pc, c, row)), o.pc = "idle",
             pc # "cancelSave" => comandas[c].status \in Aberta,
             pc = "cancelSave" => row.status = "cancelled"
      PROVE  Moved(p)
  <2>1. pc \in Pcs /\ pc # "outer"
    BY DEF Pcs, Rewrites
  <2>2. pc \in AtWork => comandas[c].status \in Aberta
    BY <1>4 DEF AtWork
  <2>3. Shape(o, Lendo(pc, c, row))
    BY <1>0, <1>4, <2>1, <2>2, LendoShape
  <2> QED BY <1>4, <2>3 DEF Moved
<1>5. ASSUME NEW c \in ComandaIds, NEW d \in {comandas[c].desconto} \cup 0..MaxDesconto,
             CloseRead(p, c, d)
      PROVE  Moved(p) /\ UNCHANGED tables
  <2> DEFINE row == [comandas[c] EXCEPT !.desconto = d,
                                   !.total = ComDesconto(comandas[c].subtotal, d),
                                   !.status = "pending_payment"]
  <2>1. d \in Nat /\ comandas[c] \in ComandaRow /\ comandas[c].subtotal \in Nat
    BY <1>0, ComandasAssumption, RowType DEF TablesOK
  <2>2. row \in ComandaRow
    BY <2>1, DescontoType DEF ComandaRow, ComandaStatus
  <2>3. /\ Go(p, Lendo("closeSave", c, row)) /\ UNCHANGED tables /\ o.pc = "idle"
        /\ comandas[c].status \in Aberta
    BY <1>5 DEF CloseRead, At, Aberta
  <2> HIDE DEF row
  <2> QED BY <1>4, <2>2, <2>3 DEF Rewrites
<1>6. ASSUME NEW c \in ComandaIds, ReopenRead(p, c) \/ CancelRead(p, c)
      PROVE  Moved(p) /\ UNCHANGED tables
  <2>1. \A st \in ComandaStatus : LET row == [comandas[c] EXCEPT !.status = st]
                                   IN  row \in ComandaRow /\ row.status = st
    BY <1>0 DEF TablesOK, ComandaRow
  <2> QED BY <1>4, <1>6, <2>1
          DEF ReopenRead, Reabrivel, CancelRead, At, Rewrites, ComandaStatus, Aberta
<1>7. ASSUME NEW c \in ComandaIds, NEW saldo \in 0..MaxTotal, NEW outro \in 0..MaxTotal,
             PayRead(p, c, saldo, outro)
      PROVE  Moved(p) /\ UNCHANGED tables
  <2> DEFINE r == PayStart(c, saldo, outro, None)
  <2>1. saldo \in Nat /\ outro \in Nat /\ None \in Refs \cup {None} /\ TablesOK
    BY <1>0, ComandasAssumption
  <2>2. /\ r \in Request /\ r.ref = None /\ r.comanda = c
        /\ r.pc = (IF comandas[c].status = "open" THEN "payClose" ELSE "paySum")
    BY <2>1, PayStartType
  <2>3. /\ Go(p, r) /\ UNCHANGED tables /\ o.pc = "idle"
        /\ comandas[c].status \in Aberta
    BY <1>7 DEF PayRead, Pagavel, Aberta, At
  <2> HIDE DEF r
  <2> QED BY <2>2, <2>3 DEF Moved, Shape, Takes
<1> HIDE DEF o
<1> QED BY <1>1, <1>2, <1>3, <1>5, <1>6, <1>7 DEF Start

\* Requests under way, but for the insertion of a payment row.
LEMMA ContinueShapes ==
    ASSUME TabInv, NEW p \in Requests,
           \/ TapFind(p) \/ (\E c \in ComandaIds : TapInsert(p, c))
           \/ (\E x \in ItemIds : AddItem(p, x))
           \/ RemoveFind(p) \/ RemoveItem(p) \/ RecalcRead(p) \/ RecalcSave(p)
           \/ SaveRow(p) \/ PayClose(p) \/ PaySum(p) \/ PayAlready(p) \/ PayDebit(p)
           \/ PayUpdate(p) \/ Abort(p)
    PROVE  Moved(p) /\ refs' = refs
<1> DEFINE o == req[p]
<1>0. TablesOK /\ o \in Request
  BY DEF TabInv, TablesOK
<1>1. CASE \/ \E c \in ComandaIds : TapInsert(p, c)
           \/ RecalcSave(p) \/ SaveRow(p) \/ PayAlready(p) \/ PayUpdate(p) \/ Abort(p)
  <2>1. Go(p, Idle) /\ o.pc # "outer" /\ refs' = refs
    BY <1>1 DEF TapInsert, RecalcSave, SaveRow, PayAlready, PayUpdate, Abort, At, Finish, tables
  <2> QED BY <2>1, IdleShape DEF Moved
<1>2. CASE TapFind(p) \/ RemoveFind(p) \/ RemoveItem(p) \/ PayClose(p) \/ PayDebit(p)
  <2>1. /\ refs' = refs
        /\ \/ Go(p, Idle) /\ o.pc # "outer"
           \/ Go(p, [o EXCEPT !.pc = "tapInsert"]) /\ o.pc = "tapFind"
           \/ Go(p, [o EXCEPT !.pc = "removeItem"]) /\ o.pc = "removeFind"
           \/ Go(p, [o EXCEPT !.pc = "recalcRead"]) /\ o.pc = "removeItem"
           \/ Go(p, [o EXCEPT !.pc = "paySum"]) /\ o.pc = "payClose"
           \/ Go(p, [o EXCEPT !.pc = "payInsert"]) /\ o.pc = "payDebit"
    BY <1>2 DEF TapFind, RemoveFind, RemoveItem, PayClose, PayDebit, At, Finish, tables
  <2> HIDE DEF o
  <2>2. ASSUME NEW pc \in Pcs, o.pc # "outer", pc # "outer",
               o.pc \in PayPath => pc \in PayPath /\ (pc \in Unpaid => o.pc \in Unpaid),
               pc \in AtWork => o.pc \in AtWork, pc # "cancelSave"
        PROVE  Shape(o, [o EXCEPT !.pc = pc])
    BY <1>0, <2>2, MovedShape
  <2>3. CASE o.pc = "tapFind" /\ Go(p, [o EXCEPT !.pc = "tapInsert"])
    <3>1. Shape(o, [o EXCEPT !.pc = "tapInsert"])
      BY <2>2, <2>3 DEF Pcs, PayPath, Unpaid, AtWork, OnComanda
    <3> QED BY <2>1, <2>3, <3>1 DEF Moved, o
  <2>4. CASE o.pc = "removeFind" /\ Go(p, [o EXCEPT !.pc = "removeItem"])
    <3>1. Shape(o, [o EXCEPT !.pc = "removeItem"])
      BY <2>2, <2>4 DEF Pcs, PayPath, Unpaid, AtWork, OnComanda
    <3> QED BY <2>1, <2>4, <3>1 DEF Moved, o
  <2>5. CASE o.pc = "removeItem" /\ Go(p, [o EXCEPT !.pc = "recalcRead"])
    <3>1. Shape(o, [o EXCEPT !.pc = "recalcRead"])
      BY <2>2, <2>5 DEF Pcs, PayPath, Unpaid, AtWork, OnComanda
    <3> QED BY <2>1, <2>5, <3>1 DEF Moved, o
  <2>6. CASE o.pc = "payClose" /\ Go(p, [o EXCEPT !.pc = "paySum"])
    <3>1. Shape(o, [o EXCEPT !.pc = "paySum"])
      BY <2>2, <2>6 DEF Pcs, PayPath, Unpaid, AtWork, OnComanda
    <3> QED BY <2>1, <2>6, <3>1 DEF Moved, o
  <2>7. CASE o.pc = "payDebit" /\ Go(p, [o EXCEPT !.pc = "payInsert"])
    <3>1. Shape(o, [o EXCEPT !.pc = "payInsert"])
      BY <2>2, <2>7 DEF Pcs, PayPath, Unpaid, AtWork, OnComanda
    <3> QED BY <2>1, <2>7, <3>1 DEF Moved, o
  <2>8. CASE o.pc # "outer" /\ Go(p, Idle)
    BY <2>1, <2>8, IdleShape DEF Moved, o
  <2> QED BY <2>1, <2>3, <2>4, <2>5, <2>6, <2>7, <2>8
<1>3. ASSUME NEW x \in ItemIds, AddItem(p, x) PROVE Moved(p) /\ refs' = refs
  <2> DEFINE n == IF o.itens[x] > 0 THEN o.itens[x] + 1 ELSE 0
             r == [o EXCEPT !.pc = "addNext", !.itens[x] = n]
  <2>1. o.pc \in {"addItem", "addNext"} /\ Go(p, r) /\ refs' = refs
    BY <1>3 DEF AddItem
  <2>2. o.itens \in [ItemIds -> Nat] /\ n \in Nat
    BY <1>0, ReqType
  <2> HIDE DEF n, o
  <2>3. /\ r \in Request /\ r.pc = "addNext" /\ r.ref = o.ref /\ r.saldo = o.saldo
        /\ r.comanda = o.comanda /\ r.card = o.card
    BY <1>0, <2>2 DEF Request, Pcs
  <2> HIDE DEF r
  <2> QED BY <2>1, <2>3 DEF Moved, Shape, Takes, AtWork, OnComanda, PayPath, o
<1>4. CASE RecalcRead(p)
  <2> DEFINE c == o.comanda
             l == Lendo("recalcSave", c, comandas[c])
             r == [l EXCEPT !.itens = ItensDe(c)]
  <2>1. /\ o.pc \in {"addNext", "recalcRead"} /\ Go(p, r) /\ refs' = refs
    BY <1>4 DEF RecalcRead, tables
  <2>2. c \in ComandaIds /\ comandas[c] \in ComandaRow /\ comandas[c].card = o.card
    BY <2>1, OnItsRow DEF OnComanda
  <2>0. c = o.comanda
    OBVIOUS
  <2> HIDE DEF c
  <2>3. /\ l \in Request /\ l.pc = "recalcSave" /\ l.ref = None /\ l.comanda = c
        /\ l.card = o.card
    BY <1>0, <2>2, LendoType, LendoRef DEF Pcs
  <2> HIDE DEF l
  <2>4. /\ r \in Request /\ r.pc = "recalcSave" /\ r.ref = None /\ r.comanda = c
        /\ r.card = o.card
    BY <1>0, <2>3, ItensType DEF Request
  <2> HIDE DEF r
  <2> QED BY <2>0, <2>1, <2>4 DEF Moved, Shape, Takes, AtWork, OnComanda
<1>5. CASE PaySum(p)
  <2> DEFINE ja == pagos[o.comanda]
             pc == IF o.saldo > 0 THEN "payDebit" ELSE "payInsert"
             r == [o EXCEPT !.jaPago = ja, !.pc = pc]
  <2>1. /\ o.pc = "paySum" /\ refs' = refs
        /\ Go(p, [o EXCEPT !.pc = "payAlready"]) \/ Go(p, r)
    BY <1>5 DEF PaySum, At, tables
  <2>2. o.comanda \in ComandaIds /\ ja \in Nat
    BY <2>1, OnItsRow DEF OnComanda
  <2>3. Shape(o, [o EXCEPT !.pc = "payAlready"])
    BY <1>0, <2>1, MovedShape DEF Pcs, PayPath, Unpaid, AtWork, OnComanda
  <2> HIDE DEF ja, o
  <2>4. /\ r \in Request /\ r.pc \in {"payDebit", "payInsert"} /\ r.ref = o.ref
        /\ r.saldo = o.saldo /\ r.comanda = o.comanda /\ r.card = o.card
    BY <1>0, <2>2 DEF Request, Pcs
  <2> HIDE DEF r
  <2>5. Shape(o, r)
    BY <2>1, <2>4 DEF Shape, Takes, AtWork, OnComanda, PayPath, Unpaid
  <2> QED BY <2>1, <2>3, <2>5 DEF Moved, o
<1> HIDE DEF o
<1> QED BY <1>1, <1>2, <1>3, <1>4, <1>5

LEMMA InsertShapes ==
    ASSUME TabInv, NEW p \in Requests, NEW s \in {0, req[p].saldoIns},
           NEW o \in {0, req[p].outroIns}, PayInsert(p, s, o)
    PROVE  /\ req[p].pc = "payInsert" /\ Moved(p)
           /\ refs' = IF req[p].ref # None THEN [refs EXCEPT ![req[p].ref] = @ + 1] ELSE refs
           /\ req[p].saldo = 0 => req'[p].pc = "payUpdate"
<1> DEFINE q == req[p]
           rest == [q EXCEPT !.saldoIns = q.saldoIns - s, !.outroIns = q.outroIns - o]
           r == [rest EXCEPT !.pc = "payUpdate"]
<1>1. /\ q.pc = "payInsert" /\ s + o > 0
      /\ (s = q.saldoIns /\ o = 0) \/ (s = 0 /\ o = q.outroIns)
      /\ refs' = IF q.ref # None THEN [refs EXCEPT ![q.ref] = @ + 1] ELSE refs
      /\ Go(p, IF rest.saldoIns + rest.outroIns = 0 THEN r ELSE rest)
  BY DEF PayInsert, At
<1>2. q \in Request /\ q.saldoIns \in Nat /\ q.outroIns \in Nat /\ q.saldo \in Nat
  BY ReqType DEF TabInv, TablesOK
<1>3. q.saldoIns <= q.saldo
  BY <1>1, OnItsRow DEF OnComanda, Backed
<1>4. q.saldoIns - s \in Nat /\ q.outroIns - o \in Nat
  BY <1>1, <1>2
<1> HIDE DEF q
<1>5. /\ rest \in Request /\ rest.pc = q.pc /\ rest.ref = q.ref /\ rest.saldo = q.saldo
      /\ rest.comanda = q.comanda /\ rest.card = q.card /\ rest.saldoIns = q.saldoIns - s
      /\ rest.outroIns = q.outroIns - o
  BY <1>2, <1>4 DEF Request
<1> HIDE DEF rest
<1>6. /\ r \in Request /\ r.pc = "payUpdate" /\ r.ref = q.ref /\ r.saldo = q.saldo
      /\ r.comanda = q.comanda /\ r.card = q.card
  <2>1. rest \in Request /\ "payUpdate" \in Pcs
    BY <1>5 DEF Pcs
  <2>2. /\ r \in Request /\ r.pc = "payUpdate" /\ r.ref = rest.ref /\ r.saldo = rest.saldo
        /\ r.comanda = rest.comanda /\ r.card = rest.card
    BY <2>1, PcMoves
  <2> QED BY <1>5, <2>2
<1> HIDE DEF r
<1>7. Shape(q, rest) /\ Shape(q, r)
  BY <1>1, <1>5, <1>6 DEF Shape, Takes, AtWork, OnComanda, PayPath, Unpaid
<1>8. q.saldo = 0 => rest.saldoIns + rest.outroIns = 0
  BY <1>1, <1>2, <1>3, <1>5
<1>9. req'[p] = IF rest.saldoIns + rest.outroIns = 0 THEN r ELSE rest
  BY <1>1 DEF Go, TabInv, TablesOK
<1>10. Moved(p)
  <2>1. q = req[p]
    BY DEF q
  <2>2. PICK z \in {r, rest} : Go(p, z)
    BY <1>1
  <2>3. Shape(req[p], z)
    BY <1>7, <2>1
  <2> QED BY <2>2, <2>3 DEF Moved
<1>11. q.saldo = 0 => req'[p].pc = "payUpdate"
  BY <1>6, <1>8, <1>9
<1> QED BY <1>1, <1>10, <1>11 DEF q

-----------------------------------------------------------------------------
(* Payments.  A handler at "outer" names a comanda that exists, and the intent it
   is about one of that comanda; the reference of a payment is an approved intent
   of the comanda that is paid. *)

IntentPcs == {"statusExpire", "statusRemote", "confirmRead", "confirmExpire",
              "confirmSave", "confirmPay", "cancelSave"}

IntentOf(i, c, ins) == i \in Refs /\ ins[i].status # "none" /\ ins[i].comanda = c

Served(h, r, ins, cs, ap) ==
    /\ h.pc = "none" <=> r.pc # "outer"
    /\ r.pc = "outer" =>
          /\ r.comanda \in ComandaIds /\ r.ref = None
          /\ cs[r.comanda].status # "none" /\ cs[r.comanda].card = r.card
    /\ h.pc \in IntentPcs => IntentOf(h.intent, r.comanda, ins)
    /\ h.pc = "confirmPay" => h.intent \in ap
    /\ r.ref # None =>
          /\ r.pc \in PayPath /\ r.saldo = 0
          /\ IntentOf(r.ref, r.comanda, ins) /\ r.ref \in ap

PayTables ==
    /\ intents \in [Refs -> IntentRow]
    /\ aprovados \in SUBSET Refs
    /\ pay \in [Requests -> PayRequest]

AllServed == \A p \in Requests : Served(pay[p], req[p], intents, comandas, aprovados)

IntentsOwned ==
    \A i \in Refs : intents[i].status # "none" =>
        intents[i].comanda \in ComandaIds /\ comandas[intents[i].comanda].status # "none"

ApprovedExist == \A i \in aprovados : intents[i].status # "none"

PayInv == PayTables /\ AllServed /\ IntentsOwned /\ ApprovedExist /\ PaidByApproved

\* On wristbands where requests never overlapped, what a handler found out about
\* its intent is still so when it writes, and a reference under way is not yet in
\* the table.
Resolves(h, r, ins, rf, sob) ==
    r.card \notin sob =>
        /\ h.pc \in {"statusExpire", "confirmExpire", "confirmSave"} =>
              ins[h.intent].status = "awaiting_customer"
        /\ h.pc = "cancelSave" => ins[h.intent].status \notin {"none", "approved"}
        /\ h.pc = "confirmPay" => ins[h.intent].status = "approved" /\ rf[h.intent] = 0
        /\ r.ref # None => ins[r.ref].status = "approved"
        /\ r.ref # None /\ r.pc \in Unpaid => rf[r.ref] = 0

AllResolve == \A p \in Requests : Resolves(pay[p], req[p], intents, refs, sobrepostos)

IntentsGood ==
    \A i \in Refs : refs[i] > 0 /\ IntentSeparado(i) =>
        intents[i].status = "approved" /\ refs[i] = 1

OnceInv == AllResolve /\ IntentsGood
-----------------------------------------------------------------------------
(* Payments under every interleaving and on wristbands apart *)

IntentsStay ==
    \A i \in Refs : intents[i].status # "none" =>
        intents'[i].status # "none" /\ intents'[i].comanda = intents[i].comanda

\* The step of p decides intents of its wristband only, or new ones.
OwnIntents(p) ==
    \A i \in Refs :
        \/ intents'[i].status = intents[i].status /\ refs'[i] = refs[i]
        \/ intents[i].status = "none"
        \/ comandas[intents[i].comanda].card = req[p].card

LEMMA NoPayFacts ==
    /\ NoPay.pc = "none" /\ NoPay.intent = None /\ NoPay \in PayRequest
    /\ Idle.pc = "idle" /\ Idle.ref = None
BY DEF NoPay, PayRequest, PayPcs, Idle

LEMMA IdleServes ==
    ASSUME NEW ins, NEW cs, NEW ap, NEW rf, NEW sob
    PROVE  Served(NoPay, Idle, ins, cs, ap) /\ Resolves(NoPay, Idle, ins, rf, sob)
BY NoPayFacts DEF Served, Resolves, IntentPcs

\* The slot of a handler: what it names.
LEMMA SlotFacts ==
    ASSUME TabInv, PayInv, NEW p \in Requests
    PROVE  /\ pay[p] \in PayRequest /\ req[p] \in Request
           /\ Served(pay[p], req[p], intents, comandas, aprovados)
           /\ req[p].pc # "idle" => req[p].card \in CardIds
           /\ pay[p].pc \in IntentPcs =>
                 /\ pay[p].intent \in Refs /\ intents[pay[p].intent].status # "none"
                 /\ intents[pay[p].intent].comanda = req[p].comanda
                 /\ req[p].comanda \in ComandaIds
                 /\ comandas[req[p].comanda].card = req[p].card
           /\ req[p].ref # None =>
                 /\ req[p].ref \in Refs /\ intents[req[p].ref].status # "none"
                 /\ intents[req[p].ref].comanda = req[p].comanda
                 /\ req[p].comanda \in ComandaIds
                 /\ comandas[req[p].comanda].card = req[p].card
<1>1. /\ pay[p] \in PayRequest /\ req[p] \in Request
      /\ Served(pay[p], req[p], intents, comandas, aprovados)
      /\ Named(req[p], comandas)
  BY DEF TabInv, TablesOK, AllNamed, PayInv, PayTables, AllServed
<1>2. req[p].pc \in PayPath => req[p].pc \in OnComanda
  BY DEF PayPath, OnComanda
<1> QED BY <1>1, <1>2 DEF Named, Served, IntentOf, IntentPcs

LEMMA OthersServed ==
    ASSUME TabInv, PayInv, CardsStay, IntentsStay, aprovados \subseteq aprovados',
           NEW q \in Requests
    PROVE  Served(pay[q], req[q], intents', comandas', aprovados')
BY SlotFacts DEF Served, IntentOf, CardsStay, IntentsStay

LEMMA OthersResolve ==
    ASSUME TabInv, PayInv, Apart, AllResolve, Grow, NEW p \in Requests, OwnIntents(p),
           NEW q \in Requests, q # p
    PROVE  Resolves(pay[q], req[q], intents', refs', sobrepostos')
<1> SUFFICES ASSUME req[q].card \notin sobrepostos'
             PROVE  Resolves(pay[q], req[q], intents', refs', sobrepostos')
  BY DEF Resolves
<1>1. Resolves(pay[q], req[q], intents, refs, sobrepostos) /\ req[q].card \notin sobrepostos
  BY DEF AllResolve, Grow
<1>2. req[q].card \in CardIds => req[q].card # req[p].card
  BY <1>1 DEF Apart
<1>3. ASSUME NEW i \in Refs, intents[i].status # "none",
             intents[i].comanda = req[q].comanda, req[q].card \in CardIds,
             comandas[req[q].comanda].card = req[q].card
      PROVE  intents'[i].status = intents[i].status /\ refs'[i] = refs[i]
  BY <1>2, <1>3 DEF OwnIntents
<1>4. pay[q].pc \in IntentPcs => req[q].pc = "outer"
  BY SlotFacts DEF Served, IntentPcs
<1>5. req[q].ref # None => req[q].pc \in PayPath
  BY SlotFacts DEF Served
<1>6. pay[q].pc \in IntentPcs =>
         /\ intents'[pay[q].intent].status = intents[pay[q].intent].status
         /\ refs'[pay[q].intent] = refs[pay[q].intent]
  BY <1>3, <1>4, SlotFacts
<1>7. req[q].ref # None =>
         /\ intents'[req[q].ref].status = intents[req[q].ref].status
         /\ refs'[req[q].ref] = refs[req[q].ref]
  BY <1>3, <1>5, SlotFacts DEF PayPath
<1> QED BY <1>1, <1>6, <1>7 DEF Resolves, IntentPcs

\* The slots after a step of p.
LEMMA SlotsAfter ==
    ASSUME TabInv, PayInv, Apart, OnceInv, Grow, CardsStay, IntentsStay,
           aprovados \subseteq aprovados', NEW p \in Requests, OwnIntents(p),
           NEW r, Go(p, r), NEW h, PayGo(p, h),
           Served(h, r, intents', comandas', aprovados'),
           Resolves(h, r, intents', refs', sobrepostos')
    PROVE  AllServed' /\ AllResolve'
<1>1. /\ req'[p] = r /\ \A q \in Requests \ {p} : req'[q] = req[q]
      /\ pay'[p] = h /\ \A q \in Requests \ {p} : pay'[q] = pay[q]
  BY DEF Go, PayGo, TabInv, TablesOK, PayInv, PayTables
<1>2. AllResolve
  BY DEF OnceInv
<1> QED BY <1>1, <1>2, OthersServed, OthersResolve DEF AllServed, AllResolve

\* A handler that reads, stops, leaves or hands over to pay.
LEMMA QuietHandler ==
    ASSUME TabInv, PayInv, Apart, OnceInv, Grow, NEW p \in Requests, NEW r, Go(p, r),
           NEW h \in PayRequest, PayGo(p, h), UNCHANGED <<tables, intents, aprovados>>,
           Served(h, r, intents, comandas, aprovados),
           Resolves(h, r, intents, refs, sobrepostos')
    PROVE  PayInv' /\ OnceInv'
<1>1. UNCHANGED <<comandas, refs>>
  BY DEF tables
<1>2. CardsStay /\ IntentsStay /\ OwnIntents(p) /\ aprovados \subseteq aprovados'
  BY <1>1 DEF CardsStay, IntentsStay, OwnIntents
<1>3. AllServed' /\ AllResolve'
  BY <1>1, <1>2, SlotsAfter
<1>4. PayTables'
  BY DEF PayInv, PayTables, PayGo
<1>5. IntentsOwned' /\ ApprovedExist' /\ PaidByApproved'
  BY <1>1 DEF PayInv, IntentsOwned, ApprovedExist, PaidByApproved
<1>6. IntentsGood'
  BY <1>1 DEF OnceInv, IntentsGood, IntentSeparado, Grow
<1> QED BY <1>3, <1>4, <1>5, <1>6 DEF PayInv, OnceInv

\* A handler that decides the intent it is about.
LEMMA DecidingHandler ==
    ASSUME TabInv, PayInv, Apart, OnceInv, Grow, NEW p \in Requests, NEW r, Go(p, r),
           NEW h \in PayRequest, PayGo(p, h), UNCHANGED tables,
           pay[p].pc \in IntentPcs, NEW st \in IntentStatus \ {"none"},
           SetIntent(pay[p].intent, st),
           aprovados' \in {aprovados, aprovados \cup {pay[p].intent}},
           Served(h, r, intents', comandas', aprovados'),
           Resolves(h, r, intents', refs', sobrepostos'),
           req[p].card \notin sobrepostos' => intents[pay[p].intent].status # "approved"
    PROVE  PayInv' /\ OnceInv'
<1> DEFINE i == pay[p].intent
<1>1. UNCHANGED <<comandas, refs>>
  BY DEF tables
<1>2. /\ i \in Refs /\ intents[i].status # "none"
      /\ comandas[intents[i].comanda].card = req[p].card
  BY SlotFacts
<1>3. PayTables
  BY DEF PayInv
<1>4. intents'[i] = [intents[i] EXCEPT !.status = st]
  BY <1>2, <1>3 DEF SetIntent, PayTables
<1>5. \A j \in Refs \ {i} : intents'[j] = intents[j]
  BY <1>2, <1>3 DEF SetIntent, PayTables
<1>6. intents[i] \in IntentRow
  BY <1>2, <1>3 DEF PayTables
<1>7. /\ intents'[i].status = st /\ intents'[i].comanda = intents[i].comanda
      /\ intents'[i] \in IntentRow
  BY <1>4, <1>6 DEF IntentRow
<1>8. PayTables'
  BY <1>2, <1>3, <1>7 DEF PayTables, PayGo, SetIntent
<1> HIDE DEF i
<1>9. CardsStay /\ IntentsStay /\ OwnIntents(p) /\ aprovados \subseteq aprovados'
  BY <1>1, <1>2, <1>5, <1>7 DEF CardsStay, IntentsStay, OwnIntents
<1>10. AllServed' /\ AllResolve'
  BY <1>9, SlotsAfter
<1>11. IntentsOwned'
  BY <1>1, <1>2, <1>5, <1>7 DEF PayInv, IntentsOwned
<1>12. ApprovedExist'
  BY <1>2, <1>5, <1>7, <1>3 DEF PayInv, ApprovedExist, i, PayTables
<1>13. PaidByApproved'
  BY <1>1, <1>9 DEF PayInv, PaidByApproved
<1>14. IntentsGood'
  <2> SUFFICES ASSUME NEW j \in Refs, refs'[j] > 0, IntentSeparado(j)'
               PROVE  intents'[j].status = "approved" /\ refs'[j] = 1
    BY DEF IntentsGood
  <2>1. CASE j # i
    BY <1>1, <1>5, <2>1 DEF OnceInv, IntentsGood, IntentSeparado, Grow
  <2>2. CASE j = i
    <3>1. req[p].card \notin sobrepostos' /\ IntentSeparado(i)
      BY <1>1, <1>2, <1>7, <2>2 DEF IntentSeparado, Grow
    <3>2. intents[i].status = "approved"
      BY <1>1, <1>2, <2>2, <3>1 DEF OnceInv, IntentsGood
    <3> QED BY <3>1, <3>2 DEF i
  <2> QED BY <2>1, <2>2
<1> QED BY <1>8, <1>10, <1>11, <1>12, <1>13, <1>14 DEF PayInv, OnceInv

\* A handler takes a free slot.
LEMMA Enters ==
    ASSUME TabInv, PayInv, Apart, OnceInv, Grow, NEW p \in Requests,
           NEW c \in ComandaIds, comandas[c].status # "none",
           NEW h \in PayRequest, EnterPay(p, c, h), h.pc # "none", h.pc # "confirmPay",
           h.pc \in IntentPcs => IntentOf(h.intent, c, intents),
           h.pc \in {"statusExpire", "confirmExpire", "confirmSave"} =>
              intents[h.intent].status = "awaiting_customer",
           h.pc = "cancelSave" => intents[h.intent].status \notin {"none", "approved"},
           UNCHANGED <<tables, intents, aprovados>>
    PROVE  PayInv' /\ OnceInv'
<1> DEFINE r == [Idle EXCEPT !.pc = "outer", !.card = comandas[c].card, !.comanda = c]
<1>1. r.pc = "outer" /\ r.card = comandas[c].card /\ r.comanda = c /\ r.ref = None
  BY DEF Idle
<1>2. Go(p, r) /\ PayGo(p, h)
  BY DEF EnterPay
<1> HIDE DEF r
<1>3. Served(h, r, intents, comandas, aprovados)
  BY <1>1 DEF Served
<1>4. Resolves(h, r, intents, refs, sobrepostos')
  BY <1>1 DEF Resolves
<1> QED BY <1>2, <1>3, <1>4, QuietHandler

LEMMA PayEnters ==
    ASSUME TabInv, PayInv, Apart, OnceInv, Grow, NEW p \in Requests, PaymentsStart(p)
    PROVE  PayInv' /\ OnceInv'
<1>1. ASSUME NEW c \in ComandaIds, CreateIntentRead(p, c) PROVE PayInv' /\ OnceInv'
  <2> DEFINE h == [NoPay EXCEPT !.pc = "createValor"]
  <2>1. h \in PayRequest /\ h.pc = "createValor"
    BY NoPayFacts DEF PayRequest, PayPcs
  <2>2. /\ EnterPay(p, c, h) /\ UNCHANGED <<tables, intents, aprovados>>
        /\ comandas[c].status # "none"
    BY <1>1 DEF CreateIntentRead, Pagavel
  <2> HIDE DEF h
  <2> QED BY <2>1, <2>2, Enters DEF IntentPcs
<1>2. ASSUME NEW i \in Refs, StatusRead(p, i) \/ ConfirmStart(p, i) \/ CancelIntentRead(p, i)
      PROVE  PayInv' /\ OnceInv'
  <2> DEFINE c == intents[i].comanda
  <2>1. intents[i].status # "none"
    BY <1>2 DEF StatusRead, ConfirmStart, CancelIntentRead, Anulavel
  <2>2. c \in ComandaIds /\ comandas[c].status # "none" /\ IntentOf(i, c, intents)
    BY <2>1 DEF PayInv, IntentsOwned, IntentOf
  <2>3. UNCHANGED <<tables, intents, aprovados>>
    BY <1>2 DEF StatusRead, ConfirmStart, CancelIntentRead
  <2>4. ASSUME NEW pc \in IntentPcs \ {"confirmPay"},
               EnterPay(p, c, [NoPay EXCEPT !.pc = pc, !.intent = i]),
               pc \in {"statusExpire", "confirmExpire", "confirmSave"} =>
                  intents[i].status = "awaiting_customer",
               pc = "cancelSave" => intents[i].status \notin {"none", "approved"}
        PROVE  PayInv' /\ OnceInv'
    <3> DEFINE h == [NoPay EXCEPT !.pc = pc, !.intent = i]
    <3>1. h \in PayRequest /\ h.pc = pc /\ h.intent = i
      BY NoPayFacts DEF PayRequest, PayPcs, IntentPcs
    <3>2. EnterPay(p, c, h) /\ h.pc # "none"
      BY <2>4, <3>1 DEF IntentPcs
    <3> HIDE DEF h, c
    <3> QED BY <2>2, <2>3, <2>4, <3>1, <3>2, Enters
  <2> HIDE DEF c
  <2>5. CASE StatusRead(p, i)
    BY <2>4, <2>5 DEF StatusRead, IntentPcs, c
  <2>6. CASE ConfirmStart(p, i)
    BY <2>4, <2>6 DEF ConfirmStart, IntentPcs, c
  <2>7. CASE CancelIntentRead(p, i)
    BY <2>4, <2>7 DEF CancelIntentRead, Anulavel, IntentPcs, c
  <2> QED BY <1>2, <2>5, <2>6, <2>7
<1> QED BY <1>1, <1>2 DEF PaymentsStart

\* What stays of a handler that goes on.
LEMMA HandlerMoves ==
    ASSUME NEW h \in PayRequest, NEW pc \in PayPcs
    PROVE  LET g == [h EXCEPT !.pc = pc]
           IN  g \in PayRequest /\ g.pc = pc /\ g.intent = h.intent /\ g.valor = h.valor
BY DEF PayRequest

LEMMA SlotStays ==
    ASSUME NEW p \in Requests, TabInv, UNCHANGED req PROVE Go(p, req[p])
BY DEF Go, TabInv, TablesOK

LEMMA PayGoesOn ==
    ASSUME TabInv, PayInv, Apart, OnceInv, Grow, NEW p \in Requests,
           \/ \E v \in 1..Cardinality(ItemIds) * MaxTotal : CreateIntentValor(p, v)
           \/ StatusRemotePaid(p) \/ ConfirmRead(p)
    PROVE  PayInv' /\ OnceInv'
<1>0. /\ Served(pay[p], req[p], intents, comandas, aprovados)
      /\ Resolves(pay[p], req[p], intents, refs, sobrepostos)
      /\ pay[p] \in PayRequest
  BY SlotFacts DEF OnceInv, AllResolve
<1>1. /\ UNCHANGED <<tables, req, intents, aprovados>> /\ Go(p, req[p])
  BY SlotStays DEF CreateIntentValor, StatusRemotePaid, ConfirmRead
<1>2. ASSUME NEW v \in 1..Cardinality(ItemIds) * MaxTotal, CreateIntentValor(p, v)
      PROVE  PayInv' /\ OnceInv'
  <2> DEFINE h == [NoPay EXCEPT !.pc = "createSave", !.valor = v]
  <2>1. v \in Nat
    BY FS_CardinalityType, ComandasAssumption
  <2>2. h \in PayRequest /\ h.pc = "createSave"
    BY <2>1, NoPayFacts DEF PayRequest, PayPcs
  <2>3. PayGo(p, h) /\ pay[p].pc = "createValor"
    BY <1>2 DEF CreateIntentValor, PayAt
  <2> HIDE DEF h
  <2>4. Served(h, req[p], intents, comandas, aprovados)
    BY <1>0, <2>2, <2>3 DEF Served, IntentPcs
  <2>5. Resolves(h, req[p], intents, refs, sobrepostos')
    BY <1>0, <2>2, <2>3 DEF Resolves, Served, Grow
  <2> QED BY <1>1, <2>2, <2>3, <2>4, <2>5, QuietHandler
<1>3. CASE StatusRemotePaid(p) \/ ConfirmRead(p)
  <2>1. PICK pc \in {"confirmRead", "confirmExpire", "confirmSave"} :
           /\ PayGo(p, [pay[p] EXCEPT !.pc = pc]) /\ pay[p].pc \in IntentPcs
           /\ pay[p].pc # "confirmPay"
           /\ pc # "confirmRead" => intents[pay[p].intent].status = "awaiting_customer"
    <3>1. CASE StatusRemotePaid(p)
      BY <3>1 DEF StatusRemotePaid, PayAt, IntentPcs
    <3>2. CASE ConfirmRead(p)
      BY <3>2 DEF ConfirmRead, Confirmavel, PayAt, IntentPcs
    <3> QED BY <1>3, <3>1, <3>2
  <2> DEFINE h == [pay[p] EXCEPT !.pc = pc]
  <2>2. h \in PayRequest /\ h.pc = pc /\ h.intent = pay[p].intent
    <3>1. pc \in PayPcs
      BY DEF PayPcs
    <3> QED BY <1>0, <3>1, HandlerMoves
  <2>3. PayGo(p, h)
    BY <2>1
  <2> HIDE DEF h
  <2>4. Served(h, req[p], intents, comandas, aprovados)
    BY <1>0, <2>1, <2>2 DEF Served, IntentPcs
  <2>5. req[p].ref = None
    BY <1>0, <2>1 DEF Served, IntentPcs
  <2>6. Resolves(h, req[p], intents, refs, sobrepostos')
    BY <2>1, <2>2, <2>5 DEF Resolves
  <2> QED BY <1>1, <2>2, <2>3, <2>4, <2>6, QuietHandler
<1> QED BY <1>2, <1>3

\* Handlers that end without deciding anything, and the call of pay.
LEMMA PayLeaves ==
    ASSUME TabInv, PayInv, Apart, OnceInv, Grow, NEW p \in Requests,
           PayAbort(p) \/ ConfirmPayRefused(p) \/ ConfirmPay(p)
    PROVE  PayInv' /\ OnceInv'
<1>0. UNCHANGED <<tables, intents, aprovados>> /\ PayGo(p, NoPay)
  BY DEF PayAbort, ConfirmPayRefused, ConfirmPay, LeavePay
<1>1. CASE PayAbort(p) \/ ConfirmPayRefused(p)
  <2>1. Go(p, Idle)
    BY <1>1 DEF PayAbort, ConfirmPayRefused, LeavePay, Finish
  <2> QED BY <1>0, <2>1, IdleServes, NoPayFacts, QuietHandler
<1>2. CASE ConfirmPay(p)
  <2> DEFINE i == pay[p].intent
             c == intents[i].comanda
             r == PayStart(c, 0, intents[i].valor, i)
  <2>1. pay[p].pc = "confirmPay" /\ Pagavel(c) /\ Go(p, r)
    BY <1>2 DEF ConfirmPay, PayAt
  <2>2. /\ i \in Refs /\ c \in ComandaIds /\ c = req[p].comanda
        /\ intents[i].comanda = c /\ i \in aprovados /\ intents[i].status # "none"
        /\ comandas[c].card = req[p].card /\ intents[i] \in IntentRow
    BY <2>1, SlotFacts DEF IntentPcs, Served, PayInv, PayTables
  <2>3. Resolves(pay[p], req[p], intents, refs, sobrepostos)
    BY DEF OnceInv, AllResolve
  <2> HIDE DEF i, c
  <2>4. /\ r.card = comandas[c].card /\ r.comanda = c /\ r.saldo = 0 /\ r.ref = i
        /\ r.pc = (IF comandas[c].status = "open" THEN "payClose" ELSE "paySum")
    <3>1. intents[i].valor \in Nat /\ TablesOK /\ i \in Refs \cup {None} /\ 0 \in Nat
      BY <2>2 DEF IntentRow, TabInv
    <3> QED BY <2>2, <3>1, PayStartType
  <2> HIDE DEF r
  <2>5. Served(NoPay, r, intents, comandas, aprovados)
    BY <2>2, <2>4, NoPayFacts, ComandasAssumption DEF Served, IntentOf, IntentPcs, PayPath
  <2>6. Resolves(NoPay, r, intents, refs, sobrepostos')
    BY <2>1, <2>2, <2>3, <2>4, NoPayFacts DEF Resolves, Grow, i
  <2> QED BY <1>0, <2>1, <2>5, <2>6, NoPayFacts, QuietHandler
<1> QED BY <1>1, <1>2

\* Handlers that decide an intent.
LEMMA PayDecides ==
    ASSUME TabInv, PayInv, Apart, OnceInv, Grow, NEW p \in Requests,
           StatusExpire(p) \/ ConfirmExpire(p) \/ ConfirmSave(p) \/ CancelIntentSave(p)
    PROVE  /\ PayInv' /\ OnceInv'
           /\ pay[p].pc \in {"statusExpire", "confirmExpire", "confirmSave", "cancelSave"}
<1> DEFINE i == pay[p].intent
<1>0. /\ Resolves(pay[p], req[p], intents, refs, sobrepostos)
      /\ Served(pay[p], req[p], intents, comandas, aprovados)
      /\ pay[p] \in PayRequest
  BY SlotFacts DEF OnceInv, AllResolve
<1>1. /\ pay[p].pc \in {"statusExpire", "confirmExpire", "confirmSave", "cancelSave"}
      /\ UNCHANGED tables
  BY DEF StatusExpire, ConfirmExpire, ConfirmSave, CancelIntentSave, PayAt, tables
<1>2. /\ pay[p].pc \in IntentPcs
      /\ req[p].card \notin sobrepostos' =>
            intents[i].status \notin {"none", "approved"}
  BY <1>0, <1>1 DEF Resolves, Grow, IntentPcs
<1>3. CASE StatusExpire(p) \/ ConfirmExpire(p) \/ CancelIntentSave(p)
  <2>1. /\ Go(p, Idle) /\ PayGo(p, NoPay) /\ aprovados' = aprovados
        /\ SetIntent(i, "expired") \/ SetIntent(i, "cancelled")
    BY <1>3 DEF StatusExpire, ConfirmExpire, CancelIntentSave, LeavePay, Finish
  <2> QED BY <1>1, <1>2, <2>1, IdleServes, NoPayFacts, DecidingHandler DEF IntentStatus
<1>4. CASE ConfirmSave(p)
  <2> DEFINE h == [pay[p] EXCEPT !.pc = "confirmPay"]
  <2>1. /\ SetIntent(i, "approved") /\ aprovados' = aprovados \cup {i}
        /\ PayGo(p, h) /\ UNCHANGED req /\ Go(p, req[p]) /\ pay[p].pc = "confirmSave"
    BY <1>4, SlotStays DEF ConfirmSave, PayAt
  <2>2. h \in PayRequest /\ h.pc = "confirmPay" /\ h.intent = i
    BY <1>0, HandlerMoves DEF PayPcs
  <2> HIDE DEF h
  <2>3. i \in Refs /\ intents[i] \in IntentRow
    BY <1>2, SlotFacts DEF PayInv, PayTables
  <2>4. intents'[i].status = "approved" /\ intents'[i].comanda = intents[i].comanda
    BY <2>1, <2>3 DEF SetIntent, IntentRow, PayInv, PayTables
  <2>5. req[p].ref = None /\ req[p].pc = "outer" /\ UNCHANGED <<comandas, refs>>
    BY <1>0, <1>1, <2>1 DEF Served, tables
  <2>6. Served(h, req[p], intents', comandas', aprovados')
    BY <1>0, <1>2, <2>1, <2>2, <2>3, <2>4, <2>5, SlotFacts DEF Served, IntentOf
  <2>7. ASSUME req[p].card \notin sobrepostos' PROVE refs[i] = 0
    <3>1. intents[i].status # "approved"
      BY <1>2, <2>7
    <3>2. IntentSeparado(i)
      BY <1>2, <2>7, SlotFacts DEF IntentSeparado, Grow
    <3>3. refs[i] \in Nat
      BY <2>3 DEF TabInv, TablesOK
    <3> QED BY <2>3, <3>1, <3>2, <3>3 DEF OnceInv, IntentsGood
  <2>8. Resolves(h, req[p], intents', refs', sobrepostos')
    BY <2>2, <2>4, <2>5, <2>7 DEF Resolves
  <2>9. aprovados' \in {aprovados, aprovados \cup {pay[p].intent}}
    BY <2>1
  <2> QED BY <1>1, <1>2, <2>1, <2>2, <2>6, <2>8, <2>9, DecidingHandler DEF IntentStatus
<1> QED BY <1>1, <1>3, <1>4

\* The provider made the charge: a new intent.
LEMMA PayCreates ==
    ASSUME TabInv, PayInv, Apart, OnceInv, Grow, NEW p \in Requests, NEW i \in Refs,
           CreateIntentSave(p, i)
    PROVE  PayInv' /\ OnceInv'
<1> DEFINE row == [comanda |-> req[p].comanda, valor |-> pay[p].valor,
                   status |-> "awaiting_customer", due |-> FALSE]
<1>1. /\ pay[p].pc = "createSave" /\ intents[i].status = "none"
      /\ intents' = [intents EXCEPT ![i] = row]
      /\ Go(p, Idle) /\ PayGo(p, NoPay) /\ UNCHANGED <<tables, aprovados>>
  BY DEF CreateIntentSave, PayAt, LeavePay, Finish
<1>2. UNCHANGED <<comandas, refs>>
  BY <1>1 DEF tables
<1>3. /\ pay[p] \in PayRequest /\ PayTables
      /\ req[p].comanda \in ComandaIds /\ comandas[req[p].comanda].status # "none"
  BY <1>1, SlotFacts DEF Served, PayInv
<1>4. /\ row \in IntentRow /\ row.status = "awaiting_customer"
      /\ row.comanda = req[p].comanda
  BY <1>3 DEF IntentRow, IntentStatus, PayRequest
<1>5. intents'[i] = row /\ \A j \in Refs \ {i} : intents'[j] = intents[j]
  BY <1>1, <1>3 DEF PayTables
<1> HIDE DEF row
<1>6. PayTables'
  BY <1>1, <1>3, <1>4, NoPayFacts DEF PayTables, PayGo
<1>7. CardsStay /\ IntentsStay /\ OwnIntents(p) /\ aprovados \subseteq aprovados'
  BY <1>1, <1>2, <1>5 DEF CardsStay, IntentsStay, OwnIntents
<1>8. AllServed' /\ AllResolve'
  BY <1>1, <1>7, IdleServes, SlotsAfter
<1>9. IntentsOwned'
  BY <1>2, <1>3, <1>4, <1>5 DEF PayInv, IntentsOwned
<1>10. ApprovedExist' /\ PaidByApproved'
  BY <1>1, <1>2, <1>5, <1>3 DEF PayInv, ApprovedExist, PaidByApproved, PayTables
<1>11. refs[i] \in Nat /\ ~(refs[i] > 0)
  BY <1>1 DEF TabInv, TablesOK, PayInv, PaidByApproved, ApprovedExist
<1>12. IntentsGood'
  BY <1>2, <1>5, <1>11 DEF OnceInv, IntentsGood, IntentSeparado, Grow
<1> QED BY <1>6, <1>8, <1>9, <1>10, <1>12 DEF PayInv, OnceInv

\* expiresAt passes.
LEMMA PayDue ==
    ASSUME TabInv, PayInv, OnceInv, Grow, NEW i \in Refs, IntentDue(i)
    PROVE  PayInv' /\ OnceInv'
<1>1. PayTables
  BY DEF PayInv
<1>2. /\ intents' = [intents EXCEPT ![i].due = TRUE]
      /\ UNCHANGED <<comandas, refs, req, aprovados, pay>>
  BY DEF IntentDue, tables
<1>3. /\ intents' \in [Refs -> IntentRow]
      /\ \A j \in Refs : /\ intents'[j].status = intents[j].status
                         /\ intents'[j].comanda = intents[j].comanda
  BY <1>1, <1>2 DEF PayTables, IntentRow
<1>4. PayTables'
  BY <1>1, <1>2, <1>3 DEF PayTables
<1>5. AllServed'
  BY <1>2, <1>3 DEF PayInv, AllServed, Served, IntentOf
<1>6. IntentsOwned' /\ ApprovedExist' /\ PaidByApproved'
  BY <1>1, <1>2, <1>3 DEF PayInv, IntentsOwned, ApprovedExist, PaidByApproved, PayTables
<1>7. IntentsGood'
  BY <1>2, <1>3 DEF OnceInv, IntentsGood, IntentSeparado, Grow
<1>8. AllResolve'
  <2> SUFFICES ASSUME NEW p \in Requests, req[p].card \notin sobrepostos'
               PROVE  Resolves(pay[p], req[p], intents', refs, sobrepostos')
    BY <1>2 DEF AllResolve, Resolves
  <2>1. Resolves(pay[p], req[p], intents, refs, sobrepostos) /\ req[p].card \notin sobrepostos
    BY DEF OnceInv, AllResolve, Grow
  <2>2. /\ pay[p].pc \in IntentPcs => pay[p].intent \in Refs
        /\ req[p].ref # None => req[p].ref \in Refs
    BY SlotFacts DEF PayInv
  <2> QED BY <1>3, <2>1, <2>2 DEF Resolves, IntentPcs
<1> QED BY <1>4, <1>5, <1>6, <1>7, <1>8 DEF PayInv, OnceInv

\* Steps of Comandas.
LEMMA PaySheetMoves ==
    ASSUME TabInv, PayInv, Apart, OnceInv, Grow, CardsStay, NEW p \in Requests, Moved(p),
           UNCHANGED <<intents, aprovados, pay>>,
           \/ refs' = refs
           \/ /\ req[p].ref # None /\ req[p].pc = "payInsert"
              /\ refs' = [refs EXCEPT ![req[p].ref] = @ + 1]
              /\ req'[p].pc = "payUpdate"
    PROVE  PayInv' /\ OnceInv'
<1> DEFINE o == req[p]
           i == req[p].ref
<1>1. PICK r : Go(p, r) /\ Shape(o, r)
  BY DEF Moved
<1>2. req'[p] = r
  BY <1>1 DEF Go, TabInv, TablesOK
<1>3. /\ Served(pay[p], o, intents, comandas, aprovados)
      /\ Resolves(pay[p], o, intents, refs, sobrepostos)
      /\ PayTables
  BY SlotFacts DEF OnceInv, AllResolve, PayInv
<1>4. pay[p].pc = "none" /\ o.pc # "outer" /\ r.pc # "outer"
  BY <1>1, <1>3 DEF Shape, Served
<1>5. PayGo(p, pay[p]) /\ PayTables'
  BY <1>3 DEF PayGo, PayTables
<1>6. IntentsStay /\ aprovados \subseteq aprovados' /\ IntentsOwned' /\ ApprovedExist'
  BY <1>3 DEF IntentsStay, PayInv, IntentsOwned, ApprovedExist, CardsStay, PayTables
<1>7. i # None => i \in Refs /\ comandas[intents[i].comanda].card = o.card
  BY SlotFacts
<1>8. \A j \in Refs : j # i => refs'[j] = refs[j]
  BY DEF TabInv, TablesOK
<1>9. OwnIntents(p)
  BY <1>7, <1>8 DEF OwnIntents
<1>10. Served(pay[p], r, intents', comandas', aprovados')
  <2>1. r.ref # None =>
           /\ r.pc \in PayPath /\ r.saldo = 0 /\ r.ref = i /\ r.comanda = o.comanda
    BY <1>1, <1>3 DEF Shape, Served
  <2> QED BY <1>3, <1>4, <2>1 DEF Served, IntentPcs
<1>11. Resolves(pay[p], r, intents', refs', sobrepostos')
  <2> SUFFICES ASSUME r.card \notin sobrepostos', r.ref # None
               PROVE  /\ intents[i].status = "approved"
                      /\ r.pc \in Unpaid => refs'[i] = 0
    BY <1>1, <1>4 DEF Resolves, Shape
  <2>1. /\ r.ref = i /\ r.comanda = o.comanda /\ o.pc \in PayPath /\ i # None
        /\ r.pc \in PayPath
        /\ r.pc \in Unpaid => o.pc \in Unpaid
    BY <1>1, <1>3 DEF Shape, Served
  <2>2. /\ i \in Refs /\ intents[i].status = "approved"
        /\ o.pc \in Unpaid => refs[i] = 0
    BY <1>1, <1>3, <1>7, <2>1 DEF Resolves, Shape, Grow
  <2>3. r.pc \in Unpaid => refs' = refs
    BY <1>2 DEF Unpaid
  <2> QED BY <2>1, <2>2, <2>3
<1>12. PaidByApproved'
  <2>1. i # None => i \in aprovados
    BY <1>3 DEF Served
  <2> QED BY <1>8, <2>1 DEF PayInv, PaidByApproved
<1>13. IntentsGood'
  <2> SUFFICES ASSUME NEW j \in Refs, refs'[j] > 0, IntentSeparado(j)'
               PROVE  intents[j].status = "approved" /\ refs'[j] = 1
    BY DEF IntentsGood
  <2>0. intents[j].status # "none"
    BY <1>12 DEF PaidByApproved, PayInv, ApprovedExist
  <2>1. IntentSeparado(j)
    BY <2>0 DEF IntentSeparado, Grow, CardsStay, PayInv, IntentsOwned
  <2>2. CASE refs'[j] = refs[j]
    BY <2>1, <2>2 DEF OnceInv, IntentsGood
  <2>3. CASE refs'[j] # refs[j]
    <3>1. j = i /\ o.pc = "payInsert" /\ i # None /\ refs' = [refs EXCEPT ![i] = @ + 1]
      BY <1>8, <2>3
    <3>2. o.card \notin sobrepostos
      BY <1>7, <2>1, <3>1 DEF IntentSeparado
    <3>3. intents[i].status = "approved" /\ refs[i] = 0
      BY <1>3, <3>1, <3>2 DEF Resolves, Unpaid
    <3> QED BY <3>1, <3>3 DEF TabInv, TablesOK
  <2> QED BY <2>2, <2>3
<1>14. AllServed' /\ AllResolve'
  BY <1>1, <1>5, <1>6, <1>9, <1>10, <1>11, SlotsAfter
<1> QED BY <1>5, <1>6, <1>12, <1>13, <1>14 DEF PayInv, OnceInv

LEMMA PaySheetStep ==
    ASSUME TabInv, PayInv, Apart, OnceInv, Grow, Step, UNCHANGED payVars
    PROVE  PayInv' /\ OnceInv'
<1>1. CardsStay /\ UNCHANGED <<intents, aprovados, pay>>
  BY CardsStayKept DEF payVars
<1>2. ASSUME NEW p \in Requests, Start(p) PROVE PayInv' /\ OnceInv'
  BY <1>1, <1>2, StartShapes, PaySheetMoves DEF tables
<1>3. ASSUME NEW p \in Requests, NEW s \in {0, req[p].saldoIns},
             NEW o \in {0, req[p].outroIns}, PayInsert(p, s, o)
      PROVE  PayInv' /\ OnceInv'
  <2>1. req[p].ref # None => req[p].saldo = 0
    BY SlotFacts DEF Served
  <2> QED BY <1>1, <1>3, <2>1, InsertShapes, PaySheetMoves
<1>4. ASSUME NEW p \in Requests,
             \/ TapFind(p) \/ (\E c \in ComandaIds : TapInsert(p, c))
             \/ (\E x \in ItemIds : AddItem(p, x))
             \/ RemoveFind(p) \/ RemoveItem(p) \/ RecalcRead(p) \/ RecalcSave(p)
             \/ SaveRow(p) \/ PayClose(p) \/ PaySum(p) \/ PayAlready(p) \/ PayDebit(p)
             \/ PayUpdate(p) \/ Abort(p)
      PROVE  PayInv' /\ OnceInv'
  BY <1>1, <1>4, ContinueShapes, PaySheetMoves
<1>5. ASSUME NEW k \in CardIds, NEW st \in CardStatus, SetCard(k, st)
      PROVE  PayInv' /\ OnceInv'
  <2>1. UNCHANGED <<comandas, refs, req, intents, aprovados, pay>>
    BY <1>1, <1>5 DEF SetCard
  <2> QED BY <2>1 DEF PayInv, PayTables, AllServed, IntentsOwned, ApprovedExist,
          PaidByApproved, OnceInv, AllResolve, Resolves, IntentsGood, IntentSeparado, Grow
<1> QED BY <1>2, <1>3, <1>4, <1>5 DEF Step, Continue
-----------------------------------------------------------------------------
(* The tabs among handlers of other modules.  A handler at "outer" holds no item
   and keeps no row of Comandas. *)

LEMMA OuterMoves ==
    ASSUME TabInv, NEW p \in Requests, NEW r \in Request, Go(p, r), UNCHANGED tables,
           req[p].pc \in {"idle", "outer"}, r.pc \in {"idle", "outer"},
           r.pc = "outer" => r.card \in CardIds, r.itens = NoItens
    PROVE  /\ TabInv'
           /\ WalletInv => WalletInv'
           /\ SheetInv /\ Grow => SheetNext
<1>1. Named(r, comandas) /\ Backed(r, pagos)
  BY DEF Named, Backed, OnComanda, Rewrites
<1>2. TabInv'
  BY <1>1, ReadStep
<1>3. WalletInv => WalletInv'
  BY WalletSame DEF tables
<1>4. ASSUME SheetInv, Grow PROVE SheetNext
  <2>1. Knows(r, comandas, itens, pagos, sobrepostos')
    BY DEF Knows, Current, WhileOpen, WhilePending
  <2>2. \A x \in ItemIds : ~Holds(r, x)
    BY HoldsNothing
  <2> QED BY <1>4, <2>1, <2>2, SheetRead DEF Paying, Counting, SheetNext
<1> QED BY <1>2, <1>3, <1>4

LEMMA TabsStay ==
    ASSUME TabInv, UNCHANGED <<tables, req>>
    PROVE  /\ TabInv'
           /\ WalletInv => WalletInv'
           /\ SheetInv /\ Grow => SheetNext
<1>1. UNCHANGED <<comandas, itens, pagos, pagosSaldo, debitado, req>>
  BY DEF tables
<1> QED BY <1>1, TabSame, Unmoved DEF WalletInv

\* A slot taken by a handler that works on comanda c.
OnRow(c) == [Idle EXCEPT !.pc = "outer", !.card = comandas[c].card, !.comanda = c]

LEMMA OnRowType ==
    ASSUME TabInv, NEW c \in ComandaIds, comandas[c].status # "none"
    PROVE  /\ OnRow(c) \in Request /\ OnRow(c).pc = "outer" /\ OnRow(c).itens = NoItens
           /\ OnRow(c).card \in CardIds /\ OnRow(c).card = comandas[c].card
<1>1. comandas[c].card \in CardIds
  BY DEF TabInv, RowsOwned
<1> QED BY <1>1, IdleType DEF OnRow, Idle, Request, Pcs

\* What the handlers of Payments do to the slots of Comandas.
LEMMA PayHandlers ==
    ASSUME TabInv, PayInv, NEW p \in Requests,
           PaymentsStart(p) \/ PaymentsContinue(p) \/ PayAbort(p)
    PROVE  /\ req[p].pc \in {"idle", "outer"} /\ UNCHANGED tables
           /\ \/ ConfirmPay(p)
              \/ UNCHANGED req
              \/ Go(p, Idle)
              \/ \E c \in ComandaIds : comandas[c].status # "none" /\ Go(p, OnRow(c))
<1>1. pay[p].pc # "none" => req[p].pc = "outer"
  BY SlotFacts DEF Served
<1>2. CASE PaymentsStart(p)
  <2>1. ASSUME NEW c \in ComandaIds, NEW h, EnterPay(p, c, h)
        PROVE  req[p].pc = "idle" /\ Go(p, OnRow(c))
    BY <2>1 DEF EnterPay, At, OnRow
  <2>2. ASSUME NEW c \in ComandaIds, CreateIntentRead(p, c)
        PROVE  /\ comandas[c].status # "none" /\ UNCHANGED tables
               /\ req[p].pc = "idle" /\ Go(p, OnRow(c))
    BY <2>1, <2>2 DEF CreateIntentRead, Pagavel
  <2>3. ASSUME NEW i \in Refs, StatusRead(p, i) \/ ConfirmStart(p, i) \/ CancelIntentRead(p, i)
        PROVE  /\ comandas[intents[i].comanda].status # "none"
               /\ intents[i].comanda \in ComandaIds /\ UNCHANGED tables
               /\ req[p].pc = "idle" /\ Go(p, OnRow(intents[i].comanda))
    <3>1. intents[i].status # "none" /\ UNCHANGED tables
      BY <2>3 DEF StatusRead, ConfirmStart, CancelIntentRead, Anulavel
    <3>2. intents[i].comanda \in ComandaIds /\ comandas[intents[i].comanda].status # "none"
      BY <3>1 DEF PayInv, IntentsOwned
    <3>3. \E h : EnterPay(p, intents[i].comanda, h)
      BY <2>3 DEF StatusRead, ConfirmStart, CancelIntentRead
    <3> QED BY <2>1, <3>1, <3>2, <3>3
  <2> QED BY <1>2, <2>2, <2>3 DEF PaymentsStart
<1>3. CASE PaymentsContinue(p)
  <2>1. pay[p].pc # "none" /\ UNCHANGED tables
    BY <1>3 DEF PaymentsContinue, CreateIntentValor, CreateIntentSave, StatusExpire,
       StatusRemotePaid, ConfirmRead, ConfirmExpire, ConfirmSave, ConfirmPay,
       ConfirmPayRefused, CancelIntentSave, PayAt
  <2>2. ConfirmPay(p) \/ UNCHANGED req \/ Go(p, Idle)
    BY <1>3 DEF PaymentsContinue, CreateIntentValor, CreateIntentSave, StatusExpire,
       StatusRemotePaid, ConfirmRead, ConfirmExpire, ConfirmSave,
       ConfirmPayRefused, CancelIntentSave, LeavePay, Finish
  <2> QED BY <1>1, <2>1, <2>2
<1>4. CASE PayAbort(p)
  BY <1>1, <1>4 DEF PayAbort, LeavePay, Finish, PayAt
<1> QED BY <1>2, <1>3, <1>4

LEMMA IdleMoves == Idle \in Request /\ Idle.pc = "idle" /\ Idle.itens = NoItens
BY IdleType DEF Idle

LEMMA PayTabs ==
    ASSUME TabInv, PayInv, NEW p \in Requests,
           PaymentsStart(p) \/ PaymentsContinue(p) \/ PayAbort(p)
    PROVE  /\ TabInv'
           /\ WalletInv => WalletInv'
           /\ SheetInv /\ Grow => SheetNext
           /\ UNCHANGED tables
<1>1. req[p].pc \in {"idle", "outer"} /\ UNCHANGED tables
  BY PayHandlers
<1>2. CASE ConfirmPay(p)
  <2> DEFINE c == intents[pay[p].intent].comanda
             v == intents[pay[p].intent].valor
             r == PayStart(c, 0, v, pay[p].intent)
  <2>1. pay[p].pc = "confirmPay" /\ Pagavel(c) /\ Go(p, r)
    BY <1>2 DEF ConfirmPay, PayAt
  <2>2. /\ pay[p].intent \in Refs /\ c \in ComandaIds
        /\ intents[pay[p].intent] \in IntentRow
    BY <2>1, SlotFacts DEF IntentPcs, PayInv, PayTables
  <2>3. v \in Nat /\ 0 \in Nat /\ pay[p].intent \in Refs \cup {None}
    BY <2>2 DEF IntentRow
  <2> HIDE DEF c, v
  <2>4. TabInv'
    BY <1>1, <2>1, <2>2, <2>3, PayStarts
  <2>5. SheetInv /\ Grow => SheetNext
    BY <1>1, <2>1, <2>2, <2>3, SheetPayStarts
  <2>6. r.pc # "payInsert"
    <3>1. TablesOK
      BY DEF TabInv
    <3>2. r.pc = (IF comandas[c].status = "open" THEN "payClose" ELSE "paySum")
      BY <2>2, <2>3, <3>1, PayStartType
    <3> QED BY <3>2
  <2>7. WalletInv => WalletInv'
    BY <1>1, <2>1, <2>6, WalletSame DEF tables
  <2> QED BY <1>1, <2>4, <2>5, <2>7
<1>3. CASE UNCHANGED req
  BY <1>1, <1>3, TabsStay
<1>4. CASE Go(p, Idle)
  BY <1>1, <1>4, IdleMoves, OuterMoves
<1>5. ASSUME NEW c \in ComandaIds, comandas[c].status # "none", Go(p, OnRow(c))
      PROVE  /\ TabInv'
             /\ WalletInv => WalletInv'
             /\ SheetInv /\ Grow => SheetNext
  BY <1>1, <1>5, OnRowType, OuterMoves
<1> QED BY <1>1, <1>2, <1>3, <1>4, <1>5, PayHandlers
-----------------------------------------------------------------------------
(* Payments: the theorems *)

PaymentsInv ==
    TabInv /\ HistoryOK /\ WalletInv /\ SheetInv /\ PayInv /\ OnceInv

LEMMA PaymentsInvInit == PaymentsInit => PaymentsInv
<1> SUFFICES ASSUME PaymentsInit PROVE PaymentsInv
  OBVIOUS
<1>1. TabInv /\ WalletInv /\ SheetInv /\ HistoryOK
  BY TabInit, WalletInit, SheetInit DEF PaymentsInit, Init, HistoryOK
<1>2. /\ \A p \in Requests : req[p] = Idle /\ pay[p] = NoPay
      /\ \A i \in Refs : refs[i] = 0 /\ intents[i].status = "none"
      /\ aprovados = {}
  BY DEF PaymentsInit, Init, NoIntent
<1>3. PayTables
  BY NoPayFacts DEF PaymentsInit, PayTables, NoIntent, IntentRow, IntentStatus
<1>4. AllServed /\ AllResolve
  BY <1>2, IdleServes DEF AllServed, AllResolve
<1>5. IntentsOwned /\ ApprovedExist /\ PaidByApproved /\ IntentsGood
  BY <1>2 DEF IntentsOwned, ApprovedExist, PaidByApproved, IntentsGood
<1> QED BY <1>1, <1>3, <1>4, <1>5 DEF PaymentsInv, PayInv, OnceInv

\* A step of PaymentsNext: of Comandas, of a handler, or time passing.
LEMMA PaymentsSteps ==
    ASSUME PaymentsNext
    PROVE  \/ Step /\ UNCHANGED payVars
           \/ \E i \in Refs : IntentDue(i) /\ UNCHANGED interrompidos
           \/ \E p \in Requests :
                 /\ PaymentsStart(p) \/ PaymentsContinue(p) \/ PayAbort(p)
                 /\ UNCHANGED interrompidos \/ (PayAbort(p) /\ Stop(p, PayAt(p, "confirmPay")))
BY DEF PaymentsNext, PaymentsStep, PayAbort

LEMMA PaymentsGrow ==
    ASSUME PaymentsInv, PaymentsNext PROVE Grow /\ HistoryOK'
<1>1. interrompidos \subseteq interrompidos' /\ interrompidos' \in SUBSET CardIds
  <2>1. CASE Step
    BY <2>1, HistoryKept, GrowKept DEF PaymentsNext, PaymentsInv, Grow
  <2>2. CASE UNCHANGED interrompidos
    BY <2>2 DEF PaymentsInv, HistoryOK
  <2>3. ASSUME NEW p \in Requests, PayAbort(p), Stop(p, PayAt(p, "confirmPay"))
        PROVE  interrompidos \subseteq interrompidos' /\ interrompidos' \in SUBSET CardIds
    <3>1. req[p].pc # "idle"
      BY <2>3, SlotFacts DEF PaymentsInv, Served, PayAbort, PayAt
    <3> QED BY <2>3, <3>1, StopType, StopGrows DEF PaymentsInv
  <2> QED BY <2>1, <2>2, <2>3, PaymentsSteps
<1>2. Historia /\ sobrepostos \subseteq sobrepostos'
  BY DEF PaymentsNext, Historia
<1> QED BY <1>1, <1>2, CrossedType DEF PaymentsInv, Grow

LEMMA PayInvStep ==
    ASSUME PaymentsInv, PaymentsNext PROVE PayInv' /\ OnceInv'
<1>1. TabInv /\ PayInv /\ Apart /\ OnceInv /\ Grow
  BY PaymentsGrow DEF PaymentsInv, SheetInv
<1>2. ASSUME NEW p \in Requests, PaymentsContinue(p) PROVE PayInv' /\ OnceInv'
  BY <1>1, <1>2, PayGoesOn, PayLeaves, PayDecides, PayCreates DEF PaymentsContinue
<1> QED BY <1>1, <1>2, PaymentsSteps, PaySheetStep, PayDue, PayEnters, PayLeaves

LEMMA PaymentsTabs ==
    ASSUME PaymentsInv, PaymentsNext PROVE TabInv' /\ WalletInv' /\ SheetInv'
<1>1. TabInv /\ WalletInv /\ SheetInv /\ PayInv /\ Grow
  BY PaymentsGrow DEF PaymentsInv
<1>2. TabInv' /\ WalletInv' /\ SheetNext
  <2>1. ASSUME NEW i \in Refs, IntentDue(i) PROVE TabInv' /\ WalletInv' /\ SheetNext
    BY <1>1, <2>1, TabsStay DEF IntentDue
  <2> QED BY <1>1, <2>1, PaymentsSteps, TabKept, WalletKept, SheetKept, PayTabs
<1>3. Apart'
  BY ApartStep DEF PaymentsNext
<1> QED BY <1>2, <1>3 DEF SheetNext, SheetInv

LEMMA PaymentsInvStep == PaymentsInv /\ [PaymentsNext]_paymentsVars => PaymentsInv'
<1>1. ASSUME PaymentsInv, PaymentsNext PROVE PaymentsInv'
  BY <1>1, PaymentsTabs, PaymentsGrow, PayInvStep DEF PaymentsInv
<1>2. ASSUME PaymentsInv, UNCHANGED paymentsVars PROVE PaymentsInv'
  <2>1. /\ UNCHANGED <<tables, req, sobrepostos, interrompidos, intents, aprovados, pay>>
        /\ UNCHANGED <<comandas, refs>>
    BY <1>2 DEF paymentsVars, payVars, vars, tables
  <2>2. TabInv' /\ WalletInv' /\ SheetNext
    BY <1>2, <2>1, TabsStay DEF PaymentsInv, Grow
  <2>3. Apart' /\ HistoryOK'
    BY <1>2, <2>1 DEF PaymentsInv, SheetInv, Apart, HistoryOK
  <2>4. PayInv' /\ OnceInv'
    BY <1>2, <2>1 DEF PaymentsInv, PayInv, PayTables, AllServed, IntentsOwned,
       ApprovedExist, PaidByApproved, OnceInv, AllResolve, IntentsGood, IntentSeparado
  <2> QED BY <2>2, <2>3, <2>4 DEF PaymentsInv, SheetNext, SheetInv
<1> QED BY <1>1, <1>2

\* However webhook, poll, operator and payments interleave and wherever they stop,
\* the payments of a comanda name only intents that were approved.
THEOREM PaymentsAreApproved == PaymentsSpec => []PaidByApproved
<1>1. PaymentsInv => PaidByApproved
  BY DEF PaymentsInv, PayInv
<1> QED BY PaymentsInvInit, PaymentsInvStep, <1>1, PTL DEF PaymentsSpec

\* On a wristband where requests never overlapped an intent is recorded on the
\* comanda once, however often and by whomever it is confirmed.
THEOREM IntentRecordedOnce == PaymentsSpec => []RecordedOnceApart
<1>1. ASSUME PaymentsInv PROVE RecordedOnceApart
  <2>1. \A i \in Refs : refs[i] \in Nat
    BY <1>1 DEF PaymentsInv, TabInv, TablesOK
  <2> QED BY <1>1, <2>1 DEF PaymentsInv, OnceInv, IntentsGood, RecordedOnceApart
<1> QED BY PaymentsInvInit, PaymentsInvStep, <1>1, PTL DEF PaymentsSpec

\* Wherever the payments of a comanda come from, its money stays right: every
\* property of the comandas whose proof rests on comandas.service alone also holds
\* when confirm calls pay, for every amount an intent may have.
THEOREM ComandasWithIntents ==
    PaymentsSpec => [](/\ NeverOverstated /\ WalletPaymentsDebited /\ OneActiveComanda
                       /\ TotalMatchesItems /\ NoOverpay /\ FinalMatchesPayments)
<1>1. ASSUME PaymentsInv
      PROVE  /\ NeverOverstated /\ WalletPaymentsDebited /\ OneActiveComanda
             /\ TotalMatchesItems /\ NoOverpay /\ FinalMatchesPayments
  <2>1. ComandasInv
    BY <1>1 DEF PaymentsInv, ComandasInv
  <2>2. NeverOverstated /\ OneActiveComanda
    BY <2>1 DEF ComandasInv, TabInv, SheetInv
  <2> QED BY <1>1, <2>1, <2>2, WalletTaken, TotalsKnown, NotOverpaid, FinalIsBacked
          DEF PaymentsInv
<1> QED BY PaymentsInvInit, PaymentsInvStep, <1>1, PTL DEF PaymentsSpec

\* The step of one intent.
Lived(i) ==
    LET was == intents[i].status
        is == intents'[i].status
    IN  was # is /\ IntentSeparado(i)' =>
          \/ was = "none" /\ is = "awaiting_customer"
          \/ was = "awaiting_customer" /\ is \in {"approved", "expired", "cancelled"}
          \/ was = "expired" /\ is = "cancelled"

LEMMA IntentLives ==
    ASSUME PaymentsInv, PaymentsNext, NEW i \in Refs PROVE Lived(i)
<1>1. TabInv /\ PayInv /\ OnceInv /\ Grow /\ PayTables
  BY PaymentsGrow DEF PaymentsInv, PayInv
<1>2. intents' = intents => Lived(i)
  BY DEF Lived
<1>3. ASSUME NEW j \in Refs, IntentDue(j) PROVE Lived(i)
  <2>1. intents'[i].status = intents[i].status
    BY <1>1, <1>3 DEF IntentDue, PayTables, IntentRow
  <2> QED BY <2>1 DEF Lived
<1>4. ASSUME NEW p \in Requests, NEW j \in Refs, CreateIntentSave(p, j) PROVE Lived(i)
  <2>1. \/ intents'[i].status = intents[i].status
        \/ intents[i].status = "none" /\ intents'[i].status = "awaiting_customer"
    BY <1>1, <1>4 DEF CreateIntentSave, PayTables
  <2> QED BY <2>1 DEF Lived
<1>5. ASSUME NEW p \in Requests,
             StatusExpire(p) \/ ConfirmExpire(p) \/ ConfirmSave(p) \/ CancelIntentSave(p)
      PROVE  Lived(i)
  <2>1. PICK st \in {"approved", "expired", "cancelled"} :
           /\ SetIntent(pay[p].intent, st) /\ UNCHANGED tables
           /\ \/ st # "cancelled" /\ pay[p].pc \in {"statusExpire", "confirmExpire", "confirmSave"}
              \/ st = "cancelled" /\ pay[p].pc = "cancelSave"
    BY <1>5 DEF StatusExpire, ConfirmExpire, ConfirmSave, CancelIntentSave, PayAt
  <2>2. PICK j \in Refs : /\ j = pay[p].intent
                          /\ comandas[intents[j].comanda].card = req[p].card
    BY <1>1, <2>1, SlotFacts DEF IntentPcs
  <2>3. /\ intents'[j].status = st /\ intents'[j].comanda = intents[j].comanda
        /\ i # j => intents'[i] = intents[i]
    BY <1>1, <2>1, <2>2 DEF SetIntent, PayTables, IntentRow
  <2>4. IntentSeparado(j)' => req[p].card \notin sobrepostos
    BY <1>1, <2>1, <2>2, <2>3 DEF IntentSeparado, tables, Grow
  <2>5. intents[j].status \in IntentStatus
    BY <1>1, <2>2 DEF PayTables, IntentRow
  <2>6. IntentSeparado(j)' => \/ intents[j].status = "awaiting_customer"
                              \/ st = "cancelled" /\ intents[j].status \notin {"none", "approved"}
    BY <1>1, <2>1, <2>2, <2>4 DEF OnceInv, AllResolve, Resolves
  <2> QED BY <2>1, <2>3, <2>5, <2>6 DEF Lived, IntentStatus
<1>6. ASSUME NEW p \in Requests, PaymentsContinue(p) PROVE Lived(i)
  <2>1. \/ intents' = intents
        \/ \E j \in Refs : CreateIntentSave(p, j)
        \/ StatusExpire(p) \/ ConfirmExpire(p) \/ ConfirmSave(p) \/ CancelIntentSave(p)
    BY <1>6 DEF PaymentsContinue, CreateIntentValor, StatusRemotePaid, ConfirmRead,
       ConfirmPay, ConfirmPayRefused
  <2> QED BY <1>2, <1>4, <1>5, <2>1
<1>7. ASSUME NEW p \in Requests, PaymentsStart(p) \/ PayAbort(p) PROVE intents' = intents
  BY <1>7 DEF PaymentsStart, CreateIntentRead, StatusRead, ConfirmStart, CancelIntentRead,
     PayAbort
<1>8. Step /\ UNCHANGED payVars => intents' = intents
  BY DEF payVars
<1> QED BY <1>2, <1>3, <1>6, <1>7, <1>8, PaymentsSteps

\* An intent of a wristband where requests never overlapped is resolved once:
\* APPROVED and CANCELLED are final and an expired one can only be cancelled.
THEOREM IntentResolvedOnce == PaymentsSpec => IntentLifecycle
<1>1. PaymentsInv /\ [PaymentsNext]_paymentsVars => [\A i \in Refs : Lived(i)]_paymentsVars
  BY IntentLives
<1> QED BY PaymentsInvInit, PaymentsInvStep, <1>1, PTL DEF PaymentsSpec, IntentLifecycle, Lived

\* The life of a comanda is the same when confirm pays it.
THEOREM ComandaLivesWithIntents ==
    PaymentsSpec => [][\A c \in ComandaIds : Separada(c)' => Alive(c)]_paymentsVars
<1>1. ASSUME PaymentsInv, PaymentsNext, NEW c \in ComandaIds, Separada(c)' PROVE Alive(c)
  <2>1. UNCHANGED tables => Alive(c)
    BY DEF tables, Alive, ItensDe
  <2>2. \A i \in Refs : IntentDue(i) => UNCHANGED tables
    BY DEF IntentDue
  <2>3. TabInv /\ SheetInv /\ PayInv /\ Grow
    BY <1>1, PaymentsGrow DEF PaymentsInv
  <2> QED BY <1>1, <2>1, <2>2, <2>3, PaymentsSteps, AliveKept, PayTabs
<1>2. PaymentsInv /\ [PaymentsNext]_paymentsVars
         => [\A c \in ComandaIds : Separada(c)' => Alive(c)]_paymentsVars
  BY <1>1
<1> QED BY PaymentsInvInit, PaymentsInvStep, <1>2, PTL DEF PaymentsSpec
-----------------------------------------------------------------------------
(* Exit and Customers.  What a step of p touches: rows and items of its wristband *)

TouchesRows(p) ==
    \A c \in ComandaIds :
        \/ comandas'[c] = comandas[c]
        \/ /\ comandas[c].status = "none"
           /\ comandas'[c].status = "open" /\ comandas'[c].card = req[p].card
        \/ /\ comandas[c].status # "none" /\ comandas[c].card = req[p].card
           /\ comandas'[c].status # "none" /\ comandas'[c].card = req[p].card

TouchesItems(p) ==
    \A c \in ComandaIds :
        TemItens(c)' => \/ TemItens(c)
                        \/ comandas[c].status # "none" /\ comandas[c].card = req[p].card

StaysActive ==
    \A c \in ComandaIds : comandas[c].status \in Aberta => comandas'[c].status \in Aberta

\* No comanda of a wristband where requests never overlapped comes back to life.
Wakes ==
    \A c \in ComandaIds :
        comandas'[c].status \in Aberta /\ comandas[c].card \notin sobrepostos =>
            comandas[c].status \in Aberta \cup {"none"}

Working(p) ==
    /\ req[p].pc \in AtWork /\ req[p].card \notin sobrepostos =>
          comandas[req[p].comanda].status \in Aberta
    /\ req[p].pc = "cancelSave" => req[p].lido.status = "cancelled"

LEMMA NoRowTouched ==
    ASSUME UNCHANGED comandas, NEW p PROVE TouchesRows(p) /\ Wakes /\ StaysActive
BY DEF TouchesRows, Wakes, StaysActive

LEMMA NoItemTouched ==
    ASSUME UNCHANGED itens, NEW p PROVE TouchesItems(p)
BY DEF TouchesItems, TemItens

LEMMA RowWrites ==
    ASSUME TabInv, NEW p \in Requests,
           \/ \E c \in ComandaIds : TapInsert(p, c)
           \/ RecalcSave(p) \/ SaveRow(p) \/ PayClose(p) \/ PayAlready(p) \/ PayUpdate(p)
    PROVE  /\ TouchesRows(p) /\ TouchesItems(p)
           /\ Working(p) => Wakes
           /\ req'[p].pc \in AtWork => StaysActive
<1> DEFINE o == req[p]
<1>0. /\ TouchesItems(p) /\ CardsStay
      /\ PayClose(p) \/ req'[p].pc \notin AtWork
  <2>1. itens' = itens
    BY DEF TapInsert, RecalcSave, SaveRow, PayClose, PayAlready, PayUpdate
  <2>2. PayClose(p) \/ Go(p, Idle)
    BY DEF TapInsert, RecalcSave, SaveRow, PayAlready, PayUpdate, Finish
  <2>3. Go(p, Idle) => req'[p].pc \notin AtWork
    BY IdleType DEF Go, TabInv, TablesOK, AtWork, OnComanda
  <2> QED BY <2>1, <2>2, <2>3, NoItemTouched, CardsStayStep
<1>1. ASSUME NEW c \in ComandaIds, TapInsert(p, c) PROVE TouchesRows(p) /\ Wakes
  <2> DEFINE row == [NoComanda EXCEPT !.card = o.card, !.status = "open"]
  <2>1. comandas[c].status = "none" /\ comandas' = [comandas EXCEPT ![c] = row]
    BY <1>1 DEF TapInsert, Grava
  <2>2. row.status = "open" /\ row.card = o.card
    BY DEF NoComanda
  <2>3. comandas'[c] = row /\ \A d \in ComandaIds \ {c} : comandas'[d] = comandas[d]
    BY <2>1 DEF TabInv, TablesOK
  <2> HIDE DEF row
  <2> QED BY <2>1, <2>2, <2>3 DEF TouchesRows, Wakes
<1>2. ASSUME o.pc \in OnComanda, NEW row, Grava(o.comanda, row),
             o.pc = "cancelSave" => row = o.lido
      PROVE  TouchesRows(p) /\ (Working(p) => Wakes)
  <2>1. /\ o.comanda \in ComandaIds /\ comandas[o.comanda].status # "none"
        /\ comandas[o.comanda].card = o.card
    BY <1>2, OnItsRow
  <2>2. /\ comandas'[o.comanda] = row
        /\ \A d \in ComandaIds \ {o.comanda} : comandas'[d] = comandas[d]
    BY <1>2, <2>1 DEF Grava, TabInv, TablesOK
  <2>3. TouchesRows(p)
    BY <1>0, <2>1, <2>2 DEF TouchesRows, CardsStay
  <2>4. ASSUME Working(p) PROVE Wakes
    BY <1>2, <2>1, <2>2, <2>4 DEF Working, Wakes, AtWork, Aberta
  <2> QED BY <2>3, <2>4
<1>3. ASSUME RecalcSave(p) \/ SaveRow(p) \/ PayClose(p) \/ PayAlready(p) \/ PayUpdate(p)
      PROVE  TouchesRows(p) /\ (Working(p) => Wakes)
  <2>1. o.pc \in OnComanda /\ \E row : Grava(o.comanda, row) /\ (o.pc = "cancelSave" => row = o.lido)
    BY <1>3 DEF RecalcSave, SaveRow, PayClose, PayAlready, PayUpdate, At, OnComanda
  <2> QED BY <1>2, <2>1
<1>4. ASSUME PayClose(p) PROVE StaysActive
  <2> DEFINE row == [comandas[o.comanda] EXCEPT !.status = "pending_payment"]
  <2>1. Grava(o.comanda, row) /\ o.comanda \in ComandaIds /\ comandas[o.comanda] \in ComandaRow
    BY <1>4, OnItsRow DEF PayClose, At, OnComanda
  <2>2. row.status = "pending_payment"
    BY <2>1 DEF ComandaRow
  <2> HIDE DEF row
  <2> QED BY <2>1, <2>2 DEF StaysActive, Grava, TabInv, TablesOK, Aberta
<1> QED BY <1>0, <1>1, <1>3, <1>4

LEMMA SheetTouches ==
    ASSUME TabInv, NEW p \in Requests, Start(p) \/ Continue(p) \/ Abort(p)
    PROVE  /\ Moved(p) /\ TouchesRows(p) /\ TouchesItems(p)
           /\ Working(p) => Wakes
           /\ req'[p].pc \in AtWork => StaysActive
<1>1. CASE Start(p)
  <2>1. UNCHANGED <<comandas, itens>> /\ Moved(p)
    BY <1>1, StartShapes DEF tables
  <2> QED BY <2>1, NoRowTouched, NoItemTouched
<1>2. CASE \/ TapFind(p) \/ RemoveFind(p) \/ RecalcRead(p) \/ PaySum(p) \/ PayDebit(p)
           \/ Abort(p)
  <2>1. UNCHANGED <<comandas, itens>>
    BY <1>2 DEF TapFind, RemoveFind, RecalcRead, PaySum, PayDebit, Abort, tables
  <2>2. Moved(p)
    BY <1>2, ContinueShapes
  <2> QED BY <2>1, <2>2, NoRowTouched, NoItemTouched
<1>3. CASE \/ \E c \in ComandaIds : TapInsert(p, c)
           \/ RecalcSave(p) \/ SaveRow(p) \/ PayClose(p) \/ PayAlready(p) \/ PayUpdate(p)
  BY <1>3, RowWrites, ContinueShapes
<1>4. CASE (\E x \in ItemIds : AddItem(p, x)) \/ RemoveItem(p)
  <2>1. Moved(p) /\ UNCHANGED comandas /\ req[p].pc \in OnComanda
    BY <1>4, ContinueShapes DEF AddItem, RemoveItem, At, OnComanda
  <2>2. TouchesItems(p)
    <3> SUFFICES ASSUME NEW c \in ComandaIds, TemItens(c)'
                 PROVE  TemItens(c) \/ c = req[p].comanda
      BY <2>1, OnItsRow DEF TouchesItems
    <3>1. PICK y \in ItemIds : itens'[y].comanda = c
      BY DEF TemItens
    <3>2. itens[y].comanda = c \/ c = req[p].comanda
      <4>1. ASSUME NEW x \in ItemIds, NEW row, itens' = [itens EXCEPT ![x] = row],
                   row.comanda \in {None, req[p].comanda}
            PROVE  itens[y].comanda = c \/ c = req[p].comanda
        BY <3>1, <4>1, ComandasAssumption DEF TabInv, TablesOK
      <4>2. ASSUME NEW x \in ItemIds, AddItem(p, x)
            PROVE  itens[y].comanda = c \/ c = req[p].comanda
        <5> DEFINE row == [comanda |-> req[p].comanda, total |-> req[p].itens[x] + 1]
        <5>1. itens' = [itens EXCEPT ![x] = row]
          BY <4>2 DEF AddItem
        <5>2. row.comanda = req[p].comanda
          OBVIOUS
        <5> HIDE DEF row
        <5> QED BY <4>1, <5>1, <5>2
      <4>3. ASSUME RemoveItem(p) PROVE itens[y].comanda = c \/ c = req[p].comanda
        <5>1. itens' = [itens EXCEPT ![req[p].item] = NoItem]
          BY <4>3 DEF RemoveItem
        <5>2. CASE req[p].item \in ItemIds
          BY <4>1, <5>1, <5>2 DEF NoItem
        <5>3. CASE req[p].item \notin ItemIds
          BY <3>1, <5>1, <5>3 DEF TabInv, TablesOK
        <5> QED BY <5>2, <5>3
      <4> QED BY <1>4, <4>2, <4>3
    <3> QED BY <3>2 DEF TemItens
  <2> QED BY <2>1, <2>2, NoRowTouched
<1>5. ASSUME NEW s \in {0, req[p].saldoIns}, NEW o \in {0, req[p].outroIns},
             PayInsert(p, s, o)
      PROVE  /\ Moved(p) /\ TouchesRows(p) /\ TouchesItems(p)
             /\ Working(p) => Wakes
             /\ req'[p].pc \in AtWork => StaysActive
  <2>1. UNCHANGED <<comandas, itens>> /\ Moved(p)
    BY <1>5, InsertShapes DEF PayInsert
  <2> QED BY <2>1, NoRowTouched, NoItemTouched
<1> QED BY <1>1, <1>2, <1>3, <1>4, <1>5 DEF Continue

\* The request itself goes on with an active comanda.
LEMMA WorksOn ==
    ASSUME TabInv, Grow, NEW p \in Requests, Moved(p), Working(p),
           req'[p].pc \in AtWork => StaysActive
    PROVE  Working(p)'
<1>1. PICK r : Go(p, r) /\ Shape(req[p], r)
  BY DEF Moved
<1>2. req'[p] = r /\ Takes(req[p], r)
  BY <1>1 DEF Go, TabInv, TablesOK, Shape
<1>3. ASSUME r.pc \in AtWork, r.card \notin sobrepostos'
      PROVE  comandas'[r.comanda].status \in Aberta
  <2>1. CASE req[p].pc \in AtWork /\ r.comanda = req[p].comanda
    <3>1. r.card = req[p].card /\ req[p].comanda \in ComandaIds
      BY <1>2, <1>3, <2>1, OnItsRow DEF Takes, AtWork, OnComanda
    <3> QED BY <1>2, <1>3, <2>1, <3>1 DEF Working, Grow, StaysActive
  <2>2. CASE r.comanda \in ComandaIds /\ comandas[r.comanda].status \in Aberta
    BY <1>2, <1>3, <2>2 DEF StaysActive
  <2> QED BY <1>2, <1>3, <2>1, <2>2 DEF Takes
<1> QED BY <1>2, <1>3 DEF Takes, Working
-----------------------------------------------------------------------------
(* Exit and Customers: the invariant.  On wristbands where requests never overlapped
   what release and check-in decided still holds when they write. *)

AfterRead == {"bindCount", "bindSave", "tapRead", "tapFind", "tapInsert", "bindUpdate"}
AfterBind == {"tapRead", "tapFind", "tapInsert", "bindUpdate"}

DeskTables ==
    /\ saidas \in [CardIds -> Nat] /\ ex \in [Requests -> ExitRequest]
    /\ cadastro \in SUBSET Clientes /\ novos \in SUBSET CardIds
    /\ dono \in [CardIds -> Clientes \cup {None}]
    /\ titular \in [ComandaIds -> Clientes \cup {None}]
    /\ retidos \in SUBSET CardIds /\ ci \in [Requests -> CiRequest]

\* A slot serves one handler, and a check-in that has its comanda names one of the
\* wristband.
Slot(r, e, h, cs) ==
    /\ e.pc # "none" \/ h.pc # "none" => r.pc = "outer"
    /\ e.pc = "none" \/ h.pc = "none"
    /\ h.pc # "none" => h.cliente \in Clientes
    /\ h.pc = "bindUpdate" =>
          /\ h.comanda \in ComandaIds
          /\ cs[h.comanda].status # "none" /\ cs[h.comanda].card = r.card

AllSlots == \A p \in Requests : Slot(req[p], ex[p], ci[p], comandas)

OweNothing(p) ==
    /\ ex[p].pc \in {"cancelEmpty", "insert"} /\ ~ex[p].forcada
    /\ req[p].card \notin sobrepostos
    => ~TemDivida(req[p].card)

\* Whose the wristband is, as far as the check-in in slot p has come.
Bound(p) ==
    LET k == req[p].card
    IN  /\ ci[p].pc \in AfterRead => k \notin novos
        /\ req[p].pc \notin {"idle", "outer"} \/ ex[p].pc # "none" => k \notin novos
        /\ k \notin sobrepostos =>
              /\ ci[p].pc = "bindSave" /\ k \notin retidos =>
                    dono[k] \in {None, ci[p].cliente} \/ ComandaAtiva(k) = {}
              /\ ci[p].pc \in AfterBind => dono[k] = ci[p].cliente
              /\ ci[p].pc = "bindUpdate" /\ k \notin retidos =>
                    titular[ci[p].comanda] \in {None, ci[p].cliente}

Facts(p) == OweNothing(p) /\ Working(p) /\ Bound(p)

\* A wristband without a row in cards has no comanda.
NovosEmpty == \A c \in ComandaIds : comandas[c].status # "none" => comandas[c].card \notin novos

\* An active comanda is of the customer of its wristband, or of nobody.
Heirs ==
    \A c \in ComandaIds :
        comandas[c].status \in Aberta /\ comandas[c].card \notin sobrepostos \cup retidos
        => titular[c] \in {None, dono[comandas[c].card]}

Kept ==
    \A k \in CardIds : cardStatus[k] # "active" /\ ComandaAtiva(k) # {} => k \in retidos

DeskInv ==
    DeskTables /\ AllSlots /\ NovosEmpty /\ Heirs /\ Kept /\ \A p \in Requests : Facts(p)

CustomersInv == TabInv /\ HistoryOK /\ Apart /\ WalletInv /\ DeskInv
-----------------------------------------------------------------------------
(* The slots that a step of p leaves alone *)

Frame(p) ==
    /\ \A q \in Requests \ {p} : req'[q] = req[q] /\ ex'[q] = ex[q] /\ ci'[q] = ci[q]
    /\ TouchesRows(p) /\ TouchesItems(p)
    /\ \A k \in CardIds : k # req[p].card => dono'[k] = dono[k]
    /\ \A c \in ComandaIds : \/ titular'[c] = titular[c]
                             \/ comandas[c].status = "none"
                             \/ comandas[c].card = req[p].card
    /\ novos' \subseteq novos
    /\ retidos \subseteq retidos'

\* Comandas of another wristband than that of p.
LEMMA OtherCard ==
    ASSUME NEW p, TouchesRows(p), TouchesItems(p), NEW k, k # req[p].card
    PROVE  /\ TemDivida(k)' => TemDivida(k)
           /\ ComandaAtiva(k)' \subseteq ComandaAtiva(k)
           /\ \A c \in ComandaIds : comandas[c].status # "none" /\ comandas[c].card = k =>
                 comandas'[c] = comandas[c]
<1>1. \A c \in ComandaIds : comandas'[c].card = k => comandas'[c] = comandas[c]
  BY DEF TouchesRows
<1>2. \A c \in ComandaIds : comandas'[c].card = k /\ TemItens(c)' => TemItens(c)
  BY <1>1 DEF TouchesItems
<1>3. TemDivida(k)' => TemDivida(k)
  BY <1>1, <1>2 DEF TemDivida, Pendente
<1>4. ComandaAtiva(k)' \subseteq ComandaAtiva(k)
  BY <1>1 DEF ComandaAtiva
<1> QED BY <1>3, <1>4 DEF TouchesRows

LEMMA OthersKept ==
    ASSUME TabInv, Apart, DeskInv, Grow, NEW p \in Requests, Frame(p),
           NEW q \in Requests, q # p, CardsStay
    PROVE  Facts(q)' /\ Slot(req[q], ex[q], ci[q], comandas')
<1>k. PICK k : k = req[q].card
  OBVIOUS
<1>0. /\ Slot(req[q], ex[q], ci[q], comandas) /\ Facts(q) /\ Named(req[q], comandas)
  BY DEF DeskInv, AllSlots, TabInv, AllNamed
<1>1. Slot(req[q], ex[q], ci[q], comandas')
  BY <1>0 DEF Slot, CardsStay
<1>2. req'[q] = req[q] /\ ex'[q] = ex[q] /\ ci'[q] = ci[q]
  BY DEF Frame
<1>3. req[q].pc # "idle" => k \in CardIds
  BY <1>k, <1>0 DEF Named
<1>4. ASSUME req[q].pc # "idle", k \notin sobrepostos'
      PROVE  /\ k # req[p].card /\ k \in CardIds /\ k \notin sobrepostos
             /\ TemDivida(k)' => TemDivida(k)
             /\ ComandaAtiva(k)' \subseteq ComandaAtiva(k)
             /\ \A c \in ComandaIds : comandas[c].status # "none" /\ comandas[c].card = k =>
                   comandas'[c] = comandas[c] /\ titular'[c] = titular[c]
             /\ dono'[k] = dono[k]
  <2>1. k # req[p].card /\ k \notin sobrepostos /\ k \in CardIds
    BY <1>k, <1>3, <1>4 DEF Apart, Grow
  <2>2. TouchesRows(p) /\ TouchesItems(p)
    BY DEF Frame
  <2> QED BY <2>1, <2>2, OtherCard DEF Frame
<1>5. OweNothing(q)'
  <2> SUFFICES ASSUME ex[q].pc \in {"cancelEmpty", "insert"}, ~ex[q].forcada,
                      k \notin sobrepostos'
               PROVE  ~TemDivida(k)'
    BY <1>k, <1>2 DEF OweNothing, TemDivida
  <2>1. req[q].pc # "idle"
    BY <1>0 DEF Slot
  <2> QED BY <1>k, <1>0, <1>4, <2>1 DEF Facts, OweNothing
<1>6. Working(q)'
  <2> SUFFICES ASSUME req[q].pc \in AtWork, k \notin sobrepostos'
               PROVE  comandas'[req[q].comanda].status \in Aberta
    BY <1>k, <1>0, <1>2 DEF Facts, Working
  <2>1. /\ req[q].pc # "idle" /\ req[q].comanda \in ComandaIds
        /\ comandas[req[q].comanda].status # "none" /\ comandas[req[q].comanda].card = k
    BY <1>k, <1>0 DEF Named, AtWork, OnComanda
  <2> QED BY <1>k, <1>0, <1>4, <2>1 DEF Facts, Working
<1>7. Bound(q)'
  <2>1. novos' \subseteq novos /\ retidos \subseteq retidos'
    BY DEF Frame
  <2>2. ci[q].pc \in AfterRead \/ ci[q].pc \in AfterBind \/ ci[q].pc = "bindSave"
           => req[q].pc # "idle"
    BY <1>0 DEF Slot, AfterRead, AfterBind
  <2>3. Bound(q)
    BY <1>0 DEF Facts
  <2>4. /\ ci[q].pc \in AfterRead => k \notin novos'
        /\ req[q].pc \notin {"idle", "outer"} \/ ex[q].pc # "none" => k \notin novos'
    BY <1>k, <2>1, <2>3 DEF Bound
  <2>5. ASSUME ci[q].pc = "bindSave", k \notin sobrepostos', k \notin retidos'
        PROVE  dono'[k] \in {None, ci[q].cliente} \/ ComandaAtiva(k)' = {}
    <3>1. dono[k] \in {None, ci[q].cliente} \/ ComandaAtiva(k) = {}
      BY <1>k, <1>4, <2>1, <2>2, <2>3, <2>5 DEF Bound
    <3> QED BY <1>4, <2>2, <2>5, <3>1
  <2>6. ASSUME ci[q].pc \in AfterBind, k \notin sobrepostos'
        PROVE  dono'[k] = ci[q].cliente
    BY <1>k, <1>4, <2>2, <2>3, <2>6 DEF Bound
  <2>7. ASSUME ci[q].pc = "bindUpdate", k \notin sobrepostos', k \notin retidos'
        PROVE  titular'[ci[q].comanda] \in {None, ci[q].cliente}
    <3>1. titular[ci[q].comanda] \in {None, ci[q].cliente}
      BY <1>k, <1>4, <2>1, <2>2, <2>3, <2>7 DEF Bound, AfterBind
    <3>2. titular'[ci[q].comanda] = titular[ci[q].comanda]
      BY <1>k, <1>0, <1>4, <2>2, <2>7 DEF Slot, AfterBind
    <3> QED BY <3>1, <3>2
  <2> QED BY <1>k, <1>2, <2>4, <2>5, <2>6, <2>7 DEF Bound, ComandaAtiva
<1> QED BY <1>1, <1>5, <1>6, <1>7 DEF Facts
-----------------------------------------------------------------------------
(* Exit and Customers: the invariant after a step *)

LEMMA DeskAfter ==
    ASSUME TabInv, Apart, DeskInv, Grow, CardsStay, NEW p \in Requests, Frame(p),
           Facts(p)', Slot(req'[p], ex'[p], ci'[p], comandas'),
           DeskTables', NovosEmpty', Heirs', Retem
    PROVE  DeskInv'
<1>1. Kept'
  BY DEF Retem, Kept
<1>2. \A q \in Requests : Facts(q)'
  BY OthersKept
<1>3. AllSlots'
  <2> SUFFICES ASSUME NEW q \in Requests PROVE Slot(req'[q], ex'[q], ci'[q], comandas')
    BY DEF AllSlots
  <2>1. q # p => req'[q] = req[q] /\ ex'[q] = ex[q] /\ ci'[q] = ci[q]
    BY DEF Frame
  <2> QED BY <2>1, OthersKept
<1> QED BY <1>1, <1>2, <1>3 DEF DeskInv

LEMMA RetidosGrow == ASSUME Retem PROVE retidos \subseteq retidos'
BY DEF Retem

LEMMA NovosAfter ==
    ASSUME DeskInv, NEW p, TouchesRows(p), novos' \subseteq novos,
           comandas' = comandas \/ req[p].card \notin novos
    PROVE  NovosEmpty'
BY DEF DeskInv, NovosEmpty, TouchesRows

LEMMA HeirsAfter ==
    ASSUME TabInv, DeskInv, Grow, CardsStay, Wakes, retidos \subseteq retidos',
           UNCHANGED dono,
           \A c \in ComandaIds :
              comandas'[c].status # "none" /\ comandas'[c].card \notin sobrepostos' =>
                 \/ comandas[c].status # "none" /\ titular'[c] = titular[c]
                 \/ titular'[c] = dono[comandas'[c].card]
    PROVE  Heirs'
<1> SUFFICES ASSUME NEW c \in ComandaIds, comandas'[c].status \in Aberta,
                    comandas'[c].card \notin sobrepostos' \cup retidos'
             PROVE  titular'[c] \in {None, dono[comandas'[c].card]}
  BY DEF Heirs
<1>1. comandas'[c].status # "none"
  BY DEF Aberta
<1>2. CASE titular'[c] = dono[comandas'[c].card]
  BY <1>2
<1>3. CASE comandas[c].status # "none" /\ titular'[c] = titular[c]
  <2>1. comandas[c].status \in Aberta /\ comandas'[c].card = comandas[c].card
    BY <1>3 DEF Wakes, CardsStay, Grow
  <2> QED BY <1>3, <2>1 DEF DeskInv, Heirs, Grow
<1> QED BY <1>1, <1>2, <1>3

\* What the customer of a comanda becomes in a step of Exit or Comandas.
Inherits ==
    titular' = [c \in ComandaIds |->
        IF comandas[c].status = "none" /\ comandas'[c].status # "none"
        THEN dono[comandas'[c].card] ELSE titular[c]]

LEMMA InheritsType ==
    ASSUME TabInv', DeskTables, Inherits
    PROVE  titular' \in [ComandaIds -> Clientes \cup {None}]
<1> SUFFICES ASSUME NEW c \in ComandaIds
             PROVE  (IF comandas[c].status = "none" /\ comandas'[c].status # "none"
                     THEN dono[comandas'[c].card] ELSE titular[c]) \in Clientes \cup {None}
  BY DEF Inherits
<1>1. comandas'[c].status # "none" => comandas'[c].card \in CardIds
  BY DEF TabInv, RowsOwned
<1> QED BY <1>1 DEF DeskTables

\* A request of Comandas moves on.
LEMMA DeskSheet ==
    ASSUME TabInv, TabInv', Apart, DeskInv, Grow, CardsStay, NEW p \in Requests,
           Start(p) \/ Continue(p) \/ Abort(p), UNCHANGED exitVars,
           At(p, "idle") => req'[p].card \notin novos,
           Inherits, UNCHANGED <<cadastro, novos, dono, ci>>, Retem
    PROVE  DeskInv'
<1>1. /\ Moved(p) /\ TouchesRows(p) /\ TouchesItems(p)
      /\ Working(p) => Wakes
      /\ req'[p].pc \in AtWork => StaysActive
  BY SheetTouches
<1>2. /\ DeskTables /\ Slot(req[p], ex[p], ci[p], comandas) /\ Facts(p)
      /\ UNCHANGED <<saidas, ex, ci>>
  BY DEF DeskInv, AllSlots, exitVars
<1>3. PICK r : Go(p, r) /\ Shape(req[p], r)
  BY <1>1 DEF Moved
<1>4. req'[p] = r /\ \A q \in Requests \ {p} : req'[q] = req[q]
  BY <1>3 DEF Go, TabInv, TablesOK
<1>5. ex[p].pc = "none" /\ ci[p].pc = "none"
  BY <1>2, <1>3 DEF Slot, Shape
<1>6. Slot(req'[p], ex'[p], ci'[p], comandas')
  BY <1>2, <1>5 DEF Slot
<1>7. Working(p) /\ Wakes
  BY <1>1, <1>2 DEF Facts
<1>8. retidos \subseteq retidos' /\ retidos' \in SUBSET CardIds
  BY <1>2 DEF Retem, DeskTables
<1>9. DeskTables'
  BY <1>2, <1>8, InheritsType DEF DeskTables
<1>10. Frame(p)
  <2>1. \A c \in ComandaIds : titular'[c] = titular[c] \/ comandas[c].status = "none"
    BY DEF Inherits
  <2> QED BY <1>1, <1>2, <1>4, <1>8, <2>1 DEF Frame
<1>11. Facts(p)'
  <2>1. Working(p)'
    BY <1>1, <1>7, WorksOn
  <2>2. OweNothing(p)'
    BY <1>2, <1>5 DEF OweNothing
  <2>3. req'[p].pc \notin {"idle", "outer"} => req'[p].card \notin novos
    BY <1>2, <1>3, <1>4 DEF Facts, Bound, Shape, Takes, At
  <2>4. Bound(p)'
    BY <1>2, <1>5, <2>3 DEF Bound, AfterRead, AfterBind
  <2> QED BY <2>1, <2>2, <2>4 DEF Facts
<1>12. NovosEmpty'
  <2>1. comandas' = comandas \/ req[p].card \notin novos
    <3>1. CASE Start(p)
      BY <3>1, StartShapes DEF tables
    <3>2. CASE Abort(p)
      BY <3>2 DEF Abort, tables
    <3>3. CASE Continue(p)
      <4>1. req[p].pc # "idle"
        BY <3>3 DEF Continue, TapFind, TapInsert, AddItem, RemoveFind, RemoveItem,
           RecalcRead, RecalcSave, SaveRow, PayClose, PaySum, PayAlready, PayDebit,
           PayInsert, PayUpdate, At
      <4> QED BY <1>2, <1>3, <4>1 DEF Facts, Bound, Shape
    <3> QED BY <3>1, <3>2, <3>3
  <2> QED BY <1>1, <2>1, NovosAfter
<1>13. Heirs'
  <2>1. \A c \in ComandaIds : comandas'[c].status # "none" =>
           \/ comandas[c].status # "none" /\ titular'[c] = titular[c]
           \/ titular'[c] = dono[comandas'[c].card]
    BY DEF Inherits
  <2> QED BY <1>7, <1>8, <2>1, HeirsAfter
<1> QED BY <1>6, <1>9, <1>10, <1>11, <1>12, <1>13, DeskAfter

\* A card is blocked or unblocked.
LEMMA DeskCard ==
    ASSUME TabInv, DeskInv, Grow, UNCHANGED <<comandas, itens, req, exitVars>>,
           Inherits, UNCHANGED <<cadastro, novos, dono, ci>>, Retem
    PROVE  DeskInv'
<1>1. UNCHANGED <<saidas, ex, titular>>
  BY DEF exitVars, Inherits, DeskInv, DeskTables
<1>2. retidos \subseteq retidos' /\ retidos' \in SUBSET CardIds
  BY DEF Retem, DeskTables, DeskInv
<1>3. DeskTables' /\ AllSlots' /\ NovosEmpty'
  BY <1>1, <1>2 DEF DeskInv, DeskTables, AllSlots, NovosEmpty
<1>4. Heirs'
  BY <1>1, <1>2 DEF DeskInv, Heirs, Grow
<1>5. Kept'
  BY DEF Retem, Kept
<1>6. ASSUME NEW p \in Requests PROVE Facts(p)'
  <2>1. OweNothing(p) /\ Working(p) /\ Bound(p)
    BY DEF DeskInv, Facts
  <2>2. OweNothing(p)'
    BY <1>1, <2>1 DEF OweNothing, TemDivida, Pendente, TemItens, Grow
  <2>3. Working(p)'
    BY <2>1 DEF Working, Grow
  <2>4. Bound(p)'
    BY <1>1, <1>2, <2>1 DEF Bound, ComandaAtiva, Grow
  <2> QED BY <2>2, <2>3, <2>4 DEF Facts
<1> QED BY <1>3, <1>4, <1>5, <1>6 DEF DeskInv
-----------------------------------------------------------------------------
(* Exit and Customers: what the handlers write in the tables of Comandas *)

\* The slot of a handler: free, or on a wristband.
Sits(p, r) ==
    /\ req[p].pc \in {"idle", "outer"} /\ Go(p, r)
    /\ r \in Request /\ r.pc \in {"idle", "outer"} /\ (r.pc = "outer" => r.card \in CardIds)

LEMMA OuterWrites ==
    ASSUME TabInv, NEW p \in Requests, NEW r, Sits(p, r),
           cardStatus' \in [CardIds -> CardStatus],
           comandas' \in [ComandaIds -> ComandaRow], CardsStay, RowsOwned',
           \A c \in ComandaIds : comandas'[c].totalPago <= pagos[c],
           UNCHANGED <<itens, pagos, pagosSaldo, debitado, refs>>
    PROVE  TabInv' /\ (WalletInv => WalletInv')
<1>1. TablesOK'
  BY DEF TabInv, TablesOK, Sits, Go
<1>2. Named(r, comandas') /\ Backed(r, pagos')
  BY DEF Sits, Named, Backed, OnComanda, Rewrites
<1>3. AllNamed' /\ AllBacked'
  BY <1>1, <1>2, SlotStep, PagosSame DEF TabInv, Sits
<1>4. TabInv'
  BY <1>1, <1>3 DEF TabInv, NeverOverstated
<1>5. WalletInv => WalletInv'
  BY WalletSame DEF Sits
<1> QED BY <1>4, <1>5

\* Handlers that write at most the status of a card.
LEMMA OuterQuiet ==
    ASSUME TabInv, NEW p \in Requests, NEW r, Sits(p, r),
           cardStatus' \in [CardIds -> CardStatus],
           UNCHANGED <<comandas, itens, pagos, pagosSaldo, debitado, refs>>
    PROVE  /\ TabInv' /\ (WalletInv => WalletInv') /\ CardsStay
           /\ TouchesRows(p) /\ TouchesItems(p) /\ Wakes
<1>1. CardsStay /\ RowsOwned'
  BY DEF CardsStay, TabInv, RowsOwned
<1>2. /\ comandas' \in [ComandaIds -> ComandaRow]
      /\ \A c \in ComandaIds : comandas'[c].totalPago <= pagos[c]
  BY DEF TabInv, TablesOK, NeverOverstated
<1> QED BY <1>1, <1>2, OuterWrites, NoRowTouched, NoItemTouched

LEMMA SitsFree == ASSUME NEW p, req[p].pc = "outer", Finish(p) PROVE Sits(p, Idle)
BY IdleType DEF Sits, Finish

LEMMA SitsStill ==
    ASSUME TabInv, NEW p \in Requests, req[p].pc = "outer", UNCHANGED req
    PROVE  Sits(p, req[p])
BY SlotStays DEF Sits, TabInv, TablesOK, AllNamed, Named

LEMMA SitsOn ==
    ASSUME NEW p, At(p, "idle"), NEW k \in CardIds,
           Go(p, [Idle EXCEPT !.pc = "outer", !.card = k])
    PROVE  LET r == [Idle EXCEPT !.pc = "outer", !.card = k]
           IN  Sits(p, r) /\ r.pc = "outer" /\ r.card = k
<1> DEFINE r == [Idle EXCEPT !.pc = "outer", !.card = k]
<1>1. r \in Request /\ r.pc = "outer" /\ r.card = k
  BY IdleType DEF Request, Pcs, Idle
<1> HIDE DEF r
<1> QED BY <1>1 DEF Sits, At, r

\* The release cancels the empty comandas of its wristband.
LEMMA CancelsEmpty ==
    ASSUME TabInv, NEW p \in Requests, req[p].pc = "outer", ReleaseCancelEmpty(p)
    PROVE  /\ TabInv' /\ (WalletInv => WalletInv') /\ CardsStay
           /\ TouchesRows(p) /\ TouchesItems(p) /\ Wakes
           /\ TemDivida(req[p].card)' => TemDivida(req[p].card)
<1> DEFINE Row(c) == IF comandas[c].card = req[p].card /\ Vazia(c)
                     THEN [comandas[c] EXCEPT !.status = "cancelled"] ELSE comandas[c]
<1>1. /\ comandas' = [c \in ComandaIds |-> Row(c)]
      /\ UNCHANGED <<cardStatus, itens, pagos, pagosSaldo, debitado, refs, req>>
  BY DEF ReleaseCancelEmpty
<1>2. ASSUME NEW c \in ComandaIds
      PROVE  /\ Row(c) \in ComandaRow /\ Row(c).card = comandas[c].card
             /\ Row(c).totalPago = comandas[c].totalPago
             /\ \/ Row(c) = comandas[c]
                \/ /\ comandas[c].card = req[p].card /\ comandas[c].status = "open"
                   /\ Row(c).status = "cancelled"
  BY DEF TabInv, TablesOK, ComandaRow, ComandaStatus, Vazia
<1> HIDE DEF Row
<1>3. \A c \in ComandaIds : comandas'[c] = Row(c)
  BY <1>1
<1>4. CardsStay /\ RowsOwned' /\ comandas' \in [ComandaIds -> ComandaRow]
  BY <1>1, <1>2, <1>3 DEF CardsStay, RowsOwned, TabInv
<1>5. \A c \in ComandaIds : comandas'[c].totalPago <= pagos[c]
  BY <1>2, <1>3 DEF TabInv, NeverOverstated
<1>6. Sits(p, req[p])
  BY <1>1, SitsStill
<1>7. TabInv' /\ (WalletInv => WalletInv')
  BY <1>1, <1>4, <1>5, <1>6, OuterWrites DEF TabInv, TablesOK
<1>8. TouchesRows(p) /\ Wakes
  BY <1>2, <1>3 DEF TouchesRows, Wakes, Aberta
<1>9. TouchesItems(p)
  BY <1>1, NoItemTouched
<1>10. TemDivida(req[p].card)' => TemDivida(req[p].card)
  BY <1>1, <1>2, <1>3 DEF TemDivida, Pendente, TemItens
<1> QED BY <1>4, <1>7, <1>8, <1>9, <1>10

\* A check-in opens a comanda on its wristband.
LEMMA OpensRow ==
    ASSUME TabInv, NEW p \in Requests, req[p].pc = "outer", NEW c \in ComandaIds,
           BindTapInsert(p, c)
    PROVE  /\ TabInv' /\ (WalletInv => WalletInv') /\ CardsStay
           /\ TouchesRows(p) /\ TouchesItems(p) /\ Wakes
           /\ comandas'[c].status # "none" /\ comandas'[c].card = req[p].card
           /\ \A d \in ComandaIds \ {c} : comandas'[d] = comandas[d]
<1> DEFINE row == [NoComanda EXCEPT !.card = req[p].card, !.status = "open"]
<1>1. /\ comandas[c].status = "none" /\ comandas' = [comandas EXCEPT ![c] = row]
      /\ UNCHANGED <<cardStatus, itens, pagos, pagosSaldo, debitado, refs, req>>
  BY DEF BindTapInsert, Grava
<1>2. req[p].card \in CardIds
  BY DEF TabInv, AllNamed, Named
<1>3. /\ row \in ComandaRow /\ row.status = "open" /\ row.card = req[p].card
      /\ row.totalPago = 0
  BY <1>2 DEF NoComanda, ComandaRow, ComandaStatus
<1> HIDE DEF row
<1>4. comandas'[c] = row /\ \A d \in ComandaIds \ {c} : comandas'[d] = comandas[d]
  BY <1>1 DEF TabInv, TablesOK
<1>5. CardsStay /\ RowsOwned' /\ comandas' \in [ComandaIds -> ComandaRow]
  BY <1>1, <1>2, <1>3, <1>4 DEF CardsStay, RowsOwned, TabInv, TablesOK
<1>6. \A d \in ComandaIds : comandas'[d].totalPago <= pagos[d]
  BY <1>3, <1>4 DEF TabInv, NeverOverstated, TablesOK
<1>7. Sits(p, req[p])
  BY <1>1, SitsStill
<1>8. TabInv' /\ (WalletInv => WalletInv')
  BY <1>1, <1>5, <1>6, <1>7, OuterWrites DEF TabInv, TablesOK
<1>9. TouchesRows(p) /\ Wakes
  BY <1>1, <1>3, <1>4 DEF TouchesRows, Wakes
<1>10. TouchesItems(p)
  BY <1>1, NoItemTouched
<1> QED BY <1>3, <1>4, <1>5, <1>8, <1>9, <1>10
-----------------------------------------------------------------------------
(* The handlers of Exit *)

NewEx(p, pc) ==
    /\ ex' \in [Requests -> ExitRequest] /\ ex'[p].pc = pc
    /\ \A q \in Requests \ {p} : ex'[q] = ex[q]

LEMMA ExGoes ==
    ASSUME DeskTables, NEW p \in Requests, NEW pc \in ExitPcs, ExGo(p, pc)
    PROVE  NewEx(p, pc) /\ ex'[p].forcada = ex[p].forcada
BY DEF DeskTables, ExGo, NewEx, ExitRequest

LEMMA ExEnters ==
    ASSUME DeskTables, NEW p \in Requests, NEW e \in ExitRequest, ex' = [ex EXCEPT ![p] = e]
    PROVE  NewEx(p, e.pc)
BY DEF DeskTables, NewEx

LEMMA ExLeaves ==
    ASSUME DeskTables, NEW p \in Requests, Leave(p)
    PROVE  NewEx(p, "none") /\ Finish(p)
<1>1. NoExit \in ExitRequest /\ NoExit.pc = "none"
  BY DEF NoExit, ExitRequest, ExitPcs
<1> QED BY <1>1, ExEnters DEF Leave

LEMMA DeskExit ==
    ASSUME TabInv, TabInv', Apart, DeskInv, Grow, NEW p \in Requests, NEW r, Sits(p, r),
           ci[p].pc = "none", CardsStay, TouchesRows(p), TouchesItems(p), Wakes,
           NEW pc, NewEx(p, pc),
           pc # "none" => r.pc = "outer" /\ r.card \notin novos,
           pc \in {"cancelEmpty", "insert"} /\ ~ex'[p].forcada /\ r.card \notin sobrepostos' =>
              ~TemDivida(r.card)',
           comandas' = comandas \/ req[p].card \notin novos,
           saidas' \in [CardIds -> Nat],
           Inherits, UNCHANGED <<cadastro, novos, dono, ci>>, Retem
    PROVE  DeskInv'
<1>1. req'[p] = r /\ \A q \in Requests \ {p} : req'[q] = req[q]
  BY DEF Sits, Go, TabInv, TablesOK
<1>2. DeskTables /\ retidos \subseteq retidos' /\ retidos' \in SUBSET CardIds
  BY DEF DeskInv, DeskTables, Retem
<1>3. DeskTables'
  BY <1>2, InheritsType DEF DeskTables, NewEx
<1>4. Frame(p)
  <2>1. \A c \in ComandaIds : titular'[c] = titular[c] \/ comandas[c].status = "none"
    BY DEF Inherits
  <2> QED BY <1>1, <1>2, <2>1 DEF Frame, NewEx
<1>5. Slot(req'[p], ex'[p], ci'[p], comandas')
  BY <1>1 DEF Slot, NewEx
<1>6. OweNothing(p)'
  BY <1>1 DEF OweNothing, NewEx, TemDivida
<1>7. Working(p)'
  BY <1>1 DEF Working, Sits, AtWork, OnComanda
<1>8. Bound(p)'
  BY <1>1 DEF Bound, AfterRead, AfterBind, NewEx, Sits
<1>9. NovosEmpty'
  BY NovosAfter
<1>10. Heirs'
  <2>1. \A c \in ComandaIds : comandas'[c].status # "none" =>
           \/ comandas[c].status # "none" /\ titular'[c] = titular[c]
           \/ titular'[c] = dono[comandas'[c].card]
    BY DEF Inherits
  <2> QED BY <1>2, <2>1, HeirsAfter
<1> QED BY <1>3, <1>4, <1>5, <1>6, <1>7, <1>8, <1>9, <1>10, DeskAfter DEF Facts

\* The check before a release decides whether the wristband owes anything.
LEMMA Decides ==
    ASSUME DeskTables, NEW p \in Requests, ReleaseCheck(p)
    PROVE  /\ NewEx(p, "cancelEmpty")
           /\ ~ex'[p].forcada => ~TemDivida(req[p].card)
<1> DEFINE f == ex[p].forcar /\ TemDivida(req[p].card)
<1>1. ex' = [ex EXCEPT ![p].pc = "cancelEmpty", ![p].forcada = f]
  BY DEF ReleaseCheck
<1>2. f \in BOOLEAN /\ PodeLiberar(req[p].card, ex[p].forcar) /\ ex[p] \in ExitRequest
  BY DEF ReleaseCheck, DeskTables, ExitRequest
<1>3. ~f => ~TemDivida(req[p].card)
  BY <1>2 DEF PodeLiberar
<1> HIDE DEF f
<1>4. NewEx(p, "cancelEmpty") /\ ex'[p].forcada = f
  BY <1>1, <1>2 DEF DeskTables, NewEx, ExitRequest, ExitPcs
<1> QED BY <1>3, <1>4

LEMMA ExitHandled ==
    ASSUME TabInv, Apart, DeskInv, Grow, NEW p \in Requests,
           ExitStart(p) \/ ExitContinue(p) \/ ExitAbort(p),
           At(p, "idle") => req'[p].card \notin novos,
           Inherits, UNCHANGED <<cadastro, novos, dono, ci>>, Retem
    PROVE  TabInv' /\ (WalletInv => WalletInv') /\ DeskInv'
<1> DEFINE Done == TabInv' /\ (WalletInv => WalletInv') /\ DeskInv'
<1>0. /\ DeskTables /\ Slot(req[p], ex[p], ci[p], comandas) /\ Facts(p)
      /\ cardStatus \in [CardIds -> CardStatus] /\ saidas \in [CardIds -> Nat]
      /\ ex[p] \in ExitRequest
  BY DEF DeskInv, DeskTables, AllSlots, TabInv, TablesOK
<1>1. ex[p].pc # "none" => /\ req[p].pc = "outer" /\ ci[p].pc = "none"
                           /\ req[p].card \in CardIds /\ req[p].card \notin novos
  BY <1>0 DEF Slot, Facts, Bound, TabInv, AllNamed, Named
<1>2. ASSUME NEW r, Sits(p, r), ci[p].pc = "none",
             cardStatus' \in [CardIds -> CardStatus],
             UNCHANGED <<comandas, itens, pagos, pagosSaldo, debitado, refs>>,
             NEW pc, NewEx(p, pc),
             pc # "none" => r.pc = "outer" /\ r.card \notin novos,
             pc \in {"cancelEmpty", "insert"} /\ ~ex'[p].forcada
                /\ r.card \notin sobrepostos' => ~TemDivida(r.card),
             saidas' \in [CardIds -> Nat]
      PROVE  Done
  <2>1. /\ TabInv' /\ (WalletInv => WalletInv') /\ CardsStay
        /\ TouchesRows(p) /\ TouchesItems(p) /\ Wakes
    BY <1>2, OuterQuiet
  <2>2. ~TemDivida(r.card) => ~TemDivida(r.card)'
    BY <1>2 DEF TemDivida, Pendente, TemItens
  <2>3. DeskInv'
    BY <1>2, <2>1, <2>2, DeskExit
  <2> QED BY <2>1, <2>3
<1>3. CASE ExitStart(p)
  <2>1. ASSUME NEW k \in CardIds, NEW e \in ExitRequest, Enter(p, k, e), UNCHANGED tables,
               e.pc \in {"check", "countActive"}, UNCHANGED saidas
        PROVE  Done
    <3> DEFINE r == [Idle EXCEPT !.pc = "outer", !.card = k]
    <3>1. At(p, "idle") /\ Go(p, r) /\ ex' = [ex EXCEPT ![p] = e]
      BY <2>1 DEF Enter
    <3>2. Sits(p, r) /\ r.pc = "outer" /\ r.card = k
      BY <3>1, SitsOn
    <3>3. req'[p] = r /\ ci[p].pc = "none"
      BY <1>0, <3>1 DEF Go, TabInv, TablesOK, Slot, At
    <3>4. NewEx(p, e.pc)
      BY <1>0, <3>1, ExEnters
    <3> HIDE DEF r
    <3>5. r.card \notin novos
      BY <3>1, <3>3
    <3> QED BY <1>0, <1>2, <2>1, <3>2, <3>3, <3>4, <3>5 DEF tables
  <2>2. ASSUME NEW k \in CardIds, NEW forcar \in BOOLEAN, ReleaseRead(p, k, forcar) PROVE Done
    <3> DEFINE e == [NoExit EXCEPT !.pc = "check", !.forcar = forcar,
                                   !.saiu = cardStatus[k] = "exited"]
    <3>1. e \in ExitRequest /\ e.pc = "check"
      BY DEF NoExit, ExitRequest, ExitPcs
    <3>2. Enter(p, k, e) /\ UNCHANGED tables /\ UNCHANGED saidas
      BY <2>2 DEF ReleaseRead
    <3> HIDE DEF e
    <3> QED BY <2>1, <3>1, <3>2
  <2>3. ASSUME NEW k \in CardIds, ReactivateRead(p, k) PROVE Done
    <3> DEFINE e == [NoExit EXCEPT !.pc = "countActive"]
    <3>1. e \in ExitRequest /\ e.pc = "countActive"
      BY DEF NoExit, ExitRequest, ExitPcs
    <3>2. Enter(p, k, e) /\ UNCHANGED tables /\ UNCHANGED saidas
      BY <2>3 DEF ReactivateRead
    <3> HIDE DEF e
    <3> QED BY <2>1, <3>1, <3>2
  <2> QED BY <1>3, <2>2, <2>3 DEF ExitStart
<1>4. CASE ExitAbort(p)
  <2>1. ex[p].pc # "none" /\ Leave(p) /\ UNCHANGED <<tables, saidas>>
    BY <1>4 DEF ExitAbort, ExAt
  <2>2. Sits(p, Idle) /\ NewEx(p, "none")
    BY <1>0, <1>1, <2>1, ExLeaves, SitsFree
  <2> QED BY <1>0, <1>1, <1>2, <2>1, <2>2 DEF tables
<1>5. CASE ReleaseCheck(p)
  <2>1. ex[p].pc # "none" /\ UNCHANGED <<tables, req, saidas>>
    BY <1>5 DEF ReleaseCheck, ExAt
  <2>2. Sits(p, req[p]) /\ NewEx(p, "cancelEmpty")
    BY <1>0, <1>1, <1>5, <2>1, SitsStill, Decides
  <2>3. ~ex'[p].forcada => ~TemDivida(req[p].card)
    BY <1>0, <1>5, Decides
  <2> QED BY <1>0, <1>1, <1>2, <2>1, <2>2, <2>3 DEF tables
<1>6. CASE ReleaseCancelEmpty(p)
  <2>1. ex[p].pc = "cancelEmpty" /\ ExGo(p, "insert") /\ UNCHANGED <<req, saidas>>
    BY <1>6 DEF ReleaseCancelEmpty, ExAt
  <2>2. Sits(p, req[p]) /\ NewEx(p, "insert") /\ ex'[p].forcada = ex[p].forcada
    BY <1>0, <1>1, <2>1, SitsStill, ExGoes DEF ExitPcs
  <2>3. /\ TabInv' /\ (WalletInv => WalletInv') /\ CardsStay
        /\ TouchesRows(p) /\ TouchesItems(p) /\ Wakes
        /\ TemDivida(req[p].card)' => TemDivida(req[p].card)
    BY <1>1, <1>6, <2>1, CancelsEmpty
  <2>4. ~ex'[p].forcada /\ req[p].card \notin sobrepostos' => ~TemDivida(req[p].card)'
    BY <1>0, <2>1, <2>2, <2>3 DEF Facts, OweNothing, Grow
  <2>5. PICK r : r = req[p]
    OBVIOUS
  <2>6. TemDivida(r.card)' => TemDivida(req[p].card)'
    BY <2>1, <2>5 DEF TemDivida
  <2>7. Sits(p, r) /\ r.pc = "outer" /\ r.card \notin novos /\ req[p].card \notin novos
    BY <1>1, <2>1, <2>2, <2>5
  <2>8. ~ex'[p].forcada /\ r.card \notin sobrepostos' => ~TemDivida(r.card)'
    BY <2>4, <2>5, <2>6
  <2>9. DeskInv'
    BY <1>0, <1>1, <2>1, <2>2, <2>3, <2>7, <2>8, DeskExit
  <2> QED BY <2>3, <2>9
<1>7. CASE ReleaseInsert(p)
  <2>1. ex[p].pc = "insert" /\ ExGo(p, "saveExited") /\ UNCHANGED <<tables, req>>
    BY <1>7 DEF ReleaseInsert, ExAt
  <2>2. Sits(p, req[p]) /\ NewEx(p, "saveExited")
    BY <1>0, <1>1, <2>1, SitsStill, ExGoes DEF ExitPcs
  <2>3. saidas' \in [CardIds -> Nat]
    BY <1>0, <1>1, <1>7, <2>1 DEF ReleaseInsert
  <2> QED BY <1>0, <1>1, <1>2, <2>1, <2>2, <2>3 DEF tables
<1>8. CASE ReactivateCount(p)
  <2>1. ex[p].pc = "countActive" /\ ExGo(p, "saveActive") /\ UNCHANGED <<tables, req, saidas>>
    BY <1>8 DEF ReactivateCount, ExAt
  <2>2. Sits(p, req[p]) /\ NewEx(p, "saveActive")
    BY <1>0, <1>1, <2>1, SitsStill, ExGoes DEF ExitPcs
  <2> QED BY <1>0, <1>1, <1>2, <2>1, <2>2 DEF tables
<1>9. CASE ReleaseSave(p) \/ ReactivateSave(p)
  <2>1. /\ ex[p].pc # "none" /\ Leave(p)
        /\ UNCHANGED <<comandas, itens, pagos, pagosSaldo, debitado, refs, saidas>>
        /\ \E st \in CardStatus : cardStatus' = [cardStatus EXCEPT ![req[p].card] = st]
    BY <1>9 DEF ReleaseSave, ReactivateSave, ExAt, CardStatus
  <2>2. cardStatus' \in [CardIds -> CardStatus]
    BY <1>0, <2>1
  <2>3. Sits(p, Idle) /\ NewEx(p, "none")
    BY <1>0, <1>1, <2>1, ExLeaves, SitsFree
  <2> QED BY <1>0, <1>1, <1>2, <2>1, <2>2, <2>3
<1>10. ExitStart(p) \/ ExitAbort(p) \/ ReleaseCheck(p) \/ ReleaseCancelEmpty(p)
       \/ ReleaseInsert(p) \/ ReactivateCount(p) \/ ReleaseSave(p) \/ ReactivateSave(p)
  BY DEF ExitContinue
<1> QED BY <1>3, <1>4, <1>5, <1>6, <1>7, <1>8, <1>9, <1>10
-----------------------------------------------------------------------------
(* The handlers of Customers *)

NewCi(p) ==
    /\ ci' \in [Requests -> CiRequest]
    /\ \A q \in Requests \ {p} : ci'[q] = ci[q]

LEMMA CiGoes ==
    ASSUME DeskTables, NEW p \in Requests, NEW pc \in CiPcs, CiGo(p, pc)
    PROVE  /\ NewCi(p) /\ ci'[p].pc = pc
           /\ ci'[p].cliente = ci[p].cliente /\ ci'[p].comanda = ci[p].comanda
BY DEF DeskTables, CiGo, NewCi, CiRequest

LEMMA CiFinds ==
    ASSUME DeskTables, NEW p \in Requests, NEW c \in ComandaIds,
           ci' = [ci EXCEPT ![p].pc = "bindUpdate", ![p].comanda = c]
    PROVE  /\ NewCi(p) /\ ci'[p].pc = "bindUpdate"
           /\ ci'[p].cliente = ci[p].cliente /\ ci'[p].comanda = c
BY DEF DeskTables, NewCi, CiRequest, CiPcs

LEMMA CiSets ==
    ASSUME DeskTables, NEW p \in Requests, NEW h \in CiRequest, ci' = [ci EXCEPT ![p] = h]
    PROVE  NewCi(p) /\ ci'[p] = h
BY DEF DeskTables, NewCi

LEMMA CiLeaves ==
    ASSUME DeskTables, NEW p \in Requests, LeaveCi(p)
    PROVE  NewCi(p) /\ ci'[p].pc = "none" /\ Finish(p)
<1>1. NoCi \in CiRequest /\ NoCi.pc = "none"
  BY DEF NoCi, CiRequest, CiPcs
<1> QED BY <1>1, CiSets DEF LeaveCi

\* An active comanda whose customer, or whose wristband's, did not change.
LEMMA HeirsQuiet ==
    ASSUME DeskInv, Grow, Retem, UNCHANGED comandas,
           \A c \in ComandaIds :
              /\ comandas[c].status \in Aberta
              /\ comandas[c].card \notin sobrepostos \cup retidos
              /\ titular[c] \in {None, dono[comandas[c].card]}
              => titular'[c] \in {None, dono'[comandas[c].card]}
    PROVE  Heirs'
BY RetidosGrow DEF DeskInv, Heirs, Grow

LEMMA DeskCi ==
    ASSUME TabInv, Apart, DeskInv, Grow, NEW p \in Requests, NEW r, Sits(p, r),
           ex[p].pc = "none", UNCHANGED exitVars,
           CardsStay, TouchesRows(p), TouchesItems(p), Wakes, NewCi(p),
           Slot(r, ex[p], ci'[p], comandas'),
           cadastro' \in SUBSET Clientes, novos' \subseteq novos,
           dono' \in [CardIds -> Clientes \cup {None}],
           \A k \in CardIds : k # req[p].card => dono'[k] = dono[k],
           titular' \in [ComandaIds -> Clientes \cup {None}],
           \A c \in ComandaIds : \/ titular'[c] = titular[c]
                                 \/ comandas[c].status = "none"
                                 \/ comandas[c].card = req[p].card,
           Bound(p)', NovosEmpty', Heirs', Retem
    PROVE  DeskInv'
<1>1. req'[p] = r /\ \A q \in Requests \ {p} : req'[q] = req[q]
  BY DEF Sits, Go, TabInv, TablesOK
<1>2. /\ DeskTables /\ retidos \subseteq retidos' /\ retidos' \in SUBSET CardIds
      /\ UNCHANGED <<saidas, ex>>
  BY DEF DeskInv, DeskTables, Retem, exitVars
<1>3. DeskTables'
  BY <1>2 DEF DeskTables, NewCi
<1>4. Frame(p)
  BY <1>1, <1>2 DEF Frame, NewCi
<1>5. OweNothing(p)' /\ Working(p)'
  BY <1>1, <1>2 DEF OweNothing, Working, Sits, AtWork, OnComanda
<1> QED BY <1>1, <1>2, <1>3, <1>4, <1>5, DeskAfter DEF Facts

\* A handler of check-in that leaves rows, items and payments as they are.
LEMMA CiQuiet ==
    ASSUME TabInv, Apart, DeskInv, Grow, NEW p \in Requests, NEW r, Sits(p, r),
           ex[p].pc = "none", UNCHANGED exitVars,
           cardStatus' \in [CardIds -> CardStatus],
           UNCHANGED <<comandas, itens, pagos, pagosSaldo, debitado, refs>>,
           NewCi(p), Slot(r, ex[p], ci'[p], comandas),
           cadastro' \in SUBSET Clientes, novos' \subseteq novos,
           dono' \in [CardIds -> Clientes \cup {None}],
           \A k \in CardIds : k # req[p].card => dono'[k] = dono[k],
           titular' \in [ComandaIds -> Clientes \cup {None}],
           \A c \in ComandaIds : titular'[c] = titular[c] \/ comandas[c].card = req[p].card,
           \A c \in ComandaIds :
              /\ comandas[c].status \in Aberta
              /\ comandas[c].card \notin sobrepostos \cup retidos
              /\ titular[c] \in {None, dono[comandas[c].card]}
              => titular'[c] \in {None, dono'[comandas[c].card]},
           Bound(p)', Retem
    PROVE  TabInv' /\ (WalletInv => WalletInv') /\ DeskInv'
<1>1. /\ TabInv' /\ (WalletInv => WalletInv') /\ CardsStay
      /\ TouchesRows(p) /\ TouchesItems(p) /\ Wakes
  BY OuterQuiet
<1>2. NovosEmpty'
  BY <1>1, NovosAfter
<1>3. Heirs'
  BY HeirsQuiet
<1>4. Slot(r, ex[p], ci'[p], comandas')
  OBVIOUS
<1>5. DeskInv'
  BY <1>1, <1>2, <1>3, <1>4, DeskCi
<1> QED BY <1>1, <1>5

\* A handler of check-in that writes no more than the customer's row.
LEMMA CiStill ==
    ASSUME TabInv, Apart, DeskInv, Grow, NEW p \in Requests, NEW r, Sits(p, r),
           ex[p].pc = "none", UNCHANGED <<tables, exitVars, novos, dono, titular>>,
           NewCi(p), Slot(r, ex[p], ci'[p], comandas),
           cadastro' \in SUBSET Clientes, Bound(p)', Retem
    PROVE  TabInv' /\ (WalletInv => WalletInv') /\ DeskInv'
<1>1. /\ cardStatus' \in [CardIds -> CardStatus]
      /\ UNCHANGED <<comandas, itens, pagos, pagosSaldo, debitado, refs>>
  BY DEF tables, TabInv, TablesOK
<1>2. /\ dono \in [CardIds -> Clientes \cup {None}]
      /\ titular \in [ComandaIds -> Clientes \cup {None}]
  BY DEF DeskInv, DeskTables
<1> QED BY <1>1, <1>2, CiQuiet

LEMMA CiHere ==
    ASSUME TabInv, DeskInv, NEW p \in Requests, ci[p].pc # "none"
    PROVE  /\ req[p].pc = "outer" /\ ex[p].pc = "none" /\ req[p].card \in CardIds
           /\ ci[p].cliente \in Clientes /\ Bound(p)
           /\ Slot(req[p], ex[p], ci[p], comandas)
BY DEF DeskInv, AllSlots, Slot, Facts, TabInv, AllNamed, Named

\* register and checkin begin, and a handler stops.
LEMMA CiEnters ==
    ASSUME TabInv, Apart, DeskInv, Grow, NEW p \in Requests, CustomersStart(p),
           UNCHANGED exitVars, Retem
    PROVE  TabInv' /\ (WalletInv => WalletInv') /\ DeskInv'
<1>1. PICK k \in CardIds, c \in Clientes : RegisterRead(p, k, c) \/ Checkin(p, k, c)
  BY DEF CustomersStart
<1>2. PICK pc \in {"regInsert", "bindRead"} : EnterCi(p, k, c, pc)
  BY <1>1 DEF RegisterRead, Checkin
<1> DEFINE r == [Idle EXCEPT !.pc = "outer", !.card = k]
           h == [NoCi EXCEPT !.pc = pc, !.cliente = c]
<1>3. At(p, "idle") /\ Go(p, r) /\ ci' = [ci EXCEPT ![p] = h] /\ UNCHANGED tables
  BY <1>2 DEF EnterCi
<1>4. Sits(p, r) /\ r.pc = "outer"
  BY <1>3, SitsOn
<1>5. h \in CiRequest /\ h.pc = pc /\ h.cliente = c
  BY DEF NoCi, CiRequest, CiPcs
<1>6. ex[p].pc = "none" /\ DeskTables
  BY <1>3 DEF DeskInv, AllSlots, Slot, At
<1>7. req'[p] = r
  BY <1>3 DEF Go, TabInv, TablesOK
<1> HIDE DEF r, h
<1>8. NewCi(p) /\ ci'[p] = h
  BY <1>3, <1>5, <1>6, CiSets
<1>9. Slot(r, ex[p], ci'[p], comandas)
  BY <1>4, <1>5, <1>6, <1>8 DEF Slot
<1>10. Bound(p)'
  <2>1. ex'[p].pc = "none"
    BY <1>6 DEF exitVars
  <2> QED BY <1>4, <1>5, <1>7, <1>8, <2>1 DEF Bound, AfterRead, AfterBind
<1>11. cadastro' \in SUBSET Clientes /\ UNCHANGED <<novos, dono, titular>>
  BY <1>1, <1>6 DEF RegisterRead, Checkin, linhas, DeskTables
<1> QED BY <1>3, <1>4, <1>6, <1>8, <1>9, <1>10, <1>11, CiStill

LEMMA CiStops ==
    ASSUME TabInv, Apart, DeskInv, Grow, NEW p \in Requests, CiAbort(p), Retem
    PROVE  TabInv' /\ (WalletInv => WalletInv') /\ DeskInv'
<1>1. ci[p].pc # "none" /\ LeaveCi(p) /\ UNCHANGED <<tables, exitVars, linhas>>
  BY DEF CiAbort, CiAt
<1>2. req[p].pc = "outer" /\ ex[p].pc = "none" /\ DeskTables
  BY <1>1, CiHere DEF DeskInv
<1>3. NewCi(p) /\ ci'[p].pc = "none" /\ Sits(p, Idle)
  BY <1>1, <1>2, CiLeaves, SitsFree
<1>4. Slot(Idle, ex[p], ci'[p], comandas)
  BY <1>2, <1>3 DEF Slot
<1>5. Bound(p)'
  <2>1. req'[p] = Idle /\ Idle.pc = "idle"
    BY <1>3, IdleMoves DEF Sits, Go, TabInv, TablesOK
  <2>2. ex'[p].pc = "none"
    BY <1>1, <1>2 DEF exitVars
  <2> QED BY <1>3, <2>1, <2>2 DEF Bound, AfterRead, AfterBind
<1>6. cadastro' \in SUBSET Clientes /\ UNCHANGED <<novos, dono, titular>>
  BY <1>1, <1>2 DEF linhas, DeskTables
<1> QED BY <1>1, <1>2, <1>3, <1>4, <1>5, <1>6, CiStill

\* The reads and decisions of check-in, up to the choice of the comanda.
LEMMA CiMoves ==
    ASSUME TabInv, Apart, DeskInv, Grow, NEW p \in Requests, Retem, UNCHANGED exitVars,
           RegisterInsert(p) \/ BindRead(p) \/ BindCount(p) \/ BindTap(p) \/ BindTapFind(p)
    PROVE  TabInv' /\ (WalletInv => WalletInv') /\ DeskInv'
<1> DEFINE k == req[p].card
           h == ci'[p]
<1>1. ci[p].pc # "none" /\ UNCHANGED <<tables, req, novos, dono, titular>>
  BY DEF RegisterInsert, BindRead, BindCount, BindTap, BindTapFind, linhas, CiAt
<1>2. /\ req[p].pc = "outer" /\ ex[p].pc = "none" /\ ex'[p].pc = "none" /\ k \in CardIds
      /\ ci[p].cliente \in Clientes /\ Bound(p) /\ DeskTables /\ Kept /\ Heirs
      /\ Slot(req[p], ex[p], ci[p], comandas)
  BY <1>1, CiHere DEF DeskInv, exitVars
<1>3. /\ UNCHANGED <<comandas, cardStatus, req, novos, dono, titular>>
      /\ retidos \subseteq retidos' /\ sobrepostos \subseteq sobrepostos'
  BY <1>1, RetidosGrow DEF tables, Grow
<1>4. Sits(p, req[p])
  BY <1>1, <1>2, SitsStill
<1>5. cadastro' \in SUBSET Clientes
  BY <1>2 DEF RegisterInsert, BindRead, BindCount, BindTap, BindTapFind, linhas, DeskTables
<1>6. ASSUME NewCi(p), h.cliente = ci[p].cliente, h.pc # "bindUpdate", Bound(p)'
      PROVE  TabInv' /\ (WalletInv => WalletInv') /\ DeskInv'
  <2>1. Slot(req[p], ex[p], ci'[p], comandas)
    BY <1>2, <1>6 DEF Slot
  <2> QED BY <1>1, <1>2, <1>4, <1>5, <1>6, <2>1, CiStill
<1>7. CASE RegisterInsert(p)
  <2>1. NewCi(p) /\ h.pc = "bindRead" /\ h.cliente = ci[p].cliente
    BY <1>2, <1>7, CiGoes DEF RegisterInsert, CiPcs
  <2>2. Bound(p)'
    BY <1>2, <1>3, <2>1 DEF Bound, AfterRead, AfterBind
  <2> QED BY <1>6, <2>1, <2>2
<1>8. CASE BindRead(p)
  <2>1. PICK pc \in {"bindInsert", "bindCount", "bindSave"} :
           /\ CiGo(p, pc)
           /\ pc # "bindInsert" => k \notin novos
           /\ pc = "bindSave" => ~DeOutro(k, ci[p].cliente)
    BY <1>8 DEF BindRead
  <2>2. NewCi(p) /\ h.pc = pc /\ h.cliente = ci[p].cliente
    BY <1>2, <2>1, CiGoes DEF CiPcs
  <2>3. ASSUME pc = "bindSave", k \notin retidos
        PROVE  dono[k] \in {None, ci[p].cliente} \/ ComandaAtiva(k) = {}
    BY <1>2, <2>1, <2>3 DEF DeOutro, Kept
  <2>4. Bound(p)'
    BY <1>2, <1>3, <2>1, <2>2, <2>3 DEF Bound, AfterRead, AfterBind, ComandaAtiva
  <2> QED BY <1>6, <2>1, <2>2, <2>4
<1>9. CASE BindCount(p)
  <2>1. NewCi(p) /\ h.pc = "bindSave" /\ h.cliente = ci[p].cliente
    BY <1>2, <1>9, CiGoes DEF BindCount, CiPcs
  <2>2. ci[p].pc = "bindCount" /\ ComandaAtiva(k) = {}
    BY <1>9 DEF BindCount, CiAt, LivreDeComanda
  <2>3. Bound(p)'
    BY <1>2, <1>3, <2>1, <2>2 DEF Bound, AfterRead, AfterBind, ComandaAtiva
  <2> QED BY <1>6, <2>1, <2>3
<1>10. CASE BindTap(p)
  <2>1. NewCi(p) /\ h.pc = "tapFind" /\ h.cliente = ci[p].cliente /\ ci[p].pc = "tapRead"
    BY <1>2, <1>10, CiGoes DEF BindTap, CiPcs, CiAt
  <2>2. Bound(p)'
    BY <1>2, <1>3, <2>1 DEF Bound, AfterRead, AfterBind
  <2> QED BY <1>6, <2>1, <2>2
<1>11. CASE BindTapFind(p) /\ CiGo(p, "tapInsert")
  <2>1. NewCi(p) /\ h.pc = "tapInsert" /\ h.cliente = ci[p].cliente /\ ci[p].pc = "tapFind"
    BY <1>2, <1>11, CiGoes DEF BindTapFind, CiPcs, CiAt
  <2>2. Bound(p)'
    BY <1>2, <1>3, <2>1 DEF Bound, AfterRead, AfterBind
  <2> QED BY <1>6, <2>1, <2>2
<1>12. ASSUME BindTapFind(p), NEW c \in ComandaAtiva(k),
              ci' = [ci EXCEPT ![p].pc = "bindUpdate", ![p].comanda = c]
       PROVE  TabInv' /\ (WalletInv => WalletInv') /\ DeskInv'
  <2>1. c \in ComandaIds /\ comandas[c].card = k /\ comandas[c].status \in Aberta
    BY <1>12 DEF ComandaAtiva
  <2>2. /\ NewCi(p) /\ h.pc = "bindUpdate" /\ h.cliente = ci[p].cliente /\ h.comanda = c
        /\ ci[p].pc = "tapFind"
    BY <1>2, <1>12, <2>1, CiFinds DEF BindTapFind, CiAt
  <2>3. k \notin sobrepostos => dono[k] = ci[p].cliente
    BY <1>2, <2>2 DEF Bound, AfterBind
  <2>4. k \notin sobrepostos \cup retidos => titular[c] \in {None, ci[p].cliente}
    BY <1>2, <2>1, <2>3 DEF Heirs
  <2>5. Bound(p)'
    BY <1>2, <1>3, <2>2, <2>3, <2>4 DEF Bound, AfterRead, AfterBind
  <2>6. Slot(req[p], ex[p], ci'[p], comandas)
    BY <1>2, <2>1, <2>2 DEF Slot, Aberta
  <2> QED BY <1>1, <1>2, <1>4, <1>5, <2>2, <2>5, <2>6, CiStill
<1> QED BY <1>7, <1>8, <1>9, <1>10, <1>11, <1>12 DEF BindTapFind

\* What check-in writes: the row of the wristband, its owner, a comanda, its customer.
LEMMA CiInsertsCard ==
    ASSUME TabInv, Apart, DeskInv, Grow, NEW p \in Requests, Retem, UNCHANGED exitVars,
           BindInsert(p)
    PROVE  TabInv' /\ (WalletInv => WalletInv') /\ DeskInv'
<1> DEFINE k == req[p].card
           h == ci'[p]
<1>1. /\ ci[p].pc = "bindInsert" /\ k \in novos /\ novos' = novos \ {k}
      /\ dono' = [dono EXCEPT ![k] = ci[p].cliente] /\ CiGo(p, "tapRead")
      /\ UNCHANGED <<tables, req, cadastro, titular>>
  BY DEF BindInsert, CiAt
<1>2. /\ req[p].pc = "outer" /\ ex[p].pc = "none" /\ ex'[p].pc = "none" /\ k \in CardIds
      /\ ci[p].cliente \in Clientes /\ Bound(p) /\ DeskTables /\ NovosEmpty
      /\ Slot(req[p], ex[p], ci[p], comandas)
  BY <1>1, CiHere DEF DeskInv, exitVars
<1>3. NewCi(p) /\ h.pc = "tapRead" /\ h.cliente = ci[p].cliente
  BY <1>1, <1>2, CiGoes DEF CiPcs
<1>4. Sits(p, req[p])
  BY <1>1, <1>2, SitsStill
<1>5. /\ dono' \in [CardIds -> Clientes \cup {None}] /\ dono'[k] = ci[p].cliente
      /\ \A j \in CardIds : j # k => dono'[j] = dono[j]
  BY <1>1, <1>2 DEF DeskTables
<1>6. Bound(p)'
  <2>1. req'[p].card = k /\ req'[p].pc = "outer" /\ k \notin novos'
    BY <1>1, <1>2
  <2> QED BY <1>2, <1>3, <1>5, <2>1 DEF Bound, AfterRead, AfterBind
<1>7. Slot(req[p], ex[p], ci'[p], comandas)
  BY <1>2, <1>3 DEF Slot
<1>8. ASSUME NEW c \in ComandaIds, comandas[c].status \in Aberta,
             titular[c] \in {None, dono[comandas[c].card]}
      PROVE  titular'[c] \in {None, dono'[comandas[c].card]}
  <2>1. comandas[c].card # k /\ comandas[c].card \in CardIds
    BY <1>1, <1>2, <1>8 DEF NovosEmpty, Aberta, TabInv, RowsOwned
  <2> QED BY <1>1, <1>5, <1>8, <2>1
<1>9. /\ cardStatus' \in [CardIds -> CardStatus]
      /\ UNCHANGED <<comandas, itens, pagos, pagosSaldo, debitado, refs>>
      /\ cadastro' \in SUBSET Clientes /\ novos' \subseteq novos
      /\ titular' \in [ComandaIds -> Clientes \cup {None}] /\ titular' = titular
  BY <1>1, <1>2 DEF tables, TabInv, TablesOK, DeskTables
<1> QED BY <1>2, <1>3, <1>4, <1>5, <1>6, <1>7, <1>8, <1>9, CiQuiet

LEMMA CiSavesCard ==
    ASSUME TabInv, Apart, DeskInv, Grow, NEW p \in Requests, Retem, UNCHANGED exitVars,
           BindSave(p)
    PROVE  TabInv' /\ (WalletInv => WalletInv') /\ DeskInv'
<1> DEFINE k == req[p].card
           h == ci'[p]
<1>1. /\ ci[p].pc = "bindSave" /\ dono' = [dono EXCEPT ![k] = ci[p].cliente]
      /\ cardStatus' = [cardStatus EXCEPT ![k] = "active"] /\ CiGo(p, "tapRead")
      /\ UNCHANGED <<comandas, itens, pagos, pagosSaldo, debitado, refs, req,
                     cadastro, novos, titular>>
  BY DEF BindSave, CiAt
<1>2. /\ req[p].pc = "outer" /\ ex[p].pc = "none" /\ ex'[p].pc = "none" /\ k \in CardIds
      /\ ci[p].cliente \in Clientes /\ Bound(p) /\ DeskTables
      /\ Slot(req[p], ex[p], ci[p], comandas)
  BY <1>1, CiHere DEF DeskInv, exitVars
<1>3. NewCi(p) /\ h.pc = "tapRead" /\ h.cliente = ci[p].cliente
  BY <1>1, <1>2, CiGoes DEF CiPcs
<1>4. Sits(p, req[p])
  BY <1>1, <1>2, SitsStill
<1>5. /\ dono' \in [CardIds -> Clientes \cup {None}] /\ dono'[k] = ci[p].cliente
      /\ \A j \in CardIds : j # k => dono'[j] = dono[j]
  BY <1>1, <1>2 DEF DeskTables
<1>6. Bound(p)'
  <2>1. req'[p].card = k /\ req'[p].pc = "outer" /\ k \notin novos'
    BY <1>1, <1>2 DEF Bound, AfterRead
  <2> QED BY <1>2, <1>3, <1>5, <2>1 DEF Bound, AfterRead, AfterBind
<1>7. Slot(req[p], ex[p], ci'[p], comandas)
  BY <1>2, <1>3 DEF Slot
<1>8. ASSUME NEW c \in ComandaIds, comandas[c].status \in Aberta,
             comandas[c].card \notin sobrepostos \cup retidos,
             titular[c] \in {None, dono[comandas[c].card]}
      PROVE  titular'[c] \in {None, dono'[comandas[c].card]}
  <2>1. CASE comandas[c].card = k
    <3>1. c \in ComandaAtiva(k)
      BY <1>8, <2>1 DEF ComandaAtiva
    <3>2. dono[k] \in {None, ci[p].cliente}
      BY <1>1, <1>2, <1>8, <2>1, <3>1 DEF Bound
    <3> QED BY <1>1, <1>5, <1>8, <2>1, <3>2
  <2>2. CASE comandas[c].card # k
    <3>1. comandas[c].card \in CardIds
      BY <1>8 DEF Aberta, TabInv, RowsOwned
    <3> QED BY <1>1, <1>5, <1>8, <2>2, <3>1
  <2> QED BY <2>1, <2>2
<1>9. /\ cardStatus' \in [CardIds -> CardStatus]
      /\ cadastro' \in SUBSET Clientes /\ novos' \subseteq novos
      /\ titular' \in [ComandaIds -> Clientes \cup {None}] /\ titular' = titular
  <2>1. "active" \in CardStatus /\ cardStatus \in [CardIds -> CardStatus]
    BY DEF CardStatus, TabInv, TablesOK
  <2> QED BY <1>1, <1>2, <2>1 DEF DeskTables
<1> QED BY <1>1, <1>2, <1>3, <1>4, <1>5, <1>6, <1>7, <1>8, <1>9, CiQuiet

LEMMA CiOpens ==
    ASSUME TabInv, Apart, DeskInv, Grow, NEW p \in Requests, Retem, UNCHANGED exitVars,
           NEW c \in ComandaIds, BindTapInsert(p, c)
    PROVE  TabInv' /\ (WalletInv => WalletInv') /\ DeskInv'
<1> DEFINE k == req[p].card
           h == ci'[p]
<1>1. /\ ci[p].pc = "tapInsert" /\ comandas[c].status = "none"
      /\ titular' = [titular EXCEPT ![c] = dono[k]]
      /\ ci' = [ci EXCEPT ![p].pc = "bindUpdate", ![p].comanda = c]
      /\ UNCHANGED <<req, cadastro, novos, dono>>
  BY DEF BindTapInsert, CiAt
<1>2. /\ req[p].pc = "outer" /\ ex[p].pc = "none" /\ ex'[p].pc = "none" /\ k \in CardIds
      /\ ci[p].cliente \in Clientes /\ Bound(p) /\ DeskTables
      /\ Slot(req[p], ex[p], ci[p], comandas)
  BY <1>1, CiHere DEF DeskInv, exitVars
<1>3. NewCi(p) /\ h.pc = "bindUpdate" /\ h.cliente = ci[p].cliente /\ h.comanda = c
  BY <1>1, <1>2, CiFinds
<1>4. Sits(p, req[p])
  BY <1>1, <1>2, SitsStill
<1>5. /\ TabInv' /\ (WalletInv => WalletInv') /\ CardsStay
      /\ TouchesRows(p) /\ TouchesItems(p) /\ Wakes
      /\ comandas'[c].status # "none" /\ comandas'[c].card = k
      /\ \A d \in ComandaIds \ {c} : comandas'[d] = comandas[d]
  BY <1>2, OpensRow
<1>6. /\ titular' \in [ComandaIds -> Clientes \cup {None}] /\ titular'[c] = dono[k]
      /\ \A d \in ComandaIds : d # c => titular'[d] = titular[d]
  BY <1>1, <1>2 DEF DeskTables
<1>7. Bound(p)'
  <2>1. req'[p].card = k /\ req'[p].pc = "outer" /\ k \notin novos' /\ dono'[k] = dono[k]
    BY <1>1, <1>2 DEF Bound, AfterRead
  <2>2. k \notin sobrepostos' => dono[k] = ci[p].cliente
    BY <1>1, <1>2 DEF Bound, AfterBind, Grow
  <2> QED BY <1>2, <1>3, <1>6, <2>1, <2>2 DEF Bound, AfterRead, AfterBind
<1>8. Slot(req[p], ex[p], ci'[p], comandas')
  BY <1>2, <1>3, <1>5 DEF Slot
<1>9. novos' \subseteq novos /\ k \notin novos
  BY <1>1, <1>2 DEF Bound, AfterRead
<1>10. NovosEmpty'
  BY <1>5, <1>9, NovosAfter
<1>11. Heirs'
  <2>1. \A d \in ComandaIds : comandas'[d].status # "none" =>
           \/ comandas[d].status # "none" /\ titular'[d] = titular[d]
           \/ titular'[d] = dono[comandas'[d].card]
    BY <1>5, <1>6
  <2> QED BY <1>1, <1>5, <2>1, RetidosGrow, HeirsAfter
<1>12. /\ cadastro' \in SUBSET Clientes /\ dono' \in [CardIds -> Clientes \cup {None}]
       /\ \A j \in CardIds : j # k => dono'[j] = dono[j]
       /\ \A d \in ComandaIds : \/ titular'[d] = titular[d]
                                \/ comandas[d].status = "none"
                                \/ comandas[d].card = k
  BY <1>1, <1>2, <1>6 DEF DeskTables
<1>13. DeskInv'
  BY <1>2, <1>3, <1>4, <1>5, <1>6, <1>7, <1>8, <1>9, <1>10, <1>11, <1>12, DeskCi
<1> QED BY <1>5, <1>13

LEMMA CiHandsOver ==
    ASSUME TabInv, Apart, DeskInv, Grow, NEW p \in Requests, Retem, UNCHANGED exitVars,
           BindUpdate(p)
    PROVE  TabInv' /\ (WalletInv => WalletInv') /\ DeskInv'
<1> DEFINE k == req[p].card
           c == ci[p].comanda
<1>1. /\ ci[p].pc = "bindUpdate" /\ titular' = [titular EXCEPT ![c] = ci[p].cliente]
      /\ LeaveCi(p) /\ UNCHANGED <<tables, cadastro, novos, dono>>
  BY DEF BindUpdate, CiAt
<1>2. /\ req[p].pc = "outer" /\ ex[p].pc = "none" /\ ex'[p].pc = "none" /\ k \in CardIds
      /\ ci[p].cliente \in Clientes /\ Bound(p) /\ DeskTables
      /\ Slot(req[p], ex[p], ci[p], comandas)
  BY <1>1, CiHere DEF DeskInv, exitVars
<1>3. NewCi(p) /\ ci'[p].pc = "none" /\ Sits(p, Idle)
  BY <1>1, <1>2, CiLeaves, SitsFree
<1>4. c \in ComandaIds /\ comandas[c].card = k
  BY <1>1, <1>2 DEF Slot
<1>5. /\ titular' \in [ComandaIds -> Clientes \cup {None}] /\ titular'[c] = ci[p].cliente
      /\ \A d \in ComandaIds : d # c => titular'[d] = titular[d]
  BY <1>1, <1>2, <1>4 DEF DeskTables
<1>6. Slot(Idle, ex[p], ci'[p], comandas)
  BY <1>2, <1>3 DEF Slot
<1>7. Bound(p)'
  <2>1. req'[p] = Idle /\ Idle.pc = "idle"
    BY <1>3, IdleMoves DEF Sits, Go, TabInv, TablesOK
  <2> QED BY <1>2, <1>3, <2>1 DEF Bound, AfterRead, AfterBind
<1>8. ASSUME NEW d \in ComandaIds, comandas[d].card \notin sobrepostos \cup retidos,
             titular[d] \in {None, dono[comandas[d].card]}
      PROVE  titular'[d] \in {None, dono'[comandas[d].card]}
  <2>1. d = c => dono[k] = ci[p].cliente
    BY <1>1, <1>2, <1>4, <1>8 DEF Bound, AfterBind
  <2> QED BY <1>1, <1>4, <1>5, <1>8, <2>1
<1>9. /\ cardStatus' \in [CardIds -> CardStatus]
      /\ UNCHANGED <<comandas, itens, pagos, pagosSaldo, debitado, refs>>
      /\ cadastro' \in SUBSET Clientes /\ novos' \subseteq novos
      /\ dono' \in [CardIds -> Clientes \cup {None}] /\ dono' = dono
  BY <1>1, <1>2 DEF tables, TabInv, TablesOK, DeskTables
<1>10. \A d \in ComandaIds : titular'[d] = titular[d] \/ comandas[d].card = k
  BY <1>4, <1>5
<1> QED BY <1>2, <1>3, <1>5, <1>6, <1>7, <1>8, <1>9, <1>10, CiQuiet

LEMMA CiHandled ==
    ASSUME TabInv, Apart, DeskInv, Grow, NEW p \in Requests, Retem,
           \/ CustomersStart(p) /\ UNCHANGED exitVars
           \/ CustomersContinue(p) /\ UNCHANGED exitVars
           \/ CiAbort(p)
    PROVE  TabInv' /\ (WalletInv => WalletInv') /\ DeskInv'
BY CiEnters, CiStops, CiMoves, CiInsertsCard, CiSavesCard, CiOpens, CiHandsOver
   DEF CustomersContinue
-----------------------------------------------------------------------------
(* Exit and Customers: the invariant is kept *)

LEMMA CustomersInvInit == CustomersInit => CustomersInv
<1> SUFFICES ASSUME CustomersInit PROVE CustomersInv
  OBVIOUS
<1>1. TabInv /\ WalletInv /\ HistoryOK /\ Apart
  BY TabInit, WalletInit, ComandasAssumption
  DEF CustomersInit, ExitInit, Init, HistoryOK, Apart, Idle
<1>2. /\ \A p \in Requests : /\ req[p].pc = "idle" /\ ex[p].pc = "none" /\ ci[p].pc = "none"
      /\ \A c \in ComandaIds : comandas[c].status = "none"
  BY DEF CustomersInit, ExitInit, Init, Idle, NoExit, NoCi, NoComanda
<1>3. DeskTables
  <2>1. NoExit \in ExitRequest /\ NoCi \in CiRequest
    BY DEF NoExit, NoCi, ExitRequest, CiRequest, ExitPcs, CiPcs
  <2> QED BY <2>1 DEF CustomersInit, ExitInit, DeskTables
<1>4. AllSlots /\ NovosEmpty /\ Heirs /\ Kept
  BY <1>2 DEF AllSlots, Slot, NovosEmpty, Heirs, Kept, ComandaAtiva, Aberta
<1>5. \A p \in Requests : Facts(p)
  BY <1>2 DEF Facts, OweNothing, Working, Bound, AtWork, OnComanda, AfterRead, AfterBind
<1> QED BY <1>1, <1>3, <1>4, <1>5 DEF CustomersInv, DeskInv

\* A step of CustomersNext: of Comandas, of the exit, or of check-in.
LEMMA CustomersSteps ==
    ASSUME CustomersNext
    PROVE  \/ Step /\ ExitStepHere /\ UNCHANGED exitVars
           \/ \E p \in Requests :
                 \/ (ExitStart(p) \/ ExitContinue(p)) /\ ExitStepHere /\ UNCHANGED interrompidos
                 \/ ExitAbort(p) /\ ExitStepHere
                 \/ (CustomersStart(p) \/ CustomersContinue(p))
                       /\ UNCHANGED <<exitVars, interrompidos>>
                 \/ CiAbort(p)
BY DEF CustomersNext, CustomersStep, ExitStepHere, ExitStep, ComandasStep

LEMMA CustomersGrow ==
    ASSUME CustomersInv, CustomersNext PROVE Grow /\ HistoryOK'
<1>1. interrompidos \subseteq interrompidos' /\ interrompidos' \in SUBSET CardIds
  <2>1. CASE Step
    BY <2>1, HistoryKept, GrowKept DEF CustomersNext, CustomersInv, Grow
  <2>2. CASE UNCHANGED interrompidos
    BY <2>2 DEF CustomersInv, HistoryOK
  <2>3. ASSUME NEW p \in Requests, ExitAbort(p)
        PROVE  interrompidos \subseteq interrompidos' /\ interrompidos' \in SUBSET CardIds
    <3>1. req[p].pc # "idle"
      BY <2>3 DEF CustomersInv, DeskInv, AllSlots, Slot, ExitAbort, ExAt
    <3> QED BY <2>3, <3>1, StopType, StopGrows DEF CustomersInv, ExitAbort
  <2>4. ASSUME NEW p \in Requests, CiAbort(p)
        PROVE  interrompidos \subseteq interrompidos' /\ interrompidos' \in SUBSET CardIds
    <3>1. req[p].pc # "idle"
      BY <2>4 DEF CustomersInv, DeskInv, AllSlots, Slot, CiAbort, CiAt
    <3> QED BY <2>4, <3>1, StopType, StopGrows DEF CustomersInv, CiAbort
  <2> QED BY <2>1, <2>2, <2>3, <2>4, CustomersSteps
<1>2. Historia /\ sobrepostos \subseteq sobrepostos'
  BY DEF CustomersNext, Historia
<1> QED BY <1>1, <1>2, CrossedType DEF CustomersInv, Grow

LEMMA CustomersInvStep == CustomersInv /\ [CustomersNext]_todasVars => CustomersInv'
<1>1. ASSUME CustomersInv, CustomersNext PROVE CustomersInv'
  <2>1. Grow /\ HistoryOK' /\ Retem /\ Apart'
    BY <1>1, CustomersGrow, ApartStep DEF CustomersNext
  <2>2. TabInv /\ WalletInv /\ Apart /\ DeskInv
    BY <1>1 DEF CustomersInv
  <2>3. ExitStepHere => /\ Inherits /\ UNCHANGED <<cadastro, novos, dono, ci>>
                        /\ \A p \in Requests : At(p, "idle") => req'[p].card \notin novos
    BY DEF ExitStepHere, Inherits
  <2>4. ASSUME Step, ExitStepHere, UNCHANGED exitVars
        PROVE  TabInv' /\ WalletInv' /\ DeskInv'
    <3>1. TabInv' /\ WalletInv' /\ CardsStay
      BY <2>2, <2>4, TabKept, WalletKept, CardsStayKept
    <3>2. ASSUME NEW p \in Requests, Start(p) \/ Continue(p) \/ Abort(p) PROVE DeskInv'
      BY <2>1, <2>2, <2>3, <2>4, <3>1, <3>2, DeskSheet
    <3>3. ASSUME NEW k \in CardIds, NEW st \in CardStatus, SetCard(k, st) PROVE DeskInv'
      BY <2>1, <2>2, <2>3, <2>4, <3>3, DeskCard DEF SetCard
    <3> QED BY <2>4, <3>1, <3>2, <3>3 DEF Step
  <2>5. ASSUME NEW p \in Requests, ExitStart(p) \/ ExitContinue(p) \/ ExitAbort(p), ExitStepHere
        PROVE  TabInv' /\ WalletInv' /\ DeskInv'
    BY <2>1, <2>2, <2>3, <2>5, ExitHandled
  <2>6. ASSUME NEW p \in Requests,
               \/ (CustomersStart(p) \/ CustomersContinue(p)) /\ UNCHANGED exitVars
               \/ CiAbort(p)
        PROVE  TabInv' /\ WalletInv' /\ DeskInv'
    BY <2>1, <2>2, <2>6, CiHandled
  <2>7. TabInv' /\ WalletInv' /\ DeskInv'
    BY <1>1, <2>4, <2>5, <2>6, CustomersSteps
  <2> QED BY <2>1, <2>7 DEF CustomersInv
<1>2. ASSUME CustomersInv, UNCHANGED todasVars PROVE CustomersInv'
  <2>1. /\ UNCHANGED <<tables, req, sobrepostos, interrompidos, saidas, ex>>
        /\ UNCHANGED <<cadastro, novos, dono, titular, retidos, ci>>
    BY <1>2 DEF todasVars, allVars, vars, exitVars, customersVars
  <2>2. UNCHANGED <<cardStatus, comandas, itens, pagos, pagosSaldo, debitado, refs>>
    BY <2>1 DEF tables
  <2>3. TabInv' /\ HistoryOK' /\ Apart' /\ WalletInv'
    BY <1>2, <2>1, <2>2, TabSame DEF CustomersInv, HistoryOK, Apart, WalletInv, Due
  <2>4. DeskTables' /\ AllSlots' /\ NovosEmpty' /\ Heirs' /\ Kept'
    BY <1>2, <2>1, <2>2 DEF CustomersInv, DeskInv, DeskTables, AllSlots, NovosEmpty, Heirs,
       Kept, ComandaAtiva
  <2>5. \A p \in Requests : Facts(p)'
    BY <1>2, <2>1, <2>2 DEF CustomersInv, DeskInv, Facts, OweNothing, Working, Bound,
       TemDivida, Pendente, TemItens, ComandaAtiva
  <2> QED BY <2>3, <2>4, <2>5 DEF CustomersInv, DeskInv
<1> QED BY <1>1, <1>2

\* The exit and check-in write comandas, blocked cards and all, without breaking what
\* a comanda says it was paid, nor what it says was taken from the wristband.
THEOREM ComandasWithExit ==
    CustomersSpec => [](NeverOverstated /\ WalletPaymentsDebited)
<1>1. CustomersInv => NeverOverstated /\ WalletPaymentsDebited
  BY WalletTaken DEF CustomersInv, TabInv
<1> QED BY CustomersInvInit, CustomersInvStep, <1>1, PTL DEF CustomersSpec

\* A RELEASED row is written only while the wristband owes nothing, though release
\* decided several awaits earlier, when requests never overlapped on the wristband.
THEOREM ReleaseOwesNothing == CustomersSpec => ReleasedOwesNothing
<1> DEFINE A == \A k \in CardIds \ sobrepostos' : saidas'[k] # saidas[k] => ~TemDivida(k)
<1>1. ASSUME CustomersInv, CustomersNext PROVE A
  <2>1. DeskInv /\ DeskTables /\ Grow
    BY <1>1, CustomersGrow DEF CustomersInv, DeskInv
  <2>2. saidas' = saidas \/ \E p \in Requests : ReleaseInsert(p)
    BY <1>1, CustomersSteps DEF exitVars, ExitStart, ExitContinue, ExitAbort, ReleaseRead,
       ReactivateRead, ReleaseCheck, ReleaseCancelEmpty, ReleaseSave, ReactivateCount,
       ReactivateSave, CiAbort
  <2>3. ASSUME NEW p \in Requests, ReleaseInsert(p) PROVE A
    <3> SUFFICES ASSUME NEW k \in CardIds \ sobrepostos', saidas'[k] # saidas[k]
                 PROVE  ~TemDivida(k)
      OBVIOUS
    <3>1. /\ ex[p].pc = "insert"
          /\ saidas' = IF ex[p].forcada THEN saidas
                       ELSE [saidas EXCEPT ![req[p].card] = @ + 1]
      BY <2>3 DEF ReleaseInsert, ExAt
    <3>2. ~ex[p].forcada /\ k = req[p].card
      BY <2>1, <3>1 DEF DeskTables
    <3>3. k \notin sobrepostos
      BY <2>1 DEF Grow
    <3> QED BY <2>1, <3>1, <3>2, <3>3 DEF DeskInv, Facts, OweNothing
  <2> QED BY <2>2, <2>3
<1>2. CustomersInv /\ [CustomersNext]_todasVars => [A]_allVars
  BY <1>1 DEF todasVars
<1> QED BY CustomersInvInit, CustomersInvStep, <1>2, PTL DEF CustomersSpec, ReleasedOwesNothing

\* Who writes comandas: the release that cancels, or a request with nothing of Exit.
LEMMA WhoWrites ==
    ASSUME CustomersInv, CustomersNext
    PROVE  \/ UNCHANGED comandas
           \/ \E q \in Requests : TouchesRows(q) /\ (ReleaseCancelEmpty(q) \/ ex[q].pc = "none")
<1>0. TabInv /\ DeskInv /\ AllSlots
  BY DEF CustomersInv, DeskInv
<1>1. ASSUME NEW p \in Requests, Start(p) \/ Continue(p) \/ Abort(p)
      PROVE  TouchesRows(p) /\ ex[p].pc = "none"
  <2>1. Moved(p) /\ TouchesRows(p)
    BY <1>0, <1>1, SheetTouches
  <2> QED BY <1>0, <2>1 DEF Moved, Shape, AllSlots, Slot
<1>2. ASSUME NEW k \in CardIds, NEW st \in CardStatus, SetCard(k, st) PROVE UNCHANGED comandas
  BY <1>2 DEF SetCard
<1>3. ASSUME NEW p \in Requests, ExitStart(p) \/ ExitContinue(p) \/ ExitAbort(p)
      PROVE  UNCHANGED comandas \/ ReleaseCancelEmpty(p)
  BY <1>3 DEF ExitStart, ExitContinue, ExitAbort, ReleaseRead, ReactivateRead, ReleaseCheck,
     ReleaseInsert, ReleaseSave, ReactivateCount, ReactivateSave, tables
<1>4. ASSUME NEW p \in Requests, ReleaseCancelEmpty(p) PROVE TouchesRows(p)
  <2>1. req[p].pc = "outer"
    BY <1>0, <1>4 DEF ReleaseCancelEmpty, ExAt, AllSlots, Slot
  <2> QED BY <1>0, <1>4, <2>1, CancelsEmpty
<1>5. ASSUME NEW p \in Requests, CustomersStart(p) \/ CustomersContinue(p) \/ CiAbort(p)
      PROVE  UNCHANGED comandas \/ \E c \in ComandaIds : BindTapInsert(p, c)
  BY <1>5 DEF CustomersStart, CustomersContinue, CiAbort, RegisterRead, Checkin, EnterCi,
     RegisterInsert, BindRead, BindInsert, BindCount, BindSave, BindTap, BindTapFind,
     BindUpdate, tables
<1>6. ASSUME NEW p \in Requests, NEW c \in ComandaIds, BindTapInsert(p, c)
      PROVE  TouchesRows(p) /\ ex[p].pc = "none"
  <2>1. ci[p].pc # "none"
    BY <1>6 DEF BindTapInsert, CiAt
  <2> QED BY <1>0, <1>6, <2>1, CiHere, OpensRow
<1> QED BY <1>1, <1>2, <1>3, <1>4, <1>5, <1>6, CustomersSteps DEF Step

\* A comanda that the release in slot p cancels has no items.
EmptyCancelled(p, c) ==
    /\ Separada(c)'
    /\ ExAt(p, "cancelEmpty") /\ ~ex[p].forcada
    /\ comandas[c].status # "cancelled" /\ comandas'[c].status = "cancelled"
    /\ comandas[c].card = req[p].card
    => ~TemItens(c)

LEMMA CancelsOnlyEmpty ==
    ASSUME CustomersInv, CustomersNext, NEW p \in Requests, NEW c \in ComandaIds
    PROVE  EmptyCancelled(p, c)
<1> SUFFICES ASSUME comandas'[c].card \notin sobrepostos',
                    ex[p].pc = "cancelEmpty", ~ex[p].forcada,
                    comandas[c].status # "cancelled", comandas'[c].status = "cancelled",
                    comandas[c].card = req[p].card
             PROVE  ~TemItens(c)
  BY DEF EmptyCancelled, Separada, ExAt
<1>1. /\ TabInv /\ Apart /\ Grow /\ Slot(req[p], ex[p], ci[p], comandas) /\ Facts(p)
      /\ AllSlots
  BY CustomersGrow DEF CustomersInv, DeskInv, AllSlots
<1>2. req[p].pc = "outer" /\ req[p].card \in CardIds
  BY <1>1 DEF Slot, TabInv, AllNamed, Named
<1>3. PICK q \in Requests : TouchesRows(q) /\ (ReleaseCancelEmpty(q) \/ ex[q].pc = "none")
  BY WhoWrites
<1>4. comandas'[c].card = req[q].card /\ comandas[c].card = req[q].card
  BY <1>3 DEF TouchesRows
<1>5. q = p
  BY <1>1, <1>2, <1>4 DEF Apart, Grow
<1>6. Vazia(c)
  BY <1>3, <1>5 DEF ReleaseCancelEmpty
<1>7. ~TemDivida(req[p].card)
  BY <1>1, <1>4, <1>5 DEF Facts, OweNothing, Grow
<1> QED BY <1>6, <1>7 DEF Vazia, TemDivida, Pendente

\* The release cancels no comanda that has items, when requests never overlapped on the
\* wristband, though it decided before it cancelled.
THEOREM ReleaseCancelsOnlyEmpty == CustomersSpec => OnlyEmptyCancelled
<1>1. CustomersInv /\ [CustomersNext]_todasVars
         => [\A p \in Requests, c \in ComandaIds : EmptyCancelled(p, c)]_allVars
  BY CancelsOnlyEmpty DEF todasVars
<1> QED BY CustomersInvInit, CustomersInvStep, <1>1, PTL
        DEF CustomersSpec, OnlyEmptyCancelled, EmptyCancelled

\* Check-in hands over no comanda of somebody else, when requests never overlapped on
\* the wristband and it never was blocked or collected with a comanda active.
THEOREM NobodyInherits == CustomersSpec => NaoHerda
<1> DEFINE A == \A p \in Requests :
          LET c == ci[p].comanda
          IN  /\ CiAt(p, "bindUpdate") /\ titular'[c] = ci[p].cliente
              /\ req[p].card \notin sobrepostos' \cup retidos
              => titular[c] \in {None, ci[p].cliente}
<1>1. ASSUME CustomersInv, CustomersNext PROVE A
  <2>1. Grow /\ \A p \in Requests : Bound(p)
    BY <1>1, CustomersGrow DEF CustomersInv, DeskInv, Facts
  <2> QED BY <2>1 DEF Bound, CiAt, Grow
<1>2. CustomersInv /\ [CustomersNext]_todasVars => [A]_todasVars
  BY <1>1
<1> QED BY CustomersInvInit, CustomersInvStep, <1>2, PTL DEF CustomersSpec, NaoHerda

\* The tables, the histories and the variables of every handler keep their types.
THEOREM CustomersTypes == CustomersSpec => []CustomersTypeOK
<1>1. CustomersInv => CustomersTypeOK
  BY DEF CustomersInv, TabInv, TablesOK, HistoryOK, DeskInv, DeskTables, TypeOK,
     ExitTypeOK, CustomersTypeOK
<1> QED BY CustomersInvInit, CustomersInvStep, <1>1, PTL DEF CustomersSpec
=============================================================================
