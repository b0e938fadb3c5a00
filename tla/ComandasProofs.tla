--------------------------- MODULE ComandasProofs ---------------------------
(***************************************************************************)
(* Theorems about Comandas, for every number of wristbands, comandas,      *)
(* items, references and requests, for every amount and under every        *)
(* interleaving.                                                           *)
(***************************************************************************)
EXTENDS Comandas, FiniteSetTheorems, TLAPS

(* What holds whatever overlaps.  A request on a comanda names a row that exists
   and its wristband; what it will write as totalPago is backed by payments that
   are in the table already, and those are never taken out of it. *)

OnComanda == {"addItem", "addNext", "removeFind", "removeItem", "recalcRead",
              "recalcSave", "closeSave", "reopenSave", "payClose", "paySum",
              "payAlready", "payDebit", "payInsert", "payUpdate", "cancelSave"}

\* These save the row that was read.
Rewrites == {"recalcSave", "closeSave", "reopenSave", "cancelSave"}

Named(r, cs) ==
    /\ r.pc # "idle" => r.card \in CardIds
    /\ r.pc \in OnComanda =>
          /\ r.comanda \in ComandaIds
          /\ cs[r.comanda].status # "none" /\ cs[r.comanda].card = r.card
    /\ r.pc \in Rewrites => r.lido.status # "none" /\ r.lido.card = r.card

\* What was paid before, and what the payment has inserted so far.
Recebido(r) == r.jaPago + (r.saldo - r.saldoIns) + (r.outro - r.outroIns)

Backed(r, pg) ==
    /\ r.pc \in Rewrites => r.lido.totalPago <= pg[r.comanda]
    /\ r.pc = "payAlready" => r.lido.total <= pg[r.comanda]
    /\ r.pc \in {"payClose", "paySum", "payDebit"} =>
          r.saldoIns = r.saldo /\ r.outroIns = r.outro
    /\ r.pc \in {"payDebit", "payInsert", "payUpdate"} =>
          /\ Recebido(r) <= pg[r.comanda]
          /\ r.saldoIns <= r.saldo /\ r.outroIns <= r.outro
    /\ r.pc = "payUpdate" => r.saldoIns = 0 /\ r.outroIns = 0

AllNamed == \A p \in Requests : Named(req[p], comandas)
AllBacked == \A p \in Requests : Backed(req[p], pagos)
RowsOwned == \A c \in ComandaIds : comandas[c].status # "none" => comandas[c].card \in CardIds

TablesOK ==
    /\ cardStatus \in [CardIds -> CardStatus]
    /\ comandas \in [ComandaIds -> ComandaRow]
    /\ itens \in [ItemIds -> ItemRow]
    /\ pagos \in [ComandaIds -> Nat]
    /\ pagosSaldo \in [ComandaIds -> Nat]
    /\ debitado \in [ComandaIds -> Nat]
    /\ refs \in [Refs -> Nat]
    /\ req \in [Requests -> Request]

HistoryOK == sobrepostos \in SUBSET CardIds /\ interrompidos \in SUBSET CardIds

TabInv == TablesOK /\ RowsOwned /\ AllNamed /\ AllBacked /\ NeverOverstated
-----------------------------------------------------------------------------
(* Items.  A request holds the item rows of the list it read, and the one it is
   about to remove; a row it holds is of its comanda or of none, for ids are not
   given out twice. *)

Holds(r, x) == r.itens[x] > 0 \/ (r.pc = "removeItem" /\ r.item = x)

HeldInv ==
    /\ \A p \in Requests, x \in ItemIds :
          Holds(req[p], x) => itens[x].comanda \in {None, req[p].comanda}
    /\ \A p, q \in Requests, x \in ItemIds :
          Holds(req[p], x) /\ Holds(req[q], x) => req[p].comanda = req[q].comanda

\* Before its row is inserted a comanda has no items and no payments.
Fresh ==
    \A c \in ComandaIds : comandas[c].status = "none" =>
        pagos[c] = 0 /\ \A x \in ItemIds : itens[x].comanda # c
-----------------------------------------------------------------------------
(* Cards on which requests never overlapped *)

Apart ==
    \A p, q \in Requests :
        p # q /\ req[p].card \in CardIds /\ req[p].card = req[q].card
        => req[p].card \in sobrepostos

Lista(its, c) == [x \in ItemIds |-> IF its[x].comanda = c THEN its[x].total ELSE 0]

WhileOpen == {"addItem", "addNext", "removeFind", "removeItem", "recalcRead",
              "recalcSave", "closeSave", "payClose"}
WhilePending == {"paySum", "payAlready", "payDebit", "payInsert", "payUpdate"}

\* What the request found is still there when it writes.
Current(r, cs, its, pg) ==
    /\ r.pc = "tapInsert" =>
          \A c \in ComandaIds : cs[c].card = r.card => cs[c].status \notin Aberta
    /\ r.pc \in WhileOpen => cs[r.comanda].status = "open"
    /\ r.pc = "recalcSave" => r.lido = cs[r.comanda] /\ r.itens = Lista(its, r.comanda)
    /\ r.pc = "closeSave" =>
          /\ r.lido.status = "pending_payment"
          /\ r.lido.subtotal = cs[r.comanda].subtotal
          /\ r.lido.total = ComDesconto(r.lido.subtotal, r.lido.desconto)
          /\ r.lido.totalPago = cs[r.comanda].totalPago
    /\ r.pc = "reopenSave" =>
          /\ cs[r.comanda].status = "pending_payment" /\ cs[r.comanda].totalPago = 0
          /\ r.lido = [cs[r.comanda] EXCEPT !.status = "open"]
    /\ r.pc = "cancelSave" =>
          /\ cs[r.comanda].status \in {"open", "pending_payment", "cancelled"}
          /\ r.lido = [cs[r.comanda] EXCEPT !.status = "cancelled"]
          /\ pg[r.comanda] = 0
    /\ r.pc \in WhilePending => cs[r.comanda].status = "pending_payment"
    /\ r.pc \in WhilePending \cup {"payClose"} => r.lido.total = cs[r.comanda].total
    /\ r.pc \in {"payDebit", "payInsert", "payUpdate"} =>
          /\ r.jaPago + r.saldo + r.outro <= r.lido.total
          /\ Recebido(r) = pg[r.comanda]

Knows(r, cs, its, pg, sob) ==
    r.pc # "idle" /\ r.card \notin sob => Current(r, cs, its, pg)

AllKnow == \A p \in Requests : Knows(req[p], comandas, itens, pagos, sobrepostos)

\* Rows inserted whose totals are not saved yet.
Counting == {"addNext", "recalcRead", "recalcSave"}
Paying == {"payInsert", "payUpdate"}
Busy(c, pcs) == \E p \in Requests : req[p].pc \in pcs /\ req[p].comanda = c

RowFinal(c) ==
    /\ comandas[c].status = "paid" =>
          comandas[c].total <= pagos[c] /\ comandas[c].totalPago = comandas[c].total
    /\ comandas[c].status = "cancelled" => pagos[c] = 0

RowCounts(c) ==
    /\ comandas[c].status = "open" => pagos[c] = 0
    /\ pagos[c] <= comandas[c].total
    /\ comandas[c].status \in Aberta /\ ~Busy(c, Paying) =>
          comandas[c].totalPago = pagos[c]
    /\ ~Busy(c, Counting) =>
          /\ comandas[c].subtotal = Soma(ItensDe(c))
          /\ comandas[c].total = ComDesconto(comandas[c].subtotal, comandas[c].desconto)

RowGood(c) ==
    comandas[c].status # "none" /\ comandas[c].card \notin sobrepostos =>
        /\ RowFinal(c)
        /\ comandas[c].card \notin interrompidos => RowCounts(c)

RowsGood == \A c \in ComandaIds : RowGood(c)

SheetInv == Apart /\ HeldInv /\ Fresh /\ AllKnow /\ RowsGood /\ OneActiveComanda

(* Money taken from the wristband and not yet in a payment row: the cells <<p, i>>,
   i up to what p has left to insert. *)
Due(c, rq) ==
    {y \in Requests \X Nat :
        /\ rq[y[1]].pc = "payInsert" /\ rq[y[1]].comanda = c
        /\ y[2] \in 1..rq[y[1]].saldoIns}

WalletInv ==
    \A c \in ComandaIds :
        /\ IsFiniteSet(Due(c, req))
        /\ pagosSaldo[c] + Cardinality(Due(c, req)) <= debitado[c]
-----------------------------------------------------------------------------
(* Types of rows and requests *)

LEMMA SomaType == ASSUME NEW f PROVE Soma(f) \in Nat
<1>1. IsFiniteSet(1..MaxTotal)
  BY ComandasAssumption, FS_Interval
<1>2. IsFiniteSet(ItemIds \X (1..MaxTotal))
  BY <1>1, ComandasAssumption, FS_Product
<1>3. IsFiniteSet({y \in ItemIds \X (1..MaxTotal) : y[2] <= f[y[1]]})
  BY <1>2, FS_Subset
<1> QED BY <1>3, FS_CardinalityType DEF Soma

LEMMA DescontoType ==
    ASSUME NEW a \in Nat, NEW b \in Nat PROVE ComDesconto(a, b) \in Nat
BY DEF ComDesconto

LEMMA IdleType ==
    /\ Idle \in Request /\ NoComanda \in ComandaRow /\ Idle.pc = "idle"
    /\ NoItem \in ItemRow
BY DEF Idle, Request, Pcs, NoComanda, ComandaRow, ComandaStatus, NoItens, NoItem, ItemRow

LEMMA ItensType ==
    ASSUME TablesOK, NEW c PROVE ItensDe(c) \in [ItemIds -> Nat]
BY DEF TablesOK, ItemRow, ItensDe

LEMMA RowType ==
    ASSUME NEW row \in ComandaRow
    PROVE  /\ row.card \in CardIds \cup {None} /\ row.status \in ComandaStatus
           /\ row.subtotal \in Nat /\ row.desconto \in Nat /\ row.total \in Nat
           /\ row.totalPago \in Nat
BY DEF ComandaRow

LEMMA ReqType ==
    ASSUME NEW r \in Request
    PROVE  /\ r.pc \in Pcs /\ r.card \in CardIds \cup {None}
           /\ r.comanda \in ComandaIds \cup {None} /\ r.item \in ItemIds \cup {None}
           /\ r.lido \in ComandaRow /\ r.itens \in [ItemIds -> Nat]
           /\ r.saldo \in Nat /\ r.outro \in Nat /\ r.saldoIns \in Nat
           /\ r.outroIns \in Nat /\ r.jaPago \in Nat /\ r.ref \in Refs \cup {None}
BY DEF Request

\* A request that moves on and keeps what it holds.
LEMMA PcMoves ==
    ASSUME NEW r \in Request, NEW pc \in Pcs
    PROVE  LET q == [r EXCEPT !.pc = pc]
           IN  /\ q \in Request /\ q.pc = pc /\ q.card = r.card /\ q.comanda = r.comanda
               /\ q.item = r.item /\ q.lido = r.lido /\ q.itens = r.itens
               /\ q.saldo = r.saldo /\ q.outro = r.outro /\ q.saldoIns = r.saldoIns
               /\ q.outroIns = r.outroIns /\ q.jaPago = r.jaPago /\ q.ref = r.ref
BY DEF Request

LEMMA LendoType ==
    ASSUME TablesOK, NEW pc \in Pcs, NEW c \in ComandaIds, NEW row \in ComandaRow
    PROVE  LET r == Lendo(pc, c, row)
           IN  /\ r \in Request /\ r.pc = pc /\ r.card = comandas[c].card
               /\ r.comanda = c /\ r.lido = row /\ r.item = None /\ r.itens = NoItens
<1>1. comandas[c].card \in CardIds \cup {None}
  BY RowType DEF TablesOK
<1> QED BY <1>1, IdleType DEF Lendo, Idle, Request, NoItens
-----------------------------------------------------------------------------
(* Steps *)

CardsStay ==
    \A c \in ComandaIds : comandas[c].status # "none" =>
        comandas'[c].status # "none" /\ comandas'[c].card = comandas[c].card

PagosGrow == \A c \in ComandaIds : pagos[c] <= pagos'[c]

LEMMA SlotStep ==
    ASSUME TablesOK, TablesOK', AllNamed, AllBacked, CardsStay, PagosGrow,
           NEW p \in Requests, NEW r, Go(p, r), Named(r, comandas'), Backed(r, pagos')
    PROVE  AllNamed' /\ AllBacked'
<1> SUFFICES ASSUME NEW q \in Requests, q # p
             PROVE  Named(req[q], comandas') /\ Backed(req[q], pagos')
  BY DEF TablesOK, Go, AllNamed, AllBacked
<1>1. Named(req[q], comandas) /\ Backed(req[q], pagos) /\ req[q] \in Request
  BY DEF TablesOK, AllNamed, AllBacked
<1>2. Named(req[q], comandas')
  BY <1>1 DEF Named, CardsStay
<1>3. Backed(req[q], pagos')
  <2> SUFFICES ASSUME req[q].pc \in OnComanda PROVE Backed(req[q], pagos')
    BY DEF Backed, OnComanda, Rewrites
  <2>1. /\ req[q].comanda \in ComandaIds
        /\ pagos[req[q].comanda] <= pagos'[req[q].comanda]
        /\ pagos[req[q].comanda] \in Nat /\ pagos'[req[q].comanda] \in Nat
    BY <1>1 DEF Named, PagosGrow, TablesOK
  <2>2. /\ req[q].lido.totalPago \in Nat /\ req[q].lido.total \in Nat
        /\ Recebido(req[q]) \in Int
    BY <1>1, ReqType, RowType DEF Recebido
  <2> HIDE DEF Recebido
  <2> QED BY <1>1, <2>1, <2>2 DEF Backed
<1> QED BY <1>2, <1>3

LEMMA ReadStep ==
    ASSUME TabInv, NEW p \in Requests, NEW r \in Request, Go(p, r), UNCHANGED tables,
           Named(r, comandas), Backed(r, pagos)
    PROVE  TabInv'
<1>1. TablesOK'
  BY DEF TabInv, TablesOK, tables, Go
<1>2. CardsStay /\ PagosGrow
  BY DEF tables, CardsStay, PagosGrow, TabInv, TablesOK
<1>3. AllNamed' /\ AllBacked'
  BY <1>1, <1>2, SlotStep DEF TabInv, tables
<1> QED BY <1>1, <1>3 DEF TabInv, RowsOwned, NeverOverstated, tables

LEMMA SaveStep ==
    ASSUME TabInv, NEW p \in Requests, NEW r \in Request, Go(p, r),
           NEW c \in ComandaIds, NEW row \in ComandaRow, Grava(c, row),
           UNCHANGED <<cardStatus, itens, pagos, pagosSaldo, debitado, refs>>,
           Named(r, comandas'), Backed(r, pagos),
           row.status # "none", row.card \in CardIds,
           comandas[c].status # "none" => row.card = comandas[c].card,
           row.totalPago <= pagos[c]
    PROVE  TabInv' /\ CardsStay
<1>1. TablesOK'
  BY DEF TabInv, TablesOK, Grava, Go
<1>2. comandas'[c] = row /\ \A d \in ComandaIds \ {c} : comandas'[d] = comandas[d]
  BY DEF TabInv, TablesOK, Grava
<1>3. CardsStay /\ PagosGrow
  BY <1>2 DEF CardsStay, PagosGrow, TabInv, TablesOK
<1>4. AllNamed' /\ AllBacked'
  BY <1>1, <1>3, SlotStep DEF TabInv
<1> QED BY <1>1, <1>2, <1>3, <1>4 DEF TabInv, RowsOwned, NeverOverstated

\* What is known of a request that has a comanda.
LEMMA OnItsRow ==
    ASSUME TabInv, NEW p \in Requests, req[p].pc \in OnComanda
    PROVE  /\ req[p] \in Request /\ req[p].card \in CardIds
           /\ req[p].comanda \in ComandaIds
           /\ comandas[req[p].comanda] \in ComandaRow
           /\ comandas[req[p].comanda].status # "none"
           /\ comandas[req[p].comanda].card = req[p].card
           /\ comandas[req[p].comanda].totalPago <= pagos[req[p].comanda]
           /\ pagos[req[p].comanda] \in Nat
           /\ Named(req[p], comandas) /\ Backed(req[p], pagos)
BY DEF TabInv, TablesOK, AllNamed, AllBacked, Named, OnComanda, NeverOverstated

LEMMA IdleKnown == ASSUME NEW cs, NEW pg PROVE Named(Idle, cs) /\ Backed(Idle, pg)
BY IdleType DEF Named, Backed, OnComanda, Rewrites
-----------------------------------------------------------------------------
(* Whatever overlaps: reads *)

LEMMA TapReads ==
    ASSUME TabInv, NEW p \in Requests,
           (\E k \in CardIds : TapRead(p, k)) \/ TapFind(p)
    PROVE  TabInv'
<1>1. ASSUME NEW k \in CardIds, TapRead(p, k) PROVE TabInv'
  <2> DEFINE r == [Idle EXCEPT !.pc = "tapFind", !.card = k]
  <2>1. r \in Request /\ r.pc = "tapFind" /\ r.card = k
    BY IdleType DEF Request, Pcs
  <2>2. Go(p, r) /\ UNCHANGED tables
    BY <1>1 DEF TapRead
  <2> HIDE DEF r
  <2>3. Named(r, comandas) /\ Backed(r, pagos)
    BY <2>1 DEF Named, Backed, OnComanda, Rewrites
  <2> QED BY <2>1, <2>2, <2>3, ReadStep
<1>2. ASSUME TapFind(p) PROVE TabInv'
  <2> DEFINE r == [req[p] EXCEPT !.pc = "tapInsert"]
  <2>1. req[p] \in Request /\ Named(req[p], comandas) /\ req[p].pc = "tapFind"
    BY <1>2 DEF TabInv, TablesOK, AllNamed, TapFind, At
  <2>2. r \in Request /\ r.pc = "tapInsert" /\ r.card = req[p].card
    BY <2>1 DEF Request, Pcs
  <2>3. (Go(p, r) \/ Go(p, Idle)) /\ UNCHANGED tables
    BY <1>2 DEF TapFind, Finish
  <2> HIDE DEF r
  <2>4. Named(r, comandas) /\ Backed(r, pagos)
    BY <2>1, <2>2 DEF Named, Backed, OnComanda, Rewrites
  <2> QED BY <2>2, <2>3, <2>4, ReadStep, IdleKnown, IdleType
<1> QED BY <1>1, <1>2

LEMMA ItemReads ==
    ASSUME TabInv, NEW p \in Requests, NEW c \in ComandaIds,
           AddRead(p, c) \/ \E x \in ItemIds : RemoveRead(p, c, x)
    PROVE  TabInv'
<1>0. comandas[c].status # "none" => comandas[c].card \in CardIds
  BY DEF TabInv, RowsOwned
<1>1. ASSUME AddRead(p, c) PROVE TabInv'
  <2> DEFINE o == Lendo("addItem", c, NoComanda)
             r == [o EXCEPT !.itens = ItensDe(c)]
  <2>1. /\ o \in Request /\ o.pc = "addItem" /\ o.card = comandas[c].card
        /\ o.comanda = c
    BY LendoType, IdleType DEF Pcs, TabInv
  <2>2. Go(p, r) /\ UNCHANGED tables /\ comandas[c].status # "none"
    BY <1>1 DEF AddRead
  <2> HIDE DEF o
  <2>3. /\ r \in Request /\ r.pc = "addItem" /\ r.card = comandas[c].card
        /\ r.comanda = c
    BY <2>1, ItensType DEF TabInv, Request
  <2> HIDE DEF r
  <2>4. Named(r, comandas) /\ Backed(r, pagos)
    BY <1>0, <2>2, <2>3 DEF Named, Backed, OnComanda, Rewrites
  <2> QED BY <2>2, <2>3, <2>4, ReadStep
<1>2. ASSUME NEW x \in ItemIds, RemoveRead(p, c, x) PROVE TabInv'
  <2> DEFINE o == Lendo("removeFind", c, NoComanda)
             r == [o EXCEPT !.item = x]
  <2>1. /\ o \in Request /\ o.pc = "removeFind" /\ o.card = comandas[c].card
        /\ o.comanda = c
    BY LendoType, IdleType DEF Pcs, TabInv
  <2>2. Go(p, r) /\ UNCHANGED tables /\ comandas[c].status # "none"
    BY <1>2 DEF RemoveRead
  <2> HIDE DEF o
  <2>3. /\ r \in Request /\ r.pc = "removeFind" /\ r.card = comandas[c].card
        /\ r.comanda = c
    BY <2>1 DEF Request
  <2> HIDE DEF r
  <2>4. Named(r, comandas) /\ Backed(r, pagos)
    BY <1>0, <2>2, <2>3 DEF Named, Backed, OnComanda, Rewrites
  <2> QED BY <2>2, <2>3, <2>4, ReadStep
<1> QED BY <1>1, <1>2

LEMMA ItemContinues ==
    ASSUME TabInv, NEW p \in Requests, RemoveFind(p) \/ RecalcRead(p)
    PROVE  TabInv'
<1>1. ASSUME RemoveFind(p) PROVE TabInv'
  <2> DEFINE r == [req[p] EXCEPT !.pc = "removeItem"]
  <2>1. /\ req[p] \in Request /\ req[p].pc = "removeFind" /\ Named(req[p], comandas)
    BY <1>1 DEF TabInv, TablesOK, AllNamed, RemoveFind, At
  <2>2. /\ r \in Request /\ r.pc = "removeItem" /\ r.card = req[p].card
        /\ r.comanda = req[p].comanda
    BY <2>1 DEF Request, Pcs
  <2>3. Go(p, r) /\ UNCHANGED tables
    BY <1>1 DEF RemoveFind
  <2> HIDE DEF r
  <2>4. Named(r, comandas) /\ Backed(r, pagos)
    BY <2>1, <2>2 DEF Named, Backed, OnComanda, Rewrites
  <2> QED BY <2>2, <2>3, <2>4, ReadStep
<1>2. ASSUME RecalcRead(p) PROVE TabInv'
  <2> DEFINE c == req[p].comanda
             o == Lendo("recalcSave", c, comandas[c])
             r == [o EXCEPT !.itens = ItensDe(c)]
  <2>1. /\ c \in ComandaIds /\ comandas[c] \in ComandaRow
        /\ comandas[c].status # "none" /\ comandas[c].card \in CardIds
        /\ comandas[c].totalPago <= pagos[c]
    BY <1>2, OnItsRow DEF RecalcRead, OnComanda
  <2>2. Go(p, r) /\ UNCHANGED tables
    BY <1>2 DEF RecalcRead
  <2> HIDE DEF c
  <2>3. /\ o \in Request /\ o.pc = "recalcSave" /\ o.card = comandas[c].card
        /\ o.comanda = c /\ o.lido = comandas[c]
    BY <2>1, LendoType DEF Pcs, TabInv
  <2> HIDE DEF o
  <2>4. /\ r \in Request /\ r.pc = "recalcSave" /\ r.card = comandas[c].card
        /\ r.comanda = c /\ r.lido = comandas[c]
    BY <2>3, ItensType DEF TabInv, Request
  <2> HIDE DEF r
  <2>5. Named(r, comandas) /\ Backed(r, pagos)
    BY <2>1, <2>4 DEF Named, Backed, OnComanda, Rewrites
  <2> QED BY <2>2, <2>4, <2>5, ReadStep
<1> QED BY <1>1, <1>2

\* close, reopen and cancel keep the row they read, with another status.
LEMMA RowReads ==
    ASSUME TabInv, NEW p \in Requests, NEW c \in ComandaIds,
           \/ \E d \in {comandas[c].desconto} \cup 0..MaxDesconto : CloseRead(p, c, d)
           \/ ReopenRead(p, c)
           \/ CancelRead(p, c)
    PROVE  TabInv'
<1>0. /\ comandas[c] \in ComandaRow /\ comandas[c].totalPago <= pagos[c]
      /\ comandas[c].status # "none" => comandas[c].card \in CardIds
  BY DEF TabInv, TablesOK, RowsOwned, NeverOverstated
<1>1. ASSUME NEW pc \in Rewrites, NEW row \in ComandaRow, row.card = comandas[c].card,
             row.totalPago = comandas[c].totalPago, row.status # "none",
             comandas[c].status # "none", Go(p, Lendo(pc, c, row)), UNCHANGED tables
      PROVE  TabInv'
  <2> DEFINE r == Lendo(pc, c, row)
  <2>1. /\ r \in Request /\ r.pc = pc /\ r.card = comandas[c].card /\ r.comanda = c
        /\ r.lido = row
    BY LendoType DEF Pcs, Rewrites, TabInv
  <2> HIDE DEF r
  <2>2. Named(r, comandas) /\ Backed(r, pagos)
    BY <1>0, <1>1, <2>1 DEF Named, Backed, OnComanda, Rewrites
  <2> QED BY <1>1, <2>1, <2>2, ReadStep DEF r
<1>2. ASSUME NEW d \in {comandas[c].desconto} \cup 0..MaxDesconto, CloseRead(p, c, d)
      PROVE  TabInv'
  <2> DEFINE row == [comandas[c] EXCEPT !.desconto = d,
                        !.total = ComDesconto(comandas[c].subtotal, d),
                        !.status = "pending_payment"]
  <2>0. d \in Nat /\ ComDesconto(comandas[c].subtotal, d) \in Nat
    <3>1. d \in Nat
      BY <1>0, RowType, ComandasAssumption
    <3> QED BY <1>0, <3>1, RowType, DescontoType
  <2>1. /\ row \in ComandaRow /\ row.card = comandas[c].card
        /\ row.totalPago = comandas[c].totalPago /\ row.status = "pending_payment"
    BY <1>0, <2>0 DEF ComandaRow, ComandaStatus
  <2>2. /\ Go(p, Lendo("closeSave", c, row)) /\ UNCHANGED tables
        /\ comandas[c].status = "open"
    BY <1>2 DEF CloseRead
  <2> HIDE DEF row
  <2> QED BY <1>1, <2>1, <2>2 DEF Rewrites
<1>3. ASSUME ReopenRead(p, c) PROVE TabInv'
  <2> DEFINE row == [comandas[c] EXCEPT !.status = "open"]
  <2>1. /\ row \in ComandaRow /\ row.card = comandas[c].card
        /\ row.totalPago = comandas[c].totalPago /\ row.status = "open"
    BY <1>0 DEF ComandaRow, ComandaStatus
  <2>2. /\ Go(p, Lendo("reopenSave", c, row)) /\ UNCHANGED tables
        /\ comandas[c].status = "pending_payment"
    BY <1>3 DEF ReopenRead, Reabrivel
  <2> HIDE DEF row
  <2> QED BY <1>1, <2>1, <2>2 DEF Rewrites
<1>4. ASSUME CancelRead(p, c) PROVE TabInv'
  <2> DEFINE row == [comandas[c] EXCEPT !.status = "cancelled"]
  <2>1. /\ row \in ComandaRow /\ row.card = comandas[c].card
        /\ row.totalPago = comandas[c].totalPago /\ row.status = "cancelled"
    BY <1>0 DEF ComandaRow, ComandaStatus
  <2>2. /\ Go(p, Lendo("cancelSave", c, row)) /\ UNCHANGED tables
        /\ comandas[c].status # "none"
    BY <1>4 DEF CancelRead
  <2> HIDE DEF row
  <2> QED BY <1>1, <2>1, <2>2 DEF Rewrites
<1> QED BY <1>2, <1>3, <1>4

\* pay at its start: of the row it keeps the total.
LEMMA PayStartType ==
    ASSUME TablesOK, NEW c \in ComandaIds, NEW saldo \in Nat, NEW outro \in Nat,
           NEW ref \in Refs \cup {None}
    PROVE  LET r == PayStart(c, saldo, outro, ref)
           IN  /\ r \in Request /\ r.card = comandas[c].card /\ r.comanda = c
               /\ r.pc = (IF comandas[c].status = "open" THEN "payClose" ELSE "paySum")
               /\ r.lido.total = comandas[c].total /\ r.itens = NoItens
               /\ r.saldo = saldo /\ r.outro = outro /\ r.saldoIns = saldo
               /\ r.outroIns = outro /\ r.ref = ref
<1> DEFINE pc == IF comandas[c].status = "open" THEN "payClose" ELSE "paySum"
           row == [NoComanda EXCEPT !.total = comandas[c].total]
           o == Lendo(pc, c, row)
<1>1. row \in ComandaRow /\ row.total = comandas[c].total
  <2>1. comandas[c].total \in Nat
    BY RowType DEF TablesOK
  <2> QED BY <2>1, IdleType DEF ComandaRow
<1>2. /\ o \in Request /\ o.pc = pc /\ o.card = comandas[c].card /\ o.comanda = c
      /\ o.lido = row /\ o.itens = NoItens
  BY <1>1, LendoType DEF Pcs
<1>3. PayStart(c, saldo, outro, ref) =
        [o EXCEPT !.saldo = saldo, !.outro = outro, !.saldoIns = saldo,
                  !.outroIns = outro, !.ref = ref]
  BY DEF PayStart
<1> HIDE DEF o, row
<1> QED BY <1>1, <1>2, <1>3 DEF Request

\* A payment of any amount begins, asked for by a handler of another module too.
LEMMA PayStarts ==
    ASSUME TabInv, NEW p \in Requests, NEW c \in ComandaIds, NEW saldo \in Nat,
           NEW outro \in Nat, NEW ref \in Refs \cup {None}, Pagavel(c),
           Go(p, PayStart(c, saldo, outro, ref)), UNCHANGED tables
    PROVE  TabInv'
<1> DEFINE r == PayStart(c, saldo, outro, ref)
<1>0. TablesOK
  BY DEF TabInv
<1>1. /\ r \in Request /\ r.card = comandas[c].card /\ r.comanda = c
      /\ r.pc = (IF comandas[c].status = "open" THEN "payClose" ELSE "paySum")
      /\ r.saldo = saldo /\ r.outro = outro /\ r.saldoIns = saldo /\ r.outroIns = outro
  BY <1>0, PayStartType
<1>2. Go(p, r) /\ comandas[c].status # "none"
  BY DEF Pagavel
<1> HIDE DEF r
<1>3. comandas[c].card \in CardIds
  BY <1>2 DEF TabInv, RowsOwned
<1>4. Named(r, comandas) /\ Backed(r, pagos)
  BY <1>1, <1>2, <1>3 DEF Named, Backed, OnComanda, Rewrites
<1> QED BY <1>1, <1>2, <1>4, ReadStep

LEMMA PayReads ==
    ASSUME TabInv, NEW p \in Requests,
           \/ \E c \in ComandaIds, saldo, outro \in 0..MaxTotal : PayRead(p, c, saldo, outro)
           \/ PaySum(p)
    PROVE  TabInv'
<1>1. ASSUME NEW c \in ComandaIds, NEW saldo \in 0..MaxTotal, NEW outro \in 0..MaxTotal,
             PayRead(p, c, saldo, outro)
      PROVE  TabInv'
  <2>1. saldo \in Nat /\ outro \in Nat
    BY ComandasAssumption
  <2> QED BY <1>1, <2>1, PayStarts DEF PayRead
<1>2. ASSUME PaySum(p) PROVE TabInv'
  <2> DEFINE o == req[p]
             ja == pagos[o.comanda]
  <2>1. o.pc = "paySum" /\ UNCHANGED tables
    BY <1>2 DEF PaySum, At
  <2>2. /\ o \in Request /\ o.comanda \in ComandaIds /\ ja \in Nat
        /\ Named(o, comandas) /\ Backed(o, pagos)
    BY <2>1, OnItsRow DEF OnComanda
  <2>3. CASE o.lido.total <= ja /\ Go(p, [o EXCEPT !.pc = "payAlready"])
    <3> DEFINE r == [o EXCEPT !.pc = "payAlready"]
    <3> HIDE DEF o
    <3>0. o \in Request /\ "payAlready" \in Pcs
      BY <2>2 DEF Pcs
    <3>1. /\ r \in Request /\ r.pc = "payAlready" /\ r.card = o.card
          /\ r.comanda = o.comanda /\ r.lido = o.lido
      BY <3>0, PcMoves
    <3> HIDE DEF r
    <3>2. Named(r, comandas) /\ Backed(r, pagos)
      BY <2>1, <2>2, <2>3, <3>1 DEF Named, Backed, OnComanda, Rewrites
    <3> QED BY <2>1, <2>3, <3>1, <3>2, ReadStep DEF r
  <2>4. CASE Go(p, [o EXCEPT !.jaPago = ja,
                        !.pc = IF o.saldo > 0 THEN "payDebit" ELSE "payInsert"])
    <3> DEFINE r == [o EXCEPT !.jaPago = ja,
                        !.pc = IF o.saldo > 0 THEN "payDebit" ELSE "payInsert"]
    <3>0. o.saldoIns = o.saldo /\ o.outroIns = o.outro
      BY <2>1, <2>2 DEF Backed
    <3> HIDE DEF o
    <3>1. /\ r \in Request /\ r.pc \in {"payDebit", "payInsert"} /\ r.card = o.card
          /\ r.comanda = o.comanda /\ r.lido = o.lido /\ r.jaPago = ja
          /\ r.saldo = o.saldo /\ r.outro = o.outro
          /\ r.saldoIns = o.saldoIns /\ r.outroIns = o.outroIns
      BY <2>2 DEF Request, Pcs
    <3> HIDE DEF r
    <3>2. Recebido(r) = ja /\ r.saldoIns <= r.saldo /\ r.outroIns <= r.outro
      BY <2>2, <3>0, <3>1, ReqType DEF Recebido
    <3>3. Named(r, comandas) /\ Backed(r, pagos)
      BY <2>1, <2>2, <3>0, <3>1, <3>2 DEF Named, Backed, OnComanda, Rewrites
    <3> QED BY <2>1, <2>4, <3>1, <3>3, ReadStep DEF r
  <2> QED BY <1>2, <2>3, <2>4 DEF PaySum
<1> QED BY <1>1, <1>2
-----------------------------------------------------------------------------
(* Whatever overlaps: rows of comandas saved *)

LEMMA TapInserts ==
    ASSUME TabInv, NEW p \in Requests, NEW c \in ComandaIds, TapInsert(p, c)
    PROVE  TabInv' /\ CardsStay
<1> DEFINE row == [NoComanda EXCEPT !.card = req[p].card, !.status = "open"]
<1>1. req[p].card \in CardIds
  BY DEF TabInv, AllNamed, Named, TapInsert, At
<1>2. /\ row \in ComandaRow /\ row.card = req[p].card /\ row.status = "open"
      /\ row.totalPago = 0
  BY <1>1, IdleType DEF NoComanda, ComandaRow, ComandaStatus
<1>3. /\ Grava(c, row) /\ Go(p, Idle) /\ comandas[c].status = "none"
      /\ UNCHANGED <<cardStatus, itens, pagos, pagosSaldo, debitado, refs>>
  BY DEF TapInsert, Finish
<1> HIDE DEF row
<1>4. 0 <= pagos[c]
  BY DEF TabInv, TablesOK
<1> QED BY <1>1, <1>2, <1>3, <1>4, IdleKnown, IdleType, SaveStep

LEMMA RowSaves ==
    ASSUME TabInv, NEW p \in Requests, RecalcSave(p) \/ SaveRow(p)
    PROVE  TabInv' /\ CardsStay
<1> DEFINE r == req[p]
           c == r.comanda
           row == IF r.pc = "recalcSave" THEN Recalculada(r.lido, r.itens) ELSE r.lido
<1>1. r.pc \in Rewrites /\ r.pc \in OnComanda
  BY DEF RecalcSave, SaveRow, At, Rewrites, OnComanda
<1>2. /\ r \in Request /\ c \in ComandaIds /\ comandas[c].card = r.card
      /\ Named(r, comandas) /\ Backed(r, pagos)
  BY <1>1, OnItsRow
<1>3. /\ r.lido \in ComandaRow /\ r.lido.status # "none" /\ r.lido.card = r.card
      /\ r.card \in CardIds /\ r.lido.totalPago <= pagos[c]
  BY <1>1, <1>2, ReqType, IdleType DEF Named, Backed, Rewrites
<1>4. /\ row \in ComandaRow /\ row.card = r.lido.card /\ row.status = r.lido.status
      /\ row.totalPago = r.lido.totalPago
  <2>1. /\ Soma(r.itens) \in Nat /\ ComDesconto(Soma(r.itens), r.lido.desconto) \in Nat
    BY <1>3, SomaType, DescontoType, RowType
  <2> HIDE DEF r
  <2> QED BY <1>3, <2>1 DEF Recalculada, ComandaRow
<1>5. /\ Grava(c, row) /\ Go(p, Idle)
      /\ UNCHANGED <<cardStatus, itens, pagos, pagosSaldo, debitado, refs>>
  BY DEF RecalcSave, SaveRow, At, Finish
<1> HIDE DEF row, c
<1> QED BY <1>2, <1>3, <1>4, <1>5, IdleKnown, IdleType, SaveStep

LEMMA PaySaves ==
    ASSUME TabInv, NEW p \in Requests, PayClose(p) \/ PayAlready(p) \/ PayUpdate(p)
    PROVE  TabInv' /\ CardsStay
<1> DEFINE o == req[p]
           c == o.comanda
<1>1. o.pc \in {"payClose", "payAlready", "payUpdate"}
  BY DEF PayClose, PayAlready, PayUpdate, At
<1>2. /\ o \in Request /\ c \in ComandaIds /\ comandas[c].card = o.card
      /\ o.card \in CardIds /\ comandas[c].status # "none"
      /\ comandas[c].totalPago <= pagos[c] /\ pagos[c] \in Nat
      /\ Named(o, comandas) /\ Backed(o, pagos) /\ comandas[c] \in ComandaRow
  BY <1>1, OnItsRow DEF OnComanda
<1>3. CASE PayClose(p)
  <2> DEFINE row == [comandas[c] EXCEPT !.status = "pending_payment"]
             r == [o EXCEPT !.pc = "paySum"]
  <2>1. /\ row \in ComandaRow /\ row.card = comandas[c].card
        /\ row.totalPago = comandas[c].totalPago /\ row.status = "pending_payment"
    BY <1>2 DEF ComandaRow, ComandaStatus
  <2>2. /\ Grava(c, row) /\ Go(p, r) /\ o.pc = "payClose"
        /\ UNCHANGED <<cardStatus, itens, pagos, pagosSaldo, debitado, refs>>
    BY <1>3 DEF PayClose, At
  <2> HIDE DEF o, row
  <2>a. o \in Request /\ "paySum" \in Pcs
    BY <1>2 DEF Pcs
  <2>3. /\ r \in Request /\ r.pc = "paySum" /\ r.card = o.card /\ r.comanda = c
        /\ r.saldo = o.saldo /\ r.outro = o.outro
        /\ r.saldoIns = o.saldoIns /\ r.outroIns = o.outroIns
    BY <2>a, PcMoves
  <2> HIDE DEF r, c
  <2>4. comandas'[c] = row
    BY <1>2, <2>2 DEF Grava, TabInv, TablesOK
  <2>5. Named(r, comandas') /\ Backed(r, pagos)
    BY <1>2, <2>1, <2>2, <2>3, <2>4 DEF Named, Backed, OnComanda, Rewrites
  <2> QED BY <1>2, <2>1, <2>2, <2>3, <2>5, SaveStep
<1>4. CASE PayAlready(p)
  <2> DEFINE row == [comandas[c] EXCEPT !.status = "paid", !.totalPago = o.lido.total]
  <2>1. o.pc = "payAlready" /\ o.lido.total \in Nat /\ o.lido.total <= pagos[c]
    BY <1>2, <1>4, ReqType, RowType DEF PayAlready, At, Backed
  <2>2. /\ row \in ComandaRow /\ row.card = comandas[c].card
        /\ row.totalPago = o.lido.total /\ row.status = "paid"
    BY <1>2, <2>1 DEF ComandaRow, ComandaStatus
  <2>3. /\ Grava(c, row) /\ Go(p, Idle)
        /\ UNCHANGED <<cardStatus, itens, pagos, pagosSaldo, debitado, refs>>
    BY <1>4 DEF PayAlready, Finish
  <2> HIDE DEF row, c
  <2> QED BY <1>2, <2>1, <2>2, <2>3, IdleKnown, IdleType, SaveStep
<1>5. CASE PayUpdate(p)
  <2> DEFINE novo == o.jaPago + o.saldo + o.outro
             row == Quitacao(comandas[c], o.lido, novo)
  <2>1. /\ o.lido.total \in Nat /\ novo \in Nat /\ novo <= pagos[c]
    <3>1. /\ o.pc = "payUpdate" /\ o.jaPago \in Nat /\ o.saldo \in Nat
          /\ o.outro \in Nat /\ o.lido.total \in Nat
      BY <1>2, <1>5, ReqType, RowType DEF PayUpdate, At
    <3>2. Recebido(o) <= pagos[c] /\ o.saldoIns = 0 /\ o.outroIns = 0
      BY <1>2, <3>1 DEF Backed
    <3> QED BY <1>2, <3>1, <3>2 DEF Recebido
  <2>2. /\ Grava(c, row) /\ Go(p, Idle)
        /\ UNCHANGED <<cardStatus, itens, pagos, pagosSaldo, debitado, refs>>
    BY <1>5 DEF PayUpdate, Finish
  <2> HIDE DEF novo, c
  <2>3. /\ row \in ComandaRow /\ row.card = comandas[c].card
        /\ row.totalPago <= pagos[c] /\ row.status # "none"
    <3> HIDE DEF o
    <3>1. CASE novo >= o.lido.total
      <4>1. row = [comandas[c] EXCEPT !.totalPago = o.lido.total, !.status = "paid"]
        BY <3>1 DEF Quitacao
      <4>2. /\ row \in ComandaRow /\ row.card = comandas[c].card
            /\ row.totalPago = o.lido.total /\ row.status # "none"
        <5> HIDE DEF row
        <5> QED BY <1>2, <2>1, <4>1 DEF ComandaRow, ComandaStatus
      <4>3. o.lido.total <= pagos[c]
        BY <1>2, <2>1, <3>1
      <4> HIDE DEF row
      <4> QED BY <4>2, <4>3
    <3>2. CASE ~(novo >= o.lido.total)
      <4>1. row = [comandas[c] EXCEPT !.totalPago = novo, !.status = "pending_payment"]
        BY <3>2 DEF Quitacao
      <4> HIDE DEF row
      <4> QED BY <1>2, <2>1, <4>1 DEF ComandaRow, ComandaStatus
    <3> QED BY <3>1, <3>2
  <2> HIDE DEF row
  <2> QED BY <1>2, <2>2, <2>3, IdleKnown, IdleType, SaveStep
<1> QED BY <1>3, <1>4, <1>5
-----------------------------------------------------------------------------
(* Whatever overlaps: items, debits, payments, cards, stops *)

LEMMA OtherStep ==
    ASSUME TabInv, TablesOK', UNCHANGED comandas, PagosGrow,
           NEW p \in Requests, NEW r, Go(p, r), Named(r, comandas), Backed(r, pagos')
    PROVE  TabInv' /\ CardsStay
<1>1. CardsStay
  BY DEF CardsStay
<1>2. AllNamed' /\ AllBacked'
  BY <1>1, SlotStep DEF TabInv
<1>3. NeverOverstated'
  <2> SUFFICES ASSUME NEW c \in ComandaIds PROVE comandas[c].totalPago <= pagos'[c]
    BY DEF NeverOverstated
  <2>1. /\ comandas[c].totalPago <= pagos[c] /\ pagos[c] <= pagos'[c]
        /\ pagos[c] \in Nat /\ pagos'[c] \in Nat
    BY DEF TabInv, NeverOverstated, PagosGrow, TablesOK
  <2>2. comandas[c].totalPago \in Nat
    BY RowType DEF TabInv, TablesOK
  <2> QED BY <2>1, <2>2
<1> QED BY <1>1, <1>2, <1>3 DEF TabInv, RowsOwned

LEMMA PagosSame == ASSUME TabInv, UNCHANGED pagos PROVE PagosGrow
BY DEF TabInv, TablesOK, PagosGrow

LEMMA ItemWrites ==
    ASSUME TabInv, NEW p \in Requests, (\E x \in ItemIds : AddItem(p, x)) \/ RemoveItem(p)
    PROVE  TabInv' /\ CardsStay
<1> DEFINE o == req[p]
<1>1. o.pc \in {"addItem", "addNext", "removeItem"}
  BY DEF AddItem, RemoveItem, At
<1>2. o \in Request /\ o.comanda \in ComandaIds /\ Named(o, comandas) /\ Backed(o, pagos)
  BY <1>1, OnItsRow DEF OnComanda
<1>3. ASSUME NEW x \in ItemIds, AddItem(p, x) PROVE TabInv' /\ CardsStay
  <2> DEFINE v == o.itens[x] + 1
             r == [o EXCEPT !.pc = "addNext", !.itens[x] = IF @ > 0 THEN v ELSE 0]
  <2>1. v \in Nat /\ o.itens \in [ItemIds -> Nat] /\ o.pc \in {"addItem", "addNext"}
    <3>1. o.itens \in [ItemIds -> Nat]
      BY <1>2, ReqType
    <3>2. o.pc \in {"addItem", "addNext"}
      BY <1>3 DEF AddItem
    <3> QED BY <3>1, <3>2
  <2>2. /\ itens' = [itens EXCEPT ![x] = [comanda |-> o.comanda, total |-> v]]
        /\ Go(p, r) /\ UNCHANGED <<cardStatus, comandas, pagos, pagosSaldo, debitado, refs>>
    BY <1>3 DEF AddItem
  <2> HIDE DEF o, v
  <2>3. r \in Request /\ r.pc = "addNext" /\ r.card = o.card /\ r.comanda = o.comanda
    BY <1>2, <2>1 DEF Request, Pcs
  <2> HIDE DEF r
  <2>4. TablesOK'
    BY <1>2, <2>1, <2>2, <2>3 DEF TabInv, TablesOK, ItemRow, Go
  <2>5. Named(r, comandas) /\ Backed(r, pagos)
    BY <1>2, <2>1, <2>3 DEF Named, Backed, OnComanda, Rewrites
  <2> QED BY <2>2, <2>4, <2>5, PagosSame, OtherStep
<1>4. ASSUME RemoveItem(p) PROVE TabInv' /\ CardsStay
  <2> DEFINE r == [o EXCEPT !.pc = "recalcRead"]
  <2>1. /\ itens' = [itens EXCEPT ![o.item] = NoItem] /\ o.pc = "removeItem"
        /\ Go(p, r) /\ UNCHANGED <<cardStatus, comandas, pagos, pagosSaldo, debitado, refs>>
    BY <1>4 DEF RemoveItem, At
  <2> HIDE DEF o
  <2>a. o \in Request /\ "recalcRead" \in Pcs
    BY <1>2 DEF Pcs
  <2>2. r \in Request /\ r.pc = "recalcRead" /\ r.card = o.card /\ r.comanda = o.comanda
    BY <2>a, PcMoves
  <2> HIDE DEF r
  <2>3. TablesOK'
    BY <2>1, <2>2, IdleType DEF TabInv, TablesOK, Go
  <2>4. Named(r, comandas) /\ Backed(r, pagos)
    BY <1>2, <2>1, <2>2 DEF Named, Backed, OnComanda, Rewrites
  <2> QED BY <2>1, <2>3, <2>4, PagosSame, OtherStep
<1> QED BY <1>3, <1>4

LEMMA PayDebits ==
    ASSUME TabInv, NEW p \in Requests, PayDebit(p)
    PROVE  TabInv' /\ CardsStay
<1> DEFINE o == req[p]
           r == [o EXCEPT !.pc = "payInsert"]
<1>1. /\ debitado' = [debitado EXCEPT ![o.comanda] = @ + o.saldo] /\ o.pc = "payDebit"
      /\ Go(p, r) /\ UNCHANGED <<cardStatus, comandas, itens, pagos, pagosSaldo, refs>>
  BY DEF PayDebit, At
<1>2. o \in Request /\ o.comanda \in ComandaIds /\ Named(o, comandas) /\ Backed(o, pagos)
  BY <1>1, OnItsRow DEF OnComanda
<1>3. o.saldo \in Nat
  BY <1>2, ReqType
<1> HIDE DEF o
<1>a. o \in Request /\ "payInsert" \in Pcs
  BY <1>2 DEF Pcs
<1>4. /\ r \in Request /\ r.pc = "payInsert" /\ r.card = o.card /\ r.comanda = o.comanda
      /\ r.saldo = o.saldo /\ r.outro = o.outro /\ r.jaPago = o.jaPago
      /\ r.saldoIns = o.saldoIns /\ r.outroIns = o.outroIns
  BY <1>a, PcMoves
<1> HIDE DEF r
<1>5. TablesOK'
  BY <1>1, <1>2, <1>3, <1>4 DEF TabInv, TablesOK, Go
<1>6. Recebido(r) = Recebido(o)
  BY <1>4 DEF Recebido
<1>7. Named(r, comandas) /\ Backed(r, pagos)
  BY <1>1, <1>2, <1>4, <1>6 DEF Named, Backed, OnComanda, Rewrites
<1> QED BY <1>1, <1>5, <1>7, PagosSame, OtherStep

\* A payment row: what it brings in is what the request has left to insert.
LEMMA PayInsertStep ==
    ASSUME TabInv, NEW p \in Requests, NEW s \in {0, req[p].saldoIns},
           NEW d \in {0, req[p].outroIns}, PayInsert(p, s, d)
    PROVE  \E r \in Request :
              /\ r.pc \in Paying /\ r.card = req[p].card /\ r.comanda = req[p].comanda
              /\ r.itens = req[p].itens
              /\ r.lido = req[p].lido /\ r.jaPago = req[p].jaPago
              /\ r.saldo = req[p].saldo /\ r.outro = req[p].outro
              /\ s \in Nat /\ d \in Nat
              /\ r.saldoIns = req[p].saldoIns - s /\ r.outroIns = req[p].outroIns - d
              /\ r.pc = "payUpdate" => r.saldoIns = 0 /\ r.outroIns = 0
              /\ Recebido(r) = Recebido(req[p]) + s + d
              /\ pagos' = [pagos EXCEPT ![req[p].comanda] = @ + s + d]
              /\ pagosSaldo' = [pagosSaldo EXCEPT ![req[p].comanda] = @ + s]
              /\ Go(p, r) /\ req[p].pc = "payInsert" /\ refs' \in [Refs -> Nat]
              /\ UNCHANGED <<cardStatus, comandas, itens, debitado>>
<1> DEFINE o == req[p]
           rest == [o EXCEPT !.saldoIns = o.saldoIns - s, !.outroIns = o.outroIns - d]
           r == IF rest.saldoIns + rest.outroIns = 0
                THEN [rest EXCEPT !.pc = "payUpdate"] ELSE rest
<1>1. /\ pagos' = [pagos EXCEPT ![o.comanda] = @ + s + d]
      /\ pagosSaldo' = [pagosSaldo EXCEPT ![o.comanda] = @ + s]
      /\ refs' = (IF o.ref # None THEN [refs EXCEPT ![o.ref] = @ + 1] ELSE refs)
      /\ Go(p, r) /\ o.pc = "payInsert"
      /\ UNCHANGED <<cardStatus, comandas, itens, debitado>>
  BY DEF PayInsert, At
<1>2. o \in Request
  BY <1>1, OnItsRow DEF OnComanda
<1>3. /\ s \in Nat /\ d \in Nat /\ o.saldoIns - s \in Nat /\ o.outroIns - d \in Nat
      /\ o.saldo \in Nat /\ o.outro \in Nat /\ o.jaPago \in Nat
      /\ o.saldoIns \in Nat /\ o.outroIns \in Nat /\ o.ref \in Refs \cup {None}
  BY <1>2, ReqType
<1>4. refs' \in [Refs -> Nat]
  BY <1>1, <1>3 DEF TabInv, TablesOK
<1> HIDE DEF o
<1>5. /\ rest \in Request /\ rest.pc = o.pc /\ rest.card = o.card
      /\ rest.comanda = o.comanda
      /\ rest.lido = o.lido /\ rest.jaPago = o.jaPago /\ rest.itens = o.itens
      /\ rest.saldo = o.saldo /\ rest.outro = o.outro
      /\ rest.saldoIns = o.saldoIns - s /\ rest.outroIns = o.outroIns - d
  BY <1>2, <1>3 DEF Request
<1> HIDE DEF rest
<1>6. /\ r \in Request /\ r.pc \in Paying /\ r.card = o.card /\ r.comanda = o.comanda
      /\ r.lido = o.lido /\ r.jaPago = o.jaPago /\ r.itens = o.itens
      /\ r.saldo = o.saldo /\ r.outro = o.outro
      /\ r.saldoIns = o.saldoIns - s /\ r.outroIns = o.outroIns - d
      /\ r.pc = "payUpdate" => r.saldoIns + r.outroIns = 0
  <2>1. CASE rest.saldoIns + rest.outroIns = 0
    <3>1. r = [rest EXCEPT !.pc = "payUpdate"]
      BY <2>1
    <3> QED BY <1>5, <2>1, <3>1 DEF Request, Pcs, Paying
  <2>2. CASE rest.saldoIns + rest.outroIns # 0
    BY <1>1, <1>5, <2>2 DEF Paying
  <2> QED BY <2>1, <2>2
<1> HIDE DEF r
<1>7. r.pc = "payUpdate" => r.saldoIns = 0 /\ r.outroIns = 0
  BY <1>3, <1>6
<1>8. Recebido(r) = Recebido(o) + s + d
  BY <1>3, <1>6 DEF Recebido
<1> QED BY <1>1, <1>3, <1>4, <1>6, <1>7, <1>8 DEF o

LEMMA PayInserts ==
    ASSUME TabInv, NEW p \in Requests, NEW s \in {0, req[p].saldoIns},
           NEW d \in {0, req[p].outroIns}, PayInsert(p, s, d)
    PROVE  TabInv' /\ CardsStay
<1> DEFINE o == req[p]
<1>1. PICK r \in Request :
         /\ r.pc \in Paying /\ r.card = o.card /\ r.comanda = o.comanda
         /\ r.saldo = o.saldo /\ r.outro = o.outro /\ s \in Nat /\ d \in Nat
         /\ r.saldoIns = o.saldoIns - s /\ r.outroIns = o.outroIns - d
         /\ r.pc = "payUpdate" => r.saldoIns = 0 /\ r.outroIns = 0
         /\ Recebido(r) = Recebido(o) + s + d
         /\ pagos' = [pagos EXCEPT ![o.comanda] = @ + s + d]
         /\ pagosSaldo' = [pagosSaldo EXCEPT ![o.comanda] = @ + s]
         /\ Go(p, r) /\ o.pc = "payInsert" /\ refs' \in [Refs -> Nat]
         /\ UNCHANGED <<cardStatus, comandas, itens, debitado>>
  BY PayInsertStep
<1>2. /\ o \in Request /\ o.comanda \in ComandaIds /\ Named(o, comandas)
      /\ Backed(o, pagos) /\ pagos[o.comanda] \in Nat
  BY <1>1, OnItsRow DEF OnComanda
<1>3. /\ o.saldoIns \in Nat /\ o.outroIns \in Nat /\ o.saldo \in Nat /\ o.outro \in Nat
      /\ o.jaPago \in Nat /\ r.saldoIns \in Nat /\ r.outroIns \in Nat
  BY <1>1, <1>2, ReqType
<1> HIDE DEF o
<1>4. TablesOK'
  BY <1>1, <1>2 DEF TabInv, TablesOK, Go
<1>5. PagosGrow
  BY <1>1, <1>2 DEF TabInv, TablesOK, PagosGrow
<1>6. pagos'[o.comanda] = pagos[o.comanda] + s + d
  BY <1>1, <1>2 DEF TabInv, TablesOK
<1>7. Named(r, comandas)
  BY <1>1, <1>2 DEF Named, OnComanda, Rewrites, Paying
<1>8. Backed(r, pagos')
  <2>1. Recebido(o) \in Int /\ Recebido(o) <= pagos[o.comanda]
        /\ o.saldoIns <= o.saldo /\ o.outroIns <= o.outro
    BY <1>1, <1>2, <1>3 DEF Backed, Recebido
  <2>2. Recebido(r) <= pagos'[o.comanda] /\ r.saldoIns <= r.saldo /\ r.outroIns <= r.outro
    BY <1>1, <1>2, <1>3, <1>6, <2>1
  <2> QED BY <1>1, <2>2 DEF Backed, Paying, Rewrites
<1> QED BY <1>1, <1>4, <1>5, <1>7, <1>8, OtherStep

\* A stop, or a card blocked or collected, writes no comanda.
LEMMA Stops ==
    ASSUME TabInv, NEW p \in Requests, Abort(p)
    PROVE  TabInv'
<1>1. Go(p, Idle) /\ UNCHANGED tables
  BY DEF Abort, Finish
<1> QED BY <1>1, IdleKnown, IdleType, ReadStep

LEMMA CardSet ==
    ASSUME TabInv, NEW k \in CardIds, NEW st \in CardStatus, SetCard(k, st)
    PROVE  TabInv'
<1>1. TablesOK'
  BY DEF TabInv, TablesOK, SetCard
<1>2. UNCHANGED <<comandas, pagos, req>>
  BY DEF SetCard
<1> QED BY <1>1, <1>2 DEF TabInv, RowsOwned, AllNamed, AllBacked, NeverOverstated

LEMMA TabInit == Init => TabInv
<1> SUFFICES ASSUME Init PROVE TabInv
  OBVIOUS
<1>1. TablesOK
  BY IdleType DEF Init, TablesOK, CardStatus
<1>2. AllNamed /\ AllBacked
  BY IdleKnown DEF Init, AllNamed, AllBacked
<1>3. RowsOwned /\ NeverOverstated
  BY DEF Init, NoComanda, RowsOwned, NeverOverstated
<1> QED BY <1>1, <1>2, <1>3 DEF TabInv

LEMMA TabSame == ASSUME TabInv, UNCHANGED <<tables, req>> PROVE TabInv'
BY DEF tables, TabInv, TablesOK, RowsOwned, AllNamed, AllBacked, NeverOverstated

\* Any step of a handler here, alone or among those of the modules that extend Comandas.
LEMMA TabKept == ASSUME TabInv, Step PROVE TabInv'
<1>2. ASSUME NEW p \in Requests, Start(p) PROVE TabInv'
  BY <1>2, TapReads, ItemReads, RowReads, PayReads DEF Start
<1>3. ASSUME NEW p \in Requests, Continue(p) PROVE TabInv'
  BY <1>3, TapReads, TapInserts, ItemWrites, ItemContinues, RowSaves, PaySaves, PayReads,
     PayDebits, PayInserts DEF Continue
<1> QED BY <1>2, <1>3, Stops, CardSet DEF Step

LEMMA TabStep == TabInv /\ [Next]_vars => TabInv'
BY TabKept, TabSame DEF Next, vars

LEMMA CrossedType ==
    ASSUME HistoryOK, Historia, interrompidos' \in SUBSET CardIds PROVE HistoryOK'
BY DEF Historia, Cruzados, HistoryOK

LEMMA StopType ==
    ASSUME TabInv, HistoryOK, NEW p \in Requests, req[p].pc # "idle", NEW meio, Stop(p, meio)
    PROVE  interrompidos' \in SUBSET CardIds
BY DEF Stop, TabInv, AllNamed, Named, HistoryOK

LEMMA HistoryKept == ASSUME TabInv, HistoryOK, Step PROVE interrompidos' \in SUBSET CardIds
BY StopType DEF Step, Abort, HistoryOK

LEMMA HistoryStep ==
    ASSUME TabInv, HistoryOK, [Next]_vars
    PROVE  HistoryOK'
<1>1. CASE UNCHANGED vars
  BY <1>1 DEF vars, HistoryOK
<1>2. CASE Next
  BY <1>2, CrossedType, HistoryKept DEF Next
<1> QED BY <1>1, <1>2

\* Every row, every sum of payments and every request in flight keeps its type,
\* and the histories hold wristbands.
THEOREM SheetType == Spec => []TypeOK
<1>1. Init => HistoryOK
  BY DEF Init, HistoryOK
<1>2. TabInv /\ HistoryOK => TypeOK
  BY DEF TabInv, TablesOK, HistoryOK, TypeOK
<1>3. TabInv /\ HistoryOK /\ [Next]_vars => HistoryOK'
  BY HistoryStep
<1> QED BY TabInit, TabStep, <1>1, <1>2, <1>3, PTL DEF Spec

\* However requests on a comanda interleave and wherever they stop, its totalPago
\* never claims more than the payment rows of it add up to.
THEOREM PaidTotalIsBacked == Spec => []NeverOverstated
<1>1. TabInv => NeverOverstated
  BY DEF TabInv
<1> QED BY TabInit, TabStep, <1>1, PTL DEF Spec
-----------------------------------------------------------------------------
(* The wristband's money *)

LEMMA DueOfOne ==
    ASSUME NEW p \in Requests, NEW v \in Nat
    PROVE  IsFiniteSet({p} \X (1..v)) /\ Cardinality({p} \X (1..v)) = v
<1>1. IsFiniteSet(1..v) /\ Cardinality(1..v) = v
  BY FS_Interval
<1>2. IsFiniteSet({p}) /\ Cardinality({p}) = 1
  BY FS_Singleton
<1>3. /\ IsFiniteSet({p} \X (1..v))
      /\ Cardinality({p} \X (1..v)) = Cardinality({p}) * Cardinality(1..v)
  BY <1>1, <1>2, FS_Product
<1>4. Cardinality({p}) * Cardinality(1..v) = 1 * v
  BY <1>1, <1>2
<1> QED BY <1>3, <1>4

\* A step by which nothing more comes due.
LEMMA DueStays ==
    ASSUME NEW c \in ComandaIds, NEW a, NEW b, IsFiniteSet(Due(c, a)),
           NEW m \in Nat, NEW n \in Nat, m + Cardinality(Due(c, a)) <= n,
           \A p \in Requests :
              b[p].pc = "payInsert" /\ b[p].comanda = c =>
                  \/ b[p].saldoIns = 0
                  \/ /\ a[p].pc = "payInsert" /\ a[p].comanda = c
                     /\ a[p].saldoIns = b[p].saldoIns
    PROVE  IsFiniteSet(Due(c, b)) /\ m + Cardinality(Due(c, b)) <= n
<1>1. Due(c, b) \subseteq Due(c, a)
  BY DEF Due
<1>2. IsFiniteSet(Due(c, b)) /\ Cardinality(Due(c, b)) <= Cardinality(Due(c, a))
  BY <1>1, FS_Subset
<1>3. Cardinality(Due(c, b)) \in Nat /\ Cardinality(Due(c, a)) \in Nat
  BY <1>2, FS_CardinalityType
<1> QED BY <1>2, <1>3

\* What p debits comes due.
LEMMA DueMore ==
    ASSUME NEW c, NEW a, NEW b, IsFiniteSet(Due(c, a)), NEW p \in Requests,
           NEW v \in Nat, b[p].saldoIns = v,
           \A q \in Requests \ {p} : b[q] = a[q]
    PROVE  /\ IsFiniteSet(Due(c, b))
           /\ Cardinality(Due(c, b)) <= Cardinality(Due(c, a)) + v
<1> DEFINE new == {p} \X (1..v)
           all == Due(c, a) \cup new
<1>1. IsFiniteSet(new) /\ Cardinality(new) = v
  BY DueOfOne
<1>2. \A y \in Due(c, b) : y \in all
  <2> SUFFICES ASSUME NEW y \in Due(c, b) PROVE y \in all
    OBVIOUS
  <2>1. y \in Requests \X Nat /\ y = <<y[1], y[2]>>
    BY DEF Due
  <2>2. CASE y[1] = p
    BY <2>1, <2>2 DEF Due
  <2>3. CASE y[1] # p
    BY <2>1, <2>3 DEF Due
  <2> QED BY <2>2, <2>3
<1> HIDE DEF new
<1>3. /\ IsFiniteSet(all)
      /\ Cardinality(all) =
            Cardinality(Due(c, a)) + Cardinality(new) - Cardinality(Due(c, a) \cap new)
  BY <1>1, FS_Union
<1>4. IsFiniteSet(Due(c, a) \cap new)
  <2>1. Due(c, a) \cap new \in SUBSET new
    OBVIOUS
  <2> QED BY <1>1, <2>1, FS_Subset
<1>5. Due(c, b) \in SUBSET all
  BY <1>2
<1>6. IsFiniteSet(Due(c, b)) /\ Cardinality(Due(c, b)) <= Cardinality(all)
  BY <1>3, <1>5, FS_Subset
<1>7. /\ Cardinality(Due(c, a)) \in Nat /\ Cardinality(Due(c, b)) \in Nat
      /\ Cardinality(all) \in Nat /\ Cardinality(Due(c, a) \cap new) \in Nat
  BY <1>3, <1>4, <1>6, FS_CardinalityType
<1> QED BY <1>1, <1>3, <1>6, <1>7

\* What p inserts was due.
LEMMA DueLess ==
    ASSUME NEW c, NEW a, NEW b, IsFiniteSet(Due(c, a)), NEW p \in Requests,
           NEW v \in Nat, a[p].saldoIns = v, a[p].pc = "payInsert", a[p].comanda = c,
           b[p].saldoIns = 0, \A q \in Requests \ {p} : b[q] = a[q]
    PROVE  /\ IsFiniteSet(Due(c, b))
           /\ Cardinality(Due(c, b)) + v <= Cardinality(Due(c, a))
<1> DEFINE old == {p} \X (1..v)
           all == Due(c, b) \cup old
<1>1. IsFiniteSet(old) /\ Cardinality(old) = v
  BY DueOfOne
<1>2. \A y \in all : y \in Due(c, a)
  <2> SUFFICES ASSUME NEW y \in all PROVE y \in Due(c, a)
    OBVIOUS
  <2>1. CASE y \in old
    <3>1. y = <<p, y[2]>> /\ y[1] = p /\ y[2] \in 1..v /\ y[2] \in Nat
      BY <2>1
    <3> QED BY <3>1 DEF Due
  <2>2. CASE y \in Due(c, b)
    <3>1. y \in Requests \X Nat /\ y[2] \in 1..b[y[1]].saldoIns
      BY <2>2 DEF Due
    <3>2. y[1] # p
      BY <3>1
    <3> QED BY <2>2, <3>1, <3>2 DEF Due
  <2> QED BY <2>1, <2>2
<1>3. Due(c, b) \cap old = {}
  BY DEF Due
<1> HIDE DEF old
<1>4. Due(c, b) \in SUBSET Due(c, a) /\ all \in SUBSET Due(c, a)
  BY <1>2
<1>5. IsFiniteSet(Due(c, b))
  BY <1>4, FS_Subset
<1>6. /\ IsFiniteSet(all)
      /\ Cardinality(all) =
            Cardinality(Due(c, b)) + Cardinality(old) - Cardinality(Due(c, b) \cap old)
  BY <1>1, <1>5, FS_Union
<1>7. Cardinality(Due(c, b) \cap old) = 0
  BY <1>3, FS_EmptySet
<1>8. Cardinality(all) <= Cardinality(Due(c, a))
  BY <1>4, FS_Subset
<1>9. /\ Cardinality(Due(c, a)) \in Nat /\ Cardinality(Due(c, b)) \in Nat
      /\ Cardinality(all) \in Nat
  BY <1>5, <1>6, FS_CardinalityType
<1> QED BY <1>1, <1>5, <1>6, <1>7, <1>8, <1>9

LEMMA WalletSame ==
    ASSUME TabInv, WalletInv, UNCHANGED <<pagosSaldo, debitado>>,
           NEW p \in Requests, NEW r, Go(p, r),
           r.pc # "payInsert" \/ r.saldoIns = 0
    PROVE  WalletInv'
<1> SUFFICES ASSUME NEW c \in ComandaIds
             PROVE  /\ IsFiniteSet(Due(c, req'))
                    /\ pagosSaldo[c] + Cardinality(Due(c, req')) <= debitado[c]
  BY DEF WalletInv
<1>1. req'[p] = r /\ \A q \in Requests \ {p} : req'[q] = req[q]
  BY DEF Go, TabInv, TablesOK
<1>2. pagosSaldo[c] \in Nat /\ debitado[c] \in Nat
  BY DEF TabInv, TablesOK
<1>3. IsFiniteSet(Due(c, req)) /\ pagosSaldo[c] + Cardinality(Due(c, req)) <= debitado[c]
  BY DEF WalletInv
<1> HIDE DEF WalletInv
<1>4. \A q \in Requests :
         req'[q].pc = "payInsert" /\ req'[q].comanda = c =>
            \/ req'[q].saldoIns = 0
            \/ /\ req[q].pc = "payInsert" /\ req[q].comanda = c
               /\ req[q].saldoIns = req'[q].saldoIns
  BY <1>1
<1> QED BY <1>2, <1>3, <1>4, DueStays

\* Steps that neither debit the wristband nor insert a payment.
LEMMA WalletAside ==
    ASSUME TabInv, WalletInv, NEW p \in Requests,
           \/ Start(p) \/ Abort(p) \/ TapFind(p) \/ RemoveFind(p) \/ RemoveItem(p)
           \/ \E c \in ComandaIds : TapInsert(p, c)
           \/ \E x \in ItemIds : AddItem(p, x)
           \/ RecalcRead(p) \/ RecalcSave(p) \/ SaveRow(p) \/ PayClose(p)
           \/ PayAlready(p) \/ PayUpdate(p) \/ PaySum(p)
    PROVE  WalletInv'
<1> DEFINE o == req[p]
           Aside(r) == /\ Go(p, r)
                       /\ r.pc # "payInsert" \/ r.saldoIns = 0
                       /\ UNCHANGED <<pagosSaldo, debitado>>
<1>0. o \in Request
  BY DEF TabInv, TablesOK
<1>1. Idle.pc = "idle" /\ \A pc, c, row : Lendo(pc, c, row).pc = pc
  BY DEF Idle, Lendo
<1>2. \A r : Aside(r) => WalletInv'
  BY WalletSame
<1>3. ASSUME NEW pc, pc # "payInsert", Go(p, [o EXCEPT !.pc = pc]),
             UNCHANGED <<pagosSaldo, debitado>>
      PROVE  WalletInv'
  BY <1>0, <1>2, <1>3 DEF Request
<1>4. ASSUME Go(p, Idle), UNCHANGED <<pagosSaldo, debitado>> PROVE WalletInv'
  BY <1>1, <1>2, <1>4
<1>5. ASSUME NEW pc, NEW c, NEW row, pc # "payInsert", Go(p, Lendo(pc, c, row)),
             UNCHANGED <<pagosSaldo, debitado>>
      PROVE  WalletInv'
  BY <1>1, <1>2, <1>5
<1>6. ASSUME NEW pc, NEW c, NEW row, NEW its, pc # "payInsert",
             Go(p, [Lendo(pc, c, row) EXCEPT !.itens = its]),
             UNCHANGED <<pagosSaldo, debitado>>
      PROVE  WalletInv'
  <2>1. [Lendo(pc, c, row) EXCEPT !.itens = its].pc = pc
    BY DEF Lendo, Idle
  <2> QED BY <1>2, <1>6, <2>1
<1> HIDE DEF Aside
<1>7. ASSUME NEW k \in CardIds, TapRead(p, k) PROVE WalletInv'
  <2>1. [Idle EXCEPT !.pc = "tapFind", !.card = k].pc = "tapFind"
    BY DEF Idle
  <2> QED BY <1>2, <1>7, <2>1 DEF TapRead, tables, Aside
<1>8. ASSUME NEW c \in ComandaIds, AddRead(p, c) PROVE WalletInv'
  BY <1>6, <1>8 DEF AddRead, tables
<1>9. ASSUME NEW c \in ComandaIds, NEW x \in ItemIds, RemoveRead(p, c, x)
      PROVE  WalletInv'
  <2>1. [Lendo("removeFind", c, NoComanda) EXCEPT !.item = x].pc = "removeFind"
    BY DEF Lendo, Idle
  <2> QED BY <1>2, <1>9, <2>1 DEF RemoveRead, tables, Aside
<1>10. ASSUME NEW c \in ComandaIds,
              \/ \E d \in {comandas[c].desconto} \cup 0..MaxDesconto : CloseRead(p, c, d)
              \/ ReopenRead(p, c) \/ CancelRead(p, c)
       PROVE  WalletInv'
  BY <1>5, <1>10 DEF CloseRead, ReopenRead, CancelRead, tables
<1>11. ASSUME NEW c \in ComandaIds, NEW saldo \in 0..MaxTotal, NEW outro \in 0..MaxTotal,
              PayRead(p, c, saldo, outro)
       PROVE  WalletInv'
  <2> DEFINE r == PayStart(c, saldo, outro, None)
  <2>1. r.pc # "payInsert"
    BY PayStartType DEF TabInv
  <2>2. Go(p, r) /\ UNCHANGED <<pagosSaldo, debitado>>
    BY <1>11 DEF PayRead, tables
  <2> QED BY <1>2, <2>1, <2>2 DEF Aside
<1>12. ASSUME NEW x \in ItemIds, AddItem(p, x) PROVE WalletInv'
  <2> DEFINE r == [o EXCEPT !.pc = "addNext",
                            !.itens[x] = IF @ > 0 THEN o.itens[x] + 1 ELSE 0]
  <2>1. r.pc = "addNext"
    BY <1>0 DEF Request
  <2>2. Go(p, r) /\ UNCHANGED <<pagosSaldo, debitado>>
    BY <1>12 DEF AddItem
  <2> QED BY <1>2, <2>1, <2>2 DEF Aside
<1>13. ASSUME PaySum(p) PROVE WalletInv'
  <2>1. CASE Go(p, [o EXCEPT !.pc = "payAlready"])
    BY <1>3, <1>13, <2>1 DEF PaySum, tables
  <2>2. CASE Go(p, [o EXCEPT !.jaPago = pagos[o.comanda],
                      !.pc = IF o.saldo > 0 THEN "payDebit" ELSE "payInsert"])
    <3> DEFINE r == [o EXCEPT !.jaPago = pagos[o.comanda],
                      !.pc = IF o.saldo > 0 THEN "payDebit" ELSE "payInsert"]
    <3>1. o.pc = "paySum" /\ UNCHANGED <<pagosSaldo, debitado>>
      BY <1>13 DEF PaySum, At, tables
    <3>2. o.saldoIns = o.saldo /\ o.saldo \in Nat
      BY <1>0, <3>1, ReqType DEF TabInv, AllBacked, Backed
    <3>3. r.pc # "payInsert" \/ r.saldoIns = 0
      BY <1>0, <3>2 DEF Request
    <3> QED BY <1>2, <2>2, <3>1, <3>3 DEF Aside
  <2> QED BY <1>13, <2>1, <2>2 DEF PaySum
<1>14. ASSUME RecalcRead(p) PROVE WalletInv'
  BY <1>6, <1>14 DEF RecalcRead, tables
<1>15. ASSUME TapFind(p) \/ RemoveFind(p) \/ RemoveItem(p) \/ PayClose(p) PROVE WalletInv'
  BY <1>3, <1>4, <1>15 DEF TapFind, RemoveFind, RemoveItem, PayClose, Finish, tables
<1>16. ASSUME \/ Abort(p) \/ (\E c \in ComandaIds : TapInsert(p, c))
              \/ RecalcSave(p) \/ SaveRow(p) \/ PayAlready(p) \/ PayUpdate(p)
       PROVE  WalletInv'
  BY <1>4, <1>16 DEF Abort, TapInsert, RecalcSave, SaveRow, PayAlready, PayUpdate, Finish,
     tables
<1> QED BY <1>7, <1>8, <1>9, <1>10, <1>11, <1>12, <1>13, <1>14, <1>15, <1>16 DEF Start

LEMMA WalletDebit ==
    ASSUME TabInv, WalletInv, NEW p \in Requests, PayDebit(p)
    PROVE  WalletInv'
<1> DEFINE o == req[p]
           r == [o EXCEPT !.pc = "payInsert"]
<1>1. /\ debitado' = [debitado EXCEPT ![o.comanda] = @ + o.saldo] /\ o.pc = "payDebit"
      /\ Go(p, r) /\ pagosSaldo' = pagosSaldo
  BY DEF PayDebit, At
<1>2. o \in Request /\ o.comanda \in ComandaIds /\ Backed(o, pagos)
  BY <1>1, OnItsRow DEF OnComanda
<1>3. o.saldo \in Nat /\ o.saldoIns = o.saldo
  BY <1>1, <1>2, ReqType DEF Backed
<1>4. req'[p] = r /\ \A q \in Requests \ {p} : req'[q] = req[q]
  BY <1>1 DEF Go, TabInv, TablesOK
<1>5. r.pc = "payInsert" /\ r.comanda = o.comanda /\ r.saldoIns = o.saldo
  BY <1>2, <1>3 DEF Request
<1> HIDE DEF r
<1> SUFFICES ASSUME NEW c \in ComandaIds
             PROVE  /\ IsFiniteSet(Due(c, req'))
                    /\ pagosSaldo[c] + Cardinality(Due(c, req')) <= debitado'[c]
  BY <1>1 DEF WalletInv
<1>6. /\ IsFiniteSet(Due(c, req))
      /\ pagosSaldo[c] + Cardinality(Due(c, req)) <= debitado[c]
      /\ pagosSaldo[c] \in Nat /\ debitado[c] \in Nat
  BY DEF WalletInv, TabInv, TablesOK
<1>7. CASE c = o.comanda
  <2>1. debitado'[c] = debitado[c] + o.saldo
    BY <1>1, <1>7 DEF TabInv, TablesOK
  <2>2. /\ IsFiniteSet(Due(c, req'))
        /\ Cardinality(Due(c, req')) <= Cardinality(Due(c, req)) + o.saldo
    BY <1>3, <1>4, <1>5, <1>6, DueMore
  <2>3. Cardinality(Due(c, req')) \in Nat /\ Cardinality(Due(c, req)) \in Nat
    BY <1>6, <2>2, FS_CardinalityType
  <2> QED BY <1>3, <1>6, <2>1, <2>2, <2>3
<1>8. CASE c # o.comanda
  <2>1. debitado'[c] = debitado[c]
    BY <1>1, <1>8 DEF TabInv, TablesOK
  <2>2. \A q \in Requests :
           req'[q].pc = "payInsert" /\ req'[q].comanda = c =>
              \/ req'[q].saldoIns = 0
              \/ /\ req[q].pc = "payInsert" /\ req[q].comanda = c
                 /\ req[q].saldoIns = req'[q].saldoIns
    BY <1>4, <1>5, <1>8
  <2> QED BY <1>6, <2>1, <2>2, DueStays
<1> QED BY <1>7, <1>8

LEMMA WalletInsert ==
    ASSUME TabInv, WalletInv, NEW p \in Requests, NEW s \in {0, req[p].saldoIns},
           NEW d \in {0, req[p].outroIns}, PayInsert(p, s, d)
    PROVE  WalletInv'
<1> DEFINE o == req[p]
<1>1. PICK r \in Request :
         /\ r.pc \in Paying /\ r.comanda = o.comanda /\ s \in Nat
         /\ r.saldoIns = o.saldoIns - s
         /\ pagosSaldo' = [pagosSaldo EXCEPT ![o.comanda] = @ + s]
         /\ Go(p, r) /\ o.pc = "payInsert" /\ debitado' = debitado
         /\ r.pc = "payUpdate" => r.saldoIns = 0
  BY PayInsertStep
<1>2. o \in Request /\ o.comanda \in ComandaIds /\ o.saldoIns \in Nat
  BY <1>1, OnItsRow, ReqType DEF OnComanda
<1>3. req'[p] = r /\ \A q \in Requests \ {p} : req'[q] = req[q]
  BY <1>1 DEF Go, TabInv, TablesOK
<1> SUFFICES ASSUME NEW c \in ComandaIds
             PROVE  /\ IsFiniteSet(Due(c, req'))
                    /\ pagosSaldo'[c] + Cardinality(Due(c, req')) <= debitado[c]
  BY <1>1 DEF WalletInv
<1>4. /\ IsFiniteSet(Due(c, req))
      /\ pagosSaldo[c] + Cardinality(Due(c, req)) <= debitado[c]
      /\ pagosSaldo[c] \in Nat /\ debitado[c] \in Nat
  BY DEF WalletInv, TabInv, TablesOK
<1>5. CASE c = o.comanda /\ s = o.saldoIns
  <2>1. pagosSaldo'[c] = pagosSaldo[c] + s
    BY <1>1, <1>5 DEF TabInv, TablesOK
  <2>2. r.saldoIns = 0
    BY <1>1, <1>2, <1>5
  <2>3. /\ IsFiniteSet(Due(c, req'))
        /\ Cardinality(Due(c, req')) + s <= Cardinality(Due(c, req))
    BY <1>1, <1>3, <1>4, <1>5, <2>2, DueLess
  <2>4. Cardinality(Due(c, req')) \in Nat /\ Cardinality(Due(c, req)) \in Nat
    BY <1>4, <2>3, FS_CardinalityType
  <2> QED BY <1>1, <1>4, <2>1, <2>3, <2>4
<1>6. CASE c # o.comanda \/ s = 0
  <2>1. pagosSaldo'[c] = pagosSaldo[c]
    BY <1>1, <1>6 DEF TabInv, TablesOK
  <2>2. s = 0 => r.saldoIns = o.saldoIns
    BY <1>1, <1>2
  <2>3. \A q \in Requests :
           req'[q].pc = "payInsert" /\ req'[q].comanda = c =>
              \/ req'[q].saldoIns = 0
              \/ /\ req[q].pc = "payInsert" /\ req[q].comanda = c
                 /\ req[q].saldoIns = req'[q].saldoIns
    BY <1>1, <1>3, <1>6, <2>2
  <2> QED BY <1>4, <2>1, <2>3, DueStays
<1> QED BY <1>5, <1>6

LEMMA WalletKept == ASSUME TabInv, WalletInv, Step PROVE WalletInv'
<1>1. CASE UNCHANGED <<pagosSaldo, debitado, req>>
  BY <1>1 DEF WalletInv
<1>2. ASSUME NEW p \in Requests, Start(p) \/ Continue(p) \/ Abort(p) PROVE WalletInv'
  BY <1>2, WalletAside, WalletDebit, WalletInsert DEF Continue
<1>3. \A k \in CardIds, st \in CardStatus :
         SetCard(k, st) => UNCHANGED <<pagosSaldo, debitado, req>>
  BY DEF SetCard
<1> QED BY <1>1, <1>2, <1>3 DEF Step

LEMMA WalletStep == TabInv /\ WalletInv /\ [Next]_vars => WalletInv'
<1>1. TabInv /\ WalletInv /\ Next => WalletInv'
  BY WalletKept DEF Next
<1>2. WalletInv /\ UNCHANGED vars => WalletInv'
  BY DEF WalletInv, vars, tables
<1> QED BY <1>1, <1>2

LEMMA WalletInit == Init => WalletInv
<1> SUFFICES ASSUME Init, NEW c \in ComandaIds
             PROVE  /\ IsFiniteSet(Due(c, req))
                    /\ pagosSaldo[c] + Cardinality(Due(c, req)) <= debitado[c]
  BY DEF WalletInv
<1>1. Due(c, req) = {}
  BY IdleType DEF Init, Due
<1> QED BY <1>1, FS_EmptySet DEF Init

LEMMA WalletTaken == TabInv /\ WalletInv => WalletPaymentsDebited
<1> SUFFICES ASSUME TabInv, WalletInv, NEW c \in ComandaIds
             PROVE  pagosSaldo[c] <= debitado[c]
  BY DEF WalletPaymentsDebited
<1>1. /\ Cardinality(Due(c, req)) \in Nat
      /\ pagosSaldo[c] + Cardinality(Due(c, req)) <= debitado[c]
      /\ pagosSaldo[c] \in Nat /\ debitado[c] \in Nat
  BY FS_CardinalityType DEF WalletInv, TabInv, TablesOK
<1> QED BY <1>1

\* What the payments of a comanda say came from the wristband was taken from its
\* balance, whatever overlaps and wherever pay stops.
THEOREM WalletPaymentsWereTaken == Spec => []WalletPaymentsDebited
BY TabInit, TabStep, WalletInit, WalletStep, WalletTaken, PTL DEF Spec
-----------------------------------------------------------------------------
(* Items stay with the comanda they were inserted for *)

Grow == sobrepostos \subseteq sobrepostos' /\ interrompidos \subseteq interrompidos'

LEMMA ApartStep == ASSUME Historia PROVE Apart'
BY DEF Apart, Historia, Cruzados

LEMMA StopGrows ==
    ASSUME NEW p, NEW meio, Stop(p, meio) PROVE interrompidos \subseteq interrompidos'
BY DEF Stop

LEMMA GrowKept == ASSUME Step, Historia PROVE Grow
BY StopGrows DEF Step, Historia, Abort, Grow

LEMMA GrowStep == ASSUME Next PROVE Grow
BY GrowKept DEF Next

\* A step that writes no item: what p holds it held, or just read.
LEMMA HeldRead ==
    ASSUME TabInv, HeldInv, NEW p \in Requests, NEW r, Go(p, r), itens' = itens,
           \A x \in ItemIds : Holds(r, x) =>
              \/ Holds(req[p], x) /\ r.comanda = req[p].comanda
              \/ itens[x].comanda = r.comanda /\ r.comanda \in ComandaIds
    PROVE  HeldInv'
<1>1. req'[p] = r /\ \A q \in Requests \ {p} : req'[q] = req[q]
  BY DEF Go, TabInv, TablesOK
<1>2. ASSUME NEW q \in Requests, NEW x \in ItemIds, Holds(req'[q], x)
      PROVE  itens[x].comanda \in {None, req'[q].comanda}
  BY <1>1, <1>2 DEF HeldInv
<1>3. ASSUME NEW q \in Requests, q # p, NEW x \in ItemIds, Holds(req[q], x), Holds(r, x)
      PROVE  req[q].comanda = r.comanda
  BY <1>3, ComandasAssumption DEF HeldInv
<1>4. ASSUME NEW a \in Requests, NEW b \in Requests, NEW x \in ItemIds,
             Holds(req'[a], x), Holds(req'[b], x)
      PROVE  req'[a].comanda = req'[b].comanda
  BY <1>1, <1>3, <1>4 DEF HeldInv
<1> QED BY <1>2, <1>4 DEF HeldInv, Holds

LEMMA HoldsNothing ==
    ASSUME NEW r, r.itens = NoItens, r.pc # "removeItem", NEW x \in ItemIds
    PROVE  ~Holds(r, x)
BY DEF Holds, NoItens

\* Item rows written by p are of its comanda, before and after.
LEMMA ItemsOfOne ==
    ASSUME TabInv, HeldInv, NEW p \in Requests, req[p].comanda \in ComandaIds,
           \/ \E x \in ItemIds : AddItem(p, x)
           \/ RemoveItem(p)
    PROVE  /\ HeldInv'
           /\ \A c \in ComandaIds \ {req[p].comanda} : Lista(itens', c) = Lista(itens, c)
           /\ \A c \in ComandaIds \ {req[p].comanda}, x \in ItemIds :
                 itens'[x].comanda = c => itens[x].comanda = c
<1> DEFINE o == req[p]
<1>0. o \in Request /\ itens \in [ItemIds -> ItemRow]
  BY DEF TabInv, TablesOK
<1>1. ASSUME NEW x \in ItemIds, itens'[x].comanda \in {None, o.comanda},
             \A y \in ItemIds \ {x} : itens'[y] = itens[y],
             itens[x].comanda \in {None, o.comanda}
      PROVE  /\ \A c \in ComandaIds \ {o.comanda} : Lista(itens', c) = Lista(itens, c)
             /\ \A c \in ComandaIds \ {o.comanda}, y \in ItemIds :
                   itens'[y].comanda = c => itens[y].comanda = c
  <2>1. ASSUME NEW c \in ComandaIds \ {o.comanda}, NEW y \in ItemIds
        PROVE  itens'[y] = itens[y] \/ (itens'[y].comanda # c /\ itens[y].comanda # c)
    BY <1>1, ComandasAssumption
  <2> QED BY <2>1 DEF Lista
<1>2. ASSUME NEW x \in ItemIds, AddItem(p, x)
      PROVE  /\ HeldInv' /\ itens'[x].comanda \in {None, o.comanda}
             /\ \A y \in ItemIds \ {x} : itens'[y] = itens[y]
             /\ itens[x].comanda \in {None, o.comanda}
  <2> DEFINE v == o.itens[x] + 1
             r == [o EXCEPT !.pc = "addNext", !.itens[x] = IF @ > 0 THEN v ELSE 0]
  <2>1. /\ Go(p, r)
        /\ o.itens[x] > 0 \/ ItemNovo(x)
        /\ itens' = [itens EXCEPT ![x] = [comanda |-> o.comanda, total |-> v]]
    BY <1>2 DEF AddItem
  <2>2. o.itens \in [ItemIds -> Nat]
    BY <1>0, ReqType
  <2>3. /\ r.pc = "addNext" /\ r.comanda = o.comanda
        /\ \A y \in ItemIds \ {x} : r.itens[y] = o.itens[y]
        /\ r.itens[x] = IF o.itens[x] > 0 THEN v ELSE 0
    BY <1>0, <2>2 DEF Request
  <2>4. itens'[x].comanda = o.comanda /\ \A y \in ItemIds \ {x} : itens'[y] = itens[y]
    BY <1>0, <2>1
  <2>5. req'[p] = r /\ \A q \in Requests \ {p} : req'[q] = req[q]
    BY <2>1 DEF Go, TabInv, TablesOK
  <2> HIDE DEF r, v
  <2>6. itens[x].comanda \in {None, o.comanda}
    BY <2>1 DEF ItemNovo, HeldInv, Holds
  <2>7. \A y \in ItemIds : Holds(r, y) => Holds(o, y)
    BY <2>3 DEF Holds
  <2>8. ASSUME NEW q \in Requests, Holds(req[q], x) PROVE req[q].comanda = o.comanda
    <3>1. CASE o.itens[x] > 0
      BY <2>8, <3>1 DEF HeldInv, Holds
    <3>2. CASE ItemNovo(x)
      BY <2>8, <3>2 DEF ItemNovo, Holds
    <3> QED BY <2>1, <3>1, <3>2
  <2>9. ASSUME NEW q \in Requests, NEW y \in ItemIds, Holds(req'[q], y)
         PROVE  Holds(req[q], y) /\ req'[q].comanda = req[q].comanda
    BY <2>3, <2>5, <2>7, <2>9
  <2>10. ASSUME NEW q \in Requests, NEW y \in ItemIds, Holds(req'[q], y)
         PROVE  itens'[y].comanda \in {None, req'[q].comanda}
    <3>1. Holds(req[q], y) /\ req'[q].comanda = req[q].comanda
      BY <2>9, <2>10
    <3>2. itens[y].comanda \in {None, req[q].comanda}
      BY <3>1 DEF HeldInv
    <3> QED BY <2>4, <2>8, <3>1, <3>2
  <2>11. ASSUME NEW a \in Requests, NEW b \in Requests, NEW y \in ItemIds,
                Holds(req'[a], y), Holds(req'[b], y)
         PROVE  req'[a].comanda = req'[b].comanda
    BY <2>9, <2>11 DEF HeldInv
  <2>12. HeldInv'
    BY <2>10, <2>11 DEF HeldInv, Holds
  <2> QED BY <2>4, <2>6, <2>12
<1>3. ASSUME RemoveItem(p)
      PROVE  /\ HeldInv'
             /\ \A c \in ComandaIds \ {o.comanda} : Lista(itens', c) = Lista(itens, c)
             /\ \A c \in ComandaIds \ {o.comanda}, y \in ItemIds :
                   itens'[y].comanda = c => itens[y].comanda = c
  <2> DEFINE r == [o EXCEPT !.pc = "recalcRead"]
  <2>1. /\ itens' = [itens EXCEPT ![o.item] = NoItem] /\ o.pc = "removeItem" /\ Go(p, r)
    BY <1>3 DEF RemoveItem, At
  <2>2. r.pc = "recalcRead" /\ r.comanda = o.comanda /\ r.itens = o.itens
    BY <1>0 DEF Request
  <2>3. req'[p] = r /\ \A q \in Requests \ {p} : req'[q] = req[q]
    BY <2>1 DEF Go, TabInv, TablesOK
  <2> HIDE DEF r
  <2>4. \A y \in ItemIds : itens'[y] = itens[y] \/ (itens'[y].comanda = None /\ y = o.item)
    BY <1>0, <2>1 DEF NoItem
  <2>5. ASSUME NEW q \in Requests, NEW y \in ItemIds, Holds(req'[q], y)
        PROVE  Holds(req[q], y) /\ req'[q].comanda = req[q].comanda
    BY <2>2, <2>3, <2>5 DEF Holds
  <2>6. HeldInv'
    <3>1. ASSUME NEW q \in Requests, NEW y \in ItemIds, Holds(req'[q], y)
          PROVE  itens'[y].comanda \in {None, req'[q].comanda}
      BY <2>4, <2>5, <3>1 DEF HeldInv
    <3>2. ASSUME NEW a \in Requests, NEW b \in Requests, NEW y \in ItemIds,
                 Holds(req'[a], y), Holds(req'[b], y)
          PROVE  req'[a].comanda = req'[b].comanda
      BY <2>5, <3>2 DEF HeldInv
    <3> QED BY <3>1, <3>2 DEF HeldInv, Holds
  <2>7. CASE o.item \in ItemIds
    <3>1. itens[o.item].comanda \in {None, o.comanda}
      BY <2>1, <2>7 DEF HeldInv, Holds
    <3>2. itens'[o.item].comanda \in {None, o.comanda}
      BY <1>0, <2>1, <2>7 DEF NoItem
    <3> QED BY <1>1, <2>4, <2>6, <2>7, <3>1, <3>2
  <2>8. CASE o.item \notin ItemIds
    <3>1. itens' = itens
      BY <1>0, <2>1, <2>8
    <3> QED BY <2>6, <3>1
  <2> QED BY <2>7, <2>8
<1> QED BY <1>1, <1>2, <1>3
-----------------------------------------------------------------------------
(* What a step of p leaves to the others: it writes comandas of its own card *)

Own(p) ==
    \A c \in ComandaIds :
        \/ /\ comandas'[c] = comandas[c] /\ pagos'[c] = pagos[c]
           /\ Lista(itens', c) = Lista(itens, c)
        \/ /\ req[p].card \in CardIds
           /\ comandas'[c].status # "none" /\ comandas'[c].card = req[p].card
           /\ comandas[c].status = "none" \/ comandas[c].card = req[p].card

LEMMA OthersKnow ==
    ASSUME TabInv, Apart, AllKnow, Grow, NEW p \in Requests, Own(p),
           NEW q \in Requests, q # p
    PROVE  Knows(req[q], comandas', itens', pagos', sobrepostos')
<1> SUFFICES ASSUME req[q].pc # "idle", req[q].card \notin sobrepostos'
             PROVE  Current(req[q], comandas', itens', pagos')
  BY DEF Knows
<1>1. Named(req[q], comandas) /\ req[q].card \in CardIds
  BY DEF TabInv, AllNamed, Named
<1>2. Current(req[q], comandas, itens, pagos)
  BY DEF AllKnow, Knows, Grow
<1>3. req[p].card # req[q].card
  BY <1>1 DEF Apart, Grow
<1>4. req[q].pc \in OnComanda =>
         LET c == req[q].comanda
         IN  /\ comandas'[c] = comandas[c] /\ pagos'[c] = pagos[c]
             /\ Lista(itens', c) = Lista(itens, c)
  BY <1>1, <1>3 DEF Named, Own
<1>5. req[q].pc = "tapInsert" =>
         \A c \in ComandaIds : comandas'[c].card = req[q].card =>
                                  comandas'[c].status \notin Aberta
  BY <1>2, <1>3 DEF Current, Own
<1>6. CASE req[q].pc \in OnComanda
  BY <1>2, <1>4, <1>6 DEF Current, OnComanda, WhileOpen, WhilePending
<1>7. CASE req[q].pc \notin OnComanda
  BY <1>5, <1>7 DEF Current, OnComanda, WhileOpen, WhilePending
<1> QED BY <1>6, <1>7

LEMMA GoKnows ==
    ASSUME TabInv, Apart, AllKnow, Grow, NEW p \in Requests, Own(p), NEW r, Go(p, r),
           Knows(r, comandas', itens', pagos', sobrepostos')
    PROVE  AllKnow'
<1>1. req'[p] = r /\ \A q \in Requests \ {p} : req'[q] = req[q]
  BY DEF Go, TabInv, TablesOK
<1> QED BY <1>1, OthersKnow DEF AllKnow

LEMMA IdleKnows == ASSUME NEW cs, NEW its, NEW pg, NEW sob PROVE Knows(Idle, cs, its, pg, sob)
BY IdleType DEF Knows

\* A comanda that the step does not touch.
LEMMA RowStays ==
    ASSUME NEW d \in ComandaIds, RowGood(d), Grow, comandas'[d] = comandas[d],
           pagos'[d] = pagos[d], Lista(itens', d) = Lista(itens, d),
           \A pcs \in {Paying, Counting} :
              Busy(d, pcs) => \/ Busy(d, pcs)'
                              \/ comandas[d].card \in interrompidos' \cup sobrepostos'
    PROVE  RowGood(d)'
<1>1. ItensDe(d)' = ItensDe(d)
  BY DEF ItensDe, Lista
<1>2. RowFinal(d) => RowFinal(d)'
  BY DEF RowFinal
<1>3. comandas[d].card \notin interrompidos' \cup sobrepostos' /\ RowCounts(d) => RowCounts(d)'
  BY <1>1 DEF RowCounts
<1> QED BY <1>2, <1>3 DEF RowGood, Grow

LEMMA ActiveStays ==
    ASSUME OneActiveComanda, Grow, UNCHANGED comandas PROVE OneActiveComanda'
BY DEF OneActiveComanda, Separada, Grow

LEMMA FreshStays ==
    ASSUME Fresh, CardsStay,
           \A c \in ComandaIds : comandas[c].status = "none" =>
              /\ pagos'[c] = pagos[c]
              /\ \A x \in ItemIds : itens'[x].comanda = c => itens[x].comanda = c
    PROVE  Fresh'
BY DEF Fresh, CardsStay

\* Steps that only move the slot of p.
LEMMA SheetRead ==
    ASSUME TabInv, SheetInv, Grow, NEW p \in Requests, NEW r, Go(p, r), UNCHANGED tables,
           Knows(r, comandas, itens, pagos, sobrepostos'),
           \A x \in ItemIds : Holds(r, x) =>
              \/ Holds(req[p], x) /\ r.comanda = req[p].comanda
              \/ itens[x].comanda = r.comanda /\ r.comanda \in ComandaIds,
           req[p].pc \in Paying \cup Counting =>
              \/ req[p].card \in interrompidos'
              \/ req[p].pc \in Counting /\ r.pc \in Counting /\ r.comanda = req[p].comanda
    PROVE  HeldInv' /\ Fresh' /\ AllKnow' /\ RowsGood' /\ OneActiveComanda'
<1>1. UNCHANGED <<comandas, itens, pagos>>
  BY DEF tables
<1>2. HeldInv'
  BY <1>1, HeldRead DEF SheetInv
<1>3. Fresh'
  BY <1>1 DEF SheetInv, Fresh
<1>4. Own(p)
  BY <1>1 DEF Own
<1>5. AllKnow'
  BY <1>1, <1>4, GoKnows DEF SheetInv
<1>6. req'[p] = r /\ \A q \in Requests \ {p} : req'[q] = req[q]
  BY DEF Go, TabInv, TablesOK
<1>7. ASSUME NEW d \in ComandaIds PROVE RowGood(d)'
  <2>1. RowGood(d)
    BY DEF SheetInv, RowsGood
  <2>2. ASSUME NEW pcs \in {Paying, Counting}, Busy(d, pcs)
        PROVE  Busy(d, pcs)' \/ comandas[d].card \in interrompidos'
    <3>1. PICK q \in Requests : req[q].pc \in pcs /\ req[q].comanda = d
      BY <2>2 DEF Busy
    <3>2. CASE q # p
      BY <1>6, <3>1, <3>2 DEF Busy
    <3>3. CASE q = p
      <4>1. comandas[d].card = req[p].card
        BY <2>2, <3>1, <3>3, OnItsRow DEF Paying, Counting, OnComanda
      <4>2. CASE req[p].pc \in Counting /\ r.pc \in Counting /\ r.comanda = req[p].comanda
        BY <1>6, <2>2, <3>1, <3>3, <4>2 DEF Busy, Paying, Counting
      <4> QED BY <3>1, <3>3, <4>1, <4>2, <2>2
    <3> QED BY <3>2, <3>3
  <2> QED BY <1>1, <2>1, <2>2, RowStays
<1>8. OneActiveComanda'
  BY <1>1, ActiveStays DEF SheetInv
<1> QED BY <1>2, <1>3, <1>5, <1>7, <1>8 DEF RowsGood

\* What the row of a comanda must be when p has saved it.
RowOk(row, pg) ==
    /\ row.status = "paid" => row.total <= pg /\ row.totalPago = row.total
    /\ row.status = "cancelled" => pg = 0

RowCalm(row, pg, soma) ==
    /\ row.status = "open" => pg = 0
    /\ pg <= row.total
    /\ row.status \in Aberta => row.totalPago = pg
    /\ row.subtotal = soma /\ row.total = ComDesconto(row.subtotal, row.desconto)

\* Steps that save a comanda of the card of p, and nothing else but its slot.
LEMMA SheetSave ==
    ASSUME TabInv, SheetInv, Grow, NEW p \in Requests, NEW r, Go(p, r), CardsStay,
           NEW c \in ComandaIds, NEW row, Grava(c, row), UNCHANGED <<itens, pagos>>,
           req[p].card \in CardIds, row.card = req[p].card, row.status # "none",
           comandas[c].status = "none" \/ comandas[c].card = req[p].card,
           req[p].pc \in Paying \cup Counting => req[p].comanda = c,
           \A x \in ItemIds : Holds(r, x) => Holds(req[p], x) /\ r.comanda = req[p].comanda,
           Knows(r, comandas', itens, pagos, sobrepostos'),
           req[p].card \notin sobrepostos' =>
              /\ RowOk(row, pagos[c])
              /\ row.status \in Aberta =>
                    \A d \in ComandaIds \ {c} :
                        comandas[d].card = req[p].card => comandas[d].status \notin Aberta
              /\ req[p].card \notin interrompidos' => RowCalm(row, pagos[c], Soma(ItensDe(c)))
    PROVE  HeldInv' /\ Fresh' /\ AllKnow' /\ RowsGood' /\ OneActiveComanda'
<1>1. comandas'[c] = row /\ \A d \in ComandaIds \ {c} : comandas'[d] = comandas[d]
  BY DEF Grava, TabInv, TablesOK
<1>2. HeldInv'
  BY HeldRead DEF SheetInv
<1>3. Fresh'
  BY FreshStays DEF SheetInv
<1>4. Own(p)
  BY <1>1 DEF Own
<1>5. AllKnow'
  BY <1>4, GoKnows DEF SheetInv
<1>6. req'[p] = r /\ \A q \in Requests \ {p} : req'[q] = req[q]
  BY DEF Go, TabInv, TablesOK
<1>7. ASSUME NEW d \in ComandaIds, d # c PROVE RowGood(d)'
  <2>1. RowGood(d)
    BY DEF SheetInv, RowsGood
  <2>2. ASSUME NEW pcs \in {Paying, Counting}, Busy(d, pcs)
        PROVE  Busy(d, pcs)'
    BY <1>6, <1>7, <2>2 DEF Busy
  <2> QED BY <1>1, <1>7, <2>1, <2>2, RowStays
<1>8. RowGood(c)'
  <2>1. ItensDe(c)' = ItensDe(c)
    BY DEF ItensDe
  <2> QED BY <1>1, <2>1 DEF RowGood, RowFinal, RowCounts, RowOk, RowCalm
<1>9. OneActiveComanda'
  <2> SUFFICES ASSUME NEW a \in ComandaIds, NEW b \in ComandaIds, Separada(a)',
                      comandas'[a].status \in Aberta, comandas'[b].status \in Aberta,
                      comandas'[a].card = comandas'[b].card
               PROVE  a = b
    BY DEF OneActiveComanda
  <2>1. CASE a # c /\ b # c
    BY <1>1, <2>1 DEF SheetInv, OneActiveComanda, Separada, Grow
  <2>2. CASE a = c \/ b = c
    BY <1>1, <2>2 DEF Separada
  <2> QED BY <2>1, <2>2
<1> QED BY <1>2, <1>3, <1>5, <1>7, <1>8, <1>9 DEF RowsGood

\* Steps that insert a payment or write items of the comanda c of p.
LEMMA SheetInsert ==
    ASSUME TabInv, SheetInv, Grow, NEW p \in Requests, NEW r, Go(p, r),
           NEW c \in ComandaIds, UNCHANGED comandas, req[p].comanda = c,
           req[p].pc \in OnComanda, HeldInv',
           \A d \in ComandaIds \ {c} : /\ pagos'[d] = pagos[d]
                                       /\ Lista(itens', d) = Lista(itens, d)
                                       /\ \A x \in ItemIds : itens'[x].comanda = d =>
                                                             itens[x].comanda = d,
           Knows(r, comandas, itens', pagos', sobrepostos'),
           RowGood(c)'
    PROVE  HeldInv' /\ Fresh' /\ AllKnow' /\ RowsGood' /\ OneActiveComanda'
<1>1. /\ comandas[c].status # "none" /\ comandas[c].card = req[p].card
      /\ req[p].card \in CardIds
  BY OnItsRow
<1>2. Own(p)
  BY <1>1 DEF Own
<1>3. AllKnow'
  BY <1>2, GoKnows DEF SheetInv
<1>4. Fresh'
  BY <1>1, FreshStays DEF SheetInv, CardsStay
<1>5. req'[p] = r /\ \A q \in Requests \ {p} : req'[q] = req[q]
  BY DEF Go, TabInv, TablesOK
<1>6. ASSUME NEW d \in ComandaIds, d # c PROVE RowGood(d)'
  <2>1. RowGood(d)
    BY DEF SheetInv, RowsGood
  <2>2. ASSUME NEW pcs \in {Paying, Counting}, Busy(d, pcs)
        PROVE  Busy(d, pcs)'
    BY <1>5, <1>6, <2>2 DEF Busy
  <2> QED BY <1>6, <2>1, <2>2, RowStays
<1>7. OneActiveComanda'
  BY ActiveStays DEF SheetInv
<1> QED BY <1>3, <1>4, <1>6, <1>7 DEF RowsGood
-----------------------------------------------------------------------------
(* Cards on which requests never overlapped: reads *)

SheetNext == HeldInv' /\ Fresh' /\ AllKnow' /\ RowsGood' /\ OneActiveComanda'

LEMMA KnownNow ==
    ASSUME TabInv, SheetInv, Grow, NEW p \in Requests
    PROVE  /\ req[p] \in Request /\ Named(req[p], comandas) /\ Backed(req[p], pagos)
           /\ req[p].pc # "idle" /\ req[p].card \notin sobrepostos' =>
                 Current(req[p], comandas, itens, pagos)
BY DEF TabInv, TablesOK, AllNamed, AllBacked, SheetInv, AllKnow, Knows, Grow

LEMMA SheetTap ==
    ASSUME TabInv, SheetInv, Grow, NEW p \in Requests,
           (\E k \in CardIds : TapRead(p, k)) \/ TapFind(p)
    PROVE  SheetNext
<1>1. ASSUME NEW k \in CardIds, TapRead(p, k) PROVE SheetNext
  <2> DEFINE r == [Idle EXCEPT !.pc = "tapFind", !.card = k]
  <2>1. r.pc = "tapFind" /\ r.itens = NoItens
    BY DEF Idle
  <2>2. Go(p, r) /\ UNCHANGED tables /\ req[p].pc = "idle"
    BY <1>1 DEF TapRead, At
  <2> HIDE DEF r
  <2>3. Knows(r, comandas, itens, pagos, sobrepostos')
    BY <2>1 DEF Knows, Current, WhileOpen, WhilePending
  <2> QED BY <2>1, <2>2, <2>3, HoldsNothing, SheetRead DEF Paying, Counting, SheetNext
<1>2. ASSUME TapFind(p) PROVE SheetNext
  <2> DEFINE r == [req[p] EXCEPT !.pc = "tapInsert"]
  <2>1. req[p] \in Request
    BY KnownNow
  <2>2. /\ r.pc = "tapInsert" /\ r.itens = req[p].itens /\ r.card = req[p].card
        /\ r.comanda = req[p].comanda
    BY <2>1 DEF Request
  <2>3. UNCHANGED tables /\ req[p].pc = "tapFind"
    BY <1>2 DEF TapFind, At
  <2>4. CASE Go(p, Idle)
    BY <2>3, <2>4, IdleKnows, IdleType, HoldsNothing, SheetRead
    DEF Paying, Counting, SheetNext, Idle
  <2>5. CASE Go(p, r) /\ ComandaAtiva(req[p].card) = {}
    <3> HIDE DEF r
    <3>1. Knows(r, comandas, itens, pagos, sobrepostos')
      BY <2>2, <2>5 DEF Knows, Current, ComandaAtiva, WhileOpen, WhilePending
    <3> QED BY <2>2, <2>3, <2>5, <3>1, SheetRead DEF Paying, Counting, SheetNext, Holds
  <2> QED BY <1>2, <2>4, <2>5 DEF TapFind, Finish
<1> QED BY <1>1, <1>2

LEMMA SheetItemReads ==
    ASSUME TabInv, SheetInv, Grow, NEW p \in Requests, NEW c \in ComandaIds,
           AddRead(p, c) \/ \E x \in ItemIds : RemoveRead(p, c, x)
    PROVE  SheetNext
<1>1. ASSUME AddRead(p, c) PROVE SheetNext
  <2> DEFINE r == [Lendo("addItem", c, NoComanda) EXCEPT !.itens = ItensDe(c)]
  <2>1. r.pc = "addItem" /\ r.comanda = c /\ r.itens = ItensDe(c)
    BY DEF Lendo, Idle
  <2>2. /\ Go(p, r) /\ UNCHANGED tables /\ req[p].pc = "idle"
        /\ comandas[c].status = "open"
    BY <1>1 DEF AddRead, AceitaItens, At
  <2> HIDE DEF r
  <2>3. Knows(r, comandas, itens, pagos, sobrepostos')
    BY <2>1, <2>2 DEF Knows, Current, WhileOpen, WhilePending
  <2>4. \A x \in ItemIds : Holds(r, x) => itens[x].comanda = c
    BY <2>1 DEF Holds, ItensDe
  <2> QED BY <2>1, <2>2, <2>3, <2>4, SheetRead DEF Paying, Counting, SheetNext
<1>2. ASSUME NEW x \in ItemIds, RemoveRead(p, c, x) PROVE SheetNext
  <2> DEFINE r == [Lendo("removeFind", c, NoComanda) EXCEPT !.item = x]
  <2>1. r.pc = "removeFind" /\ r.comanda = c /\ r.itens = NoItens
    BY DEF Lendo, Idle
  <2>2. /\ Go(p, r) /\ UNCHANGED tables /\ req[p].pc = "idle"
        /\ comandas[c].status = "open"
    BY <1>2 DEF RemoveRead, At
  <2> HIDE DEF r
  <2>3. Knows(r, comandas, itens, pagos, sobrepostos')
    BY <2>1, <2>2 DEF Knows, Current, WhileOpen, WhilePending
  <2> QED BY <2>1, <2>2, <2>3, HoldsNothing, SheetRead DEF Paying, Counting, SheetNext
<1> QED BY <1>1, <1>2

LEMMA SheetItemContinues ==
    ASSUME TabInv, SheetInv, Grow, NEW p \in Requests, RemoveFind(p) \/ RecalcRead(p)
    PROVE  SheetNext
<1> DEFINE o == req[p]
<1>0. /\ o \in Request /\ Named(o, comandas)
      /\ o.pc # "idle" /\ o.card \notin sobrepostos' => Current(o, comandas, itens, pagos)
  BY KnownNow
<1>1. ASSUME RemoveFind(p) PROVE SheetNext
  <2> DEFINE r == [o EXCEPT !.pc = "removeItem"]
  <2>1. /\ r.pc = "removeItem" /\ r.itens = o.itens /\ r.card = o.card
        /\ r.comanda = o.comanda /\ r.item = o.item
    BY <1>0 DEF Request
  <2>2. /\ UNCHANGED tables /\ o.pc = "removeFind" /\ Go(p, r)
        /\ itens[o.item].comanda = o.comanda
    BY <1>1 DEF RemoveFind, At
  <2> HIDE DEF r
  <2>3. o.comanda \in ComandaIds
    BY <1>0, <2>2 DEF Named, OnComanda
  <2>4. Knows(r, comandas, itens, pagos, sobrepostos')
    BY <1>0, <2>1, <2>2 DEF Knows, Current, WhileOpen, WhilePending
  <2>5. \A x \in ItemIds : Holds(r, x) =>
           Holds(o, x) \/ itens[x].comanda = r.comanda
    BY <2>1, <2>2 DEF Holds
  <2> QED BY <2>1, <2>2, <2>3, <2>4, <2>5, SheetRead DEF Paying, Counting, SheetNext
<1>2. ASSUME RecalcRead(p) PROVE SheetNext
  <2> DEFINE c == o.comanda
             r == [Lendo("recalcSave", c, comandas[c]) EXCEPT !.itens = ItensDe(c)]
  <2>1. /\ r.pc = "recalcSave" /\ r.comanda = c /\ r.itens = ItensDe(c)
        /\ r.card = comandas[c].card /\ r.lido = comandas[c]
    BY DEF Lendo, Idle
  <2>2. UNCHANGED tables /\ o.pc \in {"addNext", "recalcRead"} /\ Go(p, r)
    BY <1>2 DEF RecalcRead
  <2> HIDE DEF r
  <2>3. c \in ComandaIds /\ comandas[c].card = o.card
    BY <1>0, <2>2 DEF Named, OnComanda
  <2>4. ItensDe(c) = Lista(itens, c)
    BY DEF ItensDe, Lista
  <2>5. Knows(r, comandas, itens, pagos, sobrepostos')
    BY <1>0, <2>1, <2>2, <2>3, <2>4 DEF Knows, Current, WhileOpen, WhilePending
  <2>6. \A x \in ItemIds : Holds(r, x) => itens[x].comanda = r.comanda
    BY <2>1 DEF Holds, ItensDe
  <2> QED BY <2>1, <2>2, <2>3, <2>5, <2>6, SheetRead DEF Paying, Counting, SheetNext
<1> QED BY <1>1, <1>2

LEMMA SheetRowReads ==
    ASSUME TabInv, SheetInv, Grow, NEW p \in Requests, NEW c \in ComandaIds,
           \/ \E d \in {comandas[c].desconto} \cup 0..MaxDesconto : CloseRead(p, c, d)
           \/ ReopenRead(p, c)
           \/ CancelRead(p, c)
    PROVE  SheetNext
<1>0. comandas[c] \in ComandaRow
  BY DEF TabInv, TablesOK
<1>1. ASSUME NEW pc \in Rewrites \ {"recalcSave"}, NEW row, Go(p, Lendo(pc, c, row)),
             UNCHANGED tables, req[p].pc = "idle",
             \A r : r.pc = pc /\ r.comanda = c /\ r.lido = row
                    => Current(r, comandas, itens, pagos)
      PROVE  SheetNext
  <2> DEFINE r == Lendo(pc, c, row)
  <2>1. r.pc = pc /\ r.comanda = c /\ r.lido = row /\ r.itens = NoItens
    BY DEF Lendo, Idle
  <2> HIDE DEF r
  <2>2. Knows(r, comandas, itens, pagos, sobrepostos')
    BY <1>1, <2>1 DEF Knows
  <2> QED BY <1>1, <2>1, <2>2, HoldsNothing, SheetRead
          DEF Paying, Counting, SheetNext, Rewrites, r
<1>2. ASSUME NEW d \in {comandas[c].desconto} \cup 0..MaxDesconto, CloseRead(p, c, d)
      PROVE  SheetNext
  <2> DEFINE row == [comandas[c] EXCEPT !.desconto = d,
                        !.total = ComDesconto(comandas[c].subtotal, d),
                        !.status = "pending_payment"]
  <2>1. /\ row.status = "pending_payment" /\ row.desconto = d
        /\ row.subtotal = comandas[c].subtotal /\ row.totalPago = comandas[c].totalPago
        /\ row.total = ComDesconto(comandas[c].subtotal, d)
    BY <1>0 DEF ComandaRow
  <2>2. /\ Go(p, Lendo("closeSave", c, row)) /\ UNCHANGED tables /\ req[p].pc = "idle"
        /\ comandas[c].status = "open"
    BY <1>2 DEF CloseRead, At
  <2> HIDE DEF row
  <2>3. \A r : r.pc = "closeSave" /\ r.comanda = c /\ r.lido = row
               => Current(r, comandas, itens, pagos)
    BY <2>1, <2>2 DEF Current, WhileOpen, WhilePending
  <2> QED BY <1>1, <2>2, <2>3 DEF Rewrites
<1>3. ASSUME ReopenRead(p, c) PROVE SheetNext
  <2> DEFINE row == [comandas[c] EXCEPT !.status = "open"]
  <2>1. /\ Go(p, Lendo("reopenSave", c, row)) /\ UNCHANGED tables /\ req[p].pc = "idle"
        /\ comandas[c].status = "pending_payment" /\ comandas[c].totalPago = 0
    BY <1>3 DEF ReopenRead, Reabrivel, At
  <2>2. \A r : r.pc = "reopenSave" /\ r.comanda = c /\ r.lido = row
               => Current(r, comandas, itens, pagos)
    BY <2>1 DEF Current, WhileOpen, WhilePending
  <2> HIDE DEF row
  <2> QED BY <1>1, <2>1, <2>2 DEF Rewrites
<1>4. ASSUME CancelRead(p, c) PROVE SheetNext
  <2> DEFINE row == [comandas[c] EXCEPT !.status = "cancelled"]
  <2>1. /\ Go(p, Lendo("cancelSave", c, row)) /\ UNCHANGED tables /\ req[p].pc = "idle"
        /\ comandas[c].status \in {"open", "pending_payment", "cancelled"}
        /\ pagos[c] = 0
    BY <1>0, <1>4 DEF CancelRead, Cancelavel, At, ComandaRow, ComandaStatus
  <2>2. \A r : r.pc = "cancelSave" /\ r.comanda = c /\ r.lido = row
               => Current(r, comandas, itens, pagos)
    BY <2>1 DEF Current, WhileOpen, WhilePending
  <2> HIDE DEF row
  <2> QED BY <1>1, <2>1, <2>2 DEF Rewrites
<1> QED BY <1>2, <1>3, <1>4

LEMMA SheetPayStarts ==
    ASSUME TabInv, SheetInv, Grow, NEW p \in Requests, NEW c \in ComandaIds,
           NEW saldo \in Nat, NEW outro \in Nat, NEW ref \in Refs \cup {None},
           Pagavel(c), req[p].pc \in {"idle", "outer"},
           Go(p, PayStart(c, saldo, outro, ref)), UNCHANGED tables
    PROVE  SheetNext
<1> DEFINE r == PayStart(c, saldo, outro, ref)
<1>1. /\ r.comanda = c /\ r.lido.total = comandas[c].total /\ r.itens = NoItens
      /\ r.pc = (IF comandas[c].status = "open" THEN "payClose" ELSE "paySum")
  BY PayStartType DEF TabInv
<1>2. Go(p, r) /\ comandas[c].status \in {"open", "pending_payment"}
  BY DEF Pagavel
<1> HIDE DEF r
<1>3. Knows(r, comandas, itens, pagos, sobrepostos')
  BY <1>1, <1>2 DEF Knows, Current, WhileOpen, WhilePending
<1>4. r.pc # "removeItem"
  BY <1>1
<1> QED BY <1>1, <1>2, <1>3, <1>4, HoldsNothing, SheetRead DEF Paying, Counting, SheetNext

LEMMA SheetPayReads ==
    ASSUME TabInv, SheetInv, Grow, NEW p \in Requests,
           \/ \E c \in ComandaIds, saldo, outro \in 0..MaxTotal : PayRead(p, c, saldo, outro)
           \/ PaySum(p)
    PROVE  SheetNext
<1>1. ASSUME NEW c \in ComandaIds, NEW saldo \in 0..MaxTotal, NEW outro \in 0..MaxTotal,
             PayRead(p, c, saldo, outro)
      PROVE  SheetNext
  <2>1. saldo \in Nat /\ outro \in Nat
    BY ComandasAssumption
  <2> QED BY <1>1, <2>1, SheetPayStarts DEF PayRead, At
<1>2. ASSUME PaySum(p) PROVE SheetNext
  <2> DEFINE o == req[p]
             ja == pagos[o.comanda]
  <2>0. o.pc = "paySum" /\ UNCHANGED tables
    BY <1>2 DEF PaySum, At
  <2>1. /\ o \in Request /\ Named(o, comandas) /\ Backed(o, pagos)
        /\ o.card \notin sobrepostos' => Current(o, comandas, itens, pagos)
    BY <2>0, KnownNow
  <2>2. CASE Go(p, [o EXCEPT !.pc = "payAlready"])
    <3> DEFINE r == [o EXCEPT !.pc = "payAlready"]
    <3>1. /\ r.pc = "payAlready" /\ r.comanda = o.comanda /\ r.lido = o.lido
          /\ r.itens = o.itens /\ r.card = o.card
      BY <2>1 DEF Request
    <3> HIDE DEF r
    <3>2. Knows(r, comandas, itens, pagos, sobrepostos')
      BY <2>0, <2>1, <3>1 DEF Knows, Current, WhileOpen, WhilePending
    <3> QED BY <2>0, <2>2, <3>1, <3>2, SheetRead DEF Paying, Counting, SheetNext, Holds, r
  <2>3. CASE /\ Cabe(o.lido, ja, o.saldo + o.outro)
             /\ Go(p, [o EXCEPT !.jaPago = ja,
                                !.pc = IF o.saldo > 0 THEN "payDebit" ELSE "payInsert"])
    <3> DEFINE r == [o EXCEPT !.jaPago = ja,
                              !.pc = IF o.saldo > 0 THEN "payDebit" ELSE "payInsert"]
    <3>1. /\ r.pc \in {"payDebit", "payInsert"} /\ r.comanda = o.comanda
          /\ r.lido = o.lido /\ r.itens = o.itens /\ r.card = o.card /\ r.jaPago = ja
          /\ r.saldo = o.saldo /\ r.outro = o.outro
          /\ r.saldoIns = o.saldoIns /\ r.outroIns = o.outroIns
      BY <2>1 DEF Request
    <3>2. /\ o.comanda \in ComandaIds /\ ja \in Nat /\ o.lido.total \in Nat
          /\ o.saldo \in Nat /\ o.outro \in Nat
          /\ o.saldoIns = o.saldo /\ o.outroIns = o.outro
      BY <2>0, <2>1, ReqType, RowType
      DEF Named, OnComanda, TabInv, TablesOK, Backed
    <3>3. Go(p, r)
      BY <2>3
    <3> HIDE DEF r
    <3>4. Recebido(r) = ja /\ r.jaPago + r.saldo + r.outro <= r.lido.total
      <4>1. o.saldo + o.outro <= o.lido.total - ja
        BY <2>3 DEF Cabe
      <4> HIDE DEF o, ja
      <4> QED BY <3>1, <3>2, <4>1 DEF Recebido
    <3>5. Knows(r, comandas, itens, pagos, sobrepostos')
      BY <2>0, <2>1, <3>1, <3>4 DEF Knows, Current, WhileOpen, WhilePending
    <3> QED BY <2>0, <3>1, <3>3, <3>5, SheetRead DEF Paying, Counting, SheetNext, Holds
  <2> QED BY <1>2, <2>2, <2>3 DEF PaySum
<1> QED BY <1>1, <1>2

\* A stop between two writes marks the card.
LEMMA SheetStops ==
    ASSUME TabInv, SheetInv, Grow, NEW p \in Requests, Abort(p)
    PROVE  SheetNext
<1>1. /\ Go(p, Idle) /\ UNCHANGED tables
      /\ req[p].pc \in Paying \cup Counting => req[p].card \in interrompidos'
  BY DEF Abort, Stop, MidWrite, Finish, Paying, Counting
<1> QED BY <1>1, IdleKnows, IdleType, HoldsNothing, SheetRead DEF SheetNext, Idle
-----------------------------------------------------------------------------
(* Cards on which requests never overlapped: comandas saved *)

LEMMA EmptySoma ==
    ASSUME NEW c, \A x \in ItemIds : itens[x].comanda # c PROVE Soma(ItensDe(c)) = 0
<1>1. {y \in ItemIds \X (1..MaxTotal) : y[2] <= ItensDe(c)[y[1]]} = {}
  BY ComandasAssumption DEF ItensDe
<1> QED BY <1>1, FS_EmptySet DEF Soma

\* On its card a request is alone, and its comanda, if active, is the only one.
LEMMA Alone ==
    ASSUME TabInv, SheetInv, NEW p \in Requests, req[p].pc \in OnComanda,
           req[p].card \notin sobrepostos, NEW pcs \in SUBSET OnComanda,
           Busy(req[p].comanda, pcs)
    PROVE  req[p].pc \in pcs
<1>1. PICK q \in Requests : req[q].pc \in pcs /\ req[q].comanda = req[p].comanda
  BY DEF Busy
<1>2. req[q].card = req[p].card /\ req[p].card \in CardIds
  BY <1>1, OnItsRow
<1> QED BY <1>1, <1>2 DEF SheetInv, Apart

LEMMA OnlyActive ==
    ASSUME SheetInv, NEW c \in ComandaIds, comandas[c].status \in Aberta,
           comandas[c].card \notin sobrepostos, NEW d \in ComandaIds \ {c},
           comandas[d].card = comandas[c].card
    PROVE  comandas[d].status \notin Aberta
BY DEF SheetInv, OneActiveComanda, Separada

\* What is known of the comanda of a request, on a card where it is alone.
LEMMA CalmRow ==
    ASSUME TabInv, SheetInv, Grow, NEW p \in Requests, req[p].pc \in OnComanda,
           req[p].card \notin sobrepostos'
    PROVE  LET row == comandas[req[p].comanda]
               pg == pagos[req[p].comanda]
           IN  /\ Current(req[p], comandas, itens, pagos)
               /\ RowFinal(req[p].comanda)
               /\ row.status \in Aberta =>
                     \A d \in ComandaIds \ {req[p].comanda} :
                        comandas[d].card = req[p].card => comandas[d].status \notin Aberta
               /\ req[p].card \notin interrompidos' =>
                     /\ row.status = "open" => pg = 0
                     /\ pg <= row.total
                     /\ row.status \in Aberta /\ req[p].pc \notin Paying => row.totalPago = pg
                     /\ req[p].pc \notin Counting =>
                           /\ row.subtotal = Soma(ItensDe(req[p].comanda))
                           /\ row.total = ComDesconto(row.subtotal, row.desconto)
<1> DEFINE c == req[p].comanda
<1>1. /\ c \in ComandaIds /\ comandas[c].status # "none" /\ comandas[c].card = req[p].card
      /\ req[p].card \notin sobrepostos
  BY OnItsRow DEF Grow
<1>2. Current(req[p], comandas, itens, pagos)
  BY <1>1, KnownNow DEF OnComanda
<1>3. RowFinal(c) /\ (req[p].card \notin interrompidos' => RowCounts(c))
  BY <1>1 DEF SheetInv, RowsGood, RowGood, Grow
<1>4. Paying \in SUBSET OnComanda /\ Counting \in SUBSET OnComanda
  BY DEF Paying, Counting, OnComanda
<1>5. /\ req[p].pc \notin Paying => ~Busy(c, Paying)
      /\ req[p].pc \notin Counting => ~Busy(c, Counting)
  BY <1>1, <1>4, Alone
<1>6. comandas[c].status \in Aberta =>
         \A d \in ComandaIds \ {c} :
            comandas[d].card = req[p].card => comandas[d].status \notin Aberta
  BY <1>1, OnlyActive
<1> QED BY <1>2, <1>3, <1>5, <1>6 DEF RowCounts

LEMMA SheetTapInsert ==
    ASSUME TabInv, SheetInv, Grow, CardsStay, NEW p \in Requests, NEW c \in ComandaIds,
           TapInsert(p, c)
    PROVE  SheetNext
<1> DEFINE row == [NoComanda EXCEPT !.card = req[p].card, !.status = "open"]
<1>1. /\ req[p].card \in CardIds /\ req[p].pc = "tapInsert" /\ comandas[c].status = "none"
      /\ Grava(c, row) /\ Go(p, Idle) /\ UNCHANGED <<itens, pagos>>
  BY DEF TabInv, AllNamed, Named, TapInsert, At, Finish
<1>2. /\ row.card = req[p].card /\ row.status = "open" /\ row.total = 0
      /\ row.totalPago = 0 /\ row.subtotal = 0 /\ row.desconto = 0
  BY DEF NoComanda
<1>3. pagos[c] = 0 /\ Soma(ItensDe(c)) = 0
  BY <1>1, EmptySoma DEF SheetInv, Fresh
<1> HIDE DEF row
<1>4. RowOk(row, pagos[c]) /\ RowCalm(row, pagos[c], Soma(ItensDe(c)))
  BY <1>2, <1>3 DEF RowOk, RowCalm, ComDesconto
<1>5. req[p].card \notin sobrepostos' =>
         \A d \in ComandaIds : comandas[d].card = req[p].card
                                  => comandas[d].status \notin Aberta
  BY <1>1, KnownNow DEF Current
<1>6. req[p].pc \notin Paying \cup Counting
  BY <1>1 DEF Paying, Counting
<1>7. \A x \in ItemIds : ~Holds(Idle, x)
  BY IdleType, HoldsNothing DEF Idle
<1> QED BY <1>1, <1>2, <1>4, <1>5, <1>6, <1>7, IdleKnows, SheetSave DEF SheetNext

\* p saves row c of its own.
LEMMA SheetOwnSave ==
    ASSUME TabInv, SheetInv, Grow, CardsStay, NEW p \in Requests, req[p].pc \in OnComanda,
           NEW r, Go(p, r), NEW row, Grava(req[p].comanda, row), UNCHANGED <<itens, pagos>>,
           row.card = req[p].card, row.status # "none",
           \A x \in ItemIds : Holds(r, x) => Holds(req[p], x) /\ r.comanda = req[p].comanda,
           Knows(r, comandas', itens, pagos, sobrepostos'),
           req[p].card \notin sobrepostos' =>
              /\ RowOk(row, pagos[req[p].comanda])
              /\ row.status \in Aberta => comandas[req[p].comanda].status \in Aberta
              /\ req[p].card \notin interrompidos' =>
                    RowCalm(row, pagos[req[p].comanda], Soma(ItensDe(req[p].comanda)))
    PROVE  SheetNext
<1> DEFINE c == req[p].comanda
<1>1. /\ c \in ComandaIds /\ comandas[c].card = req[p].card /\ req[p].card \in CardIds
  BY OnItsRow
<1>2. req[p].card \notin sobrepostos' /\ comandas[c].status \in Aberta =>
         \A d \in ComandaIds \ {c} :
            comandas[d].card = req[p].card => comandas[d].status \notin Aberta
  BY CalmRow
<1> QED BY <1>1, <1>2, SheetSave DEF SheetNext

LEMMA SheetRecalcSave ==
    ASSUME TabInv, SheetInv, Grow, CardsStay, NEW p \in Requests, RecalcSave(p)
    PROVE  SheetNext
<1> DEFINE o == req[p]
           c == o.comanda
           row == Recalculada(o.lido, o.itens)
<1>1. /\ o.pc = "recalcSave" /\ o.pc \in OnComanda /\ Grava(c, row) /\ Go(p, Idle)
      /\ UNCHANGED <<itens, pagos>>
  BY DEF RecalcSave, At, Finish, OnComanda
<1>2. /\ o.lido \in ComandaRow /\ o.lido.card = o.card /\ o.lido.status # "none"
      /\ pagos[c] \in Nat /\ Soma(o.itens) \in Nat
  BY <1>1, OnItsRow, ReqType, SomaType DEF Named, Rewrites
<1>3. /\ row.card = o.card /\ row.status = o.lido.status
      /\ row.subtotal = Soma(o.itens) /\ row.desconto = o.lido.desconto
      /\ row.total = ComDesconto(Soma(o.itens), o.lido.desconto)
      /\ row.totalPago = o.lido.totalPago
  <2> HIDE DEF o
  <2> QED BY <1>2 DEF Recalculada, ComandaRow
<1> HIDE DEF row
<1>4. ASSUME o.card \notin sobrepostos'
      PROVE  /\ o.lido = comandas[c] /\ o.itens = ItensDe(c) /\ o.lido.status = "open"
             /\ o.card \notin interrompidos' => pagos[c] = 0 /\ o.lido.totalPago = pagos[c]
  BY <1>1, <1>4, CalmRow DEF Current, WhileOpen, Lista, ItensDe, Aberta, Paying
<1>5. row.total \in Nat
  BY <1>2, <1>3, DescontoType, RowType
<1>6. ASSUME o.card \notin sobrepostos'
      PROVE  /\ RowOk(row, pagos[c]) /\ comandas[c].status \in Aberta
             /\ o.card \notin interrompidos' => RowCalm(row, pagos[c], Soma(ItensDe(c)))
  BY <1>2, <1>3, <1>4, <1>5, <1>6 DEF RowOk, RowCalm, Aberta
<1>7. \A x \in ItemIds : ~Holds(Idle, x)
  BY IdleType, HoldsNothing DEF Idle
<1> QED BY <1>1, <1>2, <1>3, <1>6, <1>7, IdleKnows, SheetOwnSave

LEMMA SheetRowSave ==
    ASSUME TabInv, SheetInv, Grow, CardsStay, NEW p \in Requests, SaveRow(p)
    PROVE  SheetNext
<1> DEFINE o == req[p]
           c == o.comanda
           row == o.lido
<1>1. /\ o.pc \in {"closeSave", "reopenSave", "cancelSave"} /\ o.pc \in OnComanda
      /\ Grava(c, row) /\ Go(p, Idle) /\ UNCHANGED <<itens, pagos>>
  BY DEF SaveRow, At, Finish, OnComanda
<1>2. /\ row \in ComandaRow /\ row.card = o.card /\ row.status # "none"
      /\ pagos[c] \in Nat /\ comandas[c] \in ComandaRow
  BY <1>1, OnItsRow, ReqType DEF Named, Rewrites
<1>3. row.total \in Nat
  BY <1>2, RowType
<1>4. o.pc \notin Paying \cup Counting
  BY <1>1 DEF Paying, Counting
<1>5. ASSUME o.card \notin sobrepostos'
      PROVE  /\ RowOk(row, pagos[c])
             /\ row.status \in Aberta => comandas[c].status \in Aberta
             /\ o.card \notin interrompidos' => RowCalm(row, pagos[c], Soma(ItensDe(c)))
  <2>1. /\ Current(o, comandas, itens, pagos)
        /\ o.card \notin interrompidos' =>
              /\ comandas[c].status = "open" => pagos[c] = 0
              /\ pagos[c] <= comandas[c].total
              /\ comandas[c].status \in Aberta => comandas[c].totalPago = pagos[c]
              /\ comandas[c].subtotal = Soma(ItensDe(c))
              /\ comandas[c].total = ComDesconto(comandas[c].subtotal, comandas[c].desconto)
    BY <1>1, <1>4, <1>5, CalmRow
  <2>2. CASE o.pc = "closeSave"
    <3>1. /\ row.status = "pending_payment" /\ comandas[c].status = "open"
          /\ row.subtotal = comandas[c].subtotal
          /\ row.total = ComDesconto(row.subtotal, row.desconto)
          /\ row.totalPago = comandas[c].totalPago
      BY <2>1, <2>2 DEF Current, WhileOpen
    <3> QED BY <1>2, <1>3, <2>1, <3>1 DEF RowOk, RowCalm, Aberta
  <2>3. CASE o.pc = "reopenSave"
    <3>1. /\ row = [comandas[c] EXCEPT !.status = "open"]
          /\ comandas[c].status = "pending_payment" /\ comandas[c].totalPago = 0
      BY <2>1, <2>3 DEF Current
    <3>2. /\ row.status = "open" /\ row.subtotal = comandas[c].subtotal
          /\ row.desconto = comandas[c].desconto /\ row.total = comandas[c].total
          /\ row.totalPago = comandas[c].totalPago
      BY <1>2, <3>1 DEF ComandaRow
    <3> QED BY <1>2, <1>3, <2>1, <3>1, <3>2 DEF RowOk, RowCalm, Aberta
  <2>4. CASE o.pc = "cancelSave"
    <3>1. row = [comandas[c] EXCEPT !.status = "cancelled"] /\ pagos[c] = 0
      BY <2>1, <2>4 DEF Current
    <3>2. /\ row.status = "cancelled" /\ row.subtotal = comandas[c].subtotal
          /\ row.desconto = comandas[c].desconto /\ row.total = comandas[c].total
          /\ row.totalPago = comandas[c].totalPago
      BY <1>2, <3>1 DEF ComandaRow
    <3> QED BY <1>2, <1>3, <2>1, <3>1, <3>2 DEF RowOk, RowCalm, Aberta
  <2> QED BY <1>1, <2>2, <2>3, <2>4
<1>6. \A x \in ItemIds : ~Holds(Idle, x)
  BY IdleType, HoldsNothing DEF Idle
<1> QED BY <1>1, <1>2, <1>5, <1>6, IdleKnows, SheetOwnSave

LEMMA SheetPaySaves ==
    ASSUME TabInv, SheetInv, Grow, CardsStay, NEW p \in Requests,
           PayClose(p) \/ PayAlready(p) \/ PayUpdate(p)
    PROVE  SheetNext
<1> DEFINE o == req[p]
           c == o.comanda
           was == comandas[c]
<1>1. /\ o.pc \in {"payClose", "payAlready", "payUpdate"} /\ o.pc \in OnComanda
      /\ UNCHANGED <<itens, pagos>>
  BY DEF PayClose, PayAlready, PayUpdate, At, OnComanda
<1>2. /\ o \in Request /\ c \in ComandaIds /\ was \in ComandaRow /\ pagos[c] \in Nat
      /\ was.card = o.card /\ was.status # "none" /\ Backed(o, pagos)
      /\ was.total \in Nat
  BY <1>1, OnItsRow, RowType
<1>3. o.pc \notin Counting
  BY <1>1 DEF Counting
<1>4. ASSUME o.card \notin sobrepostos'
      PROVE  /\ Current(o, comandas, itens, pagos)
             /\ o.card \notin interrompidos' =>
                   /\ was.status = "open" => pagos[c] = 0
                   /\ pagos[c] <= was.total
                   /\ was.status \in Aberta /\ o.pc \notin Paying => was.totalPago = pagos[c]
                   /\ was.subtotal = Soma(ItensDe(c))
                   /\ was.total = ComDesconto(was.subtotal, was.desconto)
  BY <1>1, <1>3, <1>4, CalmRow
<1>5. \A x \in ItemIds : ~Holds(Idle, x)
  BY IdleType, HoldsNothing DEF Idle
<1>6. CASE PayClose(p)
  <2> DEFINE row == [was EXCEPT !.status = "pending_payment"]
             r == [o EXCEPT !.pc = "paySum"]
  <2>1. Grava(c, row) /\ Go(p, r) /\ o.pc = "payClose"
    BY <1>6 DEF PayClose, At
  <2>2. /\ r.pc = "paySum" /\ r.comanda = c /\ r.lido = o.lido /\ r.card = o.card
        /\ r.itens = o.itens
    BY <1>2 DEF Request
  <2>3. /\ row.status = "pending_payment" /\ row.card = was.card
        /\ row.subtotal = was.subtotal /\ row.desconto = was.desconto
        /\ row.total = was.total /\ row.totalPago = was.totalPago
    BY <1>2 DEF ComandaRow
  <2> HIDE DEF row, r
  <2>4. comandas'[c] = row
    BY <1>2, <2>1 DEF Grava, TabInv, TablesOK
  <2>5. ASSUME o.card \notin sobrepostos'
        PROVE  /\ RowOk(row, pagos[c]) /\ was.status \in Aberta
               /\ o.card \notin interrompidos' => RowCalm(row, pagos[c], Soma(ItensDe(c)))
               /\ o.lido.total = row.total
    <3>1. was.status = "open" /\ o.lido.total = was.total
      BY <1>4, <2>1, <2>5 DEF Current, WhileOpen
    <3>2. o.card \notin interrompidos' => was.totalPago = pagos[c]
      BY <1>4, <2>1, <2>5, <3>1 DEF Paying, Aberta
    <3> QED BY <1>4, <2>3, <2>5, <3>1, <3>2 DEF RowOk, RowCalm, Aberta
  <2>6. Knows(r, comandas', itens, pagos, sobrepostos')
    BY <2>2, <2>3, <2>4, <2>5 DEF Knows, Current, WhileOpen, WhilePending
  <2>7. \A x \in ItemIds : Holds(r, x) => Holds(o, x)
    BY <2>2 DEF Holds
  <2> QED BY <1>1, <1>2, <2>1, <2>2, <2>3, <2>5, <2>6, <2>7, SheetOwnSave
<1>7. CASE PayAlready(p)
  <2> DEFINE row == [was EXCEPT !.status = "paid", !.totalPago = o.lido.total]
  <2>1. /\ Grava(c, row) /\ Go(p, Idle) /\ o.pc = "payAlready"
        /\ o.lido.total <= pagos[c]
    BY <1>2, <1>7 DEF PayAlready, At, Finish, Backed
  <2>2. /\ row.status = "paid" /\ row.card = was.card
        /\ row.subtotal = was.subtotal /\ row.desconto = was.desconto
        /\ row.total = was.total /\ row.totalPago = o.lido.total
    BY <1>2 DEF ComandaRow
  <2> HIDE DEF row
  <2>3. o.card \notin sobrepostos' => o.lido.total = was.total
    BY <1>4, <2>1 DEF Current, WhilePending
  <2>4. ASSUME o.card \notin sobrepostos'
        PROVE  /\ RowOk(row, pagos[c]) /\ row.status \notin Aberta
               /\ o.card \notin interrompidos' => RowCalm(row, pagos[c], Soma(ItensDe(c)))
    BY <1>4, <2>1, <2>2, <2>3, <2>4 DEF RowOk, RowCalm, Aberta
  <2> QED BY <1>1, <1>2, <1>5, <2>1, <2>2, <2>4, IdleKnows, SheetOwnSave
<1>8. CASE PayUpdate(p)
  <2> DEFINE novo == o.jaPago + o.saldo + o.outro
             row == Quitacao(was, o.lido, novo)
  <2>1. Grava(c, row) /\ Go(p, Idle) /\ o.pc = "payUpdate"
    BY <1>8 DEF PayUpdate, At, Finish
  <2>2. /\ novo \in Nat /\ o.lido.total \in Nat /\ Recebido(o) = novo
    <3>1. /\ o.jaPago \in Nat /\ o.saldo \in Nat /\ o.outro \in Nat /\ o.lido.total \in Nat
      BY <1>2, ReqType, RowType
    <3>2. o.saldoIns = 0 /\ o.outroIns = 0
      BY <1>2, <2>1 DEF Backed
    <3> QED BY <3>1, <3>2 DEF Recebido
  <2>3. ASSUME o.card \notin sobrepostos'
        PROVE  /\ was.status = "pending_payment" /\ o.lido.total = was.total
               /\ novo = pagos[c]
    <3>1. Current(o, comandas, itens, pagos)
      BY <1>4, <2>3
    <3>2. was.status = "pending_payment" /\ o.lido.total = was.total
      BY <2>1, <3>1 DEF Current, WhilePending
    <3>3. Recebido(o) = pagos[c]
      BY <2>1, <3>1 DEF Current
    <3> QED BY <2>2, <3>2, <3>3
  <2> HIDE DEF novo
  <2>4. /\ row.card = was.card /\ row.subtotal = was.subtotal
        /\ row.desconto = was.desconto /\ row.total = was.total
        /\ \/ /\ row.status = "paid" /\ row.totalPago = o.lido.total
              /\ novo >= o.lido.total
           \/ row.status = "pending_payment" /\ row.totalPago = novo
    <3>1. CASE novo >= o.lido.total
      <4>1. row = [was EXCEPT !.totalPago = o.lido.total, !.status = "paid"]
        BY <3>1 DEF Quitacao
      <4> HIDE DEF row, o, was
      <4> QED BY <1>2, <3>1, <4>1 DEF ComandaRow
    <3>2. CASE ~(novo >= o.lido.total)
      <4>1. row = [was EXCEPT !.totalPago = novo, !.status = "pending_payment"]
        BY <3>2 DEF Quitacao
      <4> HIDE DEF row, o, was
      <4> QED BY <1>2, <4>1 DEF ComandaRow
    <3> QED BY <3>1, <3>2
  <2> HIDE DEF row
  <2>5. ASSUME o.card \notin sobrepostos'
        PROVE  /\ RowOk(row, pagos[c]) /\ was.status \in Aberta
               /\ o.card \notin interrompidos' => RowCalm(row, pagos[c], Soma(ItensDe(c)))
    <3>1. o.card \notin interrompidos' =>
             /\ pagos[c] <= was.total /\ was.subtotal = Soma(ItensDe(c))
             /\ was.total = ComDesconto(was.subtotal, was.desconto)
      BY <1>4, <2>5
    <3>2. novo >= o.lido.total => o.lido.total <= pagos[c]
      BY <1>2, <2>2, <2>3, <2>5
    <3> QED BY <2>3, <2>4, <2>5, <3>1, <3>2 DEF RowOk, RowCalm, Aberta
  <2>6. row.status # "none"
    BY <2>4
  <2> QED BY <1>1, <1>2, <1>5, <2>1, <2>4, <2>5, <2>6, IdleKnows, SheetOwnSave
<1> QED BY <1>6, <1>7, <1>8
-----------------------------------------------------------------------------
(* Cards on which requests never overlapped: items, debits and payments *)

LEMMA SheetItems ==
    ASSUME TabInv, SheetInv, Grow, NEW p \in Requests,
           (\E x \in ItemIds : AddItem(p, x)) \/ RemoveItem(p)
    PROVE  SheetNext
<1> DEFINE o == req[p]
           c == o.comanda
<1>1. /\ o.pc \in {"addItem", "addNext", "removeItem"} /\ o.pc \in OnComanda
      /\ UNCHANGED <<comandas, pagos>>
  BY DEF AddItem, RemoveItem, At, OnComanda
<1>2. /\ o \in Request /\ c \in ComandaIds /\ comandas[c].card = o.card
      /\ o.itens \in [ItemIds -> Nat]
  BY <1>1, OnItsRow, ReqType
<1>3. /\ HeldInv'
      /\ \A d \in ComandaIds \ {c} : Lista(itens', d) = Lista(itens, d)
      /\ \A d \in ComandaIds \ {c}, x \in ItemIds :
            itens'[x].comanda = d => itens[x].comanda = d
  BY <1>2, ItemsOfOne DEF SheetInv
<1>4. \E r : /\ Go(p, r) /\ r.pc \in {"addNext", "recalcRead"} /\ r.comanda = c
             /\ r.card = o.card
  <2>1. ASSUME NEW x \in ItemIds, AddItem(p, x)
        PROVE  \E r : /\ Go(p, r) /\ r.pc \in {"addNext", "recalcRead"} /\ r.comanda = c
                      /\ r.card = o.card
    <3> DEFINE r == [o EXCEPT !.pc = "addNext",
                        !.itens[x] = IF @ > 0 THEN o.itens[x] + 1 ELSE 0]
    <3>1. Go(p, r)
      BY <2>1 DEF AddItem
    <3>2. r.pc = "addNext" /\ r.comanda = c /\ r.card = o.card
      BY <1>2 DEF Request
    <3> QED BY <3>1, <3>2
  <2>2. ASSUME RemoveItem(p)
        PROVE  \E r : /\ Go(p, r) /\ r.pc \in {"addNext", "recalcRead"} /\ r.comanda = c
                      /\ r.card = o.card
    <3> DEFINE r == [o EXCEPT !.pc = "recalcRead"]
    <3>1. Go(p, r)
      BY <2>2 DEF RemoveItem
    <3>2. r.pc = "recalcRead" /\ r.comanda = c /\ r.card = o.card
      BY <1>2 DEF Request
    <3> QED BY <3>1, <3>2
  <2> QED BY <2>1, <2>2
<1>5. PICK r : /\ Go(p, r) /\ r.pc \in {"addNext", "recalcRead"} /\ r.comanda = c
               /\ r.card = o.card
  BY <1>4
<1>6. req'[p] = r /\ \A q \in Requests \ {p} : req'[q] = req[q]
  BY <1>5 DEF Go, TabInv, TablesOK
<1>7. Knows(r, comandas, itens', pagos', sobrepostos')
  <2> SUFFICES ASSUME r.card \notin sobrepostos'
               PROVE  Current(r, comandas, itens', pagos')
    BY DEF Knows
  <2>1. comandas[c].status = "open"
    BY <1>1, <1>5, KnownNow DEF Current, WhileOpen
  <2> QED BY <1>5, <2>1 DEF Current, WhileOpen, WhilePending
<1> SUFFICES ASSUME NEW s \in ComandaIds, s = c PROVE SheetNext
  BY <1>2
<1>8. RowGood(s)'
  <2>1. RowGood(s)
    BY DEF SheetInv, RowsGood
  <2>2. Busy(s, Counting)'
    BY <1>5, <1>6 DEF Busy, Counting
  <2>3. Busy(s, Paying) => Busy(s, Paying)'
    BY <1>1, <1>6 DEF Busy, Paying
  <2> QED BY <1>1, <2>1, <2>2, <2>3 DEF RowGood, RowFinal, RowCounts, Grow
<1> QED BY <1>1, <1>3, <1>5, <1>7, <1>8, SheetInsert DEF SheetNext

LEMMA SheetPayDebit ==
    ASSUME TabInv, SheetInv, Grow, NEW p \in Requests, PayDebit(p)
    PROVE  SheetNext
<1> DEFINE o == req[p]
           c == o.comanda
           r == [o EXCEPT !.pc = "payInsert"]
<1>1. /\ o.pc = "payDebit" /\ o.pc \in OnComanda /\ Go(p, r)
      /\ UNCHANGED <<comandas, pagos, itens>>
  BY DEF PayDebit, At, OnComanda
<1>2. o \in Request /\ c \in ComandaIds
  BY <1>1, OnItsRow
<1>3. /\ r.pc = "payInsert" /\ r.comanda = c /\ r.lido = o.lido /\ r.card = o.card
      /\ r.itens = o.itens /\ r.jaPago = o.jaPago /\ r.saldo = o.saldo
      /\ r.outro = o.outro /\ r.saldoIns = o.saldoIns /\ r.outroIns = o.outroIns
  BY <1>2 DEF Request
<1> HIDE DEF r
<1>4. req'[p] = r /\ \A q \in Requests \ {p} : req'[q] = req[q]
  BY <1>1 DEF Go, TabInv, TablesOK
<1>5. Recebido(r) = Recebido(o)
  BY <1>3 DEF Recebido
<1>6. Knows(r, comandas, itens, pagos, sobrepostos')
  <2> SUFFICES ASSUME r.card \notin sobrepostos' PROVE Current(r, comandas, itens, pagos)
    BY DEF Knows
  <2>1. Current(o, comandas, itens, pagos)
    BY <1>1, <1>3, KnownNow
  <2> QED BY <1>1, <1>3, <1>5, <2>1 DEF Current, WhileOpen, WhilePending
<1>7. HeldInv'
  BY <1>1, <1>3, HeldRead DEF SheetInv, Holds
<1> SUFFICES ASSUME NEW s \in ComandaIds, s = c PROVE SheetNext
  BY <1>2
<1>8. RowGood(s)'
  <2>1. \A pcs \in {Paying, Counting} : Busy(s, pcs) => Busy(s, pcs)'
    BY <1>1, <1>4 DEF Busy, Paying, Counting
  <2> QED BY <1>1, <2>1, RowStays DEF SheetInv, RowsGood
<1> QED BY <1>1, <1>6, <1>7, <1>8, SheetInsert DEF SheetNext

LEMMA SheetPayInsert ==
    ASSUME TabInv, SheetInv, Grow, NEW p \in Requests, NEW s \in {0, req[p].saldoIns},
           NEW d \in {0, req[p].outroIns}, PayInsert(p, s, d)
    PROVE  SheetNext
<1> DEFINE o == req[p]
<1>1. PICK r \in Request :
         /\ r.pc \in Paying /\ r.card = o.card /\ r.comanda = o.comanda
         /\ r.itens = o.itens /\ r.lido = o.lido /\ r.jaPago = o.jaPago
         /\ r.saldo = o.saldo /\ r.outro = o.outro /\ s \in Nat /\ d \in Nat
         /\ r.saldoIns = o.saldoIns - s /\ r.outroIns = o.outroIns - d
         /\ Recebido(r) = Recebido(o) + s + d
         /\ pagos' = [pagos EXCEPT ![o.comanda] = @ + s + d]
         /\ Go(p, r) /\ o.pc = "payInsert"
         /\ UNCHANGED <<comandas, itens>>
  BY PayInsertStep
<1>2. o.pc \in OnComanda
  BY <1>1 DEF OnComanda
<1> SUFFICES ASSUME NEW c \in ComandaIds, c = o.comanda PROVE SheetNext
  BY <1>2, OnItsRow
<1>3. comandas[c].card = o.card /\ pagos[c] \in Nat /\ comandas[c] \in ComandaRow
  BY <1>2, OnItsRow
<1>4. /\ pagos'[c] = pagos[c] + s + d
      /\ \A e \in ComandaIds \ {c} : pagos'[e] = pagos[e]
  BY <1>1 DEF TabInv, TablesOK
<1>5. req'[p] = r /\ \A q \in Requests \ {p} : req'[q] = req[q]
  BY <1>1 DEF Go, TabInv, TablesOK
<1>6. ASSUME o.card \notin sobrepostos'
      PROVE  /\ comandas[c].status = "pending_payment" /\ r.lido.total = comandas[c].total
             /\ r.jaPago + r.saldo + r.outro <= r.lido.total
             /\ Recebido(r) = pagos'[c]
  <2>1. Current(o, comandas, itens, pagos)
    BY <1>1, <1>6, KnownNow
  <2> QED BY <1>1, <1>4, <2>1 DEF Current, WhilePending
<1>7. o.card \notin sobrepostos' => pagos'[c] <= comandas[c].total
  <2>1. /\ r.jaPago \in Nat /\ r.saldo \in Nat /\ r.outro \in Nat
        /\ r.saldoIns \in Nat /\ r.outroIns \in Nat /\ comandas[c].total \in Nat
    BY <1>3, ReqType, RowType
  <2> QED BY <1>6, <2>1 DEF Recebido
<1>8. Knows(r, comandas, itens, pagos', sobrepostos')
  BY <1>1, <1>6 DEF Knows, Current, WhileOpen, WhilePending, Paying
<1>9. HeldInv'
  <2>1. \A x \in ItemIds : Holds(r, x) => Holds(o, x)
    BY <1>1 DEF Holds, Paying
  <2> QED BY <1>1, <2>1, HeldRead DEF SheetInv
<1>10. RowGood(c)'
  <2> SUFFICES ASSUME comandas[c].card \notin sobrepostos' PROVE RowGood(c)'
    BY <1>1 DEF RowGood
  <2>1. comandas[c].status = "pending_payment" /\ pagos'[c] <= comandas[c].total
    BY <1>3, <1>6, <1>7
  <2>2. RowGood(c)
    BY DEF SheetInv, RowsGood
  <2>3. Busy(c, Paying)'
    BY <1>1, <1>5 DEF Busy
  <2>4. Busy(c, Counting) => Busy(c, Counting)'
    BY <1>1, <1>5 DEF Busy, Counting
  <2>5. ItensDe(c)' = ItensDe(c)
    BY <1>1 DEF ItensDe
  <2> QED BY <1>1, <2>1, <2>2, <2>3, <2>4, <2>5 DEF RowGood, RowFinal, RowCounts, Grow
<1> QED BY <1>1, <1>2, <1>4, <1>8, <1>9, <1>10, SheetInsert DEF SheetNext
-----------------------------------------------------------------------------
(* The whole invariant, and what follows from it *)

ComandasInv == TabInv /\ SheetInv

LEMMA SheetInit == Init => SheetInv
<1> SUFFICES ASSUME Init PROVE SheetInv
  OBVIOUS
<1>1. Apart /\ HeldInv /\ Fresh /\ AllKnow
  BY ComandasAssumption
  DEF Init, Idle, NoItens, NoItem, Apart, HeldInv, Holds, Fresh, AllKnow, Knows
<1>2. RowsGood /\ OneActiveComanda
  BY DEF Init, NoComanda, RowsGood, RowGood, OneActiveComanda, Aberta
<1> QED BY <1>1, <1>2 DEF SheetInv

LEMMA Unmoved ==
    ASSUME TabInv, SheetInv, Grow, UNCHANGED <<comandas, itens, pagos, req>>
    PROVE  SheetNext
<1>1. HeldInv' /\ Fresh'
  BY DEF SheetInv, HeldInv, Holds, Fresh
<1>2. AllKnow' /\ OneActiveComanda'
  BY DEF SheetInv, AllKnow, Knows, OneActiveComanda, Separada, Grow
<1>3. RowsGood'
  <2> SUFFICES ASSUME NEW d \in ComandaIds PROVE RowGood(d)'
    BY DEF RowsGood
  <2>1. \A pcs : Busy(d, pcs) => Busy(d, pcs)'
    BY DEF Busy
  <2> QED BY <2>1, RowStays DEF SheetInv, RowsGood
<1> QED BY <1>1, <1>2, <1>3 DEF SheetNext

LEMMA CardsStayStep ==
    ASSUME TabInv, NEW p \in Requests,
           \/ \E c \in ComandaIds : TapInsert(p, c)
           \/ RecalcSave(p) \/ SaveRow(p) \/ PayClose(p) \/ PayAlready(p) \/ PayUpdate(p)
    PROVE  CardsStay
BY TapInserts, RowSaves, PaySaves

\* A comanda is never deleted and never changes wristband.
LEMMA CardsStayKept == ASSUME TabInv, Step PROVE CardsStay
<1>1. comandas' = comandas => CardsStay
  BY DEF CardsStay
<1>2. ASSUME NEW p \in Requests,
             \/ Start(p) \/ Abort(p) \/ TapFind(p) \/ RemoveFind(p) \/ RecalcRead(p)
             \/ PaySum(p) \/ PayDebit(p) \/ RemoveItem(p) \/ (\E x \in ItemIds : AddItem(p, x))
             \/ \E s \in {0, req[p].saldoIns}, o \in {0, req[p].outroIns} :
                   PayInsert(p, s, o)
      PROVE  comandas' = comandas
  BY <1>2 DEF Start, Abort, TapRead, AddRead, RemoveRead, CloseRead, ReopenRead,
     CancelRead, PayRead, TapFind, RemoveFind, RecalcRead, PaySum, PayDebit, PayInsert,
     RemoveItem, AddItem, tables
<1>3. \A k \in CardIds, st \in CardStatus : SetCard(k, st) => comandas' = comandas
  BY DEF SetCard
<1> QED BY <1>1, <1>2, <1>3, CardsStayStep DEF Step, Continue

LEMMA SheetKept == ASSUME TabInv, SheetInv, Grow, Step PROVE SheetNext
<1>1. ASSUME NEW p \in Requests, Start(p) PROVE SheetNext
  BY <1>1, SheetTap, SheetItemReads, SheetRowReads, SheetPayReads DEF Start
<1>2. ASSUME NEW p \in Requests, Continue(p) PROVE SheetNext
  BY <1>2, CardsStayStep, SheetTap, SheetTapInsert, SheetItems, SheetItemContinues,
     SheetRecalcSave, SheetRowSave, SheetPaySaves, SheetPayReads, SheetPayDebit,
     SheetPayInsert
  DEF Continue
<1>3. ASSUME NEW p \in Requests, Abort(p) PROVE SheetNext
  BY <1>3, SheetStops
<1>4. ASSUME NEW k \in CardIds, NEW st \in CardStatus, SetCard(k, st) PROVE SheetNext
  BY <1>4, Unmoved DEF SetCard
<1> QED BY <1>1, <1>2, <1>3, <1>4 DEF Step

LEMMA SheetStep ==
    ASSUME TabInv, SheetInv, [Next]_vars
    PROVE  SheetInv'
<1>1. CASE UNCHANGED vars
  <2>1. Grow
    BY <1>1 DEF vars, Grow
  <2>2. UNCHANGED <<comandas, itens, pagos, req, sobrepostos>>
    BY <1>1 DEF vars, tables
  <2> QED BY <2>1, <2>2, Unmoved DEF SheetInv, SheetNext, Apart
<1>2. CASE Next
  <2>1. Apart' /\ Grow
    BY <1>2, ApartStep, GrowStep DEF Next
  <2> QED BY <1>2, <2>1, SheetKept DEF Next, SheetInv, SheetNext
<1> QED BY <1>1, <1>2

LEMMA ComandasInvInit == Init => ComandasInv
BY TabInit, SheetInit DEF ComandasInv

LEMMA ComandasInvStep == ComandasInv /\ [Next]_vars => ComandasInv'
BY TabStep, SheetStep DEF ComandasInv

\* A wristband on which requests never overlapped carries one active comanda.
THEOREM OneComandaPerCard == Spec => []OneActiveComanda
<1>1. ComandasInv => OneActiveComanda
  BY DEF ComandasInv, SheetInv
<1> QED BY ComandasInvInit, ComandasInvStep, <1>1, PTL DEF Spec

LEMMA TotalsKnown == ASSUME ComandasInv PROVE TotalMatchesItems
<1> SUFFICES ASSUME NEW c \in ComandaIds, Calma(c), comandas[c].status # "none",
                    \A p \in Requests : req[p].card # comandas[c].card
             PROVE  /\ comandas[c].subtotal = Soma(ItensDe(c))
                    /\ comandas[c].total =
                          ComDesconto(comandas[c].subtotal, comandas[c].desconto)
  BY DEF TotalMatchesItems
<1>1. ~Busy(c, Counting)
  BY OnItsRow DEF ComandasInv, Busy, Counting, OnComanda
<1> QED BY <1>1 DEF ComandasInv, SheetInv, RowsGood, RowGood, RowCounts, Calma

LEMMA NotOverpaid == ASSUME ComandasInv PROVE NoOverpay
<1> SUFFICES ASSUME NEW c \in ComandaIds, Calma(c) PROVE pagos[c] <= comandas[c].total
  BY DEF NoOverpay
<1>1. CASE comandas[c].status = "none"
  <2>1. pagos[c] = 0 /\ comandas[c].total \in Nat
    BY <1>1, RowType DEF ComandasInv, SheetInv, Fresh, TabInv, TablesOK
  <2> QED BY <2>1
<1>2. CASE comandas[c].status # "none"
  BY <1>2 DEF ComandasInv, SheetInv, RowsGood, RowGood, RowCounts, Calma
<1> QED BY <1>1, <1>2

LEMMA FinalIsBacked == ASSUME ComandasInv PROVE FinalMatchesPayments
BY DEF ComandasInv, SheetInv, RowsGood, RowGood, RowFinal, RowCounts,
   FinalMatchesPayments, Separada, Calma

\* On such a wristband, between requests and unless one stopped half way, the
\* totals of a comanda are those of its items, its discount taken off.
THEOREM TotalsAreOfItems == Spec => []TotalMatchesItems
BY ComandasInvInit, ComandasInvStep, TotalsKnown, PTL DEF Spec

\* On such a wristband, unless a request stopped half way, the payments of a
\* comanda never exceed its total.
THEOREM NeverOverpaid == Spec => []NoOverpay
BY ComandasInvInit, ComandasInvStep, NotOverpaid, PTL DEF Spec

\* On such a wristband a paid comanda is covered by its payments and says so, and
\* none with money in it is cancelled; unless a request stopped half way none with
\* money in it takes items.
THEOREM FinalIsPaidFor == Spec => []FinalMatchesPayments
BY ComandasInvInit, ComandasInvStep, FinalIsBacked, PTL DEF Spec
-----------------------------------------------------------------------------
(* The life of a comanda *)

Alive(c) ==
    LET was == comandas[c].status
        is == comandas'[c].status
    IN  /\ was # is =>
              \/ was = "none" /\ is = "open"
              \/ was = "open" /\ is \in {"pending_payment", "cancelled"}
              \/ was = "pending_payment" /\ is \in {"open", "paid", "cancelled"}
        /\ was \notin {"none", "open"} => ItensDe(c)' = ItensDe(c)

LEMMA AliveSave ==
    ASSUME TabInv, SheetInv, Grow, NEW p \in Requests, NEW c \in ComandaIds, Separada(c)',
           \/ \E d \in ComandaIds : TapInsert(p, d)
           \/ RecalcSave(p) \/ SaveRow(p) \/ PayClose(p) \/ PayAlready(p) \/ PayUpdate(p)
    PROVE  Alive(c)
<1> DEFINE o == req[p]
<1>0. CardsStay /\ ItensDe(c)' = ItensDe(c)
  <2>1. itens' = itens
    BY DEF TapInsert, RecalcSave, SaveRow, PayClose, PayAlready, PayUpdate
  <2> QED BY <2>1, CardsStayStep DEF ItensDe
<1>1. ASSUME NEW d \in ComandaIds, TapInsert(p, d) PROVE Alive(c)
  <2>1. /\ comandas[d].status = "none"
        /\ comandas' = [comandas EXCEPT ![d] =
                           [NoComanda EXCEPT !.card = o.card, !.status = "open"]]
    BY <1>1 DEF TapInsert, Grava
  <2> QED BY <1>0, <2>1 DEF Alive, NoComanda, TabInv, TablesOK
<1>2. ASSUME o.pc \in OnComanda, NEW row, Grava(o.comanda, row),
             o.card \notin sobrepostos' =>
                LET was == comandas[o.comanda].status
                IN  \/ row.status = was
                    \/ was = "open" /\ row.status \in {"pending_payment", "cancelled"}
                    \/ /\ was = "pending_payment"
                       /\ row.status \in {"open", "paid", "cancelled"}
      PROVE  Alive(c)
  <2>1. /\ o.comanda \in ComandaIds /\ comandas[o.comanda].status # "none"
        /\ comandas[o.comanda].card = o.card
    BY <1>2, OnItsRow
  <2>2. CASE c = o.comanda
    <3>1. comandas'[c] = row /\ comandas'[c].card = o.card
      BY <1>0, <1>2, <2>1, <2>2 DEF Grava, TabInv, TablesOK, CardsStay
    <3> QED BY <1>0, <1>2, <2>2, <3>1 DEF Alive, Separada
  <2>3. CASE c # o.comanda
    <3>1. comandas'[c] = comandas[c]
      BY <1>2, <2>1, <2>3 DEF Grava, TabInv, TablesOK
    <3> QED BY <1>0, <3>1 DEF Alive
  <2> QED BY <2>2, <2>3
<1>3. ASSUME o.pc \in OnComanda PROVE /\ o \in Request /\ o.comanda \in ComandaIds
                                      /\ comandas[o.comanda] \in ComandaRow
                                      /\ o.lido \in ComandaRow
  BY <1>3, OnItsRow, ReqType
<1>4. o.pc # "idle" /\ o.card \notin sobrepostos' => Current(o, comandas, itens, pagos)
  BY KnownNow
<1>5. CASE RecalcSave(p)
  <2>1. /\ o.pc = "recalcSave" /\ o.pc \in OnComanda
        /\ Grava(o.comanda, Recalculada(o.lido, o.itens))
    BY <1>5 DEF RecalcSave, At, OnComanda
  <2>2. Recalculada(o.lido, o.itens).status = o.lido.status
    BY <1>3, <2>1 DEF Recalculada, ComandaRow
  <2>3. o.card \notin sobrepostos' => o.lido = comandas[o.comanda]
    BY <1>4, <2>1 DEF Current
  <2> QED BY <1>2, <2>1, <2>2, <2>3
<1>6. CASE SaveRow(p)
  <2>1. /\ o.pc \in {"closeSave", "reopenSave", "cancelSave"} /\ o.pc \in OnComanda
        /\ Grava(o.comanda, o.lido)
    BY <1>6 DEF SaveRow, OnComanda
  <2>2. ASSUME o.card \notin sobrepostos'
        PROVE  LET was == comandas[o.comanda].status
               IN  \/ o.lido.status = was
                   \/ was = "open" /\ o.lido.status \in {"pending_payment", "cancelled"}
                   \/ /\ was = "pending_payment"
                      /\ o.lido.status \in {"open", "paid", "cancelled"}
    <3>1. CASE o.pc = "closeSave"
      BY <1>4, <2>2, <3>1 DEF Current, WhileOpen
    <3>2. CASE o.pc = "reopenSave"
      BY <1>3, <1>4, <2>1, <2>2, <3>2 DEF Current, ComandaRow
    <3>3. CASE o.pc = "cancelSave"
      BY <1>3, <1>4, <2>1, <2>2, <3>3 DEF Current, ComandaRow
    <3> QED BY <2>1, <3>1, <3>2, <3>3
  <2> QED BY <1>2, <2>1, <2>2
<1>7. CASE PayClose(p)
  <2> DEFINE row == [comandas[o.comanda] EXCEPT !.status = "pending_payment"]
  <2>1. o.pc = "payClose" /\ o.pc \in OnComanda /\ Grava(o.comanda, row)
    BY <1>7 DEF PayClose, At, OnComanda
  <2>2. row.status = "pending_payment"
    BY <1>3, <2>1 DEF ComandaRow
  <2>3. o.card \notin sobrepostos' => comandas[o.comanda].status = "open"
    BY <1>4, <2>1 DEF Current, WhileOpen
  <2> HIDE DEF row
  <2> QED BY <1>2, <2>1, <2>2, <2>3
<1>8. CASE PayAlready(p)
  <2> DEFINE row == [comandas[o.comanda] EXCEPT !.status = "paid",
                                                !.totalPago = o.lido.total]
  <2>1. o.pc = "payAlready" /\ o.pc \in OnComanda /\ Grava(o.comanda, row)
    BY <1>8 DEF PayAlready, At, OnComanda
  <2>2. row.status = "paid"
    BY <1>3, <2>1 DEF ComandaRow
  <2>3. o.card \notin sobrepostos' => comandas[o.comanda].status = "pending_payment"
    BY <1>4, <2>1 DEF Current, WhilePending
  <2> HIDE DEF row
  <2> QED BY <1>2, <2>1, <2>2, <2>3
<1>9. CASE PayUpdate(p)
  <2> DEFINE row == Quitacao(comandas[o.comanda], o.lido, o.jaPago + o.saldo + o.outro)
  <2>1. o.pc = "payUpdate" /\ o.pc \in OnComanda /\ Grava(o.comanda, row)
    BY <1>9 DEF PayUpdate, At, OnComanda
  <2>2. row.status \in {"paid", "pending_payment"}
    BY <1>3, <2>1 DEF ComandaRow, Quitacao
  <2>3. o.card \notin sobrepostos' => comandas[o.comanda].status = "pending_payment"
    BY <1>4, <2>1 DEF Current, WhilePending
  <2> HIDE DEF row
  <2> QED BY <1>2, <2>1, <2>2, <2>3
<1> QED BY <1>1, <1>5, <1>6, <1>7, <1>8, <1>9

LEMMA AliveKept ==
    ASSUME TabInv, SheetInv, Grow, Step, NEW c \in ComandaIds, Separada(c)'
    PROVE  Alive(c)
<1>1. CASE UNCHANGED <<comandas, itens>>
  BY <1>1 DEF Alive, ItensDe
<1>2. ASSUME NEW p \in Requests,
             \/ \E d \in ComandaIds : TapInsert(p, d)
             \/ RecalcSave(p) \/ SaveRow(p) \/ PayClose(p) \/ PayAlready(p)
             \/ PayUpdate(p)
      PROVE  Alive(c)
  BY <1>2, AliveSave
<1>3. ASSUME NEW p \in Requests,
             (\E x \in ItemIds : AddItem(p, x)) \/ RemoveItem(p)
      PROVE  Alive(c)
  <2>1. /\ req[p].pc \in {"addItem", "addNext", "removeItem"} /\ comandas' = comandas
    BY <1>3 DEF AddItem, RemoveItem, At
  <2>2. req[p].comanda \in ComandaIds /\ comandas[req[p].comanda].card = req[p].card
    BY <2>1, OnItsRow DEF OnComanda
  <2>3. CASE c = req[p].comanda
    <3>1. comandas[c].status = "open"
      BY <2>1, <2>2, <2>3, KnownNow DEF Separada, Current, WhileOpen
    <3> QED BY <2>1, <3>1 DEF Alive
  <2>4. CASE c # req[p].comanda
    <3>1. Lista(itens', c) = Lista(itens, c)
      BY <1>3, <2>2, <2>4, ItemsOfOne DEF SheetInv
    <3> QED BY <2>1, <3>1 DEF Alive, ItensDe, Lista
  <2> QED BY <2>3, <2>4
<1>4. ASSUME NEW p \in Requests,
             \/ Start(p) \/ Abort(p) \/ TapFind(p) \/ RemoveFind(p) \/ RecalcRead(p)
             \/ PaySum(p) \/ PayDebit(p)
             \/ \E s \in {0, req[p].saldoIns}, o \in {0, req[p].outroIns} :
                   PayInsert(p, s, o)
      PROVE  UNCHANGED <<comandas, itens>>
  BY <1>4 DEF Start, Abort, TapRead, AddRead, RemoveRead, CloseRead, ReopenRead,
     CancelRead, PayRead, TapFind, RemoveFind, RecalcRead, PaySum, PayDebit, PayInsert,
     tables
<1>5. \A k \in CardIds, st \in CardStatus :
         SetCard(k, st) => UNCHANGED <<comandas, itens>>
  BY DEF SetCard
<1> QED BY <1>1, <1>2, <1>3, <1>4, <1>5 DEF Step, Continue

\* paid and cancelled are final, a comanda is paid only after it stopped taking
\* items, and its items change only while it is open, wherever requests stop.
THEOREM ComandaLives == Spec => ComandaLifecycle
<1>1. ComandasInv /\ [Next]_vars => [\A c \in ComandaIds : Separada(c)' => Alive(c)]_vars
  BY AliveKept, GrowStep DEF ComandasInv, Next
<1> QED BY ComandasInvInit, ComandasInvStep, <1>1, PTL DEF Spec, ComandaLifecycle, Alive
=============================================================================
