--------------------------- MODULE CarteiraProofs ---------------------------
(***************************************************************************)
(* The wallet keeps its promise (Carteira), for every number of cards,     *)
(* reserves, intents, sessions and requests and for every amount.          *)
(*                                                                         *)
(* The argument: what a request found out before its last await still      *)
(* holds at its last step when no other request named its card (HoldInv).  *)
(* The reserves of a card are changed only by requests that name it, so    *)
(* what was free of the balance when it was summed is free when it is      *)
(* taken, and the reserve that was found ACTIVE still is.  With the rows   *)
(* that are still as they were read (BalanceInv), each step of a handler   *)
(* is then a step of the wallet or none.                                   *)
(***************************************************************************)
EXTENDS Carteira, CardsProofs

\* What a request knows whatever the others do.
Known(r, rs) ==
    /\ r.pc \in HasNatural => r.valor \in Valores
    /\ r.pc \in {"reserveSum", "reserveInsert"} => r.lido.status = "active"
    /\ r.pc \in {"refundCommit", "transferCommit"} => r.valor > 0
    /\ r.pc = "statusSave" => r.status # "absent"
    /\ r.pc \in NeedsRow => rs[r.reserve].card = r.card

\* What it found out, and relies on when it writes.
Ready(r, rs) ==
    /\ r.pc = "reserveInsert" => r.valor <= r.lido.saldo - Reserved(r.card, rs)
    /\ r.pc = "transferCommit" => r.valor = r.lido.saldo - Reserved(r.card, rs)
    /\ r.pc = "refundCommit" =>
          r.valor \in Valores \/ r.valor = r.lido.saldo - Reserved(r.card, rs)
    /\ r.pc \in {"confirmExpire", "confirmCommit"} => rs[r.reserve].status = "active"
    /\ r.pc = "confirmCommit" => r.valor = rs[r.reserve].valor
    /\ r.pc = "rollbackSave" => rs[r.reserve].status # "confirmed"

Promised(r, rs, sob) == Known(r, rs) /\ (r.card \notin sob => Ready(r, rs))

EmptyRows ==
    \A n \in ReserveIds :
        reserves[n].status = "none" => reserves[n].card = None /\ reserves[n].valor = 0

AllPromised == \A p \in Requests : Promised(req[p], reserves, sobrepostos)

HoldInv == EmptyRows /\ AllPromised
-----------------------------------------------------------------------------
(* The reserves of a card *)

SameHolds(c, rs, rs2) ==
    \A n \in ReserveIds :
        rs[n].card = c \/ rs2[n].card = c =>
            /\ rs2[n].card = rs[n].card
            /\ rs2[n].status = rs[n].status
            /\ rs2[n].valor = rs[n].valor

LEMMA SameReserved ==
    ASSUME NEW c, NEW rs, NEW rs2, SameHolds(c, rs, rs2)
    PROVE  Reserved(c, rs2) = Reserved(c, rs)
<1>1. Cells(c, rs2) = Cells(c, rs)
  BY DEF Cells, SameHolds
<1> QED BY <1>1 DEF Reserved

\* A step of p changes reserves of the cards it names alone.
OwnRows(p) ==
    \A n \in ReserveIds :
        reserves'[n] # reserves[n] =>
            /\ reserves'[n].card \in CardsIn(req[p])
            /\ reserves[n].status # "none" => reserves'[n].card = reserves[n].card

LEMMA OthersHold ==
    ASSUME TypeInv, EmptyRows, NEW p \in Requests, OwnRows(p),
           NEW c \in CardIds, c \notin CardsIn(req[p])
    PROVE  SameHolds(c, reserves, reserves')
BY CardsAssumption DEF SameHolds, OwnRows, EmptyRows

LEMMA PromiseKept ==
    ASSUME NEW r \in SoundRequest, NEW rs, NEW rs2, NEW sob, NEW sob2, sob \subseteq sob2,
           Promised(r, rs, sob),
           r.pc \in NeedsRow => rs2[r.reserve].card = rs[r.reserve].card,
           r.pc # "idle" /\ r.card \notin sob2 => SameHolds(r.card, rs, rs2)
    PROVE  Promised(r, rs2, sob2)
<1>1. Known(r, rs2)
  BY DEF Promised, Known
<1>2. ASSUME r.card \notin sob2, r.pc # "idle" PROVE Ready(r, rs2)
  <2>1. Ready(r, rs) /\ Reserved(r.card, rs2) = Reserved(r.card, rs)
    BY <1>2, SameReserved DEF Promised
  <2>2. r.pc \in NeedsRow =>
          /\ rs2[r.reserve].status = rs[r.reserve].status
          /\ rs2[r.reserve].valor = rs[r.reserve].valor
    BY <1>2 DEF SameHolds, Promised, Known, SoundRequest, Sound, NeedsRow, NeedsReserve
  <2> QED BY <2>1, <2>2 DEF Ready, NeedsRow
<1>3. r.pc = "idle" => Ready(r, rs2)
  BY DEF Ready
<1> QED BY <1>1, <1>2, <1>3 DEF Promised

\* What a step of request p must show of its slot and of the reserves.
LEMMA GoPromise ==
    ASSUME TypeInv, Apart, HoldInv, Grows, NEW p \in Requests, NEW r, Go(p, r), OwnRows(p),
           Promised(r, reserves', sobrepostos')
    PROVE  AllPromised'
<1>1. req'[p] = r /\ \A q \in Requests \ {p} : req'[q] = req[q]
  BY DEF Go, TypeInv, RequestsInv
<1>2. ASSUME NEW q \in Requests, q # p
      PROVE  Promised(req[q], reserves', sobrepostos')
  <2>1. req[q] \in SoundRequest /\ Promised(req[q], reserves, sobrepostos)
    BY DEF TypeInv, RequestsInv, HoldInv, AllPromised
  <2>2. req[q].pc \in NeedsRow =>
          /\ req[q].reserve \in ReserveIds
          /\ reserves[req[q].reserve].status # "none"
    BY <2>1 DEF TypeInv, RowsInv, SoundRequest, Sound, NeedsRow, NeedsReserve
  <2>3. req[q].pc \in NeedsRow =>
          reserves'[req[q].reserve].card = reserves[req[q].reserve].card
    BY <2>2 DEF OwnRows
  <2>4. ASSUME req[q].pc # "idle", req[q].card \notin sobrepostos'
        PROVE  SameHolds(req[q].card, reserves, reserves')
    <3>1. req[q].card \in CardIds /\ req[q].card \in CardsIn(req[q])
      BY <2>1, <2>4, CardsAssumption DEF SoundRequest, Sound, CardsIn
    <3>2. req[q].card \notin CardsIn(req[p])
      BY <1>2, <2>4, <3>1 DEF Apart, Grows
    <3> QED BY <3>1, <3>2, OthersHold DEF HoldInv
  <2> QED BY <2>1, <2>3, <2>4, PromiseKept DEF Grows
<1> QED BY <1>1, <1>2 DEF AllPromised

LEMMA FinishPromise ==
    ASSUME TypeInv, Apart, HoldInv, Grows, NEW p \in Requests, Finish(p), OwnRows(p)
    PROVE  AllPromised'
<1>1. Promised(Idle, reserves', sobrepostos')
  BY DEF Promised, Known, Ready, Idle, HasNatural, NeedsRow
<1> QED BY <1>1, GoPromise DEF Finish

\* A step that leaves the reserves alone.
LEMMA RowsAlone ==
    ASSUME NEW p, UNCHANGED reserves
    PROVE  OwnRows(p) /\ (EmptyRows => EmptyRows')
BY DEF OwnRows, EmptyRows

LEMMA ExpireOwn ==
    ASSUME TypeInv, EmptyRows, NEW p \in Requests, req[p].card \in CardsIn(req[p]),
           reserves' = ExpireOldReserves(req[p].card)
    PROVE  OwnRows(p) /\ EmptyRows'
<1>1. \A n \in ReserveIds :
        \/ reserves'[n] = reserves[n]
        \/ /\ reserves[n].card = req[p].card /\ reserves[n].status = "active"
           /\ reserves'[n] = [reserves[n] EXCEPT !.status = "expired"]
  BY DEF ExpireOldReserves
<1>2. \A n \in ReserveIds : reserves[n] \in ReserveRow
  BY DEF TypeInv, TablesInv, SoundReserve
<1>3. \A n \in ReserveIds :
        \/ reserves'[n] = reserves[n]
        \/ /\ reserves[n].card = req[p].card /\ reserves[n].status = "active"
           /\ reserves'[n].card = reserves[n].card /\ reserves'[n].status = "expired"
  BY <1>1, <1>2 DEF ReserveRow
<1> QED BY <1>3 DEF OwnRows, EmptyRows

LEMMA SetOwn ==
    ASSUME TypeInv, HoldInv, NEW p \in Requests, req[p].pc \in NeedsRow,
           NEW st, st # "none", reserves' = SetReserve(req[p].reserve, st)
    PROVE  OwnRows(p) /\ EmptyRows'
<1> DEFINE n == req[p].reserve
<1>1. /\ n \in ReserveIds /\ reserves[n] \in ReserveRow
      /\ reserves[n].card = req[p].card /\ req[p].card \in CardsIn(req[p])
  BY CardsAssumption
  DEF TypeInv, TablesInv, RequestsInv, SoundReserve, HoldInv, AllPromised, Promised, Known,
      SoundRequest, Sound, NeedsRow, NeedsReserve, CardsIn
<1>2. /\ reserves'[n].card = req[p].card /\ reserves'[n].status = st
      /\ \A m \in ReserveIds \ {n} : reserves'[m] = reserves[m]
  BY <1>1 DEF SetReserve, TypeInv, TablesInv, ReserveRow
<1> QED BY <1>1, <1>2 DEF OwnRows, HoldInv, EmptyRows
-----------------------------------------------------------------------------
(* HoldInv is inductive *)

LEMMA HoldInit == Init => HoldInv
BY DEF Init, HoldInv, EmptyRows, AllPromised, Promised, Known, Ready, NoReserve, Idle,
       HasNatural, NeedsRow

LEMMA HoldOutside ==
    ASSUME TypeInv, HoldInv, Grows, Outside
    PROVE  HoldInv'
<1>1. /\ UNCHANGED req
      /\ \A n \in ReserveIds :
            /\ reserves'[n].card = reserves[n].card
            /\ reserves'[n].status = reserves[n].status
            /\ reserves'[n].valor = reserves[n].valor
  <2>1. ASSUME NEW n \in ReserveIds, TtlPasses(n)
        PROVE  /\ UNCHANGED req
               /\ \A m \in ReserveIds :
                     /\ reserves'[m].card = reserves[m].card
                     /\ reserves'[m].status = reserves[m].status
                     /\ reserves'[m].valor = reserves[m].valor
    BY <2>1 DEF TtlPasses, TypeInv, TablesInv, SoundReserve, ReserveRow
  <2> QED
    BY <2>1
    DEF Outside, Create, CreateRechargeIntent, ResolveIntent, Caixa, EncerraEvento
<1>2. \A c : SameHolds(c, reserves, reserves')
  BY <1>1 DEF SameHolds
<1>3. ASSUME NEW q \in Requests PROVE Promised(req[q], reserves', sobrepostos')
  <2>1. req[q] \in SoundRequest /\ Promised(req[q], reserves, sobrepostos)
    BY DEF TypeInv, RequestsInv, HoldInv, AllPromised
  <2>2. req[q].pc \in NeedsRow => req[q].reserve \in ReserveIds
    BY <2>1 DEF SoundRequest, Sound, NeedsRow, NeedsReserve
  <2> QED BY <1>1, <1>2, <2>1, <2>2, PromiseKept DEF Grows
<1> QED BY <1>1, <1>3 DEF HoldInv, EmptyRows, AllPromised

LEMMA HoldStart ==
    ASSUME TypeInv, Apart, HoldInv, Grows, NEW p \in Requests, Start(p)
    PROVE  HoldInv'
<1>1. UNCHANGED reserves
  BY DEF Start, RechargeRead, ReserveRead, ConfirmRead, RollbackRead, RefundRead,
         StatusRead, TransferRead, tables
<1>2. ASSUME NEW r, Go(p, r), Promised(r, reserves, sobrepostos')
      PROVE  HoldInv'
  BY <1>1, <1>2, GoPromise, RowsAlone DEF HoldInv
<1>3. ASSUME NEW r, Go(p, r),
             r.pc \in {"confirmReserve", "refundSum", "transferTo"}
      PROVE  HoldInv'
  BY <1>2, <1>3 DEF Promised, Known, Ready, HasNatural, NeedsRow
<1> USE DEF Idle
<1>4. ASSUME NEW c \in CardIds, NEW v \in Valores, NEW i \in IntentIds \cup {None},
             RechargeRead(p, c, v, i)
      PROVE  HoldInv'
  BY <1>2, <1>4 DEF RechargeRead, Promised, Known, Ready, NeedsRow
<1>5. ASSUME NEW c \in CardIds, NEW v \in Valores, ReserveRead(p, c, v)
      PROVE  HoldInv'
  BY <1>2, <1>5 DEF ReserveRead, Promised, Known, Ready, NeedsRow
<1>6. ASSUME NEW c \in CardIds, NEW n \in ReserveIds, ConfirmRead(p, c, n)
      PROVE  HoldInv'
  BY <1>3, <1>6 DEF ConfirmRead
<1>7. ASSUME NEW n \in ReserveIds, RollbackRead(p, n)
      PROVE  HoldInv'
  BY <1>2, <1>7 DEF RollbackRead, Reversivel, Promised, Known, Ready, HasNatural
<1>8. ASSUME NEW c \in CardIds, NEW v \in Valores \cup {0}, RefundRead(p, c, v)
      PROVE  HoldInv'
  <2>1. CASE v = 0
    <3> DEFINE r == [Idle EXCEPT !.pc = IF v > 0 THEN "refundCommit" ELSE "refundSum",
                                 !.card = c, !.valor = v, !.lido = cards[c]]
    <3>1. Go(p, r) /\ r.pc = "refundSum"
      BY <1>8, <2>1 DEF RefundRead
    <3> HIDE DEF r
    <3> QED BY <1>3, <3>1
  <2>2. CASE v \in Valores
    <3>1. v > 0
      BY <2>2, CardsAssumption DEF Valores
    <3> QED
      BY <1>2, <1>8, <2>2, <3>1 DEF RefundRead, Promised, Known, Ready, HasNatural, NeedsRow
  <2> QED BY <1>8, <2>1, <2>2
<1>9. ASSUME NEW c \in CardIds, NEW st \in CardStatus \ {"absent"}, StatusRead(p, c, st)
      PROVE  HoldInv'
  BY <1>2, <1>9 DEF StatusRead, Promised, Known, Ready, HasNatural, NeedsRow
<1>10. ASSUME NEW c \in CardIds, NEW d \in CardIds, TransferRead(p, c, d)
      PROVE  HoldInv'
  BY <1>3, <1>10 DEF TransferRead
<1> HIDE DEF Idle
<1> QED
  BY <1>4, <1>5, <1>6, <1>7, <1>8, <1>9, <1>10 DEF Start

\* The reads between the first and the last await of a request.
LEMMA HoldContinue ==
    ASSUME TypeInv, Apart, HoldInv, Grows, NEW p \in Requests, Continue(p)
    PROVE  HoldInv'
<1> DEFINE o == req[p]
<1>0. o \in Request /\ o \in SoundRequest /\ Known(o, reserves)
  BY DEF TypeInv, RequestsInv, SoundRequest, HoldInv, AllPromised, Promised
<1>a. o.pc # "idle" => o.card \in CardIds /\ o.card \in CardsIn(o)
  BY <1>0, CardsAssumption DEF SoundRequest, Sound, CardsIn
<1>1. ASSUME NEW r, Go(p, r), OwnRows(p), EmptyRows', Promised(r, reserves', sobrepostos')
      PROVE  HoldInv'
  BY <1>1, GoPromise DEF HoldInv
<1>2. ASSUME Finish(p), OwnRows(p), EmptyRows'
      PROVE  HoldInv'
  BY <1>2, FinishPromise DEF HoldInv
<1>3. ASSUME UNCHANGED reserves PROVE OwnRows(p) /\ EmptyRows'
  BY <1>3, RowsAlone DEF HoldInv
<1>4. ASSUME o.pc # "idle", reserves' = ExpireOldReserves(o.card)
      PROVE  OwnRows(p) /\ EmptyRows'
  BY <1>a, <1>4, ExpireOwn DEF HoldInv
<1>5. ASSUME o.pc \in NeedsRow, NEW st, st # "none", reserves' = SetReserve(o.reserve, st)
      PROVE  OwnRows(p) /\ EmptyRows'
  BY <1>5, SetOwn
<1> HIDE DEF o
<1>6. CASE RechargeCheckIntent(p)
  <2> DEFINE r == [o EXCEPT !.pc = "rechargeCommit"]
  <2>1. /\ Go(p, r) /\ UNCHANGED reserves /\ o.pc = "rechargePayment"
    BY <1>6 DEF RechargeCheckIntent, tables, At, o
  <2>2. r.pc = "rechargeCommit" /\ r.valor = o.valor
    BY <1>0 DEF Request
  <2>3. Promised(r, reserves', sobrepostos')
    BY <1>0, <2>1, <2>2 DEF Promised, Known, Ready, HasNatural, NeedsRow
  <2> HIDE DEF r
  <2> QED BY <1>1, <1>3, <2>1, <2>3
<1>7. ASSUME NEW i \in IntentIds, NEW s \in CaixaIds \cup {None}, RechargeCash(p, i, s)
      PROVE  HoldInv'
  <2> DEFINE r == [o EXCEPT !.pc = "rechargeCommit", !.intent = i, !.caixa = s]
  <2>1. /\ Go(p, r) /\ UNCHANGED reserves /\ o.pc = "rechargePayment"
    BY <1>7 DEF RechargeCash, At, o
  <2>2. r.pc = "rechargeCommit" /\ r.valor = o.valor
    BY <1>0 DEF Request
  <2>3. Promised(r, reserves', sobrepostos')
    BY <1>0, <2>1, <2>2 DEF Promised, Known, Ready, HasNatural, NeedsRow
  <2> HIDE DEF r
  <2> QED BY <1>1, <1>3, <2>1, <2>3
<1>8. CASE RechargeCommit(p)
  <2> DEFINE r == [o EXCEPT !.pc = "rechargeMovement"]
  <2>1. UNCHANGED reserves /\ (Go(p, r) \/ Finish(p))
    BY <1>8 DEF RechargeCommit, o
  <2>2. r.pc = "rechargeMovement"
    BY <1>0 DEF Request
  <2>3. Promised(r, reserves', sobrepostos')
    BY <2>2 DEF Promised, Known, Ready, HasNatural, NeedsRow
  <2> HIDE DEF r
  <2> QED BY <1>1, <1>2, <1>3, <2>1, <2>3
<1>9. CASE ReserveSum(p)
  <2> DEFINE r == [o EXCEPT !.pc = "reserveInsert"]
  <2>1. /\ o.pc = "reserveSum" /\ reserves' = ExpireOldReserves(o.card)
        /\ \/ Go(p, r) /\ o.lido.saldo - Reserved(o.card, reserves') >= o.valor
           \/ Finish(p)
    BY <1>9 DEF ReserveSum, SaldoSuficiente, Available, At, o
  <2>2. r.pc = "reserveInsert" /\ r.valor = o.valor /\ r.card = o.card /\ r.lido = o.lido
    BY <1>0 DEF Request
  <2>3. reserves' \in [ReserveIds -> ReserveRow]
    BY <2>1, ExpireType, TypeInvType
  <2>4. Reserved(o.card, reserves') \in Nat /\ o.valor \in Int /\ o.lido.saldo \in Int
    BY <1>0, <1>a, <2>1, <2>3, ReservedType DEF Request, CardRow
  <2>5. ASSUME Go(p, r), o.lido.saldo - Reserved(o.card, reserves') >= o.valor
        PROVE  Promised(r, reserves', sobrepostos')
    BY <1>0, <2>1, <2>2, <2>4, <2>5 DEF Promised, Known, Ready, HasNatural, NeedsRow
  <2> HIDE DEF r
  <2> QED BY <1>1, <1>2, <1>4, <2>1, <2>5
<1>10. CASE RefundSum(p)
  <2> DEFINE v == o.lido.saldo - Reserved(o.card, reserves')
             r == [o EXCEPT !.pc = "refundCommit", !.valor = v]
  <2>1. /\ o.pc = "refundSum" /\ reserves' = ExpireOldReserves(o.card)
        /\ (Go(p, r) /\ v > 0) \/ Finish(p)
    BY <1>10 DEF RefundSum, Available, At, o
  <2>2. r.pc = "refundCommit" /\ r.valor = v /\ r.card = o.card /\ r.lido = o.lido
    BY <1>0 DEF Request
  <2>3. v > 0 => Promised(r, reserves', sobrepostos')
    BY <2>2 DEF Promised, Known, Ready, HasNatural, NeedsRow
  <2> HIDE DEF r, v
  <2> QED BY <1>1, <1>2, <1>4, <2>1, <2>3
<1>11. CASE TransferSum(p)
  <2> DEFINE v == o.lido.saldo - Reserved(o.card, reserves')
             r == [o EXCEPT !.pc = "transferCommit", !.valor = v]
  <2>1. /\ o.pc = "transferSum" /\ reserves' = ExpireOldReserves(o.card)
        /\ (Go(p, r) /\ v > 0) \/ Finish(p)
    BY <1>11 DEF TransferSum, Available, At, o
  <2>2. r.pc = "transferCommit" /\ r.valor = v /\ r.card = o.card /\ r.lido = o.lido
    BY <1>0 DEF Request
  <2>3. v > 0 => Promised(r, reserves', sobrepostos')
    BY <2>2 DEF Promised, Known, Ready, HasNatural, NeedsRow
  <2> HIDE DEF r, v
  <2> QED BY <1>1, <1>2, <1>4, <2>1, <2>3
<1>12. ASSUME NEW n \in ReserveIds, ReserveInsert(p, n)
      PROVE  HoldInv'
  <2>1. /\ o.pc = "reserveInsert" /\ Finish(p) /\ reserves[n].status = "none"
        /\ reserves' = [reserves EXCEPT ![n] = [card |-> o.card, valor |-> o.valor,
                                                status |-> "active", due |-> FALSE]]
    BY <1>12 DEF ReserveInsert, FreeRow, At, o
  <2>2. /\ reserves'[n].card = o.card /\ reserves'[n].status = "active"
        /\ \A m \in ReserveIds \ {n} : reserves'[m] = reserves[m]
    BY <2>1 DEF TypeInv, TablesInv
  <2>3. OwnRows(p) /\ EmptyRows'
    BY <1>a, <2>1, <2>2 DEF OwnRows, HoldInv, EmptyRows, o
  <2> QED BY <1>2, <2>1, <2>3
<1>13. CASE ConfirmReserve(p)
  <2> DEFINE n == o.reserve
             r == [o EXCEPT !.pc = IF reserves[n].due THEN "confirmExpire" ELSE "confirmCommit",
                            !.valor = reserves[n].valor]
  <2>1. /\ Go(p, r) /\ UNCHANGED reserves
        /\ reserves[n].card = o.card /\ reserves[n].status = "active"
    BY <1>13 DEF ConfirmReserve, Confirmavel, tables, o
  <2>2. /\ r.pc \in {"confirmExpire", "confirmCommit"} /\ r.valor = reserves[n].valor
        /\ r.card = o.card /\ r.reserve = n
    BY <1>0 DEF Request
  <2>3. Promised(r, reserves', sobrepostos')
    BY <2>1, <2>2 DEF Promised, Known, Ready, HasNatural, NeedsRow
  <2> HIDE DEF r, n
  <2> QED BY <1>1, <1>3, <2>1, <2>3
<1>14. CASE ConfirmExpire(p) \/ ConfirmCommit(p) \/ RollbackSave(p)
  <2>1. o.pc \in NeedsRow /\ Finish(p)
    BY <1>14 DEF ConfirmExpire, ConfirmCommit, RollbackSave, At, NeedsRow, o
  <2>2. PICK st \in {"expired", "confirmed", "rolled_back"} :
          reserves' = SetReserve(o.reserve, st)
    BY <1>14 DEF ConfirmExpire, ConfirmCommit, RollbackSave, o
  <2> QED BY <1>2, <1>5, <2>1, <2>2
<1>15. CASE RechargeMovement(p) \/ RefundCommit(p) \/ StatusSave(p) \/ TransferCommit(p)
  BY <1>2, <1>3, <1>15 DEF RechargeMovement, RefundCommit, StatusSave, TransferCommit
<1>16. CASE TransferTo(p)
  <2> DEFINE row == TargetRow(o.para)
             r == [o EXCEPT !.pc = "transferSum", !.lidoPara = row]
  <2>1. Go(p, r) /\ UNCHANGED reserves
    BY <1>16 DEF TransferTo, o
  <2>2. r.pc = "transferSum"
    BY <1>0 DEF Request
  <2>3. Promised(r, reserves', sobrepostos')
    BY <2>2 DEF Promised, Known, Ready, HasNatural, NeedsRow
  <2> HIDE DEF r
  <2> QED BY <1>1, <1>3, <2>1, <2>3
<1> QED
  BY <1>6, <1>7, <1>8, <1>9, <1>10, <1>11, <1>12, <1>13, <1>14, <1>15, <1>16 DEF Continue

LEMMA HoldStep ==
    ASSUME TypeInv, TypeInv', Apart, HoldInv, [Next]_vars
    PROVE  HoldInv'
<1>1. CASE UNCHANGED vars
  BY <1>1 DEF vars, tables, HoldInv, EmptyRows, AllPromised
<1>2. CASE Next
  <2>1. Grows
    BY <1>2, HistoryApart DEF Next
  <2>2. ASSUME NEW p \in Requests, Abort(p) PROVE HoldInv'
    BY <2>1, <2>2, FinishPromise, RowsAlone DEF Abort, tables, HoldInv
  <2> QED BY <1>2, <2>1, <2>2, HoldOutside, HoldStart, HoldContinue DEF Next
<1> QED BY <1>1, <1>2
-----------------------------------------------------------------------------
(* The wallet's state as the rows of Cards give it *)

LEMMA ContaOf ==
    ASSUME NEW c \in CardIds
    PROVE  /\ c \in sobrepostos =>
                 contas[c] = W!ContaPerdida /\ contas[c].situacao = "lost"
           /\ c \notin sobrepostos =>
                 /\ contas[c].saldo = cards[c].saldo
                 /\ contas[c].situacao = Situacao(c)
                 /\ contas[c] = [saldo |-> cards[c].saldo, situacao |-> Situacao(c)]
BY DEF contas, Conta, W!ContaPerdida

LEMMA EstadoOf ==
    /\ Estado["none"] = "free" /\ Estado["active"] = "held"
    /\ Estado["confirmed"] = "paid"
    /\ Estado["expired"] = "back" /\ Estado["rolled_back"] = "back"
BY DEF Estado

LEMMA RetencaoOf ==
    ASSUME NEW n \in ReserveIds
    PROVE  /\ reserves[n].card \in sobrepostos => retencoes[n] = W!RetencaoPerdida
           /\ reserves[n].card \notin sobrepostos =>
                 /\ retencoes[n] = [conta |-> reserves[n].card, valor |-> reserves[n].valor,
                                    estado |-> Estado[reserves[n].status]]
                 /\ retencoes[n].conta = reserves[n].card
                 /\ retencoes[n].valor = reserves[n].valor
                 /\ retencoes[n].estado = Estado[reserves[n].status]
BY DEF retencoes, Retencao, W!RetencaoPerdida, W!SemRetencao

LEMMA OrdensOf ==
    \A x : x \in Ordens <=>
        \E q \in Requests : /\ req[q].pc = "statusSave"
                            /\ req[q].card \notin sobrepostos
                            /\ x = <<req[q].card, req[q].status>>
BY DEF Ordens, At

LEMMA SameCardinality == \A S : W!Cardinality(S) = Cardinality(S)
BY DEF W!Cardinality, Cardinality

\* The holds of a card that is not lost are its ACTIVE reserves.
LEMMA RetidasOf ==
    ASSUME TypeInv, NEW c \in CardIds \ sobrepostos
    PROVE  W!Retidas(c) = {n \in ReserveIds : reserves[n].card = c /\ reserves[n].status = "active"}
<1>1. ASSUME NEW n \in ReserveIds
      PROVE  retencoes[n].conta = c /\ retencoes[n].estado = "held"
             <=> reserves[n].card = c /\ reserves[n].status = "active"
  <2>1. reserves[n].status \in ReserveStatus
    BY DEF TypeInv, TablesInv, SoundReserve, ReserveRow
  <2>2. CASE reserves[n].card \in sobrepostos
    BY <2>2, RetencaoOf, CardsAssumption DEF W!RetencaoPerdida, W!SemRetencao
  <2>3. CASE reserves[n].card \notin sobrepostos
    BY <2>1, <2>3, RetencaoOf, EstadoOf DEF ReserveStatus
  <2> QED BY <2>2, <2>3
<1> QED BY <1>1 DEF W!Retidas

LEMMA RetidoOf ==
    ASSUME TypeInv, NEW c \in CardIds \ sobrepostos
    PROVE  /\ W!Retido(c) = Reserved(c, reserves)
           /\ W!Livre(c) = cards[c].saldo - Reserved(c, reserves)
<1>1. ASSUME NEW n \in ReserveIds, NEW v \in Valores
      PROVE  n \in W!Retidas(c) /\ v <= retencoes[n].valor
             <=> /\ reserves[n].card = c /\ reserves[n].status = "active"
                 /\ v <= reserves[n].valor
  <2>1. n \in W!Retidas(c) <=> reserves[n].card = c /\ reserves[n].status = "active"
    BY RetidasOf
  <2>2. reserves[n].card = c => retencoes[n].valor = reserves[n].valor
    BY RetencaoOf
  <2> QED BY <2>1, <2>2
<1>2. {x \in ReserveIds \X Valores :
          x[1] \in W!Retidas(c) /\ x[2] <= retencoes[x[1]].valor} = Cells(c, reserves)
  BY <1>1 DEF Cells
<1>3. W!Retido(c) = Reserved(c, reserves)
  BY <1>2, SameCardinality DEF W!Retido, Reserved
<1>4. contas[c].saldo = cards[c].saldo
  BY ContaOf
<1> QED BY <1>3, <1>4 DEF W!Livre

LEMMA AbertaOf ==
    ASSUME TypeInv, NEW c \in CardIds \ sobrepostos
    PROVE  /\ W!Aberta(c) <=> cards[c].status # "absent"
           /\ contas[c].situacao = "none" <=> cards[c].status = "absent"
           /\ cards[c].status # "absent" => contas[c].situacao = cards[c].status
<1>1. cards[c].status \in CardStatus
  BY DEF TypeInv, TablesInv, CardRow
<1> QED BY <1>1, ContaOf DEF W!Aberta, Situacao, CardStatus

LEMMA PerdidaOf ==
    ASSUME TypeInv, NEW c \in CardIds
    PROVE  /\ W!Perdida(c) <=> c \in sobrepostos
           /\ c \in sobrepostos => ~W!Aberta(c)
<1>1. c \notin sobrepostos => contas[c].situacao \in CardStatus \cup {"none"}
  BY ContaOf DEF TypeInv, TablesInv, CardRow, Situacao
<1>2. c \in sobrepostos => contas[c].situacao = "lost"
  BY ContaOf
<1> QED BY <1>1, <1>2 DEF W!Perdida, W!Aberta, CardStatus
-----------------------------------------------------------------------------
(* What a step leaves of it *)

LEMMA ContasSame == ASSUME UNCHANGED <<cards, sobrepostos>> PROVE UNCHANGED contas
BY DEF contas, Conta, Situacao

LEMMA RetencoesSame ==
    ASSUME UNCHANGED sobrepostos,
           \A n \in ReserveIds :
               \/ /\ reserves'[n].card = reserves[n].card
                  /\ reserves'[n].valor = reserves[n].valor
                  /\ reserves'[n].status = reserves[n].status
               \/ reserves[n].card \in sobrepostos /\ reserves'[n].card \in sobrepostos
    PROVE  UNCHANGED retencoes
BY DEF retencoes, Retencao

LEMMA OrdensSame ==
    ASSUME TypeInv, UNCHANGED sobrepostos, NEW p \in Requests, NEW r, Go(p, r),
           req[p].pc # "statusSave", r.pc # "statusSave"
    PROVE  UNCHANGED Ordens
<1>1. \A q \in Requests : req'[q] = IF q = p THEN r ELSE req[q]
  BY DEF Go, TypeInv, RequestsInv
<1>2. {q \in Requests : At(q, "statusSave") /\ req[q].card \notin sobrepostos}' =
      {q \in Requests : At(q, "statusSave") /\ req[q].card \notin sobrepostos}
  BY <1>1 DEF At
<1>3. \A q \in {x \in Requests : At(x, "statusSave") /\ req[x].card \notin sobrepostos} :
          req'[q] = req[q]
  BY <1>1 DEF At
<1> QED BY <1>2, <1>3 DEF Ordens

\* Past its first step a request names no further card.
SameNames(r, old) ==
    (r.card = old.card /\ r.para = old.para) \/ (r.card = None /\ r.para = None)

LEMMA HistorySame ==
    ASSUME TypeInv, Apart, Historia, NEW p \in Requests, NEW r, Go(p, r),
           SameNames(r, req[p])
    PROVE  UNCHANGED sobrepostos
<1>1. \A q \in Requests : SameNames(req'[q], req[q])
  BY DEF Go, TypeInv, RequestsInv, SameNames
<1>2. ASSUME NEW c \in Cruzados' PROVE c \in sobrepostos
  <2>1. c \in CardIds /\ c # None
    BY CardsAssumption DEF Cruzados
  <2>2. ASSUME NEW q \in Requests, req'[q].card = c, req'[q].para = c
        PROVE  c \in sobrepostos
    BY <1>1, <2>1, <2>2 DEF SameNames, Apart
  <2>3. ASSUME NEW q1 \in Requests, NEW q2 \in Requests, q1 # q2,
               c \in CardsIn(req'[q1]), c \in CardsIn(req'[q2])
        PROVE  c \in sobrepostos
    <3>1. c \in CardsIn(req[q1]) /\ c \in CardsIn(req[q2])
      BY <1>1, <2>3 DEF SameNames, CardsIn
    <3> QED BY <2>3, <3>1 DEF Apart
  <2> QED BY <2>2, <2>3 DEF Cruzados, CardsOf, CardsIn
<1> QED BY <1>2 DEF Historia

LEMMA HistoryStill ==
    ASSUME Apart, Historia, UNCHANGED req
    PROVE  UNCHANGED sobrepostos
<1>1. Cruzados' \subseteq sobrepostos
  BY CardsAssumption DEF Cruzados, CardsOf, CardsIn, Apart
<1> QED BY <1>1 DEF Historia
-----------------------------------------------------------------------------
(* Every step is a step of the wallet or none *)

Keeps == UNCHANGED <<contas, retencoes, Ordens>>

LEMMA RefineInit == Init => W!Init
<1> SUFFICES ASSUME Init PROVE W!Init
  OBVIOUS
<1>1. contas = [c \in CardIds |-> [saldo |-> 0, situacao |-> "none"]]
  BY DEF Init, contas, Conta, Situacao, NoCard
<1>2. retencoes = [n \in ReserveIds |-> W!SemRetencao]
  BY EstadoOf DEF Init, retencoes, Retencao, NoReserve, W!SemRetencao
<1>3. Ordens = {}
  BY OrdensOf DEF Init, Idle
<1> QED BY <1>1, <1>2, <1>3 DEF W!Init

LEMMA RefineOutside ==
    ASSUME TypeInv, Apart, Historia, Outside
    PROVE  W!Next \/ Keeps
<1>1. UNCHANGED req
  BY DEF Outside, Create, CreateRechargeIntent, ResolveIntent, TtlPasses, Caixa, EncerraEvento
<1>2. UNCHANGED sobrepostos /\ UNCHANGED Ordens
  <2>1. UNCHANGED sobrepostos
    BY <1>1, HistoryStill
  <2> QED BY <1>1, <2>1 DEF Ordens, At
<1>3. ASSUME NEW c \in CardIds, NEW s \in Valores \cup {0}, Create(c, s)
      PROVE  W!Next \/ Keeps
  <2>1. /\ cards[c].status = "absent" /\ UNCHANGED reserves
        /\ cards' = [cards EXCEPT ![c] = [saldo |-> s, status |-> "active"]]
    BY <1>3 DEF Create
  <2>2. UNCHANGED retencoes
    BY <1>2, <2>1, RetencoesSame
  <2>3. \A d \in CardIds : d # c => Conta(d)' = Conta(d)
    BY <1>2, <2>1 DEF Conta, Situacao
  <2>4. CASE c \in sobrepostos
    <3>1. Conta(c)' = Conta(c)
      BY <1>2, <2>4 DEF Conta
    <3> QED BY <1>2, <2>2, <2>3, <3>1 DEF Keeps, contas
  <2>5. CASE c \notin sobrepostos
    <3>1. Conta(c)' = [saldo |-> s, situacao |-> "active"]
      BY <1>2, <2>1, <2>5 DEF Conta, Situacao, TypeInv, TablesInv
    <3>2. contas' = [contas EXCEPT ![c] = [saldo |-> s, situacao |-> "active"]]
      BY <2>3, <3>1 DEF contas
    <3>3. contas[c].situacao = "none"
      BY <2>1, <2>5, AbertaOf
    <3>4. W!Abre(c, s)
      BY <1>2, <2>2, <3>2, <3>3 DEF W!Abre
    <3> QED BY <3>4 DEF W!Next
  <2> QED BY <2>4, <2>5
<1>4. ASSUME UNCHANGED cards,
             \A n \in ReserveIds : /\ reserves'[n].card = reserves[n].card
                                   /\ reserves'[n].valor = reserves[n].valor
                                   /\ reserves'[n].status = reserves[n].status
      PROVE  Keeps
  BY <1>2, <1>4, ContasSame, RetencoesSame DEF Keeps
<1>5. ASSUME NEW n \in ReserveIds, TtlPasses(n) PROVE Keeps
  BY <1>4, <1>5 DEF TtlPasses, TypeInv, TablesInv, SoundReserve, ReserveRow
<1> QED
  BY <1>3, <1>4, <1>5
  DEF Outside, CreateRechargeIntent, ResolveIntent, Caixa, EncerraEvento

\* A first step reads; the card it names is lost when another request has it.
LEMMA RefineStart ==
    ASSUME TypeInv, Apart, Historia, sobrepostos \subseteq CardIds, NEW p \in Requests, Start(p)
    PROVE  W!Next \/ Keeps
<1> DEFINE cs == sobrepostos' \ sobrepostos
<1>1. UNCHANGED <<cards, reserves>> /\ req[p].pc = "idle"
  BY DEF Start, RechargeRead, ReserveRead, ConfirmRead, RollbackRead, RefundRead,
         StatusRead, TransferRead, tables, At
<1>2. cs \in SUBSET CardIds /\ sobrepostos' = sobrepostos \cup cs
  BY DEF Historia, Cruzados
<1>3. PICK r : Go(p, r) /\ (r.pc = "statusSave" =>
          /\ r.card \in CardIds /\ r.para = None /\ cards[r.card].status # "absent"
          /\ r.status \in CardStatus \ {"absent"})
  <2>1. ASSUME NEW c \in CardIds, NEW st \in CardStatus \ {"absent"}, StatusRead(p, c, st)
        PROVE  \E r : Go(p, r) /\ (r.pc = "statusSave" =>
                  /\ r.card \in CardIds /\ r.para = None /\ cards[r.card].status # "absent"
                  /\ r.status \in CardStatus \ {"absent"})
    <3> DEFINE r == [Idle EXCEPT !.pc = "statusSave", !.card = c, !.status = st,
                                 !.lido = cards[c]]
    <3>1. Go(p, r) /\ cards[c].status # "absent"
      BY <2>1 DEF StatusRead
    <3>2. r.card = c /\ r.para = None /\ r.status = st
      BY DEF Idle
    <3> HIDE DEF r
    <3> QED BY <3>1, <3>2
  <2>2. CASE ~\E c \in CardIds, st \in CardStatus \ {"absent"} : StatusRead(p, c, st)
    <3> DEFINE Other == \E r : Go(p, r) /\ r.pc # "statusSave"
    <3>0. ASSUME NEW r, Go(p, r), r.pc # "statusSave" PROVE Other
      BY <3>0
    <3> HIDE DEF Other
    <3> USE DEF Idle
    <3>1. ASSUME NEW c \in CardIds, NEW v \in Valores, NEW i \in IntentIds \cup {None},
                 RechargeRead(p, c, v, i)
          PROVE  Other
      BY <3>0, <3>1 DEF RechargeRead
    <3>2. ASSUME NEW c \in CardIds, NEW v \in Valores, ReserveRead(p, c, v) PROVE Other
      BY <3>0, <3>2 DEF ReserveRead
    <3>3. ASSUME NEW c \in CardIds, NEW n \in ReserveIds, ConfirmRead(p, c, n) PROVE Other
      BY <3>0, <3>3 DEF ConfirmRead
    <3>4. ASSUME NEW n \in ReserveIds, RollbackRead(p, n) PROVE Other
      BY <3>0, <3>4 DEF RollbackRead
    <3>5. ASSUME NEW c \in CardIds, NEW v \in Valores \cup {0}, RefundRead(p, c, v)
          PROVE  Other
      BY <3>0, <3>5 DEF RefundRead
    <3>6. ASSUME NEW c \in CardIds, NEW d \in CardIds, TransferRead(p, c, d) PROVE Other
      BY <3>0, <3>6 DEF TransferRead
    <3>7. Other
      BY <2>2, <3>1, <3>2, <3>3, <3>4, <3>5, <3>6 DEF Start
    <3> QED BY <3>7 DEF Other
  <2> QED BY <2>1, <2>2
<1> HIDE DEF cs
<1>4. \A q \in Requests : req'[q] = IF q = p THEN r ELSE req[q]
  BY <1>3 DEF Go, TypeInv, RequestsInv
<1>5. contas' = [c \in CardIds |-> IF c \in cs THEN W!ContaPerdida ELSE contas[c]]
  BY <1>1, <1>2 DEF contas, Conta, Situacao, W!ContaPerdida
<1>6. retencoes' = [n \in ReserveIds |->
        IF retencoes[n].conta \in cs THEN W!RetencaoPerdida ELSE retencoes[n]]
  <2>1. ASSUME NEW n \in ReserveIds
        PROVE  Retencao(n)' =
                 IF retencoes[n].conta \in cs THEN W!RetencaoPerdida ELSE retencoes[n]
    <3>1. CASE reserves[n].card \in sobrepostos
      <4>1. retencoes[n] = W!RetencaoPerdida /\ W!RetencaoPerdida.conta = None
        BY <3>1, RetencaoOf DEF W!RetencaoPerdida, W!SemRetencao
      <4>2. Retencao(n)' = W!RetencaoPerdida
        BY <1>1, <1>2, <3>1 DEF Retencao, W!RetencaoPerdida, W!SemRetencao
      <4> QED BY <4>1, <4>2
    <3>2. CASE reserves[n].card \notin sobrepostos /\ reserves[n].card \in cs
      <4>1. retencoes[n].conta = reserves[n].card
        BY <3>2, RetencaoOf
      <4>2. Retencao(n)' = W!RetencaoPerdida
        BY <1>1, <1>2, <3>2 DEF Retencao, W!RetencaoPerdida, W!SemRetencao
      <4> QED BY <3>2, <4>1, <4>2
    <3>3. CASE reserves[n].card \notin sobrepostos /\ reserves[n].card \notin cs
      <4>1. retencoes[n].conta = reserves[n].card
        BY <3>3, RetencaoOf
      <4>2. Retencao(n)' = Retencao(n)
        BY <1>1, <1>2, <3>3 DEF Retencao
      <4> QED BY <3>3, <4>1, <4>2 DEF retencoes
    <3> QED BY <3>1, <3>2, <3>3
  <2> QED BY <2>1 DEF retencoes
<1>7. \A x : x \in Ordens' <=>
        \E q \in Requests : /\ req'[q].pc = "statusSave"
                            /\ req'[q].card \notin sobrepostos'
                            /\ x = <<req'[q].card, req'[q].status>>
  BY DEF Ordens, At
<1>8. CASE r.pc # "statusSave" \/ r.card \in sobrepostos'
  <2>1. ASSUME NEW x PROVE x \in Ordens' <=> x \in Ordens /\ x[1] \notin cs
    <3>1. ASSUME NEW q \in Requests, req'[q].pc = "statusSave", req'[q].card \notin sobrepostos',
                 x = <<req'[q].card, req'[q].status>>
          PROVE  x \in Ordens /\ x[1] \notin cs
      <4>1. q # p /\ req'[q] = req[q]
        BY <1>4, <1>8, <3>1
      <4> QED BY <1>2, <3>1, <4>1, OrdensOf
    <3>2. ASSUME NEW q \in Requests, req[q].pc = "statusSave", req[q].card \notin sobrepostos,
                 x = <<req[q].card, req[q].status>>, x[1] \notin cs
          PROVE  x \in Ordens'
      <4>1. q # p /\ req'[q] = req[q]
        BY <1>1, <1>4, <3>2
      <4> QED BY <1>2, <1>7, <3>2, <4>1
    <3> QED BY <1>7, <3>1, <3>2, OrdensOf
  <2>2. Ordens' = {x \in Ordens : x[1] \notin cs}
    BY <2>1
  <2>3. W!Perde(cs)
    BY <1>5, <1>6, <2>2 DEF W!Perde
  <2> QED BY <1>2, <2>3 DEF W!Next
<1>9. CASE r.pc = "statusSave" /\ r.card \notin sobrepostos'
  <2>1. CardsIn(r) = {r.card} /\ r.card \in CardIds
    BY <1>3, <1>9, CardsAssumption DEF CardsIn
  <2>2. cs = {}
    <3> SUFFICES ASSUME NEW c \in Cruzados' PROVE c \in sobrepostos
      BY DEF cs, Historia
    <3>1. /\ c \in sobrepostos' /\ c \in CardIds
          /\ \/ \E q \in Requests : req'[q].card = c /\ req'[q].para = c
             \/ \E q1, q2 \in Requests :
                   q1 # q2 /\ c \in CardsIn(req'[q1]) /\ c \in CardsIn(req'[q2])
      BY DEF Historia, Cruzados, CardsOf, CardsIn
    <3>2. CASE \E q \in Requests : req'[q].card = c /\ req'[q].para = c
      BY <1>3, <1>4, <1>9, <3>1, <3>2, CardsAssumption DEF Apart
    <3>3. ASSUME NEW q1 \in Requests, NEW q2 \in Requests, q1 # q2,
                 c \in CardsIn(req'[q1]), c \in CardsIn(req'[q2])
          PROVE  c \in sobrepostos
      <4>1. q1 # p /\ q2 # p
        BY <1>4, <1>9, <2>1, <3>1, <3>3
      <4> QED BY <1>4, <3>3, <4>1 DEF Apart
    <3> QED BY <3>1, <3>2, <3>3
  <2>3. UNCHANGED <<contas, retencoes, sobrepostos>>
    <3>1. UNCHANGED sobrepostos
      BY <1>2, <2>2
    <3> QED BY <1>1, <3>1, ContasSame, RetencoesSame
  <2>4. ASSUME NEW x PROVE x \in Ordens' <=> x \in Ordens \/ x = <<r.card, r.status>>
    <3>1. ASSUME NEW q \in Requests, q # p
          PROVE  (/\ req'[q].pc = "statusSave" /\ req'[q].card \notin sobrepostos'
                  /\ x = <<req'[q].card, req'[q].status>>)
                 <=> (/\ req[q].pc = "statusSave" /\ req[q].card \notin sobrepostos
                      /\ x = <<req[q].card, req[q].status>>)
      BY <1>4, <2>3, <3>1
    <3> QED BY <1>1, <1>4, <1>7, <1>9, <3>1, OrdensOf
  <2>5. Ordens' = Ordens \cup {<<r.card, r.status>>}
    BY <2>4
  <2>6. W!Aberta(r.card)
    BY <1>3, <1>9, <2>3, AbertaOf
  <2>7. W!Ordena(r.card, r.status)
    BY <2>3, <2>5, <2>6 DEF W!Ordena
  <2> QED BY <1>3, <1>9, <2>7 DEF W!Next
<1> QED BY <1>8, <1>9

\* A later step of request p, on its card: it loses no card, and only a request that
\* saves a status carries out an order.
LEMMA RefineEnds ==
    ASSUME TypeInv, Apart, Historia, NEW p \in Requests, NEW r, Go(p, r),
           SameNames(r, req[p]), req[p].pc # "statusSave", r.pc # "statusSave"
    PROVE  UNCHANGED <<sobrepostos, Ordens>>
BY HistorySame, OrdensSame

LEMMA ContinueEnds ==
    ASSUME TypeInv, Apart, Historia, NEW p \in Requests, Continue(p), ~At(p, "statusSave")
    PROVE  UNCHANGED <<sobrepostos, Ordens>>
<1> DEFINE Fits(r) == SameNames(r, req[p]) /\ r.pc # "statusSave"
<1>1. \E r : Go(p, r) /\ Fits(r)
  <2>1. ASSUME Finish(p) PROVE \E r : Go(p, r) /\ Fits(r)
    <3>1. Fits(Idle)
      BY DEF Idle, SameNames
    <3> QED BY <2>1, <3>1 DEF Finish
  <2>2. ASSUME NEW pc \in Pcs \ {"statusSave"}, NEW v, NEW i, NEW s, NEW row
        PROVE  /\ Fits([req[p] EXCEPT !.pc = pc])
               /\ Fits([req[p] EXCEPT !.pc = pc, !.valor = v])
               /\ Fits([req[p] EXCEPT !.pc = pc, !.lidoPara = row])
               /\ Fits([req[p] EXCEPT !.pc = pc, !.intent = i, !.caixa = s])
    <3>1. req[p] \in Request
      BY DEF TypeInv, RequestsInv, SoundRequest
    <3> QED BY <3>1 DEF SameNames, Request
  <2> HIDE DEF Fits
  <2>3. CASE RechargeCheckIntent(p) \/ RechargeCommit(p) \/ ReserveSum(p)
    <3>1. ASSUME NEW pc \in {"rechargeCommit", "rechargeMovement", "reserveInsert"}
          PROVE  Fits([req[p] EXCEPT !.pc = pc])
      BY <2>2 DEF Pcs
    <3>2. CASE RechargeCheckIntent(p)
      BY <3>1, <3>2 DEF RechargeCheckIntent
    <3>3. CASE RechargeCommit(p)
      BY <2>1, <3>1, <3>3 DEF RechargeCommit
    <3>4. CASE ReserveSum(p)
      BY <2>1, <3>1, <3>4 DEF ReserveSum
    <3> QED BY <2>3, <3>2, <3>3, <3>4
  <2>4. CASE \E i \in IntentIds, s \in CaixaIds \cup {None} : RechargeCash(p, i, s)
    <3>1. PICK i \in IntentIds, s \in CaixaIds \cup {None} : RechargeCash(p, i, s)
      BY <2>4
    <3> DEFINE r == [req[p] EXCEPT !.pc = "rechargeCommit", !.intent = i, !.caixa = s]
    <3>2. Go(p, r)
      BY <3>1 DEF RechargeCash
    <3>3. Fits(r)
      BY <2>2 DEF Pcs
    <3> QED BY <3>2, <3>3
  <2>5. CASE ConfirmReserve(p)
    <3> DEFINE pc == IF reserves[req[p].reserve].due THEN "confirmExpire" ELSE "confirmCommit"
               r == [req[p] EXCEPT !.pc = pc, !.valor = reserves[req[p].reserve].valor]
    <3>1. Go(p, r) /\ pc \in Pcs \ {"statusSave"}
      BY <2>5 DEF ConfirmReserve, Pcs
    <3>2. Fits(r)
      <4> HIDE DEF pc
      <4> QED BY <2>2, <3>1
    <3> QED BY <3>1, <3>2
  <2>6. CASE RefundSum(p) \/ TransferSum(p)
    BY <2>1, <2>2, <2>6 DEF RefundSum, TransferSum, Pcs
  <2>7. CASE TransferTo(p)
    BY <2>2, <2>7 DEF TransferTo, Pcs
  <2>8. CASE \/ RechargeMovement(p) \/ ConfirmExpire(p) \/ ConfirmCommit(p)
             \/ RollbackSave(p) \/ RefundCommit(p) \/ TransferCommit(p)
             \/ \E n \in ReserveIds : ReserveInsert(p, n)
    BY <2>1, <2>8
    DEF RechargeMovement, ConfirmExpire, ConfirmCommit, RollbackSave, RefundCommit,
        TransferCommit, ReserveInsert
  <2> QED
    BY <2>3, <2>4, <2>5, <2>6, <2>7, <2>8 DEF Continue, StatusSave
<1> QED BY <1>1, RefineEnds DEF At

\* Reserves that end together: those the code finds past their time, or one.
Ended(hs, st) ==
    \A n \in ReserveIds :
        /\ reserves'[n].card = reserves[n].card /\ reserves'[n].valor = reserves[n].valor
        /\ reserves'[n].status = IF n \in hs THEN st ELSE reserves[n].status

LEMMA RefineDevolve ==
    ASSUME TypeInv, UNCHANGED <<contas, sobrepostos, Ordens>>, NEW c \in CardIds,
           NEW hs \in SUBSET ReserveIds, NEW st \in {"expired", "rolled_back"},
           \A n \in hs :
               /\ reserves[n].card = c
               /\ c \notin sobrepostos =>
                     reserves[n].status \in {"active", "expired", "rolled_back"},
           Ended(hs, st)
    PROVE  W!Next \/ Keeps
<1>1. \A n \in ReserveIds :
        /\ reserves'[n].card = reserves[n].card /\ reserves'[n].valor = reserves[n].valor
        /\ reserves'[n].status = IF n \in hs THEN st ELSE reserves[n].status
  BY DEF Ended
<1>2. CASE c \in sobrepostos
  <2>1. UNCHANGED retencoes
    BY <1>1, <1>2, RetencoesSame
  <2> QED BY <2>1 DEF Keeps
<1>3. CASE c \notin sobrepostos
  <2> DEFINE ativas == {n \in hs : reserves[n].status = "active"}
  <2>1. ativas \in SUBSET W!Retidas(c)
    BY <1>3, RetidasOf
  <2>2. ASSUME NEW n \in ReserveIds
        PROVE  Retencao(n)' = IF n \in ativas THEN [retencoes[n] EXCEPT !.estado = "back"]
                              ELSE retencoes[n]
    <3>1. CASE n \notin hs
      BY <1>1, <3>1 DEF retencoes, Retencao
    <3>2. CASE n \in hs
      <4>1. Retencao(n)' = [conta |-> reserves[n].card, valor |-> reserves[n].valor,
                            estado |-> "back"]
        <5>1. reserves'[n].card \notin sobrepostos' /\ Estado[reserves'[n].status] = "back"
          <6>1. reserves'[n].card = c /\ reserves'[n].status = st
            BY <1>1, <3>2
          <6> QED BY <1>3, <6>1, EstadoOf
        <5> QED BY <1>1, <5>1 DEF Retencao
      <4>2. retencoes[n] = [conta |-> reserves[n].card, valor |-> reserves[n].valor,
                            estado |-> Estado[reserves[n].status]]
        BY <1>3, <3>2, RetencaoOf
      <4>3. CASE n \in ativas
        BY <4>1, <4>2, <4>3
      <4>4. CASE n \notin ativas
        <5>1. Estado[reserves[n].status] = "back"
          BY <1>3, <3>2, <4>4, EstadoOf
        <5> QED BY <4>1, <4>2, <4>4, <5>1
      <4> QED BY <4>3, <4>4
    <3> QED BY <3>1, <3>2
  <2>3. retencoes' = [n \in ReserveIds |->
          IF n \in ativas THEN [retencoes[n] EXCEPT !.estado = "back"] ELSE retencoes[n]]
    BY <2>2 DEF retencoes
  <2> HIDE DEF ativas
  <2>4. W!Devolve(ativas)
    BY <2>3 DEF W!Devolve
  <2> QED BY <2>1, <2>4 DEF W!Next
<1> QED BY <1>2, <1>3

\* A card row that moves by d: only what is free is taken out.
LEMMA ContaMoves ==
    ASSUME TypeInv, UNCHANGED sobrepostos, NEW c \in CardIds, NEW row \in CardRow,
           cards' = [cards EXCEPT ![c] = row], row.status # "absent",
           c \notin sobrepostos => cards[c].status # "absent" /\ row.status = cards[c].status
    PROVE  /\ c \in sobrepostos => UNCHANGED contas
           /\ c \notin sobrepostos => contas' = [contas EXCEPT ![c].saldo = row.saldo]
<1>1. \A d \in CardIds : d # c => Conta(d)' = Conta(d)
  BY DEF Conta, Situacao
<1>2. c \in sobrepostos => Conta(c)' = Conta(c)
  BY DEF Conta
<1>3. c \notin sobrepostos => Conta(c)' = [contas[c] EXCEPT !.saldo = row.saldo]
  <2> SUFFICES ASSUME c \notin sobrepostos PROVE Conta(c)' = [contas[c] EXCEPT !.saldo = row.saldo]
    OBVIOUS
  <2>1. contas[c] = [saldo |-> cards[c].saldo, situacao |-> cards[c].status]
    BY ContaOf DEF Situacao
  <2>2. Conta(c)' = [saldo |-> row.saldo, situacao |-> cards[c].status]
    BY DEF Conta, Situacao, TypeInv, TablesInv
  <2> QED BY <2>1, <2>2
<1> QED BY <1>1, <1>2, <1>3 DEF contas

\* Steps that write neither a card nor a reserve, and those that end reserves.
LEMMA RefineReserves ==
    ASSUME TypeInv, BalanceInv, HoldInv, Historia, NEW p \in Requests,
           \/ RechargeCheckIntent(p) \/ RechargeMovement(p) \/ ConfirmReserve(p)
           \/ \E i \in IntentIds, s \in CaixaIds \cup {None} : RechargeCash(p, i, s)
           \/ ReserveSum(p) \/ RefundSum(p) \/ TransferSum(p)
           \/ ConfirmExpire(p) \/ RollbackSave(p)
    PROVE  W!Next \/ Keeps
<1> DEFINE o == req[p]
<1>1. UNCHANGED <<sobrepostos, Ordens, contas>>
  <2>1. UNCHANGED cards /\ ~At(p, "statusSave")
    BY DEF RechargeCheckIntent, RechargeMovement, ConfirmReserve, RechargeCash, ReserveSum,
           RefundSum, TransferSum, ConfirmExpire, RollbackSave, tables, At
  <2>2. Continue(p)
    BY DEF Continue
  <2>3. UNCHANGED <<sobrepostos, Ordens>>
    BY <2>1, <2>2, ContinueEnds DEF BalanceInv
  <2> QED BY <2>1, <2>3, ContasSame
<1>2. CASE \/ RechargeCheckIntent(p) \/ RechargeMovement(p) \/ ConfirmReserve(p)
           \/ \E i \in IntentIds, s \in CaixaIds \cup {None} : RechargeCash(p, i, s)
  <2>1. UNCHANGED reserves
    BY <1>2 DEF RechargeCheckIntent, RechargeMovement, ConfirmReserve, RechargeCash, tables
  <2> QED BY <1>1, <2>1, RetencoesSame DEF Keeps
<1>3. CASE ReserveSum(p) \/ RefundSum(p) \/ TransferSum(p)
  <2> DEFINE c == o.card
             hs == {n \in ReserveIds : /\ reserves[n].card = c
                                       /\ reserves[n].status = "active" /\ reserves[n].due}
  <2>1. reserves' = ExpireOldReserves(c) /\ o.pc \in {"reserveSum", "refundSum", "transferSum"}
    BY <1>3 DEF ReserveSum, RefundSum, TransferSum, At
  <2>2. c \in CardIds
    BY <2>1 DEF TypeInv, RequestsInv, SoundRequest, Sound
  <2>3. Ended(hs, "expired")
    BY <2>1 DEF Ended, ExpireOldReserves, TypeInv, TablesInv, SoundReserve, ReserveRow
  <2>4. \A n \in hs : reserves[n].card = c /\ reserves[n].status = "active"
    OBVIOUS
  <2>5. hs \in SUBSET ReserveIds
    OBVIOUS
  <2> HIDE DEF hs, c
  <2> QED BY <1>1, <2>2, <2>3, <2>4, <2>5, RefineDevolve
<1>4. CASE ConfirmExpire(p) \/ RollbackSave(p)
  <2>1. PICK st \in {"expired", "rolled_back"} :
          reserves' = SetReserve(o.reserve, st)
    BY <1>4 DEF ConfirmExpire, RollbackSave
  <2>2. o.pc \in {"confirmExpire", "rollbackSave"}
    BY <1>4 DEF ConfirmExpire, RollbackSave, At
  <2>3. /\ o.reserve \in ReserveIds /\ o.card \in CardIds
        /\ reserves[o.reserve].status # "none"
        /\ reserves[o.reserve].status \in ReserveStatus
        /\ Known(o, reserves) /\ (o.card \notin sobrepostos => Ready(o, reserves))
    BY <2>2
    DEF TypeInv, TablesInv, RequestsInv, RowsInv, SoundReserve, ReserveRow, SoundRequest, Sound,
        NeedsRow, NeedsReserve, HoldInv, AllPromised, Promised
  <2>4. /\ reserves[o.reserve].card = o.card
        /\ o.card \notin sobrepostos =>
             reserves[o.reserve].status \in {"active", "expired", "rolled_back"}
    BY <2>2, <2>3 DEF Known, Ready, NeedsRow, ReserveStatus
  <2>5. Ended({o.reserve}, st)
    BY <2>1, <2>3 DEF Ended, SetReserve, TypeInv, TablesInv, SoundReserve, ReserveRow
  <2>6. {o.reserve} \in SUBSET ReserveIds
    BY <2>3
  <2> HIDE DEF o
  <2> QED BY <1>1, <2>3, <2>4, <2>5, <2>6, RefineDevolve
<1> QED BY <1>2, <1>3, <1>4

LEMMA RefineInsert ==
    ASSUME TypeInv, BalanceInv, HoldInv, Grows, Historia, sobrepostos \subseteq CardIds,
           NEW p \in Requests, NEW n \in ReserveIds, ReserveInsert(p, n)
    PROVE  W!Next \/ Keeps
<1> DEFINE c == req[p].card
           v == req[p].valor
<1>1. /\ req[p].pc = "reserveInsert" /\ reserves[n].status = "none" /\ UNCHANGED cards
      /\ reserves' = [reserves EXCEPT ![n] = [card |-> c, valor |-> v,
                                              status |-> "active", due |-> FALSE]]
  BY DEF ReserveInsert, FreeRow, At
<1>2. UNCHANGED <<sobrepostos, Ordens, contas>>
  <2>1. Continue(p) /\ ~At(p, "statusSave")
    BY <1>1 DEF Continue, At
  <2>2. UNCHANGED <<sobrepostos, Ordens>>
    BY <2>1, ContinueEnds DEF BalanceInv
  <2> QED BY <1>1, <2>2, ContasSame
<1>3. /\ c \in CardIds /\ req[p].lido \in CardRow
      /\ c \notin sobrepostos => req[p].lido = cards[c]
  BY <1>1, StillFresh DEF HoldsCard, Pcs
<1>4. /\ v \in Valores /\ req[p].lido.status = "active"
      /\ c \notin sobrepostos => v <= req[p].lido.saldo - Reserved(c, reserves)
  BY <1>1 DEF HoldInv, AllPromised, Promised, Known, Ready, HasNatural
<1>5. retencoes[n] = W!SemRetencao
  <2>1. reserves[n].card = None /\ reserves[n].valor = 0
    BY <1>1 DEF HoldInv, EmptyRows
  <2>2. None \notin sobrepostos
    BY CardsAssumption
  <2> QED BY <1>1, <2>1, <2>2, RetencaoOf, EstadoOf DEF W!SemRetencao
<1> HIDE DEF c, v
<1>6. \A m \in ReserveIds : m # n => Retencao(m)' = retencoes[m]
  BY <1>1, <1>2 DEF retencoes, Retencao, TypeInv, TablesInv
<1>7. /\ reserves'[n].card = c /\ reserves'[n].valor = v /\ reserves'[n].status = "active"
  BY <1>1 DEF TypeInv, TablesInv
<1>8. CASE c \in sobrepostos
  <2>1. Retencao(n)' = W!RetencaoPerdida
    BY <1>2, <1>7, <1>8 DEF Retencao, W!RetencaoPerdida, W!SemRetencao
  <2>2. retencoes' = [retencoes EXCEPT ![n] = W!RetencaoPerdida]
    BY <1>6, <2>1 DEF retencoes
  <2>3. W!Perdida(c)
    BY <1>3, <1>8, PerdidaOf
  <2>4. W!RetemPerdida(n)
    BY <1>2, <1>3, <1>5, <2>2, <2>3 DEF W!RetemPerdida
  <2> QED BY <2>4 DEF W!Next
<1>9. CASE c \notin sobrepostos
  <2>1. Retencao(n)' = [conta |-> c, valor |-> v, estado |-> "held"]
    BY <1>2, <1>7, <1>9, EstadoOf DEF Retencao
  <2>2. retencoes' = [retencoes EXCEPT ![n] = [conta |-> c, valor |-> v, estado |-> "held"]]
    BY <1>6, <2>1 DEF retencoes
  <2>3. contas[c].situacao = "active"
    BY <1>3, <1>4, <1>9, AbertaOf
  <2>4. v <= W!Livre(c)
    BY <1>3, <1>4, <1>9, RetidoOf
  <2>5. W!Retem(n, c, v)
    BY <1>2, <1>5, <2>2, <2>3, <2>4 DEF W!Retem
  <2> QED BY <1>3, <1>4, <2>5 DEF W!Next
<1> QED BY <1>8, <1>9

LEMMA RefineRecharge ==
    ASSUME TypeInv, BalanceInv, HoldInv, Grows, Historia, NEW p \in Requests, RechargeCommit(p)
    PROVE  W!Next \/ Keeps
<1> DEFINE o == req[p]
           c == req[p].card
           row == Plus(o.lido, o.valor)
<1>1. /\ o.pc = "rechargeCommit" /\ UNCHANGED reserves
      /\ cards' = [cards EXCEPT ![c] = row]
  BY DEF RechargeCommit, At
<1>2. UNCHANGED <<sobrepostos, Ordens, retencoes>>
  <2>1. Continue(p) /\ ~At(p, "statusSave")
    BY <1>1 DEF Continue, At
  <2>2. UNCHANGED <<sobrepostos, Ordens>>
    BY <2>1, ContinueEnds DEF BalanceInv
  <2> QED BY <1>1, <2>2, RetencoesSame
<1>3. /\ c \in CardIds /\ o.lido \in CardRow /\ o.lido.status # "absent"
      /\ c \notin sobrepostos => o.lido = cards[c]
  BY <1>1, StillFresh DEF HoldsCard, Pcs
<1>4. o.valor \in Valores /\ o.valor \in Int /\ o.valor > 0 /\ o.lido.saldo \in Int
  BY <1>1, <1>3, CardsAssumption
  DEF HoldInv, AllPromised, Promised, Known, HasNatural, Valores, CardRow
<1>5. row \in CardRow /\ row.status = o.lido.status /\ row.saldo = o.lido.saldo + o.valor
  BY <1>3, <1>4 DEF Plus, CardRow
<1> HIDE DEF row
<1>6. /\ c \in sobrepostos => UNCHANGED contas
      /\ c \notin sobrepostos => contas' = [contas EXCEPT ![c].saldo = row.saldo]
  BY <1>1, <1>2, <1>3, <1>5, ContaMoves
<1>7. CASE c \notin sobrepostos
  <2>1. contas'[c].saldo = row.saldo /\ contas[c].saldo = o.lido.saldo
    BY <1>3, <1>6, <1>7, ContaOf DEF contas, Conta
  <2>2. contas' = [contas EXCEPT ![c].saldo = contas'[c].saldo]
    BY <1>6, <1>7, <2>1
  <2>3. W!Aberta(c)
    BY <1>3, <1>7, AbertaOf
  <2>4. contas'[c].saldo > contas[c].saldo
    BY <1>4, <1>5, <2>1
  <2>5. W!Credita(c)
    BY <1>2, <2>2, <2>3, <2>4 DEF W!Credita
  <2> QED BY <1>3, <2>5 DEF W!Next
<1> QED BY <1>2, <1>6, <1>7 DEF Keeps

LEMMA RefineConfirm ==
    ASSUME TypeInv, BalanceInv, HoldInv, Grows, Historia, NEW p \in Requests, ConfirmCommit(p)
    PROVE  W!Next \/ Keeps
<1> DEFINE o == req[p]
           c == req[p].card
           n == req[p].reserve
           row == [o.lido EXCEPT !.saldo = o.lido.saldo - o.valor]
<1>1. /\ o.pc = "confirmCommit" /\ reserves' = SetReserve(n, "confirmed")
      /\ cards' = [cards EXCEPT ![c] = row]
  BY DEF ConfirmCommit, At
<1>2. UNCHANGED <<sobrepostos, Ordens>>
  <2>1. Continue(p) /\ ~At(p, "statusSave")
    BY <1>1 DEF Continue, At
  <2> QED BY <2>1, ContinueEnds DEF BalanceInv
<1>3. /\ c \in CardIds /\ o.lido \in CardRow /\ o.lido.status # "absent"
      /\ c \notin sobrepostos => o.lido = cards[c]
      /\ o.valor \in Int /\ o.lido.saldo \in Int
  BY <1>1, StillFresh DEF HoldsCard, Pcs
<1>4. /\ n \in ReserveIds /\ reserves[n].card = c
      /\ c \notin sobrepostos => reserves[n].status = "active" /\ o.valor = reserves[n].valor
  BY <1>1
  DEF TypeInv, RequestsInv, SoundRequest, Sound, NeedsReserve, NeedsRow, HoldInv, AllPromised,
      Promised, Known, Ready
<1>5. row \in CardRow /\ row.status = o.lido.status /\ row.saldo = o.lido.saldo - o.valor
  BY <1>3 DEF CardRow
<1> HIDE DEF row
<1>6. /\ c \in sobrepostos => UNCHANGED contas
      /\ c \notin sobrepostos => contas' = [contas EXCEPT ![c].saldo = row.saldo]
  BY <1>1, <1>2, <1>3, <1>5, ContaMoves
<1>7. Ended({n}, "confirmed")
  BY <1>1, <1>4 DEF Ended, SetReserve, TypeInv, TablesInv, SoundReserve, ReserveRow
<1>8. CASE c \in sobrepostos
  <2>1. UNCHANGED retencoes
    BY <1>2, <1>4, <1>7, <1>8, RetencoesSame DEF Ended
  <2> QED BY <1>2, <1>6, <1>8, <2>1 DEF Keeps
<1>9. CASE c \notin sobrepostos
  <2>1. /\ retencoes[n] = [conta |-> c, valor |-> o.valor, estado |-> "held"]
        /\ retencoes[n].conta = c /\ retencoes[n].valor = o.valor /\ retencoes[n].estado = "held"
    BY <1>4, <1>9, RetencaoOf, EstadoOf
  <2>2. \A m \in ReserveIds :
          m = n => Retencao(m)' = [conta |-> c, valor |-> o.valor, estado |-> "paid"]
    <3>1. reserves'[n].card = c /\ reserves'[n].valor = o.valor /\ reserves'[n].status = "confirmed"
      BY <1>4, <1>7, <1>9 DEF Ended
    <3> QED BY <1>2, <1>9, <3>1, EstadoOf DEF Retencao
  <2>3. \A m \in ReserveIds : m # n => Retencao(m)' = retencoes[m]
    BY <1>2, <1>7 DEF Ended, retencoes, Retencao
  <2>4. retencoes' = [retencoes EXCEPT ![n].estado = "paid"]
    BY <1>4, <2>1, <2>2, <2>3 DEF retencoes
  <2>5. contas[c].saldo = o.lido.saldo
    BY <1>3, <1>9, ContaOf
  <2>6. contas' = [contas EXCEPT ![retencoes[n].conta].saldo = @ - retencoes[n].valor]
    BY <1>5, <1>6, <1>9, <2>1, <2>5
  <2>7. W!Liquida(n)
    BY <1>2, <2>1, <2>4, <2>6 DEF W!Liquida
  <2> QED BY <1>4, <2>7 DEF W!Next
<1> QED BY <1>8, <1>9

LEMMA RefineRefund ==
    ASSUME TypeInv, BalanceInv, HoldInv, Grows, Historia, NEW p \in Requests, RefundCommit(p)
    PROVE  W!Next \/ Keeps
<1> DEFINE o == req[p]
           c == req[p].card
           row == [o.lido EXCEPT !.saldo = o.lido.saldo - o.valor]
<1>1. /\ o.pc = "refundCommit" /\ UNCHANGED reserves
      /\ cards' = [cards EXCEPT ![c] = row]
  BY DEF RefundCommit, At
<1>2. UNCHANGED <<sobrepostos, Ordens, retencoes>>
  <2>1. Continue(p) /\ ~At(p, "statusSave")
    BY <1>1 DEF Continue, At
  <2>2. UNCHANGED <<sobrepostos, Ordens>>
    BY <2>1, ContinueEnds DEF BalanceInv
  <2> QED BY <1>1, <2>2, RetencoesSame
<1>3. /\ c \in CardIds /\ o.lido \in CardRow /\ o.lido.status # "absent"
      /\ c \notin sobrepostos => o.lido = cards[c]
      /\ o.valor \in Int /\ o.lido.saldo \in Int
  BY <1>1, StillFresh DEF HoldsCard, Pcs
<1>4. /\ o.valor > 0
      /\ c \notin sobrepostos =>
            o.valor \in Valores \/ o.valor = o.lido.saldo - Reserved(c, reserves)
  BY <1>1 DEF HoldInv, AllPromised, Promised, Known, Ready
<1>5. row \in CardRow /\ row.status = o.lido.status /\ row.saldo = o.lido.saldo - o.valor
  BY <1>3 DEF CardRow
<1> HIDE DEF row
<1>6. /\ c \in sobrepostos => UNCHANGED contas
      /\ c \notin sobrepostos => contas' = [contas EXCEPT ![c].saldo = row.saldo]
  BY <1>1, <1>2, <1>3, <1>5, ContaMoves
<1>7. CASE c \notin sobrepostos
  <2>1. contas[c].saldo = o.lido.saldo
    BY <1>3, <1>7, ContaOf
  <2>2. contas' = [contas EXCEPT ![c].saldo = @ - o.valor]
    BY <1>5, <1>6, <1>7, <2>1
  <2>3. o.valor \in Valores \/ o.valor = W!Livre(c)
    BY <1>3, <1>4, <1>7, RetidoOf
  <2>4. W!Aberta(c)
    BY <1>3, <1>7, AbertaOf
  <2> HIDE DEF o, c
  <2>5. o.valor \in Valores \cup 1..W!Livre(c)
    BY <1>3, <1>4, <2>3
  <2>6. W!Saca(c, o.valor)
    BY <1>2, <2>2, <2>4 DEF W!Saca
  <2> QED BY <1>3, <2>5, <2>6 DEF W!Next
<1> QED BY <1>2, <1>6, <1>7 DEF Keeps

\* A request that was to save a status ends, having carried out the order or not.
LEMMA OrderEnds ==
    ASSUME TypeInv, Apart, Historia, NEW p \in Requests, Finish(p), req[p].pc = "statusSave"
    PROVE  /\ UNCHANGED sobrepostos
           /\ req[p].card \in sobrepostos => UNCHANGED Ordens
           /\ req[p].card \notin sobrepostos =>
                 /\ <<req[p].card, req[p].status>> \in Ordens
                 /\ Ordens' = Ordens \ {<<req[p].card, req[p].status>>}
<1> DEFINE x0 == <<req[p].card, req[p].status>>
<1>1. \A q \in Requests : req'[q] = IF q = p THEN Idle ELSE req[q]
  BY DEF Finish, Go, TypeInv, RequestsInv
<1>2. Idle.pc = "idle" /\ SameNames(Idle, req[p])
  BY DEF Idle, SameNames
<1>3. UNCHANGED sobrepostos
  BY <1>2, HistorySame DEF Finish
<1>4. \A x : x \in Ordens' <=>
        \E q \in Requests : /\ req'[q].pc = "statusSave"
                            /\ req'[q].card \notin sobrepostos'
                            /\ x = <<req'[q].card, req'[q].status>>
  BY DEF Ordens, At
<1>5. \A x : x \in Ordens' <=>
        \E q \in Requests \ {p} : /\ req[q].pc = "statusSave"
                                  /\ req[q].card \notin sobrepostos
                                  /\ x = <<req[q].card, req[q].status>>
  BY <1>1, <1>2, <1>3, <1>4
<1>6. CASE req[p].card \in sobrepostos
  <2>1. \A x : x \in Ordens' <=> x \in Ordens
    BY <1>5, <1>6, OrdensOf
  <2> QED BY <1>3, <1>6, <2>1
<1>7. CASE req[p].card \notin sobrepostos
  <2>1. x0 \in Ordens
    BY <1>7, OrdensOf
  <2>2. ASSUME NEW q \in Requests \ {p}, req[q].pc = "statusSave"
        PROVE  req[q].card # req[p].card
    <3>1. req[p].card \in CardIds /\ req[p].card \in CardsIn(req[p])
      BY CardsAssumption DEF TypeInv, RequestsInv, SoundRequest, Sound, CardsIn
    <3>2. req[p].card \notin CardsIn(req[q])
      BY <1>7, <3>1 DEF Apart
    <3> QED BY <3>1, <3>2, CardsAssumption DEF CardsIn
  <2>3. \A x : x \in Ordens' <=> x \in Ordens /\ x # x0
    <3>1. ASSUME NEW x, x \in Ordens' PROVE x \in Ordens /\ x # x0
      BY <1>5, <2>2, <3>1, OrdensOf
    <3>2. ASSUME NEW x, x \in Ordens, x # x0 PROVE x \in Ordens'
      BY <1>5, <3>2, OrdensOf
    <3> QED BY <3>1, <3>2
  <2> QED BY <1>3, <1>7, <2>1, <2>3
<1> QED BY <1>6, <1>7

LEMMA RefineStatus ==
    ASSUME TypeInv, BalanceInv, HoldInv, Grows, Historia, NEW p \in Requests, StatusSave(p)
    PROVE  W!Next \/ Keeps
<1> DEFINE o == req[p]
           row == [o.lido EXCEPT !.status = o.status]
<1>0. PICK c, st : c = o.card /\ st = o.status
  OBVIOUS
<1>1. /\ o.pc = "statusSave" /\ UNCHANGED reserves /\ Finish(p)
      /\ cards' = [cards EXCEPT ![c] = row]
  BY <1>0 DEF StatusSave, At
<1>2. /\ UNCHANGED <<sobrepostos, retencoes>>
      /\ c \in sobrepostos => UNCHANGED Ordens
      /\ c \notin sobrepostos => <<c, st>> \in Ordens /\ Ordens' = Ordens \ {<<c, st>>}
  BY <1>0, <1>1, OrderEnds, RetencoesSame DEF BalanceInv
<1>3. /\ c \in CardIds /\ o.lido \in CardRow
      /\ c \notin sobrepostos => o.lido = cards[c]
  BY <1>0, <1>1, StillFresh DEF HoldsCard, Pcs
<1>4. row.status = st /\ row.saldo = o.lido.saldo
  BY <1>0, <1>3 DEF CardRow
<1>5. st # "absent"
  BY <1>0, <1>1 DEF HoldInv, AllPromised, Promised, Known
<1> HIDE DEF row
<1>6. \A d \in CardIds : d # c => Conta(d)' = Conta(d)
  BY <1>1, <1>2 DEF Conta, Situacao
<1>7. CASE c \in sobrepostos
  <2>1. Conta(c)' = Conta(c)
    BY <1>2, <1>7 DEF Conta
  <2>2. UNCHANGED contas
    BY <1>6, <2>1 DEF contas
  <2> QED BY <1>2, <1>7, <2>2 DEF Keeps
<1>8. CASE c \notin sobrepostos
  <2>1. Conta(c)' = [saldo |-> cards[c].saldo, situacao |-> st]
    BY <1>1, <1>2, <1>3, <1>4, <1>5, <1>8 DEF Conta, Situacao, TypeInv, TablesInv
  <2>2. contas[c] = [saldo |-> cards[c].saldo, situacao |-> Situacao(c)]
    BY <1>3, <1>8, ContaOf
  <2>3. contas' = [contas EXCEPT ![c].situacao = st]
    BY <1>6, <2>1, <2>2 DEF contas
  <2>4. W!Cumpre(<<c, st>>)
    BY <1>2, <1>8, <2>3 DEF W!Cumpre
  <2> QED BY <1>2, <1>8, <2>4 DEF W!Next
<1> QED BY <1>7, <1>8

LEMMA RefineTransferTo ==
    ASSUME TypeInv, BalanceInv, Historia, NEW p \in Requests, TransferTo(p)
    PROVE  W!Next \/ Keeps
<1>0. PICK d : d = req[p].para
  OBVIOUS
<1>1. /\ req[p].pc = "transferTo" /\ UNCHANGED reserves
      /\ cards' = [cards EXCEPT ![d] = TargetRow(d)]
  BY <1>0 DEF TransferTo, At
<1>2. UNCHANGED <<sobrepostos, Ordens, retencoes>>
  <2>1. Continue(p) /\ ~At(p, "statusSave")
    BY <1>1 DEF Continue, At
  <2>2. UNCHANGED <<sobrepostos, Ordens>>
    BY <2>1, ContinueEnds DEF BalanceInv
  <2> QED BY <1>1, <2>2, RetencoesSame
<1>3. d \in CardIds
  BY <1>0, <1>1 DEF TypeInv, RequestsInv, SoundRequest, Sound, NeedsPara
<1>4. \A x \in CardIds : x # d => Conta(x)' = Conta(x)
  BY <1>1, <1>2 DEF Conta, Situacao
<1>5. CASE d \in sobrepostos \/ cards[d].status # "absent"
  <2>1. Conta(d)' = Conta(d)
    BY <1>1, <1>2, <1>3, <1>5 DEF Conta, Situacao, TargetRow, TypeInv, TablesInv
  <2>2. UNCHANGED contas
    BY <1>4, <2>1 DEF contas
  <2> QED BY <1>2, <2>2 DEF Keeps
<1>6. CASE d \notin sobrepostos /\ cards[d].status = "absent"
  <2>1. Conta(d)' = [saldo |-> 0, situacao |-> "active"]
    BY <1>1, <1>2, <1>3, <1>6 DEF Conta, Situacao, TargetRow, TypeInv, TablesInv
  <2>2. contas' = [contas EXCEPT ![d] = [saldo |-> 0, situacao |-> "active"]]
    BY <1>4, <2>1 DEF contas
  <2>3. contas[d].situacao = "none"
    BY <1>3, <1>6, AbertaOf
  <2>4. W!Abre(d, 0)
    BY <1>2, <2>2, <2>3 DEF W!Abre
  <2> QED BY <1>3, <2>4 DEF W!Next
<1> QED BY <1>5, <1>6

LEMMA RefineAbort ==
    ASSUME TypeInv, BalanceInv, Historia, NEW p \in Requests, Abort(p)
    PROVE  W!Next \/ Keeps
<1>1. UNCHANGED <<cards, reserves>> /\ Finish(p)
  BY DEF Abort, tables
<1>2. Idle.pc = "idle" /\ SameNames(Idle, req[p])
  BY DEF Idle, SameNames
<1>3. UNCHANGED sobrepostos
  BY <1>1, <1>2, HistorySame DEF Finish, BalanceInv
<1>4. UNCHANGED <<contas, retencoes>>
  BY <1>1, <1>3, ContasSame, RetencoesSame
<1>5. CASE req[p].pc # "statusSave"
  <2>1. UNCHANGED Ordens
    BY <1>1, <1>2, <1>3, <1>5, OrdensSame DEF Finish
  <2> QED BY <1>4, <2>1 DEF Keeps
<1>6. CASE req[p].pc = "statusSave"
  <2> DEFINE x == <<req[p].card, req[p].status>>
  <2>1. UNCHANGED Ordens \/ (x \in Ordens /\ Ordens' = Ordens \ {x})
    BY <1>1, <1>6, OrderEnds DEF BalanceInv
  <2> HIDE DEF x
  <2>2. CASE UNCHANGED Ordens
    BY <1>4, <2>2 DEF Keeps
  <2>3. CASE x \in Ordens /\ Ordens' = Ordens \ {x}
    <3>1. W!Recusa(x)
      BY <1>4, <2>3 DEF W!Recusa
    <3> QED BY <2>3, <3>1 DEF W!Next
  <2> QED BY <2>1, <2>2, <2>3
<1> QED BY <1>5, <1>6

LEMMA RefineTransferCommit ==
    ASSUME TypeInv, BalanceInv, HoldInv, Grows, Historia, NEW p \in Requests, TransferCommit(p)
    PROVE  W!Next \/ Keeps
<1> DEFINE o == req[p]
           from == [saldo |-> o.lido.saldo - o.valor, status |-> "blocked"]
           to == Plus(o.lidoPara, o.valor)
<1>0. PICK c, d, v : c = o.card /\ d = o.para /\ v = o.valor
  OBVIOUS
<1>1. /\ o.pc = "transferCommit" /\ UNCHANGED reserves
      /\ cards' = [cards EXCEPT ![c] = from, ![d] = to]
  BY <1>0 DEF TransferCommit, At
<1>2. UNCHANGED <<sobrepostos, Ordens, retencoes>>
  <2>1. Continue(p) /\ ~At(p, "statusSave")
    BY <1>1 DEF Continue, At
  <2>2. UNCHANGED <<sobrepostos, Ordens>>
    BY <2>1, ContinueEnds DEF BalanceInv
  <2> QED BY <1>1, <2>2, RetencoesSame
<1>3. /\ c \in CardIds /\ o.lido \in CardRow /\ o.lido.status # "absent"
      /\ c \notin sobrepostos => o.lido = cards[c]
      /\ v \in Int /\ o.lido.saldo \in Int
  BY <1>0, <1>1, StillFresh DEF HoldsCard, Pcs
<1>4. /\ d \in CardIds
      /\ o.lidoPara \in CardRow /\ o.lidoPara.status # "absent"
      /\ d \notin sobrepostos => o.lidoPara = cards[d]
  BY <1>0, <1>1
  DEF TypeInv, RequestsInv, SoundRequest, Sound, Request, NeedsPara, HoldsPara, BalanceInv,
      NothingLost, AllFresh, Fresh
<1>a. c = d => c \in sobrepostos
  BY <1>0, <1>3, CardsAssumption DEF BalanceInv, Apart
<1>5. /\ v > 0
      /\ c \notin sobrepostos => v = o.lido.saldo - Reserved(c, reserves)
  BY <1>0, <1>1 DEF HoldInv, AllPromised, Promised, Known, Ready
<1>6. /\ to.status = o.lidoPara.status /\ to.saldo = o.lidoPara.saldo + v
      /\ from.saldo = o.lido.saldo - v /\ from.status = "blocked"
  BY <1>0, <1>4 DEF Plus, CardRow
<1> HIDE DEF from, to
<1>7. /\ (c # d => cards'[c] = from) /\ cards'[d] = to
      /\ \A x \in CardIds \ {c, d} : cards'[x] = cards[x]
  BY <1>1, <1>3, <1>4 DEF TypeInv, TablesInv
<1>8. \A x \in CardIds \ {c, d} : Conta(x)' = contas[x]
  BY <1>2, <1>7 DEF contas, Conta, Situacao
<1>9. \A x \in CardIds : x \in sobrepostos => Conta(x)' = contas[x]
  BY <1>2 DEF contas, Conta
<1>10. ASSUME d \notin sobrepostos
       PROVE  /\ W!Aberta(d) /\ contas[d].saldo = o.lidoPara.saldo
              /\ Conta(d)' = [contas[d] EXCEPT !.saldo = contas[d].saldo + v]
  <2>1. contas[d] = [saldo |-> o.lidoPara.saldo, situacao |-> cards[d].status]
    BY <1>4, <1>10, ContaOf DEF Situacao
  <2>2. Conta(d)' = [saldo |-> o.lidoPara.saldo + v, situacao |-> cards[d].status]
    BY <1>2, <1>4, <1>6, <1>7, <1>10 DEF Conta, Situacao
  <2> QED BY <1>4, <1>10, <2>1, <2>2, AbertaOf
<1>11. CASE c \notin sobrepostos
  <2>1. W!Aberta(c) /\ W!Livre(c) = v /\ W!Retido(c) = Reserved(c, reserves)
    BY <1>3, <1>5, <1>11, AbertaOf, RetidoOf
  <2>2. Reserved(c, reserves) \in Nat
    BY <1>3, ReservedType DEF TypeInv, TablesInv, SoundReserve
  <2>3. o.lido.saldo - v = W!Retido(c)
    BY <1>3, <1>5, <1>11, <2>1, <2>2
  <2>4. Conta(c)' = [saldo |-> W!Retido(c), situacao |-> "blocked"]
    <3>1. Conta(c)' = [saldo |-> o.lido.saldo - v, situacao |-> "blocked"]
      BY <1>2, <1>6, <1>7, <1>11, <1>a DEF Conta, Situacao
    <3> QED BY <2>3, <3>1
  <2>5. (W!Aberta(d) <=> d \notin sobrepostos) /\ (W!Aberta(d) \/ W!Perdida(d))
    BY <1>4, <1>10, PerdidaOf
  <2>6. Conta(d)' = IF W!Aberta(d) THEN [contas[d] EXCEPT !.saldo = @ + W!Livre(c)]
                    ELSE contas[d]
    BY <1>4, <1>9, <1>10, <2>1, <2>5
  <2>7. contas' = [x \in CardIds |->
          IF x = c THEN [saldo |-> W!Retido(c), situacao |-> "blocked"]
          ELSE IF x = d /\ W!Aberta(d) THEN [contas[d] EXCEPT !.saldo = @ + W!Livre(c)]
          ELSE contas[x]]
    BY <1>8, <2>4, <2>6 DEF contas
  <2>8. W!Transfere(c, d)
    BY <1>2, <1>5, <1>11, <1>a, <2>1, <2>5, <2>7 DEF W!Transfere
  <2> QED BY <1>3, <1>4, <2>8 DEF W!Next
<1>12. CASE c \in sobrepostos /\ d \notin sobrepostos
  <2>1. contas' = [contas EXCEPT ![d].saldo = contas[d].saldo + v]
    <3>1. \A x \in CardIds : x # d => Conta(x)' = contas[x]
      BY <1>8, <1>9, <1>12
    <3> QED BY <1>4, <1>10, <1>12, <3>1 DEF contas
  <2>2. contas'[d].saldo = contas[d].saldo + v
    BY <1>4, <1>10, <1>12, <2>1 DEF contas, Conta
  <2>3. contas'[d].saldo > contas[d].saldo
    BY <1>3, <1>4, <1>5, <1>10, <1>12, <2>2 DEF CardRow
  <2>4. W!Credita(d)
    BY <1>2, <1>10, <1>12, <2>1, <2>2, <2>3 DEF W!Credita
  <2> QED BY <1>4, <2>4 DEF W!Next
<1>13. CASE c \in sobrepostos /\ d \in sobrepostos
  <2>1. UNCHANGED contas
    BY <1>8, <1>9, <1>13 DEF contas
  <2> QED BY <1>2, <2>1 DEF Keeps
<1> QED BY <1>11, <1>12, <1>13
-----------------------------------------------------------------------------
LEMMA RefineStep ==
    ASSUME TypeInv, BalanceInv, HoldInv, sobrepostos \subseteq CardIds, [Next]_vars
    PROVE  W!Next \/ Keeps
<1>1. CASE UNCHANGED vars
  <2>1. UNCHANGED <<cards, reserves, req, sobrepostos>>
    BY <1>1 DEF vars, tables
  <2>2. UNCHANGED contas
    BY <2>1, ContasSame
  <2>3. UNCHANGED retencoes
    BY <2>1, RetencoesSame
  <2> QED BY <2>1, <2>2, <2>3 DEF Keeps, Ordens, At
<1>2. CASE Next
  <2>1. Historia /\ Grows /\ Apart
    BY <1>2 DEF Next, Historia, Grows, BalanceInv
  <2>2. ASSUME NEW p \in Requests, Continue(p) PROVE W!Next \/ Keeps
    <3>1. ASSUME NEW n \in ReserveIds, ReserveInsert(p, n) PROVE W!Next \/ Keeps
      BY <2>1, <3>1, RefineInsert
    <3> QED
      BY <2>1, <2>2, <3>1, RefineReserves, RefineRecharge, RefineConfirm, RefineRefund,
         RefineStatus, RefineTransferTo, RefineTransferCommit
      DEF Continue
  <2> QED BY <1>2, <2>1, <2>2, RefineOutside, RefineStart, RefineAbort DEF Next
<1> QED BY <1>1, <1>2

\* Every handler is an operation of the wallet on the cards on which requests never
\* overlapped and which were never transferred to themselves: a reserve holds money
\* that is free, it is paid once or given back, a transfer moves what is free.
THEOREM KeepsPromise == Spec => Implements
<1> DEFINE Inv == TypeInv /\ BalanceInv /\ HoldInv /\ HistoryOK
<1>1. Init => Inv
  BY TypeInit, BalanceInit, HoldInit, HistoryInit
<1>2. Inv /\ [Next]_vars => Inv'
  <2> SUFFICES ASSUME Inv, [Next]_vars PROVE Inv'
    OBVIOUS
  <2>1. TypeInv'
    BY TypeStep
  <2>2. BalanceInv'
    BY <2>1, BalanceStep
  <2>3. HoldInv'
    BY <2>1, HoldStep DEF BalanceInv
  <2>4. HistoryOK'
    BY HistoryStep
  <2> QED BY <2>1, <2>2, <2>3, <2>4
<1>3. Inv /\ [Next]_vars => [W!Next]_(W!vars)
  <2> SUFFICES ASSUME Inv, [Next]_vars PROVE [W!Next]_(W!vars)
    OBVIOUS
  <2> QED BY RefineStep DEF Keeps, W!vars, HistoryOK
<1> HIDE DEF Inv
<1> QED BY RefineInit, <1>1, <1>2, <1>3, PTL DEF Spec, Implements, W!Spec
-----------------------------------------------------------------------------
(* What the wallet keeps of money beyond its promise: a reserve is debited once,
   the reserves never exceed the balance, a payment is credited once and cash
   enters the drawer once for a recharge that was credited, whatever overlaps on
   other cards. *)

(* A reserve is debited when it is CONFIRMED, and once *)

\* A step that confirms nothing and keeps the reserve on its card.
Settled(n) ==
    reserves'[n].card \notin sobrepostos =>
        /\ reserves[n].card \notin sobrepostos
        /\ reserves'[n].status = "confirmed" <=> reserves[n].status = "confirmed"

LEMMA OneDebitKept ==
    ASSUME OneDebitPerConfirm, Grows, UNCHANGED debitos, \A n \in ReserveIds : Settled(n)
    PROVE  OneDebitPerConfirm'
BY DEF OneDebitPerConfirm, Grows, Settled

LEMMA SettledSame == ASSUME UNCHANGED reserves PROVE \A n \in ReserveIds : Settled(n)
BY DEF Settled

LEMMA SettledExpire ==
    ASSUME TypeInv, NEW c, reserves' = ExpireOldReserves(c)
    PROVE  \A n \in ReserveIds : Settled(n)
BY DEF Settled, ExpireOldReserves, TypeInv, TablesInv, SoundReserve, ReserveRow

\* Outside the overlapped cards a request expires or reverts no CONFIRMED reserve.
LEMMA SettledSet ==
    ASSUME TypeInv, HoldInv, NEW p \in Requests,
           req[p].pc \in {"confirmExpire", "rollbackSave"},
           NEW st, st # "confirmed", reserves' = SetReserve(req[p].reserve, st)
    PROVE  \A n \in ReserveIds : Settled(n)
<1> DEFINE m == req[p].reserve
<1>1. /\ m \in ReserveIds /\ reserves[m].card = req[p].card
      /\ req[p].card \notin sobrepostos => reserves[m].status # "confirmed"
  BY DEF TypeInv, RequestsInv, SoundRequest, Sound, NeedsReserve, HoldInv, AllPromised,
         Promised, Known, Ready, NeedsRow
<1>2. /\ reserves'[m].card = reserves[m].card /\ reserves'[m].status = st
      /\ \A n \in ReserveIds \ {m} : reserves'[n] = reserves[n]
  BY <1>1 DEF SetReserve, TypeInv, TablesInv, SoundReserve, ReserveRow
<1> QED BY <1>1, <1>2 DEF Settled

LEMMA OneDebitStep ==
    ASSUME TypeInv, HoldInv, Grows, sobrepostos \subseteq CardIds, OneDebitPerConfirm,
           [Next]_vars
    PROVE  OneDebitPerConfirm'
<1>1. CASE Outside
  <2>1. ASSUME NEW m \in ReserveIds, TtlPasses(m) PROVE OneDebitPerConfirm'
    <3>1. \A n \in ReserveIds : Settled(n)
      BY <2>1 DEF TtlPasses, Settled, TypeInv, TablesInv, SoundReserve, ReserveRow
    <3> QED BY <2>1, <3>1, OneDebitKept DEF TtlPasses
  <2> QED
    BY <1>1, <2>1, SettledSame, OneDebitKept
    DEF Outside, Create, CreateRechargeIntent, ResolveIntent, Caixa, EncerraEvento
<1>2. ASSUME NEW p \in Requests, Start(p) \/ Abort(p) PROVE OneDebitPerConfirm'
  BY <1>2, StartReads, SettledSame, OneDebitKept DEF Abort, tables
<1>3. ASSUME NEW p \in Requests, Continue(p) PROVE OneDebitPerConfirm'
  <2>1. CASE ReserveSum(p) \/ RefundSum(p) \/ TransferSum(p)
    BY <2>1, SettledExpire, OneDebitKept DEF ReserveSum, RefundSum, TransferSum
  <2>2. ASSUME NEW m \in ReserveIds, ReserveInsert(p, m) PROVE OneDebitPerConfirm'
    <3>1. reserves[m].card = None /\ reserves[m].status = "none"
      BY <2>2 DEF ReserveInsert, FreeRow, HoldInv, EmptyRows
    <3>2. \A n \in ReserveIds : Settled(n)
      BY <2>2, <3>1, CardsAssumption DEF ReserveInsert, Settled, TypeInv, TablesInv
    <3> QED BY <2>2, <3>2, OneDebitKept DEF ReserveInsert
  <2>3. CASE ConfirmExpire(p) \/ RollbackSave(p)
    BY <2>3, SettledSet, OneDebitKept DEF ConfirmExpire, RollbackSave, At
  <2>4. CASE ConfirmCommit(p)
    <3> DEFINE m == req[p].reserve
    <3>1. /\ m \in ReserveIds /\ reserves[m].card = req[p].card
          /\ req[p].card \notin sobrepostos => reserves[m].status = "active"
      BY <2>4 DEF ConfirmCommit, At, TypeInv, RequestsInv, SoundRequest, Sound,
         NeedsReserve, HoldInv, AllPromised, Promised, Known, Ready, NeedsRow
    <3>2. /\ reserves'[m].card = reserves[m].card /\ reserves'[m].status = "confirmed"
          /\ debitos'[m] = debitos[m] + 1
          /\ \A n \in ReserveIds \ {m} :
                reserves'[n] = reserves[n] /\ debitos'[n] = debitos[n]
      BY <2>4, <3>1
      DEF ConfirmCommit, SetReserve, TypeInv, TablesInv, SoundReserve, ReserveRow
    <3> QED BY <3>1, <3>2 DEF OneDebitPerConfirm, Grows
  <2>5. CASE \/ RechargeCheckIntent(p)
             \/ \E i \in IntentIds, s \in CaixaIds \cup {None} : RechargeCash(p, i, s)
             \/ RechargeCommit(p) \/ RechargeMovement(p)
    BY <2>5, SettledSame, OneDebitKept
    DEF RechargeCheckIntent, RechargeCash, RechargeCommit, RechargeMovement, tables
  <2>6. CASE \/ ConfirmReserve(p) \/ RefundCommit(p) \/ StatusSave(p)
             \/ TransferTo(p) \/ TransferCommit(p)
    BY <2>6, SettledSame, OneDebitKept
    DEF ConfirmReserve, RefundCommit, StatusSave, TransferTo, TransferCommit, tables
  <2> QED
    BY <1>3, <2>1, <2>2, <2>3, <2>4, <2>5, <2>6 DEF Continue
<1>4. CASE UNCHANGED vars
  BY <1>4, SettledSame, OneDebitKept DEF vars, tables
<1> QED
  BY <1>1, <1>2, <1>3, <1>4 DEF Next

\* What a request knows of its card is all that the theorems below need.
PromiseInv == TypeInv /\ BalanceInv /\ HoldInv /\ HistoryOK

LEMMA PromiseInit == Init => PromiseInv
BY TypeInit, BalanceInit, HoldInit, HistoryInit DEF PromiseInv

LEMMA PromiseStep ==
    ASSUME PromiseInv, [Next]_vars
    PROVE  PromiseInv' /\ Grows
<1>1. TypeInv' BY TypeStep DEF PromiseInv
<1>2. BalanceInv' BY <1>1, BalanceStep DEF PromiseInv
<1>3. HoldInv' BY <1>1, HoldStep DEF PromiseInv, BalanceInv
<1>4. HistoryOK' BY HistoryStep DEF PromiseInv
<1>5. Grows BY DEF Grows, Next, Historia, vars
<1> QED BY <1>1, <1>2, <1>3, <1>4, <1>5 DEF PromiseInv

\* On cards on which requests never overlapped, and which were never transferred to
\* themselves, confirm debits a reserve once,
\* however often it is called and whatever expiry and rollback do in between.
THEOREM DebitedOnce == Spec => []OneDebitPerConfirm
<1>1. Init => OneDebitPerConfirm
  BY DEF Init, OneDebitPerConfirm, NoReserve
<1>2. PromiseInv /\ OneDebitPerConfirm /\ [Next]_vars => OneDebitPerConfirm'
  BY PromiseStep, OneDebitStep DEF PromiseInv, HistoryOK
<1>3. PromiseInv /\ [Next]_vars => PromiseInv'
  BY PromiseStep
<1> QED
  BY PromiseInit, <1>1, <1>2, <1>3, PTL DEF Spec
-----------------------------------------------------------------------------
(* The reserves of a card never exceed its balance *)

\* The reserved amount is finite, and no larger where there are no more cells.
LEMMA CellsFinite == \A c : \A rs : IsFiniteSet(Cells(c, rs))
<1>0. IsFiniteSet(Valores)
  BY CardsAssumption, FS_Interval DEF Valores
<1>1. IsFiniteSet(ReserveIds \X Valores)
  BY <1>0, CardsAssumption, FS_Product
<1>2. \A c : \A rs : Cells(c, rs) \in SUBSET (ReserveIds \X Valores)
  BY DEF Cells
<1> QED BY <1>1, <1>2, FS_Subset

LEMMA ReservedNat == \A c : \A rs : Reserved(c, rs) \in Nat
BY CellsFinite, FS_CardinalityType DEF Reserved

LEMMA FewerCells ==
    ASSUME NEW c, NEW rs, NEW rs2, Cells(c, rs2) \subseteq Cells(c, rs)
    PROVE  Reserved(c, rs2) <= Reserved(c, rs)
BY CellsFinite, FS_Subset DEF Reserved

LEMMA ExpireFewer ==
    ASSUME TypeInv, NEW c, NEW d
    PROVE  Reserved(c, ExpireOldReserves(d)) <= Reserved(c, reserves)
<1>1. \A n \in ReserveIds : reserves[n] \in ReserveRow
  BY DEF TypeInv, TablesInv, SoundReserve
<1>2. \A n \in ReserveIds :
        /\ ExpireOldReserves(d)[n].card = reserves[n].card
        /\ ExpireOldReserves(d)[n].valor = reserves[n].valor
        /\ ExpireOldReserves(d)[n].status = "active" => reserves[n].status = "active"
  BY <1>1 DEF ExpireOldReserves, ReserveRow
<1>3. Cells(c, ExpireOldReserves(d)) \subseteq Cells(c, reserves)
  BY <1>2 DEF Cells
<1> QED BY <1>3, FewerCells

LEMMA SetFewer ==
    ASSUME TypeInv, NEW c, NEW m \in ReserveIds, NEW st, st # "active"
    PROVE  Reserved(c, SetReserve(m, st)) <= Reserved(c, reserves)
<1>1. reserves[m] \in ReserveRow /\ reserves \in [ReserveIds -> SoundReserve]
  BY DEF TypeInv, TablesInv, SoundReserve
<1>2. /\ SetReserve(m, st)[m].status = st
      /\ \A n \in ReserveIds \ {m} : SetReserve(m, st)[n] = reserves[n]
  BY <1>1 DEF SetReserve, ReserveRow
<1>3. Cells(c, SetReserve(m, st)) \subseteq Cells(c, reserves)
  BY <1>2 DEF Cells
<1> QED BY <1>3, FewerCells

\* The cells of one reserve are as many as its value.
LEMMA RowCells ==
    ASSUME NEW m, NEW v \in Valores
    PROVE  IsFiniteSet({m} \X (1..v)) /\ Cardinality({m} \X (1..v)) = v
<1>1. v \in Nat /\ v >= 1
  BY CardsAssumption DEF Valores
<1>2. IsFiniteSet(1..v) /\ Cardinality(1..v) = v
  BY <1>1, FS_Interval
<1>3. IsFiniteSet({m}) /\ Cardinality({m}) = 1
  BY FS_Singleton
<1>4. /\ IsFiniteSet({m} \X (1..v))
      /\ Cardinality({m} \X (1..v)) = Cardinality({m}) * Cardinality(1..v)
  BY <1>2, <1>3, FS_Product
<1>5. Cardinality({m}) * Cardinality(1..v) = 1 * v
  BY <1>2, <1>3
<1> QED BY <1>1, <1>4, <1>5

\* One reserve more adds at most its value.
LEMMA OneMore ==
    ASSUME NEW c, NEW rs, NEW rs2, NEW m \in ReserveIds, NEW v \in Valores,
           rs2[m].valor = v, \A n \in ReserveIds \ {m} : rs2[n] = rs[n]
    PROVE  Reserved(c, rs2) <= Reserved(c, rs) + v
<1> DEFINE new == {m} \X (1..v)
           all == Cells(c, rs) \cup new
<1>1. IsFiniteSet(new) /\ Cardinality(new) = v
  BY RowCells
<1>2. \A x \in Cells(c, rs2) : x \in all
  <2> SUFFICES ASSUME NEW x \in Cells(c, rs2) PROVE x \in all
    OBVIOUS
  <2>1. /\ x \in ReserveIds \X Valores /\ x = <<x[1], x[2]>>
        /\ rs2[x[1]].card = c /\ rs2[x[1]].status = "active" /\ x[2] <= rs2[x[1]].valor
    BY DEF Cells
  <2>2. CASE x[1] = m
    <3>1. x[2] \in 1..v
      BY <2>1, <2>2, CardsAssumption DEF Valores
    <3> QED BY <2>1, <2>2, <3>1
  <2>3. CASE x[1] # m
    <3>1. rs2[x[1]] = rs[x[1]]
      BY <2>1, <2>3
    <3> QED BY <2>1, <3>1 DEF Cells
  <2> QED BY <2>2, <2>3
<1> HIDE DEF new
<1>3. /\ IsFiniteSet(all)
      /\ Cardinality(all) =
            Cardinality(Cells(c, rs)) + Cardinality(new) - Cardinality(Cells(c, rs) \cap new)
  BY <1>1, CellsFinite, FS_Union
<1>4. Cardinality(Cells(c, rs) \cap new) \in Nat
  <2>1. Cells(c, rs) \cap new \in SUBSET new
    OBVIOUS
  <2> QED BY <1>1, <2>1, FS_Subset, FS_CardinalityType
<1>5. Cardinality(Cells(c, rs2)) <= Cardinality(all)
  BY <1>2, <1>3, FS_Subset
<1>6. Cardinality(Cells(c, rs)) \in Nat /\ v \in Nat /\ Cardinality(Cells(c, rs2)) \in Nat
  BY CardsAssumption, CellsFinite, FS_CardinalityType DEF Valores
<1> QED BY <1>1, <1>3, <1>4, <1>5, <1>6 DEF Reserved

\* A reserve that ceases to be ACTIVE frees its value.
LEMMA OneLess ==
    ASSUME NEW c, NEW rs, NEW rs2, NEW m \in ReserveIds, rs[m].valor \in Valores,
           rs[m].card = c, rs[m].status = "active", rs2[m].status # "active",
           \A n \in ReserveIds \ {m} : rs2[n] = rs[n]
    PROVE  Reserved(c, rs2) = Reserved(c, rs) - rs[m].valor
<1> DEFINE v == rs[m].valor
           old == {m} \X (1..v)
<1>1. IsFiniteSet(old) /\ Cardinality(old) = v
  BY RowCells
<1>2. Cells(c, rs) = Cells(c, rs2) \cup old
  <2>1. ASSUME NEW x \in Cells(c, rs) PROVE x \in Cells(c, rs2) \cup old
    <3>1. /\ x \in ReserveIds \X Valores /\ x = <<x[1], x[2]>>
          /\ rs[x[1]].card = c /\ rs[x[1]].status = "active" /\ x[2] <= rs[x[1]].valor
      BY <2>1 DEF Cells
    <3>2. CASE x[1] = m
      <4>1. x[2] \in 1..v
        BY <3>1, <3>2, CardsAssumption DEF Valores
      <4> QED BY <3>1, <3>2, <4>1
    <3>3. CASE x[1] # m
      <4>1. rs2[x[1]] = rs[x[1]]
        BY <3>1, <3>3
      <4> QED BY <3>1, <4>1 DEF Cells
    <3> QED BY <3>2, <3>3
  <2>2. ASSUME NEW x \in Cells(c, rs2) PROVE x \in Cells(c, rs)
    <3>1. /\ x \in ReserveIds \X Valores
          /\ rs2[x[1]].card = c /\ rs2[x[1]].status = "active" /\ x[2] <= rs2[x[1]].valor
      BY <2>2 DEF Cells
    <3>2. rs2[x[1]] = rs[x[1]]
      BY <3>1
    <3> QED BY <3>1, <3>2 DEF Cells
  <2>3. ASSUME NEW x \in old PROVE x \in Cells(c, rs)
    <3>1. x[1] = m /\ x[2] \in 1..v /\ x = <<x[1], x[2]>>
      BY <2>3
    <3>2. x[2] \in Valores /\ x[2] <= v
      BY <3>1, CardsAssumption DEF Valores
    <3> QED BY <3>1, <3>2 DEF Cells
  <2> QED BY <2>1, <2>2, <2>3
<1>3. Cells(c, rs2) \cap old = {}
  BY DEF Cells
<1>4. Cardinality(Cells(c, rs)) =
        Cardinality(Cells(c, rs2)) + Cardinality(old) - Cardinality(Cells(c, rs2) \cap old)
  BY <1>1, <1>2, CellsFinite, FS_Union
<1>5. Cardinality({}) = 0
  BY FS_EmptySet
<1>6. Cardinality(Cells(c, rs)) \in Nat /\ v \in Nat /\ Cardinality(Cells(c, rs2)) \in Nat
  BY CardsAssumption, CellsFinite, FS_CardinalityType DEF Valores
<1> HIDE DEF v, old
<1>7. Cardinality(Cells(c, rs2)) = Cardinality(Cells(c, rs)) - v
  BY <1>1, <1>3, <1>4, <1>5, <1>6
<1> QED BY <1>7 DEF Reserved, v

\* Inductive with what requests have found out: the ACTIVE reserves of a card, those
\* past their time with them, and the amount of every one.  The history knows of a
\* refund about to take more than is free before it does.
Shaken == sobrepostos \cup descobertos
ExcessSeen == Excedidos \subseteq descobertos
Covered == \A c \in CardIds \ Shaken : Reserved(c, reserves) <= cards[c].saldo
Priced == \A n \in ReserveIds : reserves[n].status = "active" => reserves[n].valor \in Valores
CoverInv == Covered /\ Priced

HistoryGrows == Grows /\ descobertos \subseteq descobertos'

\* A step that activates no reserve.
Lighter ==
    /\ \A c \in CardIds : Reserved(c, reserves') <= Reserved(c, reserves)
    /\ \A n \in ReserveIds : reserves'[n].status = "active" =>
          reserves[n].status = "active" /\ reserves'[n].valor = reserves[n].valor

LEMMA LighterSame == ASSUME UNCHANGED reserves PROVE Lighter
BY ReservedNat DEF Lighter

LEMMA LighterExpire ==
    ASSUME TypeInv, NEW c, reserves' = ExpireOldReserves(c)
    PROVE  Lighter
BY ExpireFewer
DEF Lighter, ExpireOldReserves, TypeInv, TablesInv, SoundReserve, ReserveRow

LEMMA LighterSet ==
    ASSUME TypeInv, NEW m \in ReserveIds, NEW st, st # "active", reserves' = SetReserve(m, st)
    PROVE  Lighter
BY SetFewer DEF Lighter, SetReserve, TypeInv, TablesInv, SoundReserve, ReserveRow

LEMMA PricedKept == ASSUME Priced, Lighter PROVE Priced'
BY DEF Priced, Lighter

\* What a step must show of the cards that are not overlapped after it.
LEMMA CoverKept ==
    ASSUME TypeInv, TypeInv', CoverInv, HistoryGrows, Lighter,
           \A c \in CardIds \ Shaken :
              \/ cards'[c].saldo >= cards[c].saldo
              \/ cards'[c].saldo >= Reserved(c, reserves')
    PROVE  CoverInv'
<1>1. ASSUME NEW c \in CardIds \ Shaken PROVE Reserved(c, reserves') <= cards'[c].saldo
  <2>1. cards[c].saldo \in Int /\ cards'[c].saldo \in Int
    BY DEF TypeInv, TablesInv, CardRow
  <2>2. Reserved(c, reserves) \in Nat /\ Reserved(c, reserves') \in Nat
    BY ReservedNat
  <2>3. Reserved(c, reserves) <= cards[c].saldo /\ Reserved(c, reserves') <= Reserved(c, reserves)
    BY DEF CoverInv, Covered, Lighter
  <2> QED BY <2>1, <2>2, <2>3
<1> QED BY <1>1, PricedKept DEF CoverInv, Covered, HistoryGrows, Grows, Shaken

LEMMA CoverOutside ==
    ASSUME TypeInv, TypeInv', BalanceInv, CoverInv, HistoryGrows, Outside
    PROVE  CoverInv'
<1>1. ASSUME NEW c \in CardIds, NEW s \in Valores \cup {0}, Create(c, s)
      PROVE  CoverInv'
  <2>1. /\ s >= 0 /\ UNCHANGED reserves
        /\ cards'[c].saldo = s /\ \A d \in CardIds \ {c} : cards'[d] = cards[d]
    BY <1>1, CardsAssumption DEF Create, Valores, TypeInv, TablesInv
  <2>2. c \notin sobrepostos => cards[c].saldo = 0
    BY <1>1 DEF Create, BalanceInv, NothingLost, AbsentIsEmpty
  <2>3. \A d \in CardIds : cards[d].saldo \in Int
    BY DEF TypeInv, TablesInv, CardRow
  <2>4. \A d \in CardIds \ Shaken : cards'[d].saldo >= cards[d].saldo
    BY <2>1, <2>2, <2>3 DEF Shaken
  <2> QED BY <2>1, <2>4, LighterSame, CoverKept
<1>2. ASSUME UNCHANGED cards, Lighter PROVE CoverInv'
  <2>1. \A d \in CardIds : cards'[d].saldo >= cards[d].saldo
    BY <1>2 DEF TypeInv, TablesInv, CardRow
  <2> QED BY <1>2, <2>1, CoverKept
<1>3. ASSUME NEW m \in ReserveIds, TtlPasses(m) PROVE CoverInv'
  <2>1. \A n \in ReserveIds :
          /\ reserves'[n].card = reserves[n].card
          /\ reserves'[n].status = reserves[n].status
          /\ reserves'[n].valor = reserves[n].valor
    BY <1>3 DEF TtlPasses, TypeInv, TablesInv, SoundReserve, ReserveRow
  <2>2. \A c \in CardIds : Reserved(c, reserves') = Reserved(c, reserves)
    BY <2>1, SameReserved DEF SameHolds
  <2>3. Lighter
    BY <2>1, <2>2, ReservedNat DEF Lighter
  <2> QED BY <1>2, <1>3, <2>3 DEF TtlPasses
<1> QED
  BY <1>1, <1>2, <1>3, LighterSame
  DEF Outside, CreateRechargeIntent, ResolveIntent, Caixa, EncerraEvento

LEMMA CoverInsert ==
    ASSUME TypeInv, TypeInv', BalanceInv, HoldInv, CoverInv, HistoryGrows, NEW p \in Requests,
           NEW m \in ReserveIds, ReserveInsert(p, m)
    PROVE  CoverInv'
<1> DEFINE c == req[p].card
           v == req[p].valor
<1>1. /\ req[p].pc = "reserveInsert" /\ UNCHANGED cards
      /\ reserves[m].status = "none" /\ reserves[m].card = None
  BY DEF ReserveInsert, At, FreeRow, HoldInv, EmptyRows
<1>2. /\ reserves'[m].card = c /\ reserves'[m].valor = v /\ reserves'[m].status = "active"
      /\ \A n \in ReserveIds \ {m} : reserves'[n] = reserves[n]
  BY DEF ReserveInsert, TypeInv, TablesInv
<1>3. /\ c \in CardIds /\ v \in Valores
      /\ c \notin sobrepostos => v <= req[p].lido.saldo - Reserved(c, reserves)
  BY <1>1 DEF TypeInv, RequestsInv, SoundRequest, Sound, HoldInv, AllPromised, Promised,
     Known, Ready, HasNatural
<1>4. c \notin sobrepostos => req[p].lido = cards[c]
  BY <1>1, StillFresh DEF HistoryGrows, HoldsCard, Pcs
<1> HIDE DEF c, v
<1>5. ASSUME NEW d \in CardIds \ Shaken PROVE Reserved(d, reserves') <= cards[d].saldo
  <2>1. CASE d = c
    <3>1. Reserved(c, reserves') <= Reserved(c, reserves) + v
      BY <1>2, <1>3, OneMore
    <3>2. /\ Reserved(c, reserves) \in Nat /\ Reserved(c, reserves') \in Nat
          /\ v \in Int /\ cards[c].saldo \in Int
      BY <1>3, ReservedNat, CardsAssumption DEF Valores, TypeInv, TablesInv, CardRow
    <3> QED BY <1>3, <1>4, <1>5, <2>1, <3>1, <3>2 DEF Shaken
  <2>2. CASE d # c
    <3>1. SameHolds(d, reserves, reserves')
      BY <1>1, <1>2, <2>2, CardsAssumption DEF SameHolds
    <3> QED BY <3>1, SameReserved DEF CoverInv, Covered
  <2> QED BY <2>1, <2>2
<1>6. Priced'
  BY <1>2, <1>3 DEF CoverInv, Priced
<1> QED BY <1>1, <1>5, <1>6 DEF CoverInv, Covered, HistoryGrows, Grows, Shaken

LEMMA CoverConfirm ==
    ASSUME TypeInv, TypeInv', BalanceInv, HoldInv, CoverInv, HistoryGrows, NEW p \in Requests,
           ConfirmCommit(p)
    PROVE  CoverInv'
<1> DEFINE c == req[p].card
           m == req[p].reserve
           v == reserves[m].valor
<1>1. /\ req[p].pc = "confirmCommit" /\ reserves' = SetReserve(m, "confirmed")
      /\ cards' = [cards EXCEPT ![c] =
                     [req[p].lido EXCEPT !.saldo = req[p].lido.saldo - req[p].valor]]
  BY DEF ConfirmCommit, At
<1>2. /\ c \in CardIds /\ m \in ReserveIds /\ reserves[m].card = c
      /\ c \notin sobrepostos => reserves[m].status = "active" /\ req[p].valor = v
  BY <1>1 DEF TypeInv, RequestsInv, SoundRequest, Sound, NeedsReserve, HoldInv, AllPromised,
     Promised, Known, Ready, NeedsRow
<1>3. /\ c \notin sobrepostos => req[p].lido = cards[c]
      /\ req[p].lido \in CardRow /\ req[p].valor \in Int
  BY <1>1, StillFresh DEF HistoryGrows, HoldsCard, Pcs
<1>4. /\ cards'[c].saldo = req[p].lido.saldo - req[p].valor
      /\ \A d \in CardIds \ {c} : cards'[d] = cards[d]
  BY <1>1, <1>2, <1>3 DEF TypeInv, TablesInv, CardRow
<1>5. /\ reserves'[m].status = "confirmed"
      /\ \A n \in ReserveIds \ {m} : reserves'[n] = reserves[n]
  BY <1>1, <1>2 DEF SetReserve, TypeInv, TablesInv, SoundReserve, ReserveRow
<1>6. Lighter
  BY <1>1, <1>2, LighterSet
<1>7. ASSUME NEW d \in CardIds \ Shaken
      PROVE  \/ cards'[d].saldo >= cards[d].saldo
             \/ cards'[d].saldo >= Reserved(d, reserves')
  <2>0. /\ cards[d].saldo \in Int /\ Reserved(d, reserves) \in Nat
        /\ Reserved(d, reserves') \in Nat
    BY ReservedNat DEF TypeInv, TablesInv, CardRow
  <2>1. CASE d = c
    <3>1. v \in Valores /\ v \in Int
      BY <1>2, <1>7, <2>1, CardsAssumption DEF CoverInv, Priced, Valores, Shaken
    <3>2. Reserved(c, reserves') = Reserved(c, reserves) - v
      BY <1>2, <1>5, <1>7, <2>1, <3>1, OneLess DEF Shaken
    <3>3. cards'[c].saldo = cards[c].saldo - v
      BY <1>2, <1>3, <1>4, <1>7, <2>1 DEF Shaken
    <3>4. Reserved(c, reserves) <= cards[c].saldo
      BY <1>7, <2>1 DEF CoverInv, Covered
    <3> HIDE DEF c, v
    <3> QED BY <2>0, <2>1, <3>1, <3>2, <3>3, <3>4
  <2>2. CASE d # c
    BY <1>4, <2>0, <2>2
  <2> QED BY <2>1, <2>2
<1> QED BY <1>6, <1>7, CoverKept

\* The handlers that write a card row and leave the reserves alone.
LEMMA CoverWrites ==
    ASSUME TypeInv, TypeInv', BalanceInv, HoldInv, ExcessSeen, CoverInv, HistoryGrows, NEW p \in Requests,
           \/ RechargeCommit(p) \/ RefundCommit(p) \/ StatusSave(p)
           \/ TransferTo(p) \/ TransferCommit(p)
    PROVE  CoverInv'
<1> DEFINE o == req[p]
           c == req[p].card
           d == req[p].para
           Enough(x, row) == row.saldo >= cards[x].saldo \/ row.saldo >= Reserved(x, reserves)
<1>0. /\ UNCHANGED reserves
      /\ \A x \in CardIds : cards[x].saldo \in Int /\ Reserved(x, reserves) \in Nat
  BY ReservedNat DEF RechargeCommit, RefundCommit, StatusSave, TransferTo, TransferCommit,
     TypeInv, TablesInv, CardRow
<1>1. ASSUME \A x \in CardIds \ Shaken : cards'[x] = cards[x] \/ Enough(x, cards'[x])
      PROVE  CoverInv'
  <2>1. \A x \in CardIds \ Shaken :
          \/ cards'[x].saldo >= cards[x].saldo
          \/ cards'[x].saldo >= Reserved(x, reserves')
    BY <1>0, <1>1
  <2> QED BY <1>0, <2>1, LighterSame, CoverKept
<1>2. o.pc \in HoldsCard =>
        /\ c \in CardIds /\ o.lido \in CardRow /\ o.valor \in Int /\ o.lido.saldo \in Int
        /\ c \notin sobrepostos => o.lido = cards[c]
  BY StillFresh DEF HistoryGrows
<1>3. ASSUME NEW row, c \in CardIds, cards' = [cards EXCEPT ![c] = row],
             c \notin Shaken => Enough(c, row)
      PROVE  CoverInv'
  <2>1. cards'[c] = row /\ \A x \in CardIds \ {c} : cards'[x] = cards[x]
    BY <1>3 DEF TypeInv, TablesInv
  <2> HIDE DEF c
  <2> QED BY <1>1, <1>3, <2>1
<1> HIDE DEF o, c
<1>4. CASE RechargeCommit(p)
  <2> DEFINE row == Plus(o.lido, o.valor)
  <2>1. o.pc = "rechargeCommit" /\ cards' = [cards EXCEPT ![c] = row]
    BY <1>4 DEF RechargeCommit, At, o, c
  <2>2. o.pc \in HoldsCard
    BY <2>1 DEF HoldsCard, Pcs
  <2>3. o.valor \in Valores
    BY <2>1 DEF o, HoldInv, AllPromised, Promised, Known, HasNatural
  <2>4. row.saldo = o.lido.saldo + o.valor
    BY <1>2, <2>2 DEF Plus, CardRow
  <2>5. o.valor >= 1
    BY <2>3, CardsAssumption DEF Valores
  <2>6. c \notin Shaken => Enough(c, row)
    BY <1>0, <1>2, <2>2, <2>4, <2>5 DEF Shaken
  <2> HIDE DEF row
  <2> QED BY <1>2, <1>3, <2>1, <2>2, <2>6
<1>5. CASE RefundCommit(p)
  <2> DEFINE row == [o.lido EXCEPT !.saldo = o.lido.saldo - o.valor]
  <2>1. o.pc = "refundCommit" /\ cards' = [cards EXCEPT ![c] = row]
    BY <1>5 DEF RefundCommit, At, o, c
  <2>2. o.pc \in HoldsCard
    BY <2>1 DEF HoldsCard, Pcs
  <2>3. c \notin Shaken => ~(o.valor > o.lido.saldo - Reserved(c, reserves))
    BY <1>2, <2>1, <2>2 DEF o, c, ExcessSeen, Excedidos, Shaken, At
  <2>4. row.saldo = o.lido.saldo - o.valor
    BY <1>2, <2>2 DEF CardRow
  <2>5. c \notin Shaken => Enough(c, row)
    BY <1>0, <1>2, <2>2, <2>3, <2>4 DEF Shaken
  <2> HIDE DEF row
  <2> QED BY <1>2, <1>3, <2>1, <2>2, <2>5
<1>6. CASE StatusSave(p)
  <2> DEFINE row == [o.lido EXCEPT !.status = o.status]
  <2>1. o.pc = "statusSave" /\ cards' = [cards EXCEPT ![c] = row]
    BY <1>6 DEF StatusSave, At, o, c
  <2>2. o.pc \in HoldsCard
    BY <2>1 DEF HoldsCard, Pcs
  <2>3. row.saldo = o.lido.saldo
    BY <1>2, <2>2 DEF CardRow
  <2>4. c \notin Shaken => Enough(c, row)
    BY <1>0, <1>2, <2>2, <2>3 DEF Shaken
  <2> HIDE DEF row
  <2> QED BY <1>2, <1>3, <2>1, <2>2, <2>4
<1>7. CASE TransferTo(p)
  <2>1. o.pc = "transferTo" /\ cards' = [cards EXCEPT ![d] = TargetRow(d)]
    BY <1>7 DEF TransferTo, At, o
  <2>2. d \in CardIds
    BY <2>1 DEF o, TypeInv, RequestsInv, SoundRequest, Sound, NeedsPara
  <2>3. d \notin sobrepostos => TargetRow(d).saldo = cards[d].saldo
    BY <2>2 DEF TargetRow, BalanceInv, NothingLost, AbsentIsEmpty
  <2>4. cards'[d] = TargetRow(d) /\ \A x \in CardIds \ {d} : cards'[x] = cards[x]
    BY <2>1, <2>2 DEF TypeInv, TablesInv
  <2> HIDE DEF d
  <2> QED BY <1>0, <1>1, <2>2, <2>3, <2>4 DEF Shaken
<1>8. CASE TransferCommit(p)
  <2> DEFINE from == [saldo |-> o.lido.saldo - o.valor, status |-> "blocked"]
             to == Plus(o.lidoPara, o.valor)
  <2>1. o.pc = "transferCommit" /\ cards' = [cards EXCEPT ![c] = from, ![d] = to]
    BY <1>8 DEF TransferCommit, At, o, c
  <2>2. o.pc \in HoldsCard
    BY <2>1 DEF HoldsCard, Pcs
  <2>3. /\ d \in CardIds /\ o.lidoPara \in CardRow
        /\ d \notin sobrepostos => o.lidoPara = cards[d]
    BY <2>1 DEF o, c, TypeInv, RequestsInv, SoundRequest, Sound, Request, NeedsPara,
       HoldsPara, BalanceInv, NothingLost, AllFresh, Fresh
  <2>a. c = d => c \in sobrepostos
    BY <1>2, <2>2, CardsAssumption DEF o, c, BalanceInv, Apart
  <2>4. /\ o.valor > 0
        /\ c \notin sobrepostos => o.valor = o.lido.saldo - Reserved(c, reserves)
    BY <2>1 DEF o, c, HoldInv, AllPromised, Promised, Known, Ready
  <2>5. from.saldo = o.lido.saldo - o.valor /\ to.saldo = o.lidoPara.saldo + o.valor
    BY <2>3 DEF Plus, CardRow
  <2> HIDE DEF from, to, d
  <2>6. /\ (c # d => cards'[c] = from) /\ cards'[d] = to
        /\ \A x \in CardIds \ {c, d} : cards'[x] = cards[x]
    BY <1>2, <2>1, <2>2, <2>3 DEF TypeInv, TablesInv
  <2>7. c \notin sobrepostos => Enough(c, from)
    BY <1>0, <1>2, <2>2, <2>4, <2>5
  <2>8. d \notin sobrepostos => Enough(d, to)
    BY <1>0, <1>2, <2>2, <2>3, <2>4, <2>5
  <2> HIDE DEF Enough
  <2> QED BY <1>1, <2>6, <2>7, <2>8, <2>a DEF Shaken
<1> QED BY <1>4, <1>5, <1>6, <1>7, <1>8

LEMMA CoverStep ==
    ASSUME TypeInv, TypeInv', BalanceInv, HoldInv, ExcessSeen, CoverInv, HistoryGrows, [Next]_vars
    PROVE  CoverInv'
<1>1. ASSUME UNCHANGED cards, Lighter PROVE CoverInv'
  <2>1. \A d \in CardIds : cards'[d].saldo >= cards[d].saldo
    BY <1>1 DEF TypeInv, TablesInv, CardRow
  <2> QED BY <1>1, <2>1, CoverKept
<1>2. ASSUME NEW p \in Requests, Start(p) \/ Abort(p) PROVE CoverInv'
  BY <1>1, <1>2, StartReads, LighterSame DEF Abort, tables
<1>3. ASSUME NEW p \in Requests, Continue(p) PROVE CoverInv'
  <2>1. CASE ReserveSum(p) \/ RefundSum(p) \/ TransferSum(p)
    BY <1>1, <2>1, LighterExpire DEF ReserveSum, RefundSum, TransferSum
  <2>2. ASSUME NEW m \in ReserveIds, ReserveInsert(p, m) PROVE CoverInv'
    BY <2>2, CoverInsert
  <2>3. CASE ConfirmExpire(p) \/ RollbackSave(p)
    <3>1. req[p].reserve \in ReserveIds
      BY <2>3 DEF ConfirmExpire, RollbackSave, At, TypeInv, RequestsInv, SoundRequest,
         Sound, NeedsReserve
    <3> QED BY <1>1, <2>3, <3>1, LighterSet DEF ConfirmExpire, RollbackSave
  <2>4. CASE ConfirmCommit(p)
    BY <2>4, CoverConfirm
  <2>5. CASE \/ RechargeCommit(p) \/ RefundCommit(p) \/ StatusSave(p)
             \/ TransferTo(p) \/ TransferCommit(p)
    BY <2>5, CoverWrites
  <2>6. CASE \/ RechargeCheckIntent(p) \/ RechargeMovement(p) \/ ConfirmReserve(p)
             \/ \E i \in IntentIds, s \in CaixaIds \cup {None} : RechargeCash(p, i, s)
    BY <1>1, <2>6, LighterSame
    DEF RechargeCheckIntent, RechargeCash, RechargeMovement, ConfirmReserve, tables
  <2> QED BY <1>3, <2>1, <2>2, <2>3, <2>4, <2>5, <2>6 DEF Continue
<1>4. CASE UNCHANGED vars
  BY <1>1, <1>4, LighterSame DEF vars, tables
<1> QED BY <1>2, <1>3, <1>4, CoverOutside DEF Next

LEMMA ExcessStep ==
    ASSUME ExcessSeen, [Next]_vars
    PROVE  ExcessSeen' /\ descobertos \subseteq descobertos'
<1>1. CASE UNCHANGED vars
  BY <1>1 DEF ExcessSeen, Excedidos, At, Reserved, Cells, vars, tables
<1>2. CASE Next
  BY <1>2 DEF Next, Historia, ExcessSeen
<1> QED BY <1>1, <1>2

LEMMA CoverHeld ==
    ASSUME TypeInv, CoverInv
    PROVE  NoOverReserve
<1>1. ASSUME NEW c \in CardIds \ Shaken PROVE Held(c) <= cards[c].saldo
  <2>1. Held(c) <= Reserved(c, reserves) /\ Reserved(c, reserves) <= cards[c].saldo
    BY ExpireFewer DEF Held, CoverInv, Covered
  <2>2. Held(c) \in Nat /\ Reserved(c, reserves) \in Nat /\ cards[c].saldo \in Int
    BY ReservedNat DEF Held, TypeInv, TablesInv, CardRow
  <2> QED BY <2>1, <2>2
<1> QED BY <1>1 DEF NoOverReserve, Shaken

\* The reserves of a card never hold more than its balance, so that confirming them
\* all leaves it at zero or above, unless requests overlapped on the card, it was
\* transferred to itself, or a refund was to take more of it than was free.
THEOREM ReservesAreCovered == Spec => []NoOverReserve
<1>1. Init => CoverInv
  <2> SUFFICES ASSUME Init PROVE CoverInv
    OBVIOUS
  <2>1. \A n \in ReserveIds : reserves[n].status = "none"
    BY DEF Init, NoReserve
  <2>2. \A c : Cells(c, reserves) = {}
    BY <2>1 DEF Cells
  <2>3. \A c \in CardIds : cards[c].saldo = 0 /\ Reserved(c, reserves) = 0
    BY <2>2, FS_EmptySet DEF Init, NoCard, Reserved
  <2> QED BY <2>1, <2>3 DEF CoverInv, Covered, Priced
<1>2. PromiseInv /\ PromiseInv' /\ ExcessSeen /\ CoverInv /\ [Next]_vars => CoverInv'
  BY PromiseStep, ExcessStep, CoverStep DEF PromiseInv, HistoryGrows
<1>3. PromiseInv /\ [Next]_vars => PromiseInv'
  BY PromiseStep
<1>4. PromiseInv /\ CoverInv => NoOverReserve
  BY CoverHeld DEF PromiseInv
<1>5. Init => ExcessSeen
  BY DEF Init, ExcessSeen, Excedidos, At, Idle
<1>6. ExcessSeen /\ [Next]_vars => ExcessSeen'
  BY ExcessStep
<1> QED
  BY PromiseInit, <1>1, <1>2, <1>3, <1>4, <1>5, <1>6, PTL DEF Spec
-----------------------------------------------------------------------------
(* Payments: the steps that concern them are the four of a recharge *)

\* A request that is neither about to credit nor about to write a cash movement,
\* and that has found no session yet.
Calm(r) == r.pc \notin NeedsIntent /\ (r.pc = "rechargePayment" => r.caixa = None)

NoCash == \A q \in Requests : req[q].pc = "rechargePayment" => req[q].caixa = None

\* Request p goes on as a calm one, or ends.
Calms(p) == \E r : Go(p, r) /\ Calm(r)

payments == <<intents, aprovados, recharges, movimentos>>

LEMMA CalmGo == ASSUME NEW p, NEW r, Go(p, r), Calm(r) PROVE Calms(p)
BY DEF Calms

LEMMA CalmStart ==
    ASSUME NEW p \in Requests, Start(p)
    PROVE  UNCHANGED payments /\ Calms(p)
<1>1. UNCHANGED payments
  BY StartReads DEF tables, payments
<1> USE DEF Idle, Calm, NeedsIntent
<1>2. ASSUME NEW c \in CardIds, NEW v \in Valores, NEW i \in IntentIds \cup {None},
             RechargeRead(p, c, v, i)
      PROVE  Calms(p)
  BY <1>2, CalmGo DEF RechargeRead
<1>3. ASSUME NEW c \in CardIds, NEW v \in Valores, ReserveRead(p, c, v)
      PROVE  Calms(p)
  BY <1>3, CalmGo DEF ReserveRead
<1>4. ASSUME NEW c \in CardIds, NEW n \in ReserveIds, ConfirmRead(p, c, n)
      PROVE  Calms(p)
  BY <1>4, CalmGo DEF ConfirmRead
<1>5. ASSUME NEW n \in ReserveIds, RollbackRead(p, n)
      PROVE  Calms(p)
  BY <1>5, CalmGo DEF RollbackRead
<1>6. ASSUME NEW c \in CardIds, NEW v \in Valores \cup {0}, RefundRead(p, c, v)
      PROVE  Calms(p)
  BY <1>6, CalmGo DEF RefundRead
<1>7. ASSUME NEW c \in CardIds, NEW st \in CardStatus \ {"absent"},
             StatusRead(p, c, st)
      PROVE  Calms(p)
  BY <1>7, CalmGo DEF StatusRead
<1>8. ASSUME NEW c \in CardIds, NEW d \in CardIds, TransferRead(p, c, d)
      PROVE  Calms(p)
  BY <1>8, CalmGo DEF TransferRead
<1> HIDE DEF Idle, Calm, NeedsIntent
<1> QED
  BY <1>1, <1>2, <1>3, <1>4, <1>5, <1>6, <1>7, <1>8 DEF Start

LEMMA CalmEnds == ASSUME NEW p, Finish(p) PROVE Calms(p)
BY CalmGo DEF Finish, Calm, Idle, NeedsIntent

LEMMA CalmContinue ==
    ASSUME TypeInv, NEW p \in Requests, Continue(p),
           ~RechargeCheckIntent(p), ~RechargeCommit(p), ~RechargeMovement(p),
           \A i \in IntentIds, s \in CaixaIds \cup {None} : ~RechargeCash(p, i, s)
    PROVE  UNCHANGED payments /\ Calms(p)
<1>0. req[p] \in Request
  BY DEF TypeInv, RequestsInv, SoundRequest
<1> DEFINE Moved(pc, v) == [req[p] EXCEPT !.pc = pc, !.valor = v]
<1>1. ASSUME NEW pc, NEW v PROVE Moved(pc, v).pc = pc
  BY <1>0 DEF Request
<1>2. \A r : r.pc \in Pcs \ (NeedsIntent \cup {"rechargePayment"}) => Calm(r)
  BY DEF Calm
<1> HIDE DEF Moved
<1>3. CASE \/ ConfirmExpire(p) \/ ConfirmCommit(p) \/ RollbackSave(p) \/ RefundCommit(p)
           \/ StatusSave(p) \/ TransferCommit(p) \/ \E n \in ReserveIds : ReserveInsert(p, n)
  BY <1>3, CalmEnds
  DEF ConfirmExpire, ConfirmCommit, RollbackSave, RefundCommit, StatusSave, TransferCommit,
      ReserveInsert, payments
<1>4. CASE ReserveSum(p)
  <2>1. [req[p] EXCEPT !.pc = "reserveInsert"].pc = "reserveInsert"
    BY <1>0 DEF Request
  <2>2. Calm([req[p] EXCEPT !.pc = "reserveInsert"])
    BY <1>2, <2>1 DEF Pcs, NeedsIntent
  <2> QED BY <1>4, <2>2, CalmGo, CalmEnds DEF ReserveSum, payments
<1>5. CASE ConfirmReserve(p)
  <2>1. \A v : Calm(Moved("confirmExpire", v)) /\ Calm(Moved("confirmCommit", v))
    BY <1>1, <1>2 DEF Pcs, NeedsIntent
  <2> QED BY <1>5, <2>1, CalmGo DEF ConfirmReserve, Moved, payments, tables
<1>6. CASE RefundSum(p)
  <2>1. \A v : Calm(Moved("refundCommit", v))
    BY <1>1, <1>2 DEF Pcs, NeedsIntent
  <2> QED BY <1>6, <2>1, CalmGo, CalmEnds DEF RefundSum, Moved, payments
<1>7. CASE TransferSum(p)
  <2>1. \A v : Calm(Moved("transferCommit", v))
    BY <1>1, <1>2 DEF Pcs, NeedsIntent
  <2> QED BY <1>7, <2>1, CalmGo, CalmEnds DEF TransferSum, Moved, payments
<1>8. CASE TransferTo(p)
  <2>1. ASSUME NEW row PROVE Calm([req[p] EXCEPT !.pc = "transferSum", !.lidoPara = row])
    <3>1. [req[p] EXCEPT !.pc = "transferSum", !.lidoPara = row].pc = "transferSum"
      BY <1>0 DEF Request
    <3> QED BY <1>2, <3>1 DEF Pcs, NeedsIntent
  <2> QED BY <1>8, <2>1, CalmGo DEF TransferTo, payments
<1> QED
  BY <1>3, <1>4, <1>5, <1>6, <1>7, <1>8 DEF Continue

\* A step that is none of the four, none of an intent and no request that starts a
\* recharge leaves payments alone, and no request gets to a credit or a movement by it.
LEMMA CalmStep ==
    ASSUME TypeInv, [Next]_vars
    PROVE  \/ \E c \in CardIds, i \in IntentIds, v \in Valores : CreateRechargeIntent(c, i, v)
           \/ \E i \in IntentIds, st \in IntentStatus : ResolveIntent(i, st)
           \/ \E p \in Requests :
                 \/ RechargeCheckIntent(p)
                 \/ \E i \in IntentIds, s \in CaixaIds \cup {None} : RechargeCash(p, i, s)
                 \/ RechargeCommit(p) \/ RechargeMovement(p)
           \/ UNCHANGED payments /\ UNCHANGED req
           \/ UNCHANGED payments /\ \E p \in Requests : Calms(p)
<1>1. CASE UNCHANGED vars
  BY <1>1 DEF vars, tables, payments
<1>2. CASE Outside
  BY <1>2 DEF Outside, Create, TtlPasses, Caixa, EncerraEvento, payments
<1>3. ASSUME NEW p \in Requests, Abort(p)
      PROVE  UNCHANGED payments /\ Calms(p)
  BY <1>3, CalmEnds DEF Abort, tables, payments
<1>4. ASSUME NEW p \in Requests, Continue(p)
      PROVE  \/ RechargeCheckIntent(p)
             \/ \E i \in IntentIds, s \in CaixaIds \cup {None} : RechargeCash(p, i, s)
             \/ RechargeCommit(p) \/ RechargeMovement(p)
             \/ UNCHANGED payments /\ Calms(p)
  BY <1>4, CalmContinue
<1>5. ASSUME NEW p \in Requests, Start(p)
      PROVE  UNCHANGED payments /\ Calms(p)
  BY <1>5, CalmStart
<1>6. CASE Next
  <2>1. Outside \/ \E p \in Requests : Start(p) \/ Continue(p) \/ Abort(p)
    BY <1>6 DEF Next
  <2> QED BY <1>2, <1>3, <1>4, <1>5, <2>1
<1> QED BY <1>1, <1>6

\* The slot of a request after a step of p.
LEMMA GoSlots ==
    ASSUME TypeInv, NEW p \in Requests, NEW r, Go(p, r)
    PROVE  req'[p] = r /\ \A q \in Requests \ {p} : req'[q] = req[q]
BY DEF Go, TypeInv, RequestsInv

\* An intent that has no row was neither credited nor is it about to be.
LEMMA NoRowNoCredit ==
    ASSUME TypeInv, CreditInv, NEW i \in IntentIds, intents[i].status = "none"
    PROVE  recharges[i] = 0 /\ \A q \in Requests : At(q, "rechargeCommit") => req[q].intent # i
BY DEF CreditInv, ApprovedKnown, CreditWasApproved, TypeInv, TablesInv

\* What the four steps of a recharge do to the slot of their request.
LEMMA CheckGoes ==
    ASSUME TypeInv, NEW p \in Requests, RechargeCheckIntent(p)
    PROVE  /\ At(p, "rechargePayment") /\ UNCHANGED payments
           /\ req[p].intent \in IntentIds /\ recharges[req[p].intent] = 0
           /\ req'[p].pc = "rechargeCommit" /\ req'[p].intent = req[p].intent
           /\ req'[p].card = req[p].card /\ req'[p].caixa = req[p].caixa
           /\ \A q \in Requests \ {p} : req'[q] = req[q]
<1>1. req[p] \in Request
  BY DEF TypeInv, RequestsInv, SoundRequest
<1>2. req[p].intent \in IntentIds /\ ~(recharges[req[p].intent] > 0)
  BY <1>1 DEF RechargeCheckIntent, JaCreditada, Request
<1>3. recharges[req[p].intent] = 0
  BY <1>2 DEF TypeInv, TablesInv
<1>4. /\ At(p, "rechargePayment") /\ UNCHANGED tables
      /\ Go(p, [req[p] EXCEPT !.pc = "rechargeCommit"])
  BY DEF RechargeCheckIntent
<1>5. /\ req'[p] = [req[p] EXCEPT !.pc = "rechargeCommit"]
      /\ \A q \in Requests \ {p} : req'[q] = req[q]
  BY <1>4, GoSlots
<1> QED BY <1>1, <1>2, <1>3, <1>4, <1>5 DEF Request, payments, tables

LEMMA CashGoes ==
    ASSUME TypeInv, NEW p \in Requests, NEW i \in IntentIds, NEW s \in CaixaIds \cup {None},
           RechargeCash(p, i, s)
    PROVE  /\ At(p, "rechargePayment") /\ intents[i].status = "none"
           /\ intents'[i].dinheiro /\ intents'[i].status = "approved"
           /\ \A j \in IntentIds \ {i} : intents'[j] = intents[j]
           /\ UNCHANGED <<recharges, movimentos>>
           /\ req'[p].pc = "rechargeCommit" /\ req'[p].intent = i
           /\ req'[p].card = req[p].card /\ req'[p].caixa = s
           /\ \A q \in Requests \ {p} : req'[q] = req[q]
<1>1. req[p] \in Request
  BY DEF TypeInv, RequestsInv, SoundRequest
<1>2. /\ At(p, "rechargePayment") /\ UNCHANGED <<recharges, movimentos>>
      /\ intents[i].status = "none"
      /\ intents' = [intents EXCEPT ![i] = [card |-> req[p].card, valor |-> req[p].valor,
                                           status |-> "approved", dinheiro |-> TRUE]]
      /\ Go(p, [req[p] EXCEPT !.pc = "rechargeCommit", !.intent = i, !.caixa = s])
  BY DEF RechargeCash
<1>3. /\ req'[p] = [req[p] EXCEPT !.pc = "rechargeCommit", !.intent = i, !.caixa = s]
      /\ \A q \in Requests \ {p} : req'[q] = req[q]
  BY <1>2, GoSlots
<1>4. /\ intents'[i] = [card |-> req[p].card, valor |-> req[p].valor,
                        status |-> "approved", dinheiro |-> TRUE]
      /\ \A j \in IntentIds \ {i} : intents'[j] = intents[j]
  BY <1>2 DEF TypeInv, TablesInv
<1> QED BY <1>1, <1>2, <1>3, <1>4 DEF Request

LEMMA CommitGoes ==
    ASSUME TypeInv, NEW p \in Requests, RechargeCommit(p)
    PROVE  /\ At(p, "rechargeCommit") /\ UNCHANGED <<intents, movimentos>>
           /\ req[p].intent \in IntentIds
           /\ recharges'[req[p].intent] = recharges[req[p].intent] + 1
           /\ \A j \in IntentIds \ {req[p].intent} : recharges'[j] = recharges[j]
           /\ \/ /\ req'[p].pc = "rechargeMovement" /\ req'[p].intent = req[p].intent
                 /\ req'[p].caixa = req[p].caixa /\ req[p].caixa # None
              \/ req'[p] = Idle
           /\ \A q \in Requests \ {p} : req'[q] = req[q]
<1>1. req[p] \in Request /\ At(p, "rechargeCommit") /\ req[p].intent \in IntentIds
  BY DEF RechargeCommit, At, TypeInv, RequestsInv, SoundRequest, Sound, NeedsIntent
<1>2. /\ UNCHANGED <<intents, movimentos>>
      /\ recharges' = [recharges EXCEPT ![req[p].intent] = @ + 1]
      /\ \/ req[p].caixa # None /\ Go(p, [req[p] EXCEPT !.pc = "rechargeMovement"])
         \/ Go(p, Idle)
  BY DEF RechargeCommit, Finish
<1>3. /\ \/ req[p].caixa # None /\ req'[p] = [req[p] EXCEPT !.pc = "rechargeMovement"]
         \/ req'[p] = Idle
      /\ \A q \in Requests \ {p} : req'[q] = req[q]
  BY <1>2, GoSlots
<1>4. /\ recharges'[req[p].intent] = recharges[req[p].intent] + 1
      /\ \A j \in IntentIds \ {req[p].intent} : recharges'[j] = recharges[j]
  BY <1>1, <1>2 DEF TypeInv, TablesInv
<1>5. [req[p] EXCEPT !.pc = "rechargeMovement"].pc = "rechargeMovement"
      /\ [req[p] EXCEPT !.pc = "rechargeMovement"].intent = req[p].intent
      /\ [req[p] EXCEPT !.pc = "rechargeMovement"].caixa = req[p].caixa
  BY <1>1 DEF Request
<1> QED BY <1>1, <1>2, <1>3, <1>4, <1>5

LEMMA MovementGoes ==
    ASSUME TypeInv, NEW p \in Requests, RechargeMovement(p)
    PROVE  /\ At(p, "rechargeMovement") /\ UNCHANGED <<intents, recharges>>
           /\ req[p].intent \in IntentIds
           /\ movimentos'[req[p].intent] = movimentos[req[p].intent] + 1
           /\ \A j \in IntentIds \ {req[p].intent} : movimentos'[j] = movimentos[j]
           /\ req'[p] = Idle /\ \A q \in Requests \ {p} : req'[q] = req[q]
<1>1. At(p, "rechargeMovement") /\ req[p].intent \in IntentIds
  BY DEF RechargeMovement, At, TypeInv, RequestsInv, SoundRequest, Sound, NeedsIntent
<1>2. req'[p] = Idle /\ \A q \in Requests \ {p} : req'[q] = req[q]
  BY GoSlots DEF RechargeMovement, Finish
<1> QED BY <1>1, <1>2 DEF RechargeMovement, TypeInv, TablesInv
-----------------------------------------------------------------------------
(* A payment is credited once *)

\* A request about to credit found its intent not credited, and still does.
Uncredited ==
    \A p \in Requests :
        At(p, "rechargeCommit") /\ req[p].card \notin sobrepostos =>
            recharges[req[p].intent] = 0

OnceInv == CreditedOnce /\ Uncredited

\* Steps that credit nothing and bring no request to a credit.
LEMMA OnceKept ==
    ASSUME TypeInv, OnceInv, Grows, UNCHANGED recharges,
           \A i \in IntentIds : recharges[i] > 0 => intents'[i].card = intents[i].card,
           \A q \in Requests : req'[q].pc = "rechargeCommit" => req'[q] = req[q]
    PROVE  OnceInv'
<1>1. CreditedOnce'
  <2> SUFFICES ASSUME NEW i \in IntentIds, intents'[i].card \notin sobrepostos'
               PROVE  recharges'[i] <= 1
    BY DEF CreditedOnce
  <2>1. CASE recharges[i] > 0
    BY <2>1 DEF OnceInv, CreditedOnce, Grows
  <2>2. CASE ~(recharges[i] > 0)
    BY <2>2 DEF TypeInv, TablesInv
  <2> QED BY <2>1, <2>2
<1>2. Uncredited'
  BY DEF OnceInv, Uncredited, At, Grows
<1> QED BY <1>1, <1>2 DEF OnceInv

LEMMA OnceStep ==
    ASSUME TypeInv, TypeInv', CreditInv, Apart, Grows, OnceInv, [Next]_vars
    PROVE  OnceInv'
<1>1. ASSUME NEW c \in CardIds, NEW i \in IntentIds, NEW v \in Valores,
             CreateRechargeIntent(c, i, v)
      PROVE  OnceInv'
  <2>1. recharges[i] = 0
    BY <1>1, NoRowNoCredit DEF CreateRechargeIntent
  <2>2. \A j \in IntentIds : recharges[j] > 0 => intents'[j].card = intents[j].card
    BY <1>1, <2>1 DEF CreateRechargeIntent, TypeInv, TablesInv
  <2> QED BY <1>1, <2>2, OnceKept DEF CreateRechargeIntent
<1>2. ASSUME NEW i \in IntentIds, NEW st \in IntentStatus, ResolveIntent(i, st)
      PROVE  OnceInv'
  <2>1. \A j \in IntentIds : intents'[j].card = intents[j].card
    BY <1>2 DEF ResolveIntent, TypeInv, TablesInv, IntentRow
  <2> QED BY <1>2, <2>1, OnceKept DEF ResolveIntent
<1>3. ASSUME NEW p \in Requests, RechargeCheckIntent(p) PROVE OnceInv'
  <2>1. Uncredited'
    BY <1>3, CheckGoes DEF OnceInv, Uncredited, At, Grows, payments
  <2>2. CreditedOnce'
    BY <1>3, CheckGoes DEF OnceInv, CreditedOnce, Grows, payments
  <2> QED BY <2>1, <2>2 DEF OnceInv
<1>4. ASSUME NEW p \in Requests, NEW i \in IntentIds, NEW s \in CaixaIds \cup {None},
             RechargeCash(p, i, s)
      PROVE  OnceInv'
  <2>1. recharges[i] = 0
    BY <1>4, CashGoes, NoRowNoCredit
  <2>2. CreditedOnce'
    BY <1>4, <2>1, CashGoes DEF OnceInv, CreditedOnce, Grows
  <2>3. Uncredited'
    BY <1>4, <2>1, CashGoes DEF OnceInv, Uncredited, At, Grows
  <2> QED BY <2>2, <2>3 DEF OnceInv
<1>5. ASSUME NEW p \in Requests, RechargeCommit(p) PROVE OnceInv'
  <2> DEFINE i == req[p].intent
  <2>1. /\ i \in IntentIds /\ UNCHANGED intents
        /\ recharges'[i] = recharges[i] + 1
        /\ \A j \in IntentIds \ {i} : recharges'[j] = recharges[j]
        /\ intents[i].card = req[p].card /\ req[p].pc = "rechargeCommit"
    BY <1>5, CommitGoes DEF CreditInv, CreditWasApproved, At
  <2>2. CreditedOnce'
    BY <2>1 DEF OnceInv, CreditedOnce, Uncredited, At, Grows
  <2>3. ASSUME NEW q \in Requests, req'[q].pc = "rechargeCommit",
               req'[q].card \notin sobrepostos'
        PROVE  recharges'[req'[q].intent] = 0
    <3>1. q # p /\ req'[q] = req[q]
      BY <1>5, <2>3, CommitGoes DEF Idle
    <3>2. /\ req[q].intent \in IntentIds /\ intents[req[q].intent].card = req[q].card
          /\ req[q].card \in CardsIn(req[q]) /\ req[p].card \in CardsIn(req[p])
      BY <2>1, <2>3, <3>1, SoundCards DEF CreditInv, CreditWasApproved, At, TypeInv,
         RequestsInv, SoundRequest, Sound, NeedsIntent, HoldsCard, Pcs
    <3>3. req[q].intent # i
      BY <2>1, <2>3, <3>1, <3>2 DEF Apart, Grows
    <3>4. recharges[req[q].intent] = 0
      BY <2>3, <3>1 DEF OnceInv, Uncredited, At, Grows
    <3> QED BY <2>1, <3>1, <3>2, <3>3, <3>4
  <2>4. Uncredited'
    BY <2>3 DEF Uncredited, At
  <2> QED BY <2>2, <2>4 DEF OnceInv
<1>6. ASSUME NEW p \in Requests, RechargeMovement(p) PROVE OnceInv'
  <2>1. \A q \in Requests : req'[q].pc = "rechargeCommit" => req'[q] = req[q]
    BY <1>6, MovementGoes DEF Idle
  <2> QED BY <1>6, <2>1, MovementGoes, OnceKept
<1>7. ASSUME NEW p \in Requests, Calms(p), UNCHANGED payments PROVE OnceInv'
  <2>1. PICK r : Go(p, r) /\ Calm(r)
    BY <1>7 DEF Calms
  <2>2. \A q \in Requests : req'[q].pc = "rechargeCommit" => req'[q] = req[q]
    BY <2>1, GoSlots DEF Calm, NeedsIntent
  <2> QED BY <1>7, <2>2, OnceKept DEF payments
<1>8. CASE UNCHANGED payments /\ UNCHANGED req
  BY <1>8, OnceKept DEF payments
<1> QED BY <1>1, <1>2, <1>3, <1>4, <1>5, <1>6, <1>7, <1>8, CalmStep

\* What the theorems about payments rest on: types, approvals and the history.
PaymentInv == TypeInv /\ CreditInv /\ Apart

LEMMA PaymentInit == Init => PaymentInv
<1>1. Init => CreditInv
  BY DEF Init, CreditInv, ApprovedKnown, CreditWasApproved, NoIntent, Idle, At
<1> QED BY <1>1, TypeInit, BalanceInit DEF PaymentInv, BalanceInv

LEMMA PaymentStep ==
    ASSUME PaymentInv, [Next]_vars
    PROVE  PaymentInv' /\ Grows
<1>1. TypeInv' /\ CreditInv'
  BY TypeStep, CreditStep DEF PaymentInv
<1>2. CASE UNCHANGED vars
  BY <1>1, <1>2 DEF PaymentInv, Apart, Grows, vars
<1>3. CASE Next
  BY <1>1, <1>3, HistoryApart DEF PaymentInv, Next
<1> QED BY <1>2, <1>3

\* One payment is credited once, on cards on which requests never overlapped: what
\* makes it twice is two recharges of the card that both found it not credited.
THEOREM PaymentCreditedOnce == Spec => []CreditedOnce
<1>1. Init => OnceInv
  BY DEF Init, OnceInv, CreditedOnce, Uncredited, At, Idle
<1>2. PaymentInv /\ PaymentInv' /\ OnceInv /\ [Next]_vars => OnceInv'
  BY PaymentStep, OnceStep DEF PaymentInv
<1>3. PaymentInv /\ [Next]_vars => PaymentInv'
  BY PaymentStep
<1>4. OnceInv => CreditedOnce
  BY DEF OnceInv
<1> QED
  BY PaymentInit, <1>1, <1>2, <1>3, <1>4, PTL DEF Spec
-----------------------------------------------------------------------------
(* Cash enters the drawer once, for a recharge that was credited *)

\* A recharge in cash between its intent and its movement.
InCash(r) == r.pc \in NeedsIntent /\ r.caixa # None

CashReady(r) ==
    InCash(r) =>
        /\ intents[r.intent].dinheiro
        /\ movimentos[r.intent] = 0
        /\ r.pc = "rechargeMovement" => recharges[r.intent] > 0

OwnIntents ==
    \A p, q \in Requests :
        p # q /\ InCash(req[p]) /\ InCash(req[q]) => req[p].intent # req[q].intent

DrawerInv ==
    /\ MovementAfterCredit
    /\ NoCash
    /\ OwnIntents
    /\ \A q \in Requests : CashReady(req[q])

\* An intent without a row has no request in cash and no movement.
LEMMA NoRowNoCash ==
    ASSUME TypeInv, CreditInv, DrawerInv, NEW i \in IntentIds, intents[i].status = "none"
    PROVE  /\ recharges[i] = 0 /\ movimentos[i] = 0
           /\ \A q \in Requests : InCash(req[q]) => req[q].intent # i
<1>1. recharges[i] = 0 /\ \A q \in Requests : At(q, "rechargeCommit") => req[q].intent # i
  BY NoRowNoCredit
<1>2. movimentos[i] = 0
  BY <1>1 DEF DrawerInv, MovementAfterCredit, TypeInv, TablesInv
<1>3. ASSUME NEW q \in Requests, InCash(req[q]) PROVE req[q].intent # i
  BY <1>1, <1>3 DEF DrawerInv, CashReady, InCash, NeedsIntent, At
<1> QED BY <1>1, <1>2, <1>3

\* Steps that neither credit nor move cash, and bring no request nearer to it.
LEMMA DrawerKept ==
    ASSUME TypeInv, DrawerInv, UNCHANGED <<recharges, movimentos>>,
           \A i \in IntentIds :
              intents[i].dinheiro => intents[i].status = "none" \/ intents'[i].dinheiro,
           \A i \in IntentIds : intents[i].status = "none" =>
              movimentos[i] = 0 /\ \A q \in Requests : InCash(req[q]) => req[q].intent # i,
           \A q \in Requests : req'[q] = req[q] \/ Calm(req'[q])
    PROVE  DrawerInv'
<1>1. \A r : Calm(r) => ~InCash(r)
  BY DEF Calm, InCash
<1>2. \A q \in Requests : InCash(req'[q]) => req'[q] = req[q]
  BY <1>1
<1>3. \A q \in Requests : InCash(req[q]) => req[q].intent \in IntentIds
  BY DEF InCash, TypeInv, RequestsInv, SoundRequest, Sound
<1>4. ASSUME NEW i \in IntentIds, movimentos[i] > 0 PROVE intents'[i].dinheiro
  BY <1>4 DEF DrawerInv, MovementAfterCredit
<1>5. MovementAfterCredit'
  BY <1>4 DEF DrawerInv, MovementAfterCredit
<1>6. NoCash'
  BY DEF DrawerInv, NoCash, Calm
<1>7. OwnIntents'
  <2>1. ASSUME NEW p \in Requests, NEW q \in Requests, p # q,
               InCash(req'[p]), InCash(req'[q])
        PROVE  req'[p].intent # req'[q].intent
    BY <1>2, <2>1 DEF DrawerInv, OwnIntents
  <2>2. OwnIntents' <=>
          \A p, q \in Requests : p # q /\ InCash(req'[p]) /\ InCash(req'[q]) =>
              req'[p].intent # req'[q].intent
    BY DEF OwnIntents, InCash
  <2> QED BY <2>1, <2>2
<1>8. ASSUME NEW q \in Requests PROVE CashReady(req[q])'
  <2> SUFFICES ASSUME InCash(req'[q])
               PROVE  /\ intents'[req'[q].intent].dinheiro
                      /\ movimentos'[req'[q].intent] = 0
                      /\ req'[q].pc = "rechargeMovement" => recharges'[req'[q].intent] > 0
    BY DEF CashReady, InCash
  <2>1. req'[q] = req[q] /\ req[q].intent \in IntentIds /\ InCash(req[q])
    BY <1>2, <1>3
  <2> QED BY <2>1 DEF DrawerInv, CashReady
<1> QED BY <1>5, <1>6, <1>7, <1>8 DEF DrawerInv

\* DrawerInv in the next state, of slots that are already known.
LEMMA DrawerNext ==
    ASSUME MovementAfterCredit', NoCash',
           \A p, q \in Requests : p # q /\ InCash(req'[p]) /\ InCash(req'[q]) =>
               req'[p].intent # req'[q].intent,
           \A q \in Requests : InCash(req'[q]) =>
               /\ intents'[req'[q].intent].dinheiro
               /\ movimentos'[req'[q].intent] = 0
               /\ req'[q].pc = "rechargeMovement" => recharges'[req'[q].intent] > 0
    PROVE  DrawerInv'
BY DEF DrawerInv, OwnIntents, CashReady, InCash

LEMMA DrawerStep ==
    ASSUME TypeInv, CreditInv, DrawerInv, [Next]_vars
    PROVE  DrawerInv'
<1>0. /\ \A i \in IntentIds : recharges[i] \in Nat /\ movimentos[i] \in Nat
      /\ \A q \in Requests : InCash(req[q]) => req[q].intent \in IntentIds
      /\ \A i \in IntentIds : intents[i].status = "none" =>
            movimentos[i] = 0 /\ \A q \in Requests : InCash(req[q]) => req[q].intent # i
  BY NoRowNoCash DEF TypeInv, TablesInv, InCash, RequestsInv, SoundRequest, Sound
<1>a. ~InCash(Idle) /\ Idle.pc = "idle" /\ Idle.caixa = None
  BY DEF Idle, InCash, NeedsIntent
<1>1. ASSUME NEW c \in CardIds, NEW i \in IntentIds, NEW v \in Valores,
             CreateRechargeIntent(c, i, v)
      PROVE  DrawerInv'
  <2>1. \A j \in IntentIds :
          intents[j].dinheiro => intents[j].status = "none" \/ intents'[j].dinheiro
    BY <1>1 DEF CreateRechargeIntent, TypeInv, TablesInv
  <2> QED BY <1>0, <1>1, <2>1, DrawerKept DEF CreateRechargeIntent
<1>2. ASSUME NEW i \in IntentIds, NEW st \in IntentStatus, ResolveIntent(i, st)
      PROVE  DrawerInv'
  <2>1. \A j \in IntentIds : intents'[j].dinheiro = intents[j].dinheiro
    BY <1>2 DEF ResolveIntent, TypeInv, TablesInv, IntentRow
  <2> QED BY <1>0, <1>2, <2>1, DrawerKept DEF ResolveIntent
<1>3. ASSUME NEW p \in Requests, RechargeCheckIntent(p) PROVE DrawerInv'
  <2>1. ~InCash(req'[p]) /\ req'[p].pc = "rechargeCommit"
    BY <1>3, CheckGoes DEF DrawerInv, NoCash, InCash, At
  <2>2. \A q \in Requests \ {p} : req'[q] = req[q]
    BY <1>3, CheckGoes
  <2>3. UNCHANGED payments
    BY <1>3, CheckGoes
  <2>4. MovementAfterCredit' /\ NoCash'
    BY <2>1, <2>2, <2>3 DEF DrawerInv, MovementAfterCredit, NoCash, payments
  <2>5. \A q \in Requests : InCash(req'[q]) => q # p /\ req'[q] = req[q]
    BY <2>1, <2>2
  <2> QED BY <2>3, <2>4, <2>5, DrawerNext DEF DrawerInv, OwnIntents, CashReady, payments
<1>4. ASSUME NEW p \in Requests, NEW i \in IntentIds, NEW s \in CaixaIds \cup {None},
             RechargeCash(p, i, s)
      PROVE  DrawerInv'
  <2>1. /\ intents[i].status = "none" /\ intents'[i].dinheiro
        /\ \A j \in IntentIds \ {i} : intents'[j] = intents[j]
        /\ UNCHANGED <<recharges, movimentos>>
        /\ req'[p].pc = "rechargeCommit" /\ req'[p].intent = i
        /\ \A q \in Requests \ {p} : req'[q] = req[q]
    BY <1>4, CashGoes
  <2>2. /\ movimentos[i] = 0
        /\ \A q \in Requests : InCash(req[q]) => req[q].intent # i
    BY <1>0, <2>1
  <2>3. MovementAfterCredit'
    BY <2>1, <2>2 DEF DrawerInv, MovementAfterCredit
  <2>4. NoCash'
    BY <2>1 DEF DrawerInv, NoCash
  <2>5. \A q \in Requests : InCash(req'[q]) => q = p \/ (req'[q] = req[q] /\ InCash(req[q]))
    BY <2>1
  <2>6. ASSUME NEW q \in Requests, NEW x \in Requests, q # x, InCash(req'[q]), InCash(req'[x])
        PROVE  req'[q].intent # req'[x].intent
    <3>1. CASE q = p
      BY <2>1, <2>2, <2>5, <2>6, <3>1
    <3>2. CASE x = p
      BY <2>1, <2>2, <2>5, <2>6, <3>2
    <3>3. CASE q # p /\ x # p
      BY <2>5, <2>6, <3>3 DEF DrawerInv, OwnIntents
    <3> QED BY <3>1, <3>2, <3>3
  <2>7. ASSUME NEW q \in Requests, InCash(req'[q])
        PROVE  /\ intents'[req'[q].intent].dinheiro
               /\ movimentos'[req'[q].intent] = 0
               /\ req'[q].pc = "rechargeMovement" => recharges'[req'[q].intent] > 0
    <3>1. CASE q = p
      BY <2>1, <2>2, <3>1
    <3>2. CASE q # p
      <4>1. req'[q] = req[q] /\ InCash(req[q]) /\ req[q].intent \in IntentIds \ {i}
        BY <1>0, <2>2, <2>5, <2>7, <3>2
      <4>2. intents'[req[q].intent] = intents[req[q].intent]
        BY <2>1, <4>1
      <4> QED BY <2>1, <4>1, <4>2 DEF DrawerInv, CashReady
    <3> QED BY <3>1, <3>2
  <2> QED BY <2>3, <2>4, <2>6, <2>7, DrawerNext
<1>5. ASSUME NEW p \in Requests, RechargeCommit(p) PROVE DrawerInv'
  <2> DEFINE i == req[p].intent
  <2>1. /\ req[p].pc = "rechargeCommit" /\ i \in IntentIds
        /\ UNCHANGED <<intents, movimentos>>
        /\ recharges'[i] = recharges[i] + 1
        /\ \A j \in IntentIds \ {i} : recharges'[j] = recharges[j]
        /\ \A q \in Requests \ {p} : req'[q] = req[q]
    BY <1>5, CommitGoes DEF At
  <2>2. \/ /\ req'[p].pc = "rechargeMovement" /\ req'[p].intent = i /\ InCash(req[p])
        \/ req'[p] = Idle
    BY <1>5, CommitGoes DEF At, InCash, NeedsIntent
  <2>3. \A j \in IntentIds : recharges'[j] \in Nat /\ recharges'[j] >= recharges[j]
    BY <1>0, <2>1
  <2> HIDE DEF i
  <2>4. MovementAfterCredit'
    BY <1>0, <2>1 DEF DrawerInv, MovementAfterCredit
  <2>5. NoCash'
    BY <1>a, <2>1, <2>2 DEF DrawerInv, NoCash
  <2>6. \A q \in Requests : InCash(req'[q]) =>
          InCash(req[q]) /\ req'[q].intent = req[q].intent
    BY <1>a, <2>1, <2>2 DEF i
  <2>7. ASSUME NEW q \in Requests, InCash(req'[q]), req'[q].pc = "rechargeMovement"
        PROVE  recharges'[req'[q].intent] > 0
    <3>1. CASE q = p
      BY <1>0, <1>a, <2>1, <2>2, <2>7, <3>1
    <3>2. CASE q # p
      <4>1. req'[q] = req[q] /\ InCash(req[q]) /\ req[q].intent \in IntentIds
        BY <1>0, <2>1, <2>6, <2>7, <3>2
      <4>2. recharges[req[q].intent] > 0
        BY <2>7, <4>1 DEF DrawerInv, CashReady
      <4> QED BY <1>0, <2>3, <4>1, <4>2
    <3> QED BY <3>1, <3>2
  <2>8. \A q \in Requests : InCash(req'[q]) =>
          intents'[req'[q].intent].dinheiro /\ movimentos'[req'[q].intent] = 0
    BY <2>1, <2>6 DEF DrawerInv, CashReady
  <2>9. \A q, x \in Requests : q # x /\ InCash(req'[q]) /\ InCash(req'[x]) =>
          req'[q].intent # req'[x].intent
    BY <2>6 DEF DrawerInv, OwnIntents
  <2> QED BY <2>4, <2>5, <2>7, <2>8, <2>9, DrawerNext
<1>6. ASSUME NEW p \in Requests, RechargeMovement(p) PROVE DrawerInv'
  <2> DEFINE i == req[p].intent
  <2>1. /\ req[p].pc = "rechargeMovement" /\ i \in IntentIds
        /\ UNCHANGED <<intents, recharges>>
        /\ movimentos'[i] = movimentos[i] + 1
        /\ \A j \in IntentIds \ {i} : movimentos'[j] = movimentos[j]
        /\ req'[p] = Idle /\ \A q \in Requests \ {p} : req'[q] = req[q]
    BY <1>6, MovementGoes DEF At
  <2>2. InCash(req[p])
    BY <2>1, CardsAssumption DEF InCash, NeedsIntent, TypeInv, RequestsInv, SoundRequest, Sound
  <2>3. movimentos[i] = 0 /\ recharges[i] > 0 /\ intents[i].dinheiro
    BY <2>1, <2>2 DEF DrawerInv, CashReady
  <2> HIDE DEF i
  <2>4. MovementAfterCredit'
    BY <1>0, <2>1, <2>3 DEF DrawerInv, MovementAfterCredit
  <2>5. NoCash'
    BY <1>a, <2>1 DEF DrawerInv, NoCash
  <2>6. \A q \in Requests : InCash(req'[q]) => q # p /\ req'[q] = req[q] /\ InCash(req[q])
    BY <1>a, <2>1
  <2>7. \A q \in Requests : InCash(req'[q]) => req[q].intent \in IntentIds \ {i}
    BY <1>0, <2>2, <2>6 DEF DrawerInv, OwnIntents, i
  <2>8. \A q \in Requests : InCash(req'[q]) =>
          /\ intents'[req'[q].intent].dinheiro
          /\ movimentos'[req'[q].intent] = 0
          /\ req'[q].pc = "rechargeMovement" => recharges'[req'[q].intent] > 0
    BY <2>1, <2>6, <2>7 DEF DrawerInv, CashReady
  <2>9. \A q, x \in Requests : q # x /\ InCash(req'[q]) /\ InCash(req'[x]) =>
          req'[q].intent # req'[x].intent
    BY <2>6 DEF DrawerInv, OwnIntents
  <2> QED BY <2>4, <2>5, <2>8, <2>9, DrawerNext
<1>7. ASSUME UNCHANGED payments, \A q \in Requests : req'[q] = req[q] \/ Calm(req'[q])
      PROVE  DrawerInv'
  BY <1>0, <1>7, DrawerKept DEF payments
<1>8. ASSUME NEW p \in Requests, Calms(p), UNCHANGED payments PROVE DrawerInv'
  <2>1. PICK r : Go(p, r) /\ Calm(r)
    BY <1>8 DEF Calms
  <2>2. \A q \in Requests : req'[q] = req[q] \/ Calm(req'[q])
    BY <2>1, GoSlots
  <2> QED BY <1>7, <1>8, <2>2
<1> QED BY <1>1, <1>2, <1>3, <1>4, <1>5, <1>6, <1>7, <1>8, CalmStep

\* Under every interleaving a recharge in cash writes one movement at most, after its
\* credit, and no other recharge writes any.
THEOREM CashFollowsCredit == Spec => []MovementAfterCredit
<1>1. Init => DrawerInv
  <2> SUFFICES ASSUME Init PROVE DrawerInv
    OBVIOUS
  <2>1. \A q \in Requests : req[q].pc = "idle"
    BY DEF Init, Idle
  <2>2. \A q \in Requests : ~InCash(req[q])
    BY <2>1 DEF InCash, NeedsIntent
  <2>3. \A i \in IntentIds : recharges[i] = 0 /\ movimentos[i] = 0
    BY DEF Init
  <2> QED
    BY <2>1, <2>2, <2>3 DEF DrawerInv, MovementAfterCredit, NoCash, OwnIntents, CashReady
<1>2. PaymentInv /\ DrawerInv /\ [Next]_vars => DrawerInv'
  BY DrawerStep DEF PaymentInv
<1>3. PaymentInv /\ [Next]_vars => PaymentInv'
  BY PaymentStep
<1>4. DrawerInv => MovementAfterCredit
  BY DEF DrawerInv
<1> QED
  BY PaymentInit, <1>1, <1>2, <1>3, <1>4, PTL DEF Spec
=============================================================================
