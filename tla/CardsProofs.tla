---------------------------- MODULE CardsProofs -----------------------------
(*****************************************************************************)
(* Theorems about Cards, for every number of cards, reserves, intents,       *)
(* cash sessions and requests, and for every amount: types, what holds       *)
(* under every interleaving, and that no write of a balance is lost.         *)
(*****************************************************************************)
EXTENDS Cards, FiniteSetTheorems, TLAPS

\* The reserved amount is a natural number: the cells are a finite set.
LEMMA ReservedType ==
    ASSUME NEW c \in CardIds, NEW rs \in [ReserveIds -> ReserveRow]
    PROVE  Reserved(c, rs) \in Nat
<1>1. IsFiniteSet(Valores)
  BY FS_Interval, CardsAssumption DEF Valores
<1>2. IsFiniteSet(ReserveIds \X Valores)
  BY <1>1, CardsAssumption, FS_Product
<1>3. Cells(c, rs) \subseteq ReserveIds \X Valores
  BY DEF Cells
<1>4. IsFiniteSet(Cells(c, rs))
  BY <1>2, <1>3, FS_Subset
<1> QED
  BY <1>4, FS_CardinalityType DEF Reserved

LEMMA ExpireType ==
    ASSUME DataOK, NEW c
    PROVE  ExpireOldReserves(c) \in [ReserveIds -> ReserveRow]
BY DEF DataOK, ExpireOldReserves, ReserveRow, ReserveStatus

LEMMA AvailableType ==
    ASSUME DataOK, NEW c \in CardIds, NEW row \in CardRow
    PROVE  Available(row, c) \in Int
BY ExpireType, ReservedType DEF Available, CardRow

LEMMA IdleType == Idle \in Request
BY DEF Idle, Request, Pcs, CardStatus, CardRow, NoCard

-----------------------------------------------------------------------------
(* Type correctness needs what the program counter says of a request: which of
   its fields name a row.  A sound request has them, and keeping the requests
   in one set of sound records keeps every step's obligation to one record. *)

NeedsReserve == {"confirmReserve", "confirmExpire", "confirmCommit", "rollbackSave"}
NeedsIntent == {"rechargeCommit", "rechargeMovement"}
NeedsPara == {"transferTo", "transferSum", "transferCommit"}
HasNatural == {"rechargePayment", "rechargeCommit", "reserveSum", "reserveInsert"}

Sound(r) ==
    /\ r.pc # "idle" => r.card \in CardIds
    /\ r.pc \in NeedsReserve => r.reserve \in ReserveIds
    /\ r.pc \in NeedsIntent => r.intent \in IntentIds
    /\ r.pc \in NeedsPara => r.para \in CardIds
    /\ r.pc \in HasNatural => r.valor \in Nat
    /\ r.pc = "rechargeMovement" => r.caixa \in CaixaIds

SoundRequest == {r \in Request : Sound(r)}
SoundReserve == {r \in ReserveRow : r.status # "none" => r.card \in CardIds}

TablesInv ==
    /\ cards \in [CardIds -> CardRow]
    /\ inicial \in [CardIds -> Nat]
    /\ extrato \in [CardIds -> Int]
    /\ reserves \in [ReserveIds -> SoundReserve]
    /\ debitos \in [ReserveIds -> Nat]
    /\ intents \in [IntentIds -> IntentRow]
    /\ aprovados \in SUBSET IntentIds
    /\ recharges \in [IntentIds -> Nat]
    /\ caixa \in [CaixaIds -> {"none", "open", "closed"}]
    /\ movimentos \in [IntentIds -> Nat]
    /\ evento \in {"active", "closed"}
RequestsInv == req \in [Requests -> SoundRequest]

\* A request that holds a reserve it has read names a row that exists.
NeedsRow == {"confirmExpire", "confirmCommit", "rollbackSave"}
RowsInv ==
    \A p \in Requests :
        req[p].pc \in NeedsRow => reserves[req[p].reserve].status # "none"

TypeInv == TablesInv /\ RequestsInv /\ RowsInv

LEMMA TypeInvType == TypeInv => DataOK
BY DEF TypeInv, TablesInv, RequestsInv, DataOK, SoundRequest, SoundReserve

LEMMA IdleSound == Idle \in SoundRequest
BY IdleType DEF Idle, SoundRequest, Sound, NeedsReserve, NeedsIntent, NeedsPara,
   HasNatural

LEMMA GoSound ==
    ASSUME RequestsInv, NEW p \in Requests, NEW r \in SoundRequest, Go(p, r)
    PROVE  RequestsInv'
BY DEF RequestsInv, Go

LEMMA FinishSound ==
    ASSUME RequestsInv, NEW p \in Requests, Finish(p)
    PROVE  RequestsInv'
BY IdleSound, GoSound DEF Finish

\* Rows are never removed: what a step must show of its reserves for RowsInv.
RowsKept ==
    \A n \in ReserveIds : reserves[n].status # "none" => reserves'[n].status # "none"

LEMMA GoRows ==
    ASSUME RequestsInv, RowsInv, RowsKept, NEW p \in Requests, NEW r, Go(p, r),
           r.pc \in NeedsRow => reserves'[r.reserve].status # "none"
    PROVE  RowsInv'
BY DEF RequestsInv, RowsInv, RowsKept, Go, SoundRequest, Sound, NeedsRow, NeedsReserve

LEMMA FinishRows ==
    ASSUME RequestsInv, RowsInv, RowsKept, NEW p \in Requests, Finish(p)
    PROVE  RowsInv'
BY GoRows DEF Finish, Idle, NeedsRow

LEMMA StayRows ==
    ASSUME RequestsInv, RowsInv, RowsKept, UNCHANGED req
    PROVE  RowsInv'
BY DEF RequestsInv, RowsInv, RowsKept, SoundRequest, Sound, NeedsRow, NeedsReserve

LEMMA ReservesUnchanged == ASSUME UNCHANGED reserves PROVE RowsKept
BY DEF RowsKept

LEMMA ExpireKeeps == ASSUME NEW c, reserves' = ExpireOldReserves(c) PROVE RowsKept
BY DEF RowsKept, ExpireOldReserves

LEMMA TablesUnchanged ==
    ASSUME TablesInv, UNCHANGED tables
    PROVE  TablesInv'
BY DEF TablesInv, tables

LEMMA SetReserveSound ==
    ASSUME TablesInv, NEW n \in ReserveIds, NEW st \in ReserveStatus \ {"none"},
           reserves[n].status # "none"
    PROVE  SetReserve(n, st) \in [ReserveIds -> SoundReserve]
BY DEF TablesInv, SoundReserve, ReserveRow, SetReserve

LEMMA ExpireSound ==
    ASSUME TablesInv, NEW c
    PROVE  ExpireOldReserves(c) \in [ReserveIds -> SoundReserve]
BY DEF TablesInv, SoundReserve, ReserveRow, ReserveStatus, ExpireOldReserves

LEMMA TypeInit == Init => TypeInv
<1> SUFFICES ASSUME Init PROVE TypeInv
  OBVIOUS
<1>1. TablesInv
  BY DEF Init, TablesInv, CardRow, SoundReserve, ReserveRow, IntentRow, NoCard,
         NoReserve, NoIntent, CardStatus, ReserveStatus, IntentStatus
<1>2. RequestsInv /\ RowsInv
  BY IdleSound DEF Init, RequestsInv, RowsInv, Idle, NeedsRow
<1> QED
  BY <1>1, <1>2 DEF TypeInv

\* One step per action: its tables, the request it leaves behind, the rows.
LEMMA TypeStep == TypeInv /\ [Next]_vars => TypeInv'
<1> SUFFICES ASSUME TypeInv, [Next]_vars PROVE TypeInv'
  OBVIOUS
<1> USE CardsAssumption DEF TypeInv
<1>1. ASSUME NEW c \in CardIds, NEW s \in Valores \cup {0}, Create(c, s)
      PROVE  TypeInv'
  <2>1. TablesInv'
    <3>1. cards' \in [CardIds -> CardRow]
      BY <1>1 DEF Create, TablesInv, CardRow, CardStatus, Valores
    <3> QED
      BY <1>1, <3>1 DEF Create, TablesInv, Valores
  <2>2. RowsKept
    BY <1>1, ReservesUnchanged DEF Create, tables
  <2>3. RequestsInv' /\ RowsInv'
    BY <1>1, <2>2, StayRows DEF Create, RequestsInv
  <2> QED
    BY <2>1, <2>3
<1>2. ASSUME NEW c \in CardIds, NEW i \in IntentIds, NEW v \in Valores,
             CreateRechargeIntent(c, i, v)
      PROVE  TypeInv'
  <2>1. TablesInv'
    <3>1. intents' \in [IntentIds -> IntentRow]
      BY <1>2 DEF CreateRechargeIntent, TablesInv, IntentRow,
         IntentStatus, Valores
    <3> QED
      BY <1>2, <3>1 DEF CreateRechargeIntent, TablesInv
  <2>2. RowsKept
    BY <1>2, ReservesUnchanged DEF CreateRechargeIntent, tables
  <2>3. RequestsInv' /\ RowsInv'
    BY <1>2, <2>2, StayRows DEF CreateRechargeIntent, RequestsInv
  <2> QED
    BY <2>1, <2>3
<1>3. ASSUME NEW i \in IntentIds, NEW st \in IntentStatus, ResolveIntent(i, st)
      PROVE  TypeInv'
  <2>1. TablesInv'
    <3>1. intents' \in [IntentIds -> IntentRow]
      BY <1>3 DEF ResolveIntent, TablesInv, IntentRow, IntentStatus
    <3> QED
      BY <1>3, <3>1 DEF ResolveIntent, TablesInv
  <2>2. RowsKept
    BY <1>3, ReservesUnchanged DEF ResolveIntent, tables
  <2>3. RequestsInv' /\ RowsInv'
    BY <1>3, <2>2, StayRows DEF ResolveIntent, RequestsInv
  <2> QED
    BY <2>1, <2>3
<1>4. ASSUME NEW n \in ReserveIds, TtlPasses(n)
      PROVE  TypeInv'
  <2>1. TablesInv'
    <3>1. reserves' \in [ReserveIds -> SoundReserve]
      <4>1. reserves \in [ReserveIds -> SoundReserve] /\ reserves[n] \in SoundReserve
        BY DEF TablesInv
      <4>2. [reserves[n] EXCEPT !.due = TRUE] \in SoundReserve
        BY <4>1 DEF SoundReserve, ReserveRow
      <4>3. reserves' = [reserves EXCEPT ![n] = [reserves[n] EXCEPT !.due = TRUE]]
        BY <1>4 DEF TtlPasses
      <4> QED
        BY <4>1, <4>2, <4>3
    <3> QED
      BY <1>4, <3>1 DEF TtlPasses, TablesInv
  <2>2. RowsKept
    BY <1>4 DEF TtlPasses, RowsKept, TablesInv, SoundReserve, ReserveRow
  <2>3. RequestsInv' /\ RowsInv'
    BY <1>4, <2>2, StayRows DEF TtlPasses, RequestsInv
  <2> QED
    BY <2>1, <2>3
<1>5. ASSUME NEW s \in CaixaIds, Caixa(s)
      PROVE  TypeInv'
  <2>1. TablesInv'
    <3> QED
      BY <1>5 DEF Caixa, TablesInv
  <2>2. RowsKept
    BY <1>5, ReservesUnchanged DEF Caixa, tables
  <2>3. RequestsInv' /\ RowsInv'
    BY <1>5, <2>2, StayRows DEF Caixa, RequestsInv
  <2> QED
    BY <2>1, <2>3
<1>6. ASSUME EncerraEvento
      PROVE  TypeInv'
  <2>1. TablesInv'
    <3> QED
      BY <1>6 DEF EncerraEvento, TablesInv
  <2>2. RowsKept
    BY <1>6, ReservesUnchanged DEF EncerraEvento, tables
  <2>3. RequestsInv' /\ RowsInv'
    BY <1>6, <2>2, StayRows DEF EncerraEvento, RequestsInv
  <2> QED
    BY <2>1, <2>3
<1>7. ASSUME NEW p \in Requests, NEW c \in CardIds, NEW v \in Valores,
             NEW i \in IntentIds \cup {None}, RechargeRead(p, c, v, i)
      PROVE  TypeInv'
  <2>0. req[p] \in SoundRequest
    BY DEF RequestsInv
  <2>1. TablesInv'
    BY <1>7, TablesUnchanged DEF RechargeRead
  <2>2. RowsKept
    BY <1>7, ReservesUnchanged DEF RechargeRead, tables
  <2> DEFINE r == [Idle EXCEPT !.pc = "rechargePayment", !.card = c, !.valor = v,
                          !.intent = i, !.lido = cards[c]]
  <2>3. r \in SoundRequest
    <3>0. v \in Int
      BY DEF Valores
    <3>1. r \in Request
      BY <1>7, <3>0, IdleType DEF RechargeRead, Request, Pcs, TablesInv
    <3>2. Sound(r)
      BY <1>7 DEF RechargeRead, Sound, Idle, Valores, NeedsReserve,
         NeedsIntent, NeedsPara,
         HasNatural
    <3> QED
      BY <3>1, <3>2 DEF SoundRequest
  <2>4. Go(p, r)
    BY <1>7 DEF RechargeRead
  <2>5. r.pc \in NeedsRow => reserves'[r.reserve].status # "none"
    BY <1>7 DEF RechargeRead, NeedsRow, Idle, tables, SoundRequest, Request
  <2> HIDE DEF r
  <2>6. RequestsInv' /\ RowsInv'
    BY <2>2, <2>3, <2>4, <2>5, GoSound, GoRows
  <2> QED
    BY <2>1, <2>6
<1>8. ASSUME NEW p \in Requests, NEW c \in CardIds, NEW v \in Valores,
             ReserveRead(p, c, v)
      PROVE  TypeInv'
  <2>0. req[p] \in SoundRequest
    BY DEF RequestsInv
  <2>1. TablesInv'
    BY <1>8, TablesUnchanged DEF ReserveRead
  <2>2. RowsKept
    BY <1>8, ReservesUnchanged DEF ReserveRead, tables
  <2> DEFINE r == [Idle EXCEPT !.pc = "reserveSum", !.card = c, !.valor = v,
                          !.lido = cards[c]]
  <2>3. r \in SoundRequest
    <3>0. v \in Int
      BY DEF Valores
    <3>1. r \in Request
      BY <1>8, <3>0, IdleType DEF ReserveRead, Request, Pcs, TablesInv
    <3>2. Sound(r)
      BY <1>8 DEF ReserveRead, Sound, Idle, Valores, NeedsReserve,
         NeedsIntent, NeedsPara,
         HasNatural
    <3> QED
      BY <3>1, <3>2 DEF SoundRequest
  <2>4. Go(p, r)
    BY <1>8 DEF ReserveRead
  <2>5. r.pc \in NeedsRow => reserves'[r.reserve].status # "none"
    BY <1>8 DEF ReserveRead, NeedsRow, Idle, tables, SoundRequest, Request
  <2> HIDE DEF r
  <2>6. RequestsInv' /\ RowsInv'
    BY <2>2, <2>3, <2>4, <2>5, GoSound, GoRows
  <2> QED
    BY <2>1, <2>6
<1>9. ASSUME NEW p \in Requests, NEW c \in CardIds, NEW n \in ReserveIds,
             ConfirmRead(p, c, n)
      PROVE  TypeInv'
  <2>0. req[p] \in SoundRequest
    BY DEF RequestsInv
  <2>1. TablesInv'
    BY <1>9, TablesUnchanged DEF ConfirmRead
  <2>2. RowsKept
    BY <1>9, ReservesUnchanged DEF ConfirmRead, tables
  <2> DEFINE r == [Idle EXCEPT !.pc = "confirmReserve", !.card = c, !.reserve = n,
                          !.lido = cards[c]]
  <2>3. r \in SoundRequest
    <3>1. r \in Request
      BY <1>9, IdleType DEF ConfirmRead, Request, Pcs, TablesInv
    <3>2. Sound(r)
      BY <1>9 DEF ConfirmRead, Sound, Idle, Valores, NeedsReserve,
         NeedsIntent, NeedsPara,
         HasNatural
    <3> QED
      BY <3>1, <3>2 DEF SoundRequest
  <2>4. Go(p, r)
    BY <1>9 DEF ConfirmRead
  <2>5. r.pc \in NeedsRow => reserves'[r.reserve].status # "none"
    BY <1>9 DEF ConfirmRead, NeedsRow, Idle, tables, SoundRequest, Request
  <2> HIDE DEF r
  <2>6. RequestsInv' /\ RowsInv'
    BY <2>2, <2>3, <2>4, <2>5, GoSound, GoRows
  <2> QED
    BY <2>1, <2>6
<1>10. ASSUME NEW p \in Requests, NEW n \in ReserveIds, RollbackRead(p, n)
      PROVE  TypeInv'
  <2>0. req[p] \in SoundRequest
    BY DEF RequestsInv
  <2>1. TablesInv'
    BY <1>10, TablesUnchanged DEF RollbackRead
  <2>2. RowsKept
    BY <1>10, ReservesUnchanged DEF RollbackRead, tables
  <2> DEFINE r == [Idle EXCEPT !.pc = "rollbackSave", !.card = reserves[n].card,
                          !.reserve = n]
  <2>3. r \in SoundRequest
    <3>1. r \in Request
      BY <1>10, IdleType DEF RollbackRead, Reversivel, Request, Pcs,
         TablesInv, SoundReserve, ReserveRow
    <3>2. Sound(r)
      BY <1>10 DEF RollbackRead, Reversivel, Sound, Idle, Valores,
         NeedsReserve, NeedsIntent, NeedsPara,
         HasNatural, TablesInv, SoundReserve
    <3> QED
      BY <3>1, <3>2 DEF SoundRequest
  <2>4. Go(p, r)
    BY <1>10 DEF RollbackRead
  <2>5. r.pc \in NeedsRow => reserves'[r.reserve].status # "none"
    BY <1>10 DEF RollbackRead, Reversivel, NeedsRow, Idle, tables,
       SoundRequest, Request
  <2> HIDE DEF r
  <2>6. RequestsInv' /\ RowsInv'
    BY <2>2, <2>3, <2>4, <2>5, GoSound, GoRows
  <2> QED
    BY <2>1, <2>6
<1>11. ASSUME NEW p \in Requests, NEW c \in CardIds, NEW v \in Valores \cup {0},
              RefundRead(p, c, v)
      PROVE  TypeInv'
  <2>0. req[p] \in SoundRequest
    BY DEF RequestsInv
  <2>1. TablesInv'
    BY <1>11, TablesUnchanged DEF RefundRead
  <2>2. RowsKept
    BY <1>11, ReservesUnchanged DEF RefundRead, tables
  <2> DEFINE r == [Idle EXCEPT !.pc = IF v > 0 THEN "refundCommit" ELSE "refundSum",
                          !.card = c, !.valor = v, !.lido = cards[c]]
  <2>3. r \in SoundRequest
    <3>0. v \in Int
      BY DEF Valores
    <3>1. r \in Request
      <4>1. cards[c] \in CardRow
        BY DEF TablesInv
      <4>2. (IF v > 0 THEN "refundCommit" ELSE "refundSum") \in Pcs
        BY DEF Pcs
      <4> QED
        BY <3>0, <4>1, <4>2, IdleType DEF Request
    <3>2. Sound(r)
      BY <1>11 DEF RefundRead, Sound, Idle, Valores, NeedsReserve,
         NeedsIntent, NeedsPara,
         HasNatural
    <3> QED
      BY <3>1, <3>2 DEF SoundRequest
  <2>4. Go(p, r)
    BY <1>11 DEF RefundRead
  <2>5. r.pc \in NeedsRow => reserves'[r.reserve].status # "none"
    BY <1>11 DEF RefundRead, NeedsRow, Idle, tables, SoundRequest, Request
  <2> HIDE DEF r
  <2>6. RequestsInv' /\ RowsInv'
    BY <2>2, <2>3, <2>4, <2>5, GoSound, GoRows
  <2> QED
    BY <2>1, <2>6
<1>12. ASSUME NEW p \in Requests, NEW c \in CardIds,
              NEW st \in CardStatus \ {"absent"}, StatusRead(p, c, st)
      PROVE  TypeInv'
  <2>0. req[p] \in SoundRequest
    BY DEF RequestsInv
  <2>1. TablesInv'
    BY <1>12, TablesUnchanged DEF StatusRead
  <2>2. RowsKept
    BY <1>12, ReservesUnchanged DEF StatusRead, tables
  <2> DEFINE r == [Idle EXCEPT !.pc = "statusSave", !.card = c, !.status = st,
                          !.lido = cards[c]]
  <2>3. r \in SoundRequest
    <3>1. r \in Request
      BY <1>12, IdleType DEF StatusRead, Request, Pcs, TablesInv
    <3>2. Sound(r)
      BY <1>12 DEF StatusRead, Sound, Idle, Valores, NeedsReserve,
         NeedsIntent, NeedsPara,
         HasNatural
    <3> QED
      BY <3>1, <3>2 DEF SoundRequest
  <2>4. Go(p, r)
    BY <1>12 DEF StatusRead
  <2>5. r.pc \in NeedsRow => reserves'[r.reserve].status # "none"
    BY <1>12 DEF StatusRead, NeedsRow, Idle, tables, SoundRequest, Request
  <2> HIDE DEF r
  <2>6. RequestsInv' /\ RowsInv'
    BY <2>2, <2>3, <2>4, <2>5, GoSound, GoRows
  <2> QED
    BY <2>1, <2>6
<1>13. ASSUME NEW p \in Requests, NEW c \in CardIds, NEW d \in CardIds,
              TransferRead(p, c, d)
      PROVE  TypeInv'
  <2>0. req[p] \in SoundRequest
    BY DEF RequestsInv
  <2>1. TablesInv'
    BY <1>13, TablesUnchanged DEF TransferRead
  <2>2. RowsKept
    BY <1>13, ReservesUnchanged DEF TransferRead, tables
  <2> DEFINE r == [Idle EXCEPT !.pc = "transferTo", !.card = c, !.para = d,
                          !.lido = cards[c]]
  <2>3. r \in SoundRequest
    <3>1. r \in Request
      BY <1>13, IdleType DEF TransferRead, Request, Pcs, TablesInv
    <3>2. Sound(r)
      BY <1>13 DEF TransferRead, Sound, Idle, Valores, NeedsReserve,
         NeedsIntent, NeedsPara,
         HasNatural
    <3> QED
      BY <3>1, <3>2 DEF SoundRequest
  <2>4. Go(p, r)
    BY <1>13 DEF TransferRead
  <2>5. r.pc \in NeedsRow => reserves'[r.reserve].status # "none"
    BY <1>13 DEF TransferRead, NeedsRow, Idle, tables, SoundRequest, Request
  <2> HIDE DEF r
  <2>6. RequestsInv' /\ RowsInv'
    BY <2>2, <2>3, <2>4, <2>5, GoSound, GoRows
  <2> QED
    BY <2>1, <2>6
<1>14. ASSUME NEW p \in Requests, RechargeCheckIntent(p)
      PROVE  TypeInv'
  <2>0. req[p] \in SoundRequest
    BY DEF RequestsInv
  <2>1. TablesInv'
    BY <1>14, TablesUnchanged DEF RechargeCheckIntent
  <2>2. RowsKept
    BY <1>14, ReservesUnchanged DEF RechargeCheckIntent, tables
  <2> DEFINE r == [req[p] EXCEPT !.pc = "rechargeCommit"]
  <2>3. r \in SoundRequest
    <3>1. r \in Request
      BY <1>14, <2>0 DEF Request, Pcs, SoundRequest
    <3>2. Sound(r)
      BY <1>14, <2>0 DEF RechargeCheckIntent, At, SoundRequest, Request,
         Sound, NeedsReserve, NeedsIntent,
         NeedsPara, HasNatural
    <3> QED
      BY <3>1, <3>2 DEF SoundRequest
  <2>4. Go(p, r)
    BY <1>14 DEF RechargeCheckIntent
  <2>5. r.pc \in NeedsRow => reserves'[r.reserve].status # "none"
    BY <1>14, <2>0 DEF RechargeCheckIntent, NeedsRow, Idle, tables,
       SoundRequest, Request
  <2> HIDE DEF r
  <2>6. RequestsInv' /\ RowsInv'
    BY <2>2, <2>3, <2>4, <2>5, GoSound, GoRows
  <2> QED
    BY <2>1, <2>6
<1>15. ASSUME NEW p \in Requests, NEW i \in IntentIds,
              NEW s \in CaixaIds \cup {None}, RechargeCash(p, i, s)
      PROVE  TypeInv'
  <2>0. req[p] \in SoundRequest
    BY DEF RequestsInv
  <2>1. TablesInv'
    <3>1. intents' \in [IntentIds -> IntentRow]
      BY <1>15, <2>0 DEF RechargeCash, TablesInv, IntentRow,
         IntentStatus, At, Request, SoundRequest, Sound, HasNatural
    <3> QED
      BY <1>15, <2>0, <3>1 DEF RechargeCash, TablesInv, At, Request,
         SoundRequest, Sound, HasNatural
  <2>2. RowsKept
    BY <1>15, ReservesUnchanged DEF RechargeCash, tables
  <2> DEFINE r == [req[p] EXCEPT !.pc = "rechargeCommit", !.intent = i, !.caixa = s]
  <2>3. r \in SoundRequest
    <3>1. r \in Request
      BY <1>15, <2>0 DEF Request, Pcs, SoundRequest
    <3>2. Sound(r)
      BY <1>15, <2>0 DEF RechargeCash, At, SoundRequest, Request, Sound,
         NeedsReserve, NeedsIntent,
         NeedsPara, HasNatural
    <3> QED
      BY <3>1, <3>2 DEF SoundRequest
  <2>4. Go(p, r)
    BY <1>15 DEF RechargeCash
  <2>5. r.pc \in NeedsRow => reserves'[r.reserve].status # "none"
    BY <1>15, <2>0 DEF RechargeCash, NeedsRow, Idle, tables, SoundRequest,
       Request
  <2> HIDE DEF r
  <2>6. RequestsInv' /\ RowsInv'
    BY <2>2, <2>3, <2>4, <2>5, GoSound, GoRows
  <2> QED
    BY <2>1, <2>6
<1>16. ASSUME NEW p \in Requests, RechargeCommit(p)
      PROVE  TypeInv'
  <2>0. req[p] \in SoundRequest
    BY DEF RequestsInv
  <2>1. TablesInv'
    <3>1. cards' \in [CardIds -> CardRow]
      BY <1>16, <2>0 DEF RechargeCommit, TablesInv, CardRow, CardStatus,
         At, Request, SoundRequest, Sound, NeedsIntent, HasNatural, Plus
    <3> QED
      BY <1>16, <2>0, <3>1 DEF RechargeCommit, TablesInv, At, Request,
         SoundRequest, Sound, NeedsIntent, HasNatural, Plus
  <2>2. RowsKept
    BY <1>16, ReservesUnchanged DEF RechargeCommit, tables
  <2> DEFINE r == [req[p] EXCEPT !.pc = "rechargeMovement"]
  <2>3. CASE req[p].caixa # None
    <3>1. r \in SoundRequest
      BY <1>16, <2>3, <2>0 DEF RechargeCommit, SoundRequest, Sound,
         Request, Pcs, NeedsReserve, NeedsIntent, NeedsPara, HasNatural,
         At, TablesInv, SoundReserve, ReserveRow, IntentRow
    <3>2. Go(p, r)
      BY <1>16, <2>3 DEF RechargeCommit
    <3> HIDE DEF r
    <3>3. RequestsInv'
      BY <3>1, <3>2, GoSound
    <3>4. RowsInv'
      BY <2>0, <2>2, <3>2, GoRows DEF r, NeedsRow, SoundRequest, Request
    <3> QED
      BY <2>1, <3>3, <3>4
  <2>4. CASE ~(req[p].caixa # None)
    BY <1>16, <2>1, <2>2, <2>4, FinishSound, FinishRows DEF RechargeCommit
  <2> QED
    BY <2>3, <2>4
<1>17. ASSUME NEW p \in Requests, RechargeMovement(p)
      PROVE  TypeInv'
  <2>0. req[p] \in SoundRequest
    BY DEF RequestsInv
  <2>1. TablesInv'
    <3> QED
      BY <1>17, <2>0 DEF RechargeMovement, TablesInv, At, Request,
         SoundRequest, Sound, NeedsIntent
  <2>2. RowsKept
    BY <1>17, ReservesUnchanged DEF RechargeMovement, tables
  <2>3. RequestsInv' /\ RowsInv'
    BY <1>17, <2>2, FinishSound, FinishRows DEF RechargeMovement
  <2> QED
    BY <2>1, <2>3
<1>18. ASSUME NEW p \in Requests, ReserveSum(p)
      PROVE  TypeInv'
  <2>0. req[p] \in SoundRequest
    BY DEF RequestsInv
  <2>1. TablesInv'
    BY <1>18, ExpireSound DEF ReserveSum, TablesInv
  <2>2. RowsKept
    BY <1>18, ExpireKeeps DEF ReserveSum
  <2> DEFINE r == [req[p] EXCEPT !.pc = "reserveInsert"]
  <2>3. CASE SaldoSuficiente(req[p].lido, req[p].card, req[p].valor)
    <3>1. r \in SoundRequest
      BY <1>18, <2>3, <2>0 DEF ReserveSum, SoundRequest, Sound, Request,
         Pcs, NeedsReserve, NeedsIntent, NeedsPara, HasNatural, At,
         TablesInv, SoundReserve, ReserveRow, IntentRow
    <3>2. Go(p, r)
      BY <1>18, <2>3 DEF ReserveSum
    <3> HIDE DEF r
    <3>3. RequestsInv'
      BY <3>1, <3>2, GoSound
    <3>4. RowsInv'
      BY <2>0, <2>2, <3>2, GoRows DEF r, NeedsRow, SoundRequest, Request
    <3> QED
      BY <2>1, <3>3, <3>4
  <2>4. CASE ~(SaldoSuficiente(req[p].lido, req[p].card, req[p].valor))
    BY <1>18, <2>1, <2>2, <2>4, FinishSound, FinishRows DEF ReserveSum
  <2> QED
    BY <2>3, <2>4
<1>19. ASSUME NEW p \in Requests, NEW n \in ReserveIds, ReserveInsert(p, n)
      PROVE  TypeInv'
  <2>0. req[p] \in SoundRequest
    BY DEF RequestsInv
  <2>1. TablesInv'
    <3>1. reserves' \in [ReserveIds -> SoundReserve]
      BY <1>19, <2>0 DEF ReserveInsert, TablesInv, SoundReserve,
         ReserveRow, ReserveStatus, At, Request, SoundRequest, Sound,
         HasNatural
    <3> QED
      BY <1>19, <2>0, <3>1 DEF ReserveInsert, TablesInv
  <2>2. RowsKept
    BY <1>19 DEF ReserveInsert, RowsKept, TablesInv, SoundReserve, ReserveRow
  <2>3. RequestsInv' /\ RowsInv'
    BY <1>19, <2>2, FinishSound, FinishRows DEF ReserveInsert
  <2> QED
    BY <2>1, <2>3
<1>20. ASSUME NEW p \in Requests, ConfirmReserve(p)
      PROVE  TypeInv'
  <2>0. req[p] \in SoundRequest
    BY DEF RequestsInv
  <2>1. TablesInv'
    BY <1>20, TablesUnchanged DEF ConfirmReserve
  <2>2. RowsKept
    BY <1>20, ReservesUnchanged DEF ConfirmReserve, tables
  <2> DEFINE r == [req[p] EXCEPT !.pc = IF reserves[req[p].reserve].due
                                THEN "confirmExpire" ELSE "confirmCommit",
                           !.valor = reserves[req[p].reserve].valor]
  <2>3. r \in SoundRequest
    <3>0. reserves[req[p].reserve].valor \in Int
      BY <1>20, <2>0 DEF ConfirmReserve, At, SoundRequest, Sound,
         NeedsReserve, TablesInv, SoundReserve,
         ReserveRow
    <3>1. r \in Request
      <4>1. (IF reserves[req[p].reserve].due
               THEN "confirmExpire" ELSE "confirmCommit") \in Pcs
        BY DEF Pcs
      <4>2. req[p] \in Request
        BY <2>0 DEF SoundRequest
      <4> QED
        BY <3>0, <4>1, <4>2 DEF Request
    <3>2. Sound(r)
      BY <1>20, <2>0 DEF ConfirmReserve, At, SoundRequest, Request,
         Sound, NeedsReserve, NeedsIntent,
         NeedsPara, HasNatural
    <3> QED
      BY <3>1, <3>2 DEF SoundRequest
  <2>4. Go(p, r)
    BY <1>20 DEF ConfirmReserve
  <2>5. r.pc \in NeedsRow => reserves'[r.reserve].status # "none"
    BY <1>20, <2>0 DEF ConfirmReserve, Confirmavel, NeedsRow, Idle,
       tables, SoundRequest, Request
  <2> HIDE DEF r
  <2>6. RequestsInv' /\ RowsInv'
    BY <2>2, <2>3, <2>4, <2>5, GoSound, GoRows
  <2> QED
    BY <2>1, <2>6
<1>21. ASSUME NEW p \in Requests, ConfirmExpire(p)
      PROVE  TypeInv'
  <2>0. req[p] \in SoundRequest
    BY DEF RequestsInv
  <2>1. SetReserve(req[p].reserve, "expired") \in [ReserveIds -> SoundReserve]
    BY <1>21, <2>0, SetReserveSound
       DEF ConfirmExpire, At, RowsInv, SoundRequest, Sound, NeedsReserve,
       NeedsRow, ReserveStatus
  <2>2. TablesInv'
    BY <1>21, <2>1 DEF ConfirmExpire, TablesInv
  <2>3. RowsKept
    BY <1>21 DEF ConfirmExpire, RowsKept, SetReserve, TablesInv,
       SoundReserve, ReserveRow
  <2>4. RequestsInv' /\ RowsInv'
    BY <1>21, <2>3, FinishSound, FinishRows DEF ConfirmExpire
  <2> QED
    BY <2>2, <2>4
<1>22. ASSUME NEW p \in Requests, ConfirmCommit(p)
      PROVE  TypeInv'
  <2>0. req[p] \in SoundRequest
    BY DEF RequestsInv
  <2>1. SetReserve(req[p].reserve, "confirmed") \in [ReserveIds -> SoundReserve]
    BY <1>22, <2>0, SetReserveSound
       DEF ConfirmCommit, At, RowsInv, SoundRequest, Sound, NeedsReserve,
       NeedsRow, ReserveStatus
  <2>2. TablesInv'
    <3>1. cards' \in [CardIds -> CardRow]
      BY <1>22, <2>0 DEF ConfirmCommit, TablesInv, CardRow, CardStatus,
         At, Request, SoundRequest, Sound, NeedsReserve
    <3> QED
      BY <1>22, <2>0, <3>1, <2>1
         DEF ConfirmCommit, TablesInv, At, Request, SoundRequest, Sound,
             NeedsReserve
  <2>3. RowsKept
    BY <1>22 DEF ConfirmCommit, RowsKept, SetReserve, TablesInv,
       SoundReserve, ReserveRow
  <2>4. RequestsInv' /\ RowsInv'
    BY <1>22, <2>3, FinishSound, FinishRows DEF ConfirmCommit
  <2> QED
    BY <2>2, <2>4
<1>23. ASSUME NEW p \in Requests, RollbackSave(p)
      PROVE  TypeInv'
  <2>0. req[p] \in SoundRequest
    BY DEF RequestsInv
  <2>1. SetReserve(req[p].reserve, "rolled_back") \in [ReserveIds -> SoundReserve]
    BY <1>23, <2>0, SetReserveSound
       DEF RollbackSave, At, RowsInv, SoundRequest, Sound, NeedsReserve,
       NeedsRow, ReserveStatus
  <2>2. TablesInv'
    BY <1>23, <2>1 DEF RollbackSave, TablesInv
  <2>3. RowsKept
    BY <1>23 DEF RollbackSave, RowsKept, SetReserve, TablesInv,
       SoundReserve, ReserveRow
  <2>4. RequestsInv' /\ RowsInv'
    BY <1>23, <2>3, FinishSound, FinishRows DEF RollbackSave
  <2> QED
    BY <2>2, <2>4
<1>24. ASSUME NEW p \in Requests, RefundSum(p)
      PROVE  TypeInv'
  <2>0. req[p] \in SoundRequest
    BY DEF RequestsInv
  <2>1. TablesInv'
    BY <1>24, ExpireSound DEF RefundSum, TablesInv
  <2>2. RowsKept
    BY <1>24, ExpireKeeps DEF RefundSum
  <2> DEFINE r == [req[p] EXCEPT !.pc = "refundCommit",
                           !.valor = Available(req[p].lido, req[p].card)]
  <2>3. CASE Available(req[p].lido, req[p].card) > 0
    <3>1. r \in SoundRequest
      BY <1>24, <2>3, <2>0, AvailableType, TypeInvType
         DEF RefundSum, SoundRequest, Sound, Request, Pcs, NeedsReserve,
             NeedsIntent, NeedsPara, HasNatural, At, TablesInv,
             SoundReserve, ReserveRow, IntentRow
    <3>2. Go(p, r)
      BY <1>24, <2>3 DEF RefundSum
    <3> HIDE DEF r
    <3>3. RequestsInv'
      BY <3>1, <3>2, GoSound
    <3>4. RowsInv'
      BY <2>0, <2>2, <3>2, GoRows DEF r, NeedsRow, SoundRequest, Request
    <3> QED
      BY <2>1, <3>3, <3>4
  <2>4. CASE ~(Available(req[p].lido, req[p].card) > 0)
    BY <1>24, <2>1, <2>2, <2>4, FinishSound, FinishRows DEF RefundSum
  <2> QED
    BY <2>3, <2>4
<1>25. ASSUME NEW p \in Requests, RefundCommit(p)
      PROVE  TypeInv'
  <2>0. req[p] \in SoundRequest
    BY DEF RequestsInv
  <2>1. TablesInv'
    <3>1. cards' \in [CardIds -> CardRow]
      BY <1>25, <2>0 DEF RefundCommit, TablesInv, CardRow, CardStatus,
         At, Request, SoundRequest, Sound
    <3> QED
      BY <1>25, <2>0, <3>1 DEF RefundCommit, TablesInv, At, Request,
         SoundRequest, Sound
  <2>2. RowsKept
    BY <1>25, ReservesUnchanged DEF RefundCommit, tables
  <2>3. RequestsInv' /\ RowsInv'
    BY <1>25, <2>2, FinishSound, FinishRows DEF RefundCommit
  <2> QED
    BY <2>1, <2>3
<1>26. ASSUME NEW p \in Requests, StatusSave(p)
      PROVE  TypeInv'
  <2>0. req[p] \in SoundRequest
    BY DEF RequestsInv
  <2>1. TablesInv'
    <3>1. cards' \in [CardIds -> CardRow]
      BY <1>26, <2>0 DEF StatusSave, TablesInv, CardRow, CardStatus, At,
         Request, SoundRequest, Sound
    <3> QED
      BY <1>26, <2>0, <3>1 DEF StatusSave, TablesInv
  <2>2. RowsKept
    BY <1>26, ReservesUnchanged DEF StatusSave, tables
  <2>3. RequestsInv' /\ RowsInv'
    BY <1>26, <2>2, FinishSound, FinishRows DEF StatusSave
  <2> QED
    BY <2>1, <2>3
<1>27. ASSUME NEW p \in Requests, TransferTo(p)
      PROVE  TypeInv'
  <2>0. req[p] \in SoundRequest
    BY DEF RequestsInv
  <2>1. TablesInv'
    <3>1. cards' \in [CardIds -> CardRow]
      BY <1>27, <2>0 DEF TransferTo, TablesInv, CardRow, CardStatus, At,
         Request, SoundRequest, Sound, NeedsPara, TargetRow
    <3> QED
      BY <1>27, <2>0, <3>1 DEF TransferTo, TablesInv
  <2>2. RowsKept
    BY <1>27, ReservesUnchanged DEF TransferTo, tables
  <2> DEFINE row == TargetRow(req[p].para)
             r == [req[p] EXCEPT !.pc = "transferSum", !.lidoPara = row]
  <2>3. r \in SoundRequest
    <3>1. row \in CardRow
      BY <1>27, <2>0 DEF TransferTo, At, SoundRequest, Sound, NeedsPara,
         TablesInv, CardRow,
         CardStatus, TargetRow
    <3> HIDE DEF row
    <3>2. r \in Request
      BY <1>27, <2>0, <3>1 DEF TransferTo, Request, Pcs, SoundRequest
    <3>3. Sound(r)
      BY <1>27, <2>0 DEF TransferTo, At, SoundRequest, Request, Sound,
         NeedsReserve, NeedsIntent,
         NeedsPara, HasNatural
    <3> QED
      BY <3>2, <3>3 DEF SoundRequest
  <2>4. Go(p, r)
    BY <1>27 DEF TransferTo
  <2>5. r.pc \notin NeedsRow
    BY <2>0 DEF NeedsRow, SoundRequest, Request
  <2> HIDE DEF r
  <2>6. RequestsInv' /\ RowsInv'
    BY <2>2, <2>3, <2>4, <2>5, GoSound, GoRows
  <2> QED
    BY <2>1, <2>6
<1>28. ASSUME NEW p \in Requests, TransferSum(p)
      PROVE  TypeInv'
  <2>0. req[p] \in SoundRequest
    BY DEF RequestsInv
  <2>1. TablesInv'
    BY <1>28, ExpireSound DEF TransferSum, TablesInv
  <2>2. RowsKept
    BY <1>28, ExpireKeeps DEF TransferSum
  <2> DEFINE r == [req[p] EXCEPT !.pc = "transferCommit",
                           !.valor = Available(req[p].lido, req[p].card)]
  <2>3. CASE Available(req[p].lido, req[p].card) > 0
    <3>1. r \in SoundRequest
      BY <1>28, <2>3, <2>0, AvailableType, TypeInvType
         DEF TransferSum, SoundRequest, Sound, Request, Pcs,
             NeedsReserve, NeedsIntent, NeedsPara, HasNatural, At,
             TablesInv, SoundReserve, ReserveRow, IntentRow
    <3>2. Go(p, r)
      BY <1>28, <2>3 DEF TransferSum
    <3> HIDE DEF r
    <3>3. RequestsInv'
      BY <3>1, <3>2, GoSound
    <3>4. RowsInv'
      BY <2>0, <2>2, <3>2, GoRows DEF r, NeedsRow, SoundRequest, Request
    <3> QED
      BY <2>1, <3>3, <3>4
  <2>4. CASE ~(Available(req[p].lido, req[p].card) > 0)
    BY <1>28, <2>1, <2>2, <2>4, FinishSound, FinishRows DEF TransferSum
  <2> QED
    BY <2>3, <2>4
<1>29. ASSUME NEW p \in Requests, TransferCommit(p)
      PROVE  TypeInv'
  <2>0. req[p] \in SoundRequest
    BY DEF RequestsInv
  <2>1. TablesInv'
    <3>1. cards' \in [CardIds -> CardRow]
      BY <1>29, <2>0 DEF TransferCommit, TablesInv, CardRow, CardStatus,
         At, Request, SoundRequest, Sound, NeedsPara, Plus
    <3> QED
      BY <1>29, <2>0, <3>1 DEF TransferCommit, TablesInv, At, Request,
         SoundRequest, Sound, NeedsPara, Plus
  <2>2. RowsKept
    BY <1>29, ReservesUnchanged DEF TransferCommit, tables
  <2>3. RequestsInv' /\ RowsInv'
    BY <1>29, <2>2, FinishSound, FinishRows DEF TransferCommit
  <2> QED
    BY <2>1, <2>3
<1>30. ASSUME NEW p \in Requests, Abort(p)
      PROVE  TypeInv'
  <2>0. req[p] \in SoundRequest
    BY DEF RequestsInv
  <2>1. TablesInv'
    BY <1>30, TablesUnchanged DEF Abort
  <2>2. RowsKept
    BY <1>30, ReservesUnchanged DEF Abort, tables
  <2>3. RequestsInv' /\ RowsInv'
    BY <1>30, <2>2, FinishSound, FinishRows DEF Abort
  <2> QED
    BY <2>1, <2>3
<1>31. CASE UNCHANGED vars
  <2>1. RowsKept
    BY <1>31, ReservesUnchanged DEF vars, tables
  <2> QED
    BY <1>31, <2>1, TablesUnchanged, StayRows DEF vars, RequestsInv
<1> QED
  BY <1>1, <1>2, <1>3, <1>4, <1>5, <1>6, <1>7, <1>8, <1>9, <1>10, <1>11,
     <1>12, <1>13, <1>14, <1>15, <1>16, <1>17, <1>18, <1>19, <1>20, <1>21,
     <1>22, <1>23, <1>24, <1>25, <1>26, <1>27, <1>28, <1>29, <1>30, <1>31
  DEF Next, Outside, Start, Continue

\* The history holds cards.
HistoryOK == sobrepostos \in SUBSET CardIds /\ descobertos \in SUBSET CardIds

LEMMA HistoryStep == HistoryOK /\ [Next]_vars => HistoryOK'
BY DEF HistoryOK, Next, Historia, Cruzados, Excedidos, vars

LEMMA HistoryInit == Init => HistoryOK
BY DEF Init, HistoryOK

\* Every table keeps its type, and every request in flight holds values of the
\* types its handler's local variables have.
THEOREM TypeCorrect == Spec => []TypeOK
<1>1. TypeInv /\ HistoryOK => TypeOK
  BY TypeInvType DEF TypeOK, HistoryOK
<1> QED
  BY TypeInit, TypeStep, HistoryInit, HistoryStep, <1>1, PTL DEF Spec
-----------------------------------------------------------------------------
(* Safety: what holds under every interleaving *)

(* Every request but those at their last await starts with reads alone. *)
LEMMA StartReads ==
    ASSUME NEW p \in Requests, Start(p)
    PROVE  UNCHANGED tables
BY DEF Start, RechargeRead, ReserveRead, ConfirmRead, RollbackRead, RefundRead,
       StatusRead, TransferRead
-----------------------------------------------------------------------------
(* A CONFIRMED reserve has its DEBIT *)

\* A step that confirms nothing and removes no DEBIT.
LEMMA DebitKept ==
    ASSUME ConfirmedHasDebit, UNCHANGED debitos,
           \A n \in ReserveIds :
              reserves'[n].status = "confirmed" => reserves[n].status = "confirmed"
    PROVE  ConfirmedHasDebit'
BY DEF ConfirmedHasDebit

LEMMA DebitFrame ==
    ASSUME ConfirmedHasDebit, UNCHANGED <<reserves, debitos>>
    PROVE  ConfirmedHasDebit'
BY DEF ConfirmedHasDebit

LEMMA DebitExpire ==
    ASSUME ConfirmedHasDebit, UNCHANGED debitos, NEW c,
           reserves' = ExpireOldReserves(c)
    PROVE  ConfirmedHasDebit'
BY DebitKept DEF ExpireOldReserves

LEMMA DebitSet ==
    ASSUME TypeInv, ConfirmedHasDebit, UNCHANGED debitos, NEW n, NEW st,
           st # "confirmed", reserves' = SetReserve(n, st)
    PROVE  ConfirmedHasDebit'
BY DebitKept DEF SetReserve, TypeInv, TablesInv

LEMMA DebitStep ==
    ASSUME TypeInv, ConfirmedHasDebit, [Next]_vars
    PROVE  ConfirmedHasDebit'
<1>1. CASE Outside
  <2>1. ASSUME NEW n \in ReserveIds, TtlPasses(n)
        PROVE  ConfirmedHasDebit'
    BY <2>1, DebitKept DEF TtlPasses, TypeInv, TablesInv, SoundReserve, ReserveRow
  <2> QED
    BY <1>1, <2>1, DebitFrame
    DEF Outside, Create, CreateRechargeIntent, ResolveIntent, Caixa, EncerraEvento
<1>2. ASSUME NEW p \in Requests, Start(p)
      PROVE  ConfirmedHasDebit'
  BY <1>2, StartReads, DebitFrame DEF tables
<1>3. ASSUME NEW p \in Requests, Continue(p)
      PROVE  ConfirmedHasDebit'
  <2>1. CASE ReserveSum(p) \/ RefundSum(p) \/ TransferSum(p)
    BY <2>1, DebitExpire DEF ReserveSum, RefundSum, TransferSum
  <2>2. ASSUME NEW n \in ReserveIds, ReserveInsert(p, n)
        PROVE  ConfirmedHasDebit'
    BY <2>2, DebitKept DEF ReserveInsert, TypeInv, TablesInv
  <2>3. CASE ConfirmExpire(p) \/ RollbackSave(p)
    BY <2>3, DebitSet DEF ConfirmExpire, RollbackSave
  <2>4. CASE ConfirmCommit(p)
    BY <2>4 DEF ConfirmCommit, ConfirmedHasDebit, SetReserve, TypeInv, TablesInv
  <2>5. CASE \/ RechargeCheckIntent(p)
             \/ \E i \in IntentIds, s \in CaixaIds \cup {None} : RechargeCash(p, i, s)
             \/ RechargeCommit(p) \/ RechargeMovement(p)
    BY <2>5, DebitFrame
    DEF RechargeCheckIntent, RechargeCash, RechargeCommit, RechargeMovement, tables
  <2>6. CASE \/ ConfirmReserve(p) \/ RefundCommit(p) \/ StatusSave(p)
             \/ TransferTo(p) \/ TransferCommit(p)
    BY <2>6, DebitFrame
    DEF ConfirmReserve, RefundCommit, StatusSave, TransferTo, TransferCommit, tables
  <2> QED
    BY <1>3, <2>1, <2>2, <2>3, <2>4, <2>5, <2>6 DEF Continue
<1>4. ASSUME NEW p \in Requests, Abort(p)
      PROVE  ConfirmedHasDebit'
  BY <1>4, DebitFrame DEF Abort, tables
<1>5. CASE UNCHANGED vars
  BY <1>5, DebitFrame DEF vars, tables
<1> QED
  BY <1>1, <1>2, <1>3, <1>4, <1>5 DEF Next

\* However confirm, rollback and expiry overlap, a reserve that is CONFIRMED has
\* a DEBIT transaction for it.
THEOREM ConfirmedIsDebited == Spec => []ConfirmedHasDebit
<1>1. Init => ConfirmedHasDebit
  BY DEF Init, ConfirmedHasDebit, NoReserve
<1>2. TypeInv /\ ConfirmedHasDebit /\ [Next]_vars => ConfirmedHasDebit'
  BY DebitStep
<1> QED
  BY TypeInit, TypeStep, <1>1, <1>2, PTL DEF Spec
-----------------------------------------------------------------------------
(* A reserve is used once *)

\* What a step must show of every reserve that has a row.
Forward(n) ==
    reserves[n].status # "none" =>
        /\ reserves'[n].status = "active" => reserves[n].status = "active"
        /\ reserves'[n].card = reserves[n].card
        /\ reserves'[n].valor = reserves[n].valor

LEMMA ForwardKept == ASSUME UNCHANGED reserves PROVE \A n \in ReserveIds : Forward(n)
BY DEF Forward

LEMMA ForwardExpire ==
    ASSUME TypeInv, NEW c, reserves' = ExpireOldReserves(c)
    PROVE  \A n \in ReserveIds : Forward(n)
BY DEF Forward, ExpireOldReserves, TypeInv, TablesInv, SoundReserve, ReserveRow

LEMMA ForwardSet ==
    ASSUME TypeInv, NEW m, NEW st, st # "active", reserves' = SetReserve(m, st)
    PROVE  \A n \in ReserveIds : Forward(n)
BY DEF Forward, SetReserve, TypeInv, TablesInv, SoundReserve, ReserveRow

LEMMA ForwardStep ==
    ASSUME TypeInv, Next
    PROVE  \A n \in ReserveIds : Forward(n)
<1>1. CASE Outside
  <2>1. ASSUME NEW m \in ReserveIds, TtlPasses(m)
        PROVE  \A n \in ReserveIds : Forward(n)
    BY <2>1 DEF TtlPasses, Forward, TypeInv, TablesInv, SoundReserve, ReserveRow
  <2> QED
    BY <1>1, <2>1, ForwardKept
    DEF Outside, Create, CreateRechargeIntent, ResolveIntent, Caixa, EncerraEvento
<1>2. ASSUME NEW p \in Requests, Start(p) \/ Abort(p)
      PROVE  \A n \in ReserveIds : Forward(n)
  BY <1>2, StartReads, ForwardKept DEF Abort, tables
<1>3. ASSUME NEW p \in Requests, Continue(p)
      PROVE  \A n \in ReserveIds : Forward(n)
  <2>1. CASE ReserveSum(p) \/ RefundSum(p) \/ TransferSum(p)
    BY <2>1, ForwardExpire DEF ReserveSum, RefundSum, TransferSum
  <2>2. ASSUME NEW m \in ReserveIds, ReserveInsert(p, m)
        PROVE  \A n \in ReserveIds : Forward(n)
    BY <2>2 DEF ReserveInsert, FreeRow, Forward, TypeInv, TablesInv
  <2>3. CASE ConfirmExpire(p) \/ RollbackSave(p) \/ ConfirmCommit(p)
    BY <2>3, ForwardSet DEF ConfirmExpire, RollbackSave, ConfirmCommit
  <2>4. CASE \/ RechargeCheckIntent(p)
             \/ \E i \in IntentIds, s \in CaixaIds \cup {None} : RechargeCash(p, i, s)
             \/ RechargeCommit(p) \/ RechargeMovement(p)
    BY <2>4, ForwardKept
    DEF RechargeCheckIntent, RechargeCash, RechargeCommit, RechargeMovement, tables
  <2>5. CASE \/ ConfirmReserve(p) \/ RefundCommit(p) \/ StatusSave(p)
             \/ TransferTo(p) \/ TransferCommit(p)
    BY <2>5, ForwardKept
    DEF ConfirmReserve, RefundCommit, StatusSave, TransferTo, TransferCommit, tables
  <2> QED
    BY <1>3, <2>1, <2>2, <2>3, <2>4, <2>5 DEF Continue
<1> QED
  BY <1>1, <1>2, <1>3 DEF Next

\* Whatever requests overlap, and on whatever cards, a reserve that ended is never
\* ACTIVE again and keeps its card and its value.
THEOREM NeverRevives == Spec => ReserveNeverRevives
<1>1. TypeInv /\ [Next]_vars =>
        [\A n \in ReserveIds : reserves[n].status # "none" =>
            /\ reserves'[n].status = "active" => reserves[n].status = "active"
            /\ reserves'[n].card = reserves[n].card
            /\ reserves'[n].valor = reserves[n].valor]_vars
  BY ForwardStep DEF Forward
<1> QED
  BY TypeInit, TypeStep, <1>1, PTL DEF Spec, ReserveNeverRevives
-----------------------------------------------------------------------------
(* A credit is for an approved payment.  Inductive: the history holds every
   intent that is APPROVED and only intents that have a row. *)

ApprovedKnown ==
    \A i \in IntentIds :
        /\ intents[i].status = "approved" => i \in aprovados
        /\ i \in aprovados => intents[i].status # "none"

CreditInv == CreditWasApproved /\ ApprovedKnown

\* What a request about to credit has checked.
Checked(r) ==
    r.pc = "rechargeCommit" =>
        /\ r.intent \in aprovados
        /\ intents[r.intent].card = r.card
        /\ intents[r.intent].valor = r.valor

LEMMA CreditChecked ==
    CreditWasApproved <=>
        /\ \A i \in IntentIds : recharges[i] > 0 => i \in aprovados
        /\ \A p \in Requests : Checked(req[p])
BY DEF CreditWasApproved, Checked, At

\* A step that leaves intents and credits alone and moves slot p to r.
LEMMA CreditGo ==
    ASSUME TypeInv, CreditInv, UNCHANGED <<intents, aprovados, recharges>>,
           NEW p \in Requests, NEW r, Go(p, r), Checked(r)
    PROVE  CreditInv'
<1>1. \A q \in Requests : Checked(req'[q])
  BY CreditChecked DEF Go, CreditInv, TypeInv, RequestsInv
<1>2. \A q \in Requests : Checked(req[q])'
  BY <1>1 DEF Checked
<1> QED
  BY <1>2, CreditChecked DEF CreditInv, ApprovedKnown, CreditWasApproved, Checked, At

LEMMA CreditFinish ==
    ASSUME TypeInv, CreditInv, UNCHANGED <<intents, aprovados, recharges>>,
           NEW p \in Requests, Finish(p)
    PROVE  CreditInv'
BY CreditGo DEF Finish, Checked, Idle

LEMMA CreditFrame ==
    ASSUME CreditInv, UNCHANGED <<intents, aprovados, recharges, req>>
    PROVE  CreditInv'
BY DEF CreditInv, ApprovedKnown, CreditWasApproved, At

LEMMA CreditOutside ==
    ASSUME TypeInv, CreditInv, Outside
    PROVE  CreditInv'
<1> USE DEF TypeInv, TablesInv
<1>0. \A q \in Requests : req[q].pc = "rechargeCommit" => req[q].intent \in IntentIds
  BY DEF RequestsInv, SoundRequest, Sound, NeedsIntent
<1>1. ASSUME NEW c \in CardIds, NEW i \in IntentIds, NEW v \in Valores,
             CreateRechargeIntent(c, i, v)
      PROVE  CreditInv'
  BY <1>0, <1>1
  DEF CreateRechargeIntent, CreditInv, ApprovedKnown, CreditWasApproved, At
<1>2. ASSUME NEW i \in IntentIds, NEW st \in IntentStatus, ResolveIntent(i, st)
      PROVE  CreditInv'
  BY <1>0, <1>2
  DEF ResolveIntent, CreditInv, ApprovedKnown, CreditWasApproved, At, IntentRow
<1>3. CASE \/ \E c \in CardIds, s \in Valores \cup {0} : Create(c, s)
           \/ \E n \in ReserveIds : TtlPasses(n)
           \/ \E s \in CaixaIds : Caixa(s)
           \/ EncerraEvento
  BY <1>3, CreditFrame DEF Create, TtlPasses, Caixa, EncerraEvento
<1> QED
  BY <1>1, <1>2, <1>3 DEF Outside

\* No request starts at the commit of a recharge.
LEMMA CreditStart ==
    ASSUME TypeInv, CreditInv, NEW p \in Requests, Start(p)
    PROVE  CreditInv'
<1>1. UNCHANGED <<intents, aprovados, recharges>>
  BY StartReads DEF tables
<1>2. ASSUME NEW r, Go(p, r), r.pc # "rechargeCommit"
      PROVE  CreditInv'
  BY <1>1, <1>2, CreditGo DEF Checked
<1> USE DEF Idle
<1>3. ASSUME NEW c \in CardIds, NEW v \in Valores, NEW i \in IntentIds \cup {None},
             RechargeRead(p, c, v, i)
      PROVE  CreditInv'
  BY <1>2, <1>3 DEF RechargeRead
<1>4. ASSUME NEW c \in CardIds, NEW v \in Valores, ReserveRead(p, c, v)
      PROVE  CreditInv'
  BY <1>2, <1>4 DEF ReserveRead
<1>5. ASSUME NEW c \in CardIds, NEW n \in ReserveIds, ConfirmRead(p, c, n)
      PROVE  CreditInv'
  BY <1>2, <1>5 DEF ConfirmRead
<1>6. ASSUME NEW n \in ReserveIds, RollbackRead(p, n)
      PROVE  CreditInv'
  BY <1>2, <1>6 DEF RollbackRead
<1>7. ASSUME NEW c \in CardIds, NEW v \in Valores \cup {0}, RefundRead(p, c, v)
      PROVE  CreditInv'
  BY <1>2, <1>7 DEF RefundRead
<1>8. ASSUME NEW c \in CardIds, NEW st \in CardStatus \ {"absent"},
             StatusRead(p, c, st)
      PROVE  CreditInv'
  BY <1>2, <1>8 DEF StatusRead
<1>9. ASSUME NEW c \in CardIds, NEW d \in CardIds, TransferRead(p, c, d)
      PROVE  CreditInv'
  BY <1>2, <1>9 DEF TransferRead
<1> HIDE DEF Idle
<1> QED
  BY <1>3, <1>4, <1>5, <1>6, <1>7, <1>8, <1>9 DEF Start

LEMMA CreditContinue ==
    ASSUME TypeInv, CreditInv, NEW p \in Requests, Continue(p)
    PROVE  CreditInv'
<1>0. req[p] \in SoundRequest
  BY DEF TypeInv, RequestsInv
<1>1. ASSUME NEW r, Go(p, r), r.pc # "rechargeCommit",
             UNCHANGED <<intents, aprovados, recharges>>
      PROVE  CreditInv'
  BY <1>1, CreditGo DEF Checked
<1>2. CASE RechargeCheckIntent(p)
  <2> DEFINE r == [req[p] EXCEPT !.pc = "rechargeCommit"]
  <2>1. /\ req[p].intent \in IntentIds
        /\ intents[req[p].intent].card = req[p].card
        /\ intents[req[p].intent].status = "approved"
        /\ intents[req[p].intent].valor = req[p].valor
        /\ Go(p, r)
        /\ UNCHANGED <<intents, aprovados, recharges>>
    BY <1>0, <1>2 DEF RechargeCheckIntent, Aprovado, SoundRequest, Request, tables
  <2>2. r.intent = req[p].intent /\ r.card = req[p].card /\ r.valor = req[p].valor
    BY <1>0 DEF SoundRequest, Request
  <2> HIDE DEF r
  <2>3. Checked(r)
    BY <2>1, <2>2 DEF Checked, CreditInv, ApprovedKnown
  <2> QED
    BY <2>1, <2>3, CreditGo
<1>3. ASSUME NEW i \in IntentIds, NEW s \in CaixaIds \cup {None}, RechargeCash(p, i, s)
      PROVE  CreditInv'
  <2> DEFINE r == [req[p] EXCEPT !.pc = "rechargeCommit", !.intent = i, !.caixa = s]
             row == [card |-> req[p].card, valor |-> req[p].valor,
                     status |-> "approved", dinheiro |-> TRUE]
  <2>1. /\ intents[i].status = "none"
        /\ intents' = [intents EXCEPT ![i] = row]
        /\ aprovados' = aprovados \cup {i}
        /\ Go(p, r)
        /\ UNCHANGED recharges
    BY <1>3 DEF RechargeCash
  <2>2. r.intent = i /\ r.card = req[p].card /\ r.valor = req[p].valor
    BY <1>0 DEF SoundRequest, Request
  <2>3. row.card = req[p].card /\ row.valor = req[p].valor /\ row.status = "approved"
    OBVIOUS
  <2> HIDE DEF r, row
  <2>4. intents'[i] = row /\ \A j \in IntentIds \ {i} : intents'[j] = intents[j]
    BY <2>1 DEF TypeInv, TablesInv
  <2>5. i \notin aprovados
    BY <2>1 DEF CreditInv, ApprovedKnown
  <2>6. ApprovedKnown'
    BY <2>1, <2>3, <2>4 DEF CreditInv, ApprovedKnown
  <2>7. ASSUME NEW q \in Requests
        PROVE  Checked(req[q])'
    <3>1. CASE q = p
      <4>1. req'[q] = r
        BY <2>1, <3>1 DEF Go, TypeInv, RequestsInv
      <4> QED
        BY <2>1, <2>2, <2>3, <2>4, <4>1 DEF Checked
    <3>2. CASE q # p
      <4>1. req'[q] = req[q] /\ Checked(req[q])
        BY <2>1, <3>2, CreditChecked DEF Go, CreditInv, TypeInv, RequestsInv
      <4>2. req[q].pc = "rechargeCommit" => req[q].intent \in IntentIds
        BY DEF TypeInv, RequestsInv, SoundRequest, Sound, NeedsIntent
      <4> QED
        BY <2>1, <2>4, <2>5, <4>1, <4>2 DEF Checked
    <3> QED
      BY <3>1, <3>2
  <2>8. \A j \in IntentIds : recharges'[j] > 0 => j \in aprovados'
    BY <2>1 DEF CreditInv, CreditWasApproved
  <2>9. CreditWasApproved'
    BY <2>7, <2>8 DEF CreditWasApproved, Checked, At
  <2> QED
    BY <2>6, <2>9 DEF CreditInv
<1>4. CASE RechargeCommit(p)
  <2>1. req[p].intent \in IntentIds /\ req[p].intent \in aprovados
    BY <1>0, <1>4 DEF RechargeCommit, At, SoundRequest, Sound, NeedsIntent,
       CreditInv, CreditWasApproved
  <2>2. \A j \in IntentIds : recharges'[j] > 0 => j \in aprovados
    BY <1>4, <2>1 DEF RechargeCommit, CreditInv, CreditWasApproved, TypeInv, TablesInv
  <2>3. UNCHANGED <<intents, aprovados>>
    BY <1>4 DEF RechargeCommit
  <2>4. \E r : Go(p, r) /\ r.pc # "rechargeCommit"
    <3>1. CASE req[p].caixa # None
      <4> DEFINE r == [req[p] EXCEPT !.pc = "rechargeMovement"]
      <4>1. Go(p, r)
        BY <1>4, <3>1 DEF RechargeCommit
      <4>2. r.pc = "rechargeMovement"
        BY <1>0 DEF SoundRequest, Request
      <4> QED
        BY <4>1, <4>2
    <3>2. CASE req[p].caixa = None
      BY <1>4, <3>2 DEF RechargeCommit, Finish, Idle
    <3> QED
      BY <3>1, <3>2
  <2>5. \A q \in Requests : req'[q].pc = "rechargeCommit" => req'[q] = req[q]
    BY <2>4 DEF Go, TypeInv, RequestsInv
  <2> QED
    BY <2>2, <2>3, <2>5 DEF CreditInv, ApprovedKnown, CreditWasApproved, At
<1>5. CASE \/ RechargeMovement(p) \/ ConfirmExpire(p) \/ ConfirmCommit(p)
           \/ RollbackSave(p) \/ RefundCommit(p) \/ StatusSave(p)
           \/ TransferCommit(p) \/ \E n \in ReserveIds : ReserveInsert(p, n)
  BY <1>5, CreditFinish
  DEF RechargeMovement, ConfirmExpire, ConfirmCommit, RollbackSave, RefundCommit,
      StatusSave, TransferCommit, ReserveInsert
<1> DEFINE Moved(pc, v) == [req[p] EXCEPT !.pc = pc, !.valor = v]
<1>6. ASSUME NEW pc, NEW v PROVE Moved(pc, v).pc = pc
  BY <1>0 DEF SoundRequest, Request
<1> HIDE DEF Moved
<1>7. CASE ReserveSum(p)
  <2>1. [req[p] EXCEPT !.pc = "reserveInsert"].pc = "reserveInsert"
    BY <1>0 DEF SoundRequest, Request
  <2> QED
    BY <1>1, <1>7, <2>1, CreditFinish DEF ReserveSum
<1>8. CASE ConfirmReserve(p)
  BY <1>1, <1>6, <1>8 DEF ConfirmReserve, Moved, tables
<1>9. CASE RefundSum(p)
  BY <1>1, <1>6, <1>9, CreditFinish DEF RefundSum, Moved
<1>10. CASE TransferSum(p)
  BY <1>1, <1>6, <1>10, CreditFinish DEF TransferSum, Moved
<1>11. CASE TransferTo(p)
  <2>1. ASSUME NEW row
        PROVE  [req[p] EXCEPT !.pc = "transferSum", !.lidoPara = row].pc = "transferSum"
    BY <1>0 DEF SoundRequest, Request
  <2> QED
    BY <1>1, <1>11, <2>1 DEF TransferTo
<1> QED
  BY <1>2, <1>3, <1>4, <1>5, <1>7, <1>8, <1>9, <1>10, <1>11 DEF Continue

LEMMA CreditStep ==
    ASSUME TypeInv, CreditInv, [Next]_vars
    PROVE  CreditInv'
<1>1. ASSUME NEW p \in Requests, Abort(p)
      PROVE  CreditInv'
  BY <1>1, CreditFinish DEF Abort, tables
<1>2. CASE UNCHANGED vars
  BY <1>2, CreditFrame DEF vars, tables
<1> QED
  BY <1>1, <1>2, CreditOutside, CreditStart, CreditContinue DEF Next

\* However recharges and the handlers of intents interleave, a card is credited
\* only for an intent that was APPROVED, for that card and that amount.
THEOREM CreditIsApproved == Spec => []CreditWasApproved
<1>1. Init => CreditInv
  BY DEF Init, CreditInv, ApprovedKnown, CreditWasApproved, NoIntent, Idle, At
<1>2. TypeInv /\ CreditInv /\ [Next]_vars => CreditInv'
  BY CreditStep
<1>3. CreditInv => CreditWasApproved
  BY DEF CreditInv
<1> QED
  BY TypeInit, TypeStep, <1>1, <1>2, <1>3, PTL DEF Spec
-----------------------------------------------------------------------------
(* The balance.  The balance of every card on which requests never overlapped, and
   which was never transferred to itself, is its first balance plus its statement,
   whatever overlaps on the other cards.
   
   The argument: two requests that name one card, or one that names it twice, put it
   into sobrepostos (Apart), so the row of a card outside it that a handler read is
   still the row in the database when the handler writes it back (Fresh), and each
   write moves balance and statement together. *)

CardsIn(r) == {r.card, r.para} \ {None}

\* At these points a handler will still write the card row it holds.
HoldsCard == Pcs \ {"idle", "rechargeMovement", "rollbackSave"}
HoldsPara == {"transferSum", "transferCommit"}

Fresh(r, rows, sob) ==
    /\ r.pc \in HoldsCard =>
          /\ r.lido.status # "absent"
          /\ r.card \notin sob => r.lido = rows[r.card]
    /\ r.pc \in HoldsPara =>
          /\ r.lidoPara.status # "absent"
          /\ r.para \notin sob => r.lidoPara = rows[r.para]
    /\ r.pc = "statusSave" => r.status # "absent"

Apart ==
    /\ \A p, q \in Requests :
          p # q => CardsIn(req[p]) \cap CardsIn(req[q]) \subseteq sobrepostos
    /\ \A p \in Requests :
          req[p].card = req[p].para => req[p].card \in {None} \cup sobrepostos
AllFresh == \A p \in Requests : Fresh(req[p], cards, sobrepostos)

\* A card that has no row yet has neither balance nor statement.
AbsentIsEmpty ==
    \A c \in CardIds \ sobrepostos :
        cards[c].status = "absent" => cards[c].saldo = 0 /\ extrato[c] = 0

NothingLost == SaldoMatchesExtrato /\ AbsentIsEmpty /\ AllFresh
BalanceInv == NothingLost /\ Apart

\* What every step does to the history, by Historia.
Grows == sobrepostos \subseteq sobrepostos'

\* A sound request that is still to write names its cards.
LEMMA SoundCards ==
    ASSUME NEW r \in SoundRequest
    PROVE  /\ r.pc \in HoldsCard => r.card \in CardIds /\ r.card \in CardsIn(r)
           /\ r.pc \in NeedsPara => r.para \in CardIds /\ r.para \in CardsIn(r)
           /\ r.pc \in HoldsPara => r.pc \in NeedsPara
           /\ CardsIn(r) \subseteq CardIds
BY CardsAssumption
DEF SoundRequest, Sound, Request, HoldsCard, HoldsPara, NeedsPara, CardsIn

\* Rows that a request does not name may change under it.
LEMMA FreshKept ==
    ASSUME NEW r \in SoundRequest, NEW rows, NEW rows2, NEW sob, NEW sob2,
           Fresh(r, rows, sob), sob \subseteq sob2,
           \A c \in CardsIn(r) \ sob2 :
               rows[c].status # "absent" => rows2[c] = rows[c]
    PROVE  Fresh(r, rows2, sob2)
<1>1. ASSUME r.pc \in HoldsCard, r.card \notin sob2
      PROVE  r.lido = rows2[r.card]
  BY <1>1, SoundCards DEF Fresh
<1>2. ASSUME r.pc \in HoldsPara, r.para \notin sob2
      PROVE  r.lidoPara = rows2[r.para]
  BY <1>2, SoundCards DEF Fresh
<1> QED
  BY <1>1, <1>2 DEF Fresh

\* What a step of request p must show of its slot and of the card rows.
LEMMA GoFresh ==
    ASSUME RequestsInv, Apart, AllFresh, Grows, NEW p \in Requests, NEW r, Go(p, r),
           Fresh(r, cards', sobrepostos'),
           \A c \in CardIds \ CardsIn(req[p]) : cards'[c] = cards[c]
    PROVE  AllFresh'
<1>1. req'[p] = r /\ \A q \in Requests \ {p} : req'[q] = req[q]
  BY DEF Go, RequestsInv
<1>2. ASSUME NEW q \in Requests PROVE Fresh(req'[q], cards', sobrepostos')
  <2>1. CASE q = p
    BY <1>1, <2>1
  <2>2. CASE q # p
    <3>1. req[q] \in SoundRequest /\ Fresh(req[q], cards, sobrepostos)
      BY DEF RequestsInv, AllFresh
    <3>2. \A c \in CardsIn(req[q]) \ sobrepostos' : c \in CardIds \ CardsIn(req[p])
      BY <2>2, <3>1, SoundCards DEF Apart, Grows
    <3>3. Fresh(req[q], cards', sobrepostos')
      BY <3>1, <3>2, FreshKept DEF Grows
    <3> QED
      BY <1>1, <2>2, <3>3
  <2> QED
    BY <2>1, <2>2
<1> QED
  BY <1>2 DEF AllFresh

LEMMA FinishFresh ==
    ASSUME RequestsInv, Apart, AllFresh, Grows, NEW p \in Requests, Finish(p),
           \A c \in CardIds \ CardsIn(req[p]) : cards'[c] = cards[c]
    PROVE  AllFresh'
<1>1. Fresh(Idle, cards', sobrepostos')
  BY DEF Idle, Fresh, HoldsCard, HoldsPara, NeedsPara
<1> QED
  BY <1>1, GoFresh DEF Finish

LEMMA BalanceFrame ==
    ASSUME SaldoMatchesExtrato, AbsentIsEmpty, Grows,
           UNCHANGED <<cards, inicial, extrato>>
    PROVE  SaldoMatchesExtrato' /\ AbsentIsEmpty'
BY DEF SaldoMatchesExtrato, AbsentIsEmpty, Grows

\* Cards that two requests name after a step are in the history after it.
LEMMA HistoryApart ==
    ASSUME TypeInv', Historia
    PROVE  Apart' /\ Grows
<1>1. ASSUME NEW p \in Requests, NEW q \in Requests, p # q,
             NEW c \in CardsIn(req'[p]) \cap CardsIn(req'[q])
      PROVE  c \in sobrepostos'
  <2>1. req'[p] \in SoundRequest
    BY DEF TypeInv, RequestsInv
  <2>2. c \in CardIds
    BY <2>1, SoundCards
  <2> QED
    BY <1>1, <2>2 DEF Historia, Cruzados, CardsOf, CardsIn
<1>2. ASSUME NEW p \in Requests, req'[p].card = req'[p].para, req'[p].card # None
      PROVE  req'[p].card \in sobrepostos'
  <2>1. req'[p].card \in CardIds
    BY <1>2 DEF TypeInv, RequestsInv, SoundRequest, Request
  <2> QED
    BY <1>2, <2>1 DEF Historia, Cruzados
<1> QED
  BY <1>1, <1>2 DEF Apart, Grows, Historia
-----------------------------------------------------------------------------
LEMMA BalanceInit == Init => BalanceInv
BY CardsAssumption
DEF Init, BalanceInv, NothingLost, SaldoMatchesExtrato, AbsentIsEmpty, Apart,
    AllFresh, Fresh, CardsIn, NoCard, Idle, HoldsCard, HoldsPara, NeedsPara

LEMMA BalanceOutside ==
    ASSUME TypeInv, BalanceInv, Grows, Outside
    PROVE  NothingLost'
<1>1. ASSUME NEW c \in CardIds, NEW s \in Valores \cup {0}, Create(c, s)
      PROVE  NothingLost'
  <2>0. s \in Int
    BY CardsAssumption DEF Valores
  <2>1. /\ cards[c].status = "absent"
        /\ cards' = [cards EXCEPT ![c] = [saldo |-> s, status |-> "active"]]
        /\ inicial' = [inicial EXCEPT ![c] = s]
        /\ UNCHANGED <<extrato, req>>
    BY <1>1 DEF Create
  <2>2. SaldoMatchesExtrato' /\ AbsentIsEmpty'
    BY <2>0, <2>1
    DEF BalanceInv, NothingLost, SaldoMatchesExtrato, AbsentIsEmpty, Grows, TypeInv,
        TablesInv
  <2>3. ASSUME NEW p \in Requests PROVE Fresh(req[p], cards', sobrepostos')
    <3>1. \A d \in CardIds : cards[d].status # "absent" => cards'[d] = cards[d]
      BY <2>1 DEF TypeInv, TablesInv
    <3>2. req[p] \in SoundRequest /\ Fresh(req[p], cards, sobrepostos)
      BY DEF TypeInv, RequestsInv, BalanceInv, NothingLost, AllFresh
    <3> QED
      BY <3>1, <3>2, SoundCards, FreshKept DEF Grows
  <2> QED
    BY <2>1, <2>2, <2>3 DEF NothingLost, AllFresh
<1>2. CASE UNCHANGED <<cards, inicial, extrato, req>>
  <2>1. ASSUME NEW p \in Requests PROVE Fresh(req[p], cards', sobrepostos')
    <3>1. req[p] \in SoundRequest /\ Fresh(req[p], cards, sobrepostos)
      BY DEF TypeInv, RequestsInv, BalanceInv, NothingLost, AllFresh
    <3> QED
      BY <1>2, <3>1, FreshKept DEF Grows
  <2> QED
    BY <1>2, <2>1, BalanceFrame DEF BalanceInv, NothingLost, AllFresh
<1> QED
  BY <1>1, <1>2
  DEF Outside, CreateRechargeIntent, ResolveIntent, TtlPasses, Caixa, EncerraEvento

LEMMA BalanceStart ==
    ASSUME TypeInv, BalanceInv, Grows, NEW p \in Requests, Start(p)
    PROVE  NothingLost'
<1>1. ASSUME NEW r, Go(p, r), Fresh(r, cards', sobrepostos'), UNCHANGED tables
      PROVE  NothingLost'
  <2>1. AllFresh'
    BY <1>1, GoFresh DEF TypeInv, BalanceInv, NothingLost, tables
  <2> QED
    BY <1>1, <2>1, BalanceFrame DEF BalanceInv, NothingLost, tables
<1>2. ASSUME NEW c \in CardIds, NEW r, Go(p, r), UNCHANGED tables,
             r.card = c, r.lido = cards[c], cards[c].status # "absent",
             r.pc \notin NeedsPara, r.pc \notin HoldsPara,
             r.pc = "statusSave" => r.status # "absent"
      PROVE  NothingLost'
  BY <1>1, <1>2 DEF Fresh, tables
<1> USE DEF Idle, NeedsPara, HoldsPara
<1>3. ASSUME NEW c \in CardIds, NEW v \in Valores, NEW i \in IntentIds \cup {None},
             RechargeRead(p, c, v, i)
      PROVE  NothingLost'
  BY <1>2, <1>3 DEF RechargeRead
<1>4. ASSUME NEW c \in CardIds, NEW v \in Valores, ReserveRead(p, c, v)
      PROVE  NothingLost'
  BY <1>2, <1>4 DEF ReserveRead
<1>5. ASSUME NEW c \in CardIds, NEW n \in ReserveIds, ConfirmRead(p, c, n)
      PROVE  NothingLost'
  BY <1>2, <1>5 DEF ConfirmRead
<1>6. ASSUME NEW n \in ReserveIds, RollbackRead(p, n)
      PROVE  NothingLost'
  <2> DEFINE r == [Idle EXCEPT !.pc = "rollbackSave", !.card = reserves[n].card,
                               !.reserve = n]
  <2>1. Go(p, r) /\ UNCHANGED tables
    BY <1>6 DEF RollbackRead
  <2>2. Fresh(r, cards', sobrepostos')
    BY DEF Fresh, HoldsCard
  <2> QED
    BY <1>1, <2>1, <2>2
<1>7. ASSUME NEW c \in CardIds, NEW v \in Valores \cup {0}, RefundRead(p, c, v)
      PROVE  NothingLost'
  BY <1>2, <1>7 DEF RefundRead
<1>8. ASSUME NEW c \in CardIds, NEW st \in CardStatus \ {"absent"},
             StatusRead(p, c, st)
      PROVE  NothingLost'
  BY <1>2, <1>8 DEF StatusRead
<1>9. ASSUME NEW c \in CardIds, NEW d \in CardIds, TransferRead(p, c, d)
      PROVE  NothingLost'
  <2> DEFINE r == [Idle EXCEPT !.pc = "transferTo", !.card = c, !.para = d,
                               !.lido = cards[c]]
  <2>1. /\ Go(p, r) /\ UNCHANGED tables
        /\ cards[c].status # "absent"
    BY <1>9 DEF TransferRead
  <2>2. Fresh(r, cards', sobrepostos')
    BY <2>1 DEF Fresh, tables
  <2> QED
    BY <1>1, <2>1, <2>2
<1> HIDE DEF Idle, NeedsPara, HoldsPara
<1> QED
  BY <1>3, <1>4, <1>5, <1>6, <1>7, <1>8, <1>9 DEF Start

\* Steps of a request that leave the card rows alone and keep what they read.
LEMMA BalanceReads ==
    ASSUME TypeInv, BalanceInv, Grows, NEW p \in Requests, NEW r, Go(p, r),
           UNCHANGED <<cards, inicial, extrato>>,
           r.card = req[p].card, r.para = req[p].para,
           r.lido = req[p].lido, r.lidoPara = req[p].lidoPara,
           r.pc \in HoldsCard => req[p].pc \in HoldsCard,
           r.pc \in NeedsPara => req[p].pc \in NeedsPara,
           r.pc \in HoldsPara => req[p].pc \in HoldsPara,
           r.pc # "statusSave"
    PROVE  NothingLost'
<1>1. Fresh(req[p], cards, sobrepostos)
  BY DEF BalanceInv, NothingLost, AllFresh
<1>2. Fresh(r, cards', sobrepostos')
  BY <1>1 DEF Fresh, Grows
<1>3. AllFresh'
  BY <1>2, GoFresh DEF TypeInv, BalanceInv, NothingLost
<1> QED
  BY <1>3, BalanceFrame DEF BalanceInv, NothingLost

LEMMA BalanceEnds ==
    ASSUME TypeInv, BalanceInv, Grows, NEW p \in Requests, Finish(p),
           UNCHANGED <<cards, inicial, extrato>>
    PROVE  NothingLost'
<1>1. AllFresh'
  BY FinishFresh DEF TypeInv, BalanceInv, NothingLost
<1> QED
  BY <1>1, BalanceFrame DEF BalanceInv, NothingLost

\* The request's card row and its statement move by the same amount.
LEMMA BalanceMoves ==
    ASSUME TypeInv, BalanceInv, Grows, NEW c \in CardIds, NEW row \in CardRow,
           NEW d \in Int, cards' = [cards EXCEPT ![c] = row], row.status # "absent",
           c \notin sobrepostos => row.saldo = cards[c].saldo + d,
           extrato' = [extrato EXCEPT ![c] = @ + d], UNCHANGED inicial
    PROVE  SaldoMatchesExtrato' /\ AbsentIsEmpty'
BY DEF TypeInv, TablesInv, BalanceInv, NothingLost, SaldoMatchesExtrato,
       AbsentIsEmpty, CardRow, Grows

\* The row of a card when its request writes it is the row it read.
LEMMA StillFresh ==
    ASSUME TypeInv, BalanceInv, Grows, NEW p \in Requests, req[p].pc \in HoldsCard
    PROVE  /\ req[p].card \in CardIds /\ req[p].card \in CardsIn(req[p])
           /\ req[p].card \notin sobrepostos => req[p].lido = cards[req[p].card]
           /\ req[p].lido \in CardRow /\ req[p].lido.status # "absent"
           /\ req[p].lido.saldo \in Int
           /\ req[p].valor \in Int
<1>1. req[p] \in SoundRequest /\ Fresh(req[p], cards, sobrepostos)
  BY DEF TypeInv, RequestsInv, BalanceInv, NothingLost, AllFresh
<1> QED
  BY <1>1, SoundCards DEF Fresh, SoundRequest, Request, CardRow
-----------------------------------------------------------------------------
LEMMA BalanceContinueReads ==
    ASSUME TypeInv, BalanceInv, Grows, NEW p \in Requests,
           \/ RechargeCheckIntent(p)
           \/ \E i \in IntentIds, s \in CaixaIds \cup {None} : RechargeCash(p, i, s)
           \/ ReserveSum(p) \/ ConfirmReserve(p) \/ RefundSum(p) \/ TransferSum(p)
    PROVE  NothingLost'
<1> DEFINE o == req[p]
<1>0. o \in Request
  BY DEF TypeInv, RequestsInv, SoundRequest
<1> USE DEF HoldsCard, HoldsPara, NeedsPara, Pcs
<1> HIDE DEF o
<1>1. CASE RechargeCheckIntent(p)
  <2> DEFINE r == [o EXCEPT !.pc = "rechargeCommit"]
  <2>1. /\ Go(p, r) /\ UNCHANGED <<cards, inicial, extrato>>
        /\ o.pc = "rechargePayment"
    BY <1>1 DEF RechargeCheckIntent, tables, At, o
  <2>2. /\ r.pc = "rechargeCommit" /\ r.card = o.card /\ r.para = o.para
        /\ r.lido = o.lido /\ r.lidoPara = o.lidoPara
    BY <1>0 DEF Request
  <2> QED
    BY <2>1, <2>2, BalanceReads DEF o
<1>2. ASSUME NEW i \in IntentIds, NEW s \in CaixaIds \cup {None}, RechargeCash(p, i, s)
      PROVE  NothingLost'
  <2> DEFINE r == [o EXCEPT !.pc = "rechargeCommit", !.intent = i, !.caixa = s]
  <2>1. /\ Go(p, r) /\ UNCHANGED <<cards, inicial, extrato>>
        /\ o.pc = "rechargePayment"
    BY <1>2 DEF RechargeCash, At, o
  <2>2. /\ r.pc = "rechargeCommit" /\ r.card = o.card /\ r.para = o.para
        /\ r.lido = o.lido /\ r.lidoPara = o.lidoPara
    BY <1>0 DEF Request
  <2> QED
    BY <2>1, <2>2, BalanceReads DEF o
<1>3. CASE ReserveSum(p)
  <2> DEFINE r == [o EXCEPT !.pc = "reserveInsert"]
  <2>1. /\ Go(p, r) \/ Finish(p)
        /\ UNCHANGED <<cards, inicial, extrato>>
        /\ o.pc = "reserveSum"
    BY <1>3 DEF ReserveSum, At, o
  <2>2. /\ r.pc = "reserveInsert" /\ r.card = o.card /\ r.para = o.para
        /\ r.lido = o.lido /\ r.lidoPara = o.lidoPara
    BY <1>0 DEF Request
  <2> QED
    BY <2>1, <2>2, BalanceReads, BalanceEnds DEF o
<1>4. CASE ConfirmReserve(p)
  <2> DEFINE v == reserves[o.reserve].valor
             due == reserves[o.reserve].due
             r == [o EXCEPT !.pc = IF due THEN "confirmExpire" ELSE "confirmCommit",
                            !.valor = v]
  <2>1. /\ Go(p, r) /\ UNCHANGED <<cards, inicial, extrato>>
        /\ o.pc = "confirmReserve"
    BY <1>4 DEF ConfirmReserve, tables, At, o
  <2> HIDE DEF v, due
  <2>2. /\ r.pc \in {"confirmExpire", "confirmCommit"}
        /\ r.card = o.card /\ r.para = o.para
        /\ r.lido = o.lido /\ r.lidoPara = o.lidoPara
    BY <1>0 DEF Request
  <2> QED
    BY <2>1, <2>2, BalanceReads DEF o
<1>5. CASE RefundSum(p)
  <2> DEFINE v == Available(o.lido, o.card)
             r == [o EXCEPT !.pc = "refundCommit", !.valor = v]
  <2>1. /\ Go(p, r) \/ Finish(p)
        /\ UNCHANGED <<cards, inicial, extrato>>
        /\ o.pc = "refundSum"
    BY <1>5 DEF RefundSum, At, o
  <2> HIDE DEF v
  <2>2. /\ r.pc = "refundCommit" /\ r.card = o.card /\ r.para = o.para
        /\ r.lido = o.lido /\ r.lidoPara = o.lidoPara
    BY <1>0 DEF Request
  <2> QED
    BY <2>1, <2>2, BalanceReads, BalanceEnds DEF o
<1>6. CASE TransferSum(p)
  <2> DEFINE v == Available(o.lido, o.card)
             r == [o EXCEPT !.pc = "transferCommit", !.valor = v]
  <2>1. /\ Go(p, r) \/ Finish(p)
        /\ UNCHANGED <<cards, inicial, extrato>>
        /\ o.pc = "transferSum"
    BY <1>6 DEF TransferSum, At, o
  <2> HIDE DEF v
  <2>2. /\ r.pc = "transferCommit" /\ r.card = o.card /\ r.para = o.para
        /\ r.lido = o.lido /\ r.lidoPara = o.lidoPara
    BY <1>0 DEF Request
  <2> QED
    BY <2>1, <2>2, BalanceReads, BalanceEnds DEF o
<1> QED
  BY <1>1, <1>2, <1>3, <1>4, <1>5, <1>6

LEMMA BalanceContinueWrites ==
    ASSUME TypeInv, BalanceInv, Grows, NEW p \in Requests,
           \/ RechargeCommit(p) \/ ConfirmCommit(p) \/ RefundCommit(p)
           \/ StatusSave(p) \/ TransferTo(p) \/ TransferCommit(p)
    PROVE  NothingLost'
<1> DEFINE o == req[p]
           c == req[p].card
<1>0. /\ o.pc \in HoldsCard /\ o \in SoundRequest /\ Fresh(o, cards, sobrepostos)
      /\ c \in CardIds /\ c \in CardsIn(o)
      /\ c \notin sobrepostos => o.lido = cards[c]
      /\ o.lido \in CardRow /\ o.lido.status # "absent"
      /\ o.lido.saldo \in Int /\ o.valor \in Int
  <2>1. o.pc \in HoldsCard
    BY DEF RechargeCommit, ConfirmCommit, RefundCommit, StatusSave, TransferTo,
           TransferCommit, At, HoldsCard, Pcs
  <2> QED
    BY <2>1, StillFresh DEF TypeInv, RequestsInv, BalanceInv, NothingLost, AllFresh
<1>1. ASSUME NEW row, cards' = [cards EXCEPT ![c] = row], Finish(p)
      PROVE  AllFresh'
  BY <1>0, <1>1, FinishFresh DEF TypeInv, TablesInv, BalanceInv, NothingLost
<1> HIDE DEF o, c
<1>2. CASE RechargeCommit(p)
  <2> DEFINE row == Plus(o.lido, o.valor)
  <2>1. /\ cards' = [cards EXCEPT ![c] = row]
        /\ extrato' = [extrato EXCEPT ![c] = @ + o.valor]
        /\ UNCHANGED inicial
        /\ Finish(p) \/ Go(p, [o EXCEPT !.pc = "rechargeMovement"])
    BY <1>2 DEF RechargeCommit, o, c
  <2>2. /\ row \in CardRow /\ row.status # "absent"
        /\ c \notin sobrepostos => row.saldo = cards[c].saldo + o.valor
    BY <1>0 DEF Plus, CardRow
  <2> HIDE DEF row
  <2>3. SaldoMatchesExtrato' /\ AbsentIsEmpty'
    BY <1>0, <2>1, <2>2, BalanceMoves
  <2>4. CASE Go(p, [o EXCEPT !.pc = "rechargeMovement"])
    <3> DEFINE r == [o EXCEPT !.pc = "rechargeMovement"]
    <3>1. r.pc = "rechargeMovement" /\ r.card = o.card /\ r.para = o.para
      BY <1>0 DEF SoundRequest, Request
    <3>2. Fresh(r, cards', sobrepostos')
      BY <3>1 DEF Fresh, HoldsCard, NeedsPara, HoldsPara
    <3>3. \A d \in CardIds \ CardsIn(o) : cards'[d] = cards[d]
      BY <1>0, <2>1 DEF TypeInv, TablesInv
    <3> HIDE DEF r
    <3>4. AllFresh'
      BY <2>4, <3>2, <3>3, GoFresh DEF TypeInv, BalanceInv, NothingLost, o, r
    <3> QED
      BY <2>3, <3>4 DEF BalanceInv, NothingLost
  <2> QED
    BY <1>1, <2>1, <2>3, <2>4 DEF BalanceInv, NothingLost
<1>3. CASE ConfirmCommit(p) \/ RefundCommit(p)
  <2> DEFINE row == [o.lido EXCEPT !.saldo = o.lido.saldo - o.valor]
  <2>1. /\ cards' = [cards EXCEPT ![c] = row]
        /\ extrato' = [extrato EXCEPT ![c] = @ - o.valor]
        /\ UNCHANGED inicial
        /\ Finish(p)
    BY <1>3 DEF ConfirmCommit, RefundCommit, o, c
  <2>2. /\ row \in CardRow /\ row.status # "absent" /\ -o.valor \in Int
        /\ c \notin sobrepostos => row.saldo = cards[c].saldo + (-o.valor)
    BY <1>0 DEF CardRow
  <2> HIDE DEF row
  <2>3. extrato' = [extrato EXCEPT ![c] = @ + (-o.valor)]
    BY <1>0, <2>1 DEF TypeInv, TablesInv
  <2>4. SaldoMatchesExtrato' /\ AbsentIsEmpty'
    BY <1>0, <2>1, <2>2, <2>3, BalanceMoves
  <2> QED
    BY <1>1, <2>1, <2>4 DEF BalanceInv, NothingLost
<1>4. CASE StatusSave(p)
  <2> DEFINE row == [o.lido EXCEPT !.status = o.status]
  <2>1. /\ cards' = [cards EXCEPT ![c] = row]
        /\ UNCHANGED <<inicial, extrato>>
        /\ Finish(p)
        /\ o.pc = "statusSave"
    BY <1>4 DEF StatusSave, At, o, c
  <2>2. /\ c \notin sobrepostos => row.saldo = cards[c].saldo
        /\ row.status # "absent"
    BY <1>0, <2>1 DEF CardRow, Fresh
  <2> HIDE DEF row
  <2>3. SaldoMatchesExtrato' /\ AbsentIsEmpty'
    BY <1>0, <2>1, <2>2
    DEF TypeInv, TablesInv, BalanceInv, NothingLost, SaldoMatchesExtrato,
        AbsentIsEmpty, Grows
  <2> QED
    BY <1>1, <2>1, <2>3 DEF BalanceInv, NothingLost
<1>5. CASE TransferTo(p)
  <2> DEFINE d == o.para
             row == TargetRow(d)
             r == [o EXCEPT !.pc = "transferSum", !.lidoPara = row]
  <2>1. /\ cards' = [cards EXCEPT ![d] = row]
        /\ UNCHANGED <<inicial, extrato>>
        /\ Go(p, r)
        /\ o.pc = "transferTo"
    BY <1>5 DEF TransferTo, At, o
  <2>2. d \in CardIds /\ d \in CardsIn(o) /\ (c = d => c \in sobrepostos)
    BY <1>0, <2>1, SoundCards, CardsAssumption DEF NeedsPara, BalanceInv, Apart, c, o
  <2>3. /\ d \notin sobrepostos => row.saldo = cards[d].saldo
        /\ row.status # "absent"
    BY <2>2 DEF TargetRow, BalanceInv, NothingLost, AbsentIsEmpty
  <2> HIDE DEF row
  <2>4. SaldoMatchesExtrato' /\ AbsentIsEmpty'
    BY <2>1, <2>2, <2>3
    DEF TypeInv, TablesInv, BalanceInv, NothingLost, SaldoMatchesExtrato,
        AbsentIsEmpty, Grows
  <2>5. /\ r.pc = "transferSum" /\ r.card = c /\ r.para = d
        /\ r.lido = o.lido /\ r.lidoPara = row
    BY <1>0 DEF SoundRequest, Request, c, o
  <2> HIDE DEF r
  <2>6. cards'[d] = row /\ (c # d => cards'[c] = cards[c])
    BY <1>0, <2>1, <2>2 DEF TypeInv, TablesInv
  <2>7. Fresh(r, cards', sobrepostos')
    BY <1>0, <2>2, <2>3, <2>5, <2>6 DEF Fresh, Grows, HoldsCard
  <2>8. \A e \in CardIds \ CardsIn(o) : cards'[e] = cards[e]
    BY <2>1, <2>2 DEF TypeInv, TablesInv
  <2>9. AllFresh'
    BY <2>1, <2>7, <2>8, GoFresh DEF TypeInv, BalanceInv, NothingLost, o
  <2> QED
    BY <2>4, <2>9 DEF BalanceInv, NothingLost
<1>6. CASE TransferCommit(p)
  <2> DEFINE d == o.para
             from == [saldo |-> o.lido.saldo - o.valor, status |-> "blocked"]
             to == Plus(o.lidoPara, o.valor)
  <2>1. /\ cards' = [cards EXCEPT ![c] = from, ![d] = to]
        /\ extrato' = [extrato EXCEPT ![c] = @ - o.valor, ![d] = @ + o.valor]
        /\ UNCHANGED inicial
        /\ Finish(p)
        /\ o.pc = "transferCommit"
    BY <1>6 DEF TransferCommit, At, o, c
  <2>2. /\ d \in CardIds /\ d \in CardsIn(o) /\ (c = d => c \in sobrepostos)
        /\ o.lidoPara \in CardRow /\ o.lidoPara.status # "absent"
        /\ d \notin sobrepostos => o.lidoPara = cards[d]
    BY <1>0, <2>1, SoundCards, CardsAssumption
    DEF NeedsPara, HoldsPara, Fresh, SoundRequest, Request, BalanceInv, Apart, c, o
  <2>3. cards[d] \in CardRow
    BY <2>2 DEF TypeInv, TablesInv
  <2>4. /\ from.status # "absent" /\ to.status # "absent"
        /\ c \notin sobrepostos => from.saldo = cards[c].saldo - o.valor
        /\ d \notin sobrepostos => to.saldo = cards[d].saldo + o.valor
    BY <1>0, <2>2, <2>3 DEF Plus, CardRow
  <2> HIDE DEF from, to, d
  <2>5. /\ c # d => /\ cards'[c] = from /\ cards'[d] = to
                    /\ extrato'[c] = extrato[c] - o.valor
                    /\ extrato'[d] = extrato[d] + o.valor
        /\ \A e \in CardIds \ {c, d} : cards'[e] = cards[e]
        /\ \A e \in CardIds \ {c, d} : extrato'[e] = extrato[e]
    BY <1>0, <2>1, <2>2 DEF TypeInv, TablesInv
  <2>6. \A e \in CardIds :
           extrato[e] \in Int /\ inicial[e] \in Int /\ cards[e].saldo \in Int
    BY DEF TypeInv, TablesInv, CardRow
  <2>7. SaldoMatchesExtrato'
    <3> SUFFICES ASSUME NEW e \in CardIds \ sobrepostos
                 PROVE  cards'[e].saldo = inicial[e] + extrato'[e]
      BY <2>1 DEF SaldoMatchesExtrato, Grows
    <3>1. cards[e].saldo = inicial[e] + extrato[e]
      BY DEF BalanceInv, NothingLost, SaldoMatchesExtrato
    <3>2. CASE e = c
      BY <1>0, <2>2, <2>4, <2>5, <2>6, <3>1, <3>2
    <3>3. CASE e = d
      BY <1>0, <2>2, <2>4, <2>5, <2>6, <3>1, <3>3
    <3>4. CASE e \notin {c, d}
      BY <2>5, <3>1, <3>4
    <3> QED
      BY <3>2, <3>3, <3>4
  <2>8. AbsentIsEmpty'
    BY <2>2, <2>4, <2>5 DEF BalanceInv, NothingLost, AbsentIsEmpty, Grows
  <2>9. AllFresh'
    BY <1>0, <2>1, <2>2, <2>5, FinishFresh DEF TypeInv, BalanceInv, NothingLost, o
  <2> QED
    BY <2>7, <2>8, <2>9 DEF BalanceInv, NothingLost
<1> QED
  BY <1>2, <1>3, <1>4, <1>5, <1>6

LEMMA BalanceStep ==
    ASSUME TypeInv, TypeInv', BalanceInv, [Next]_vars
    PROVE  BalanceInv'
<1>1. CASE UNCHANGED vars
  BY <1>1 DEF vars, tables, BalanceInv, NothingLost, SaldoMatchesExtrato,
     AbsentIsEmpty, Apart, AllFresh
<1>2. CASE Next
  <2>1. Apart' /\ Grows
    BY <1>2, HistoryApart DEF Next
  <2>2. ASSUME NEW p \in Requests,
               \/ RechargeMovement(p) \/ ConfirmExpire(p) \/ RollbackSave(p)
               \/ \E n \in ReserveIds : ReserveInsert(p, n)
               \/ Abort(p)
        PROVE  NothingLost'
    BY <2>1, <2>2, BalanceEnds
    DEF RechargeMovement, ConfirmExpire, RollbackSave, ReserveInsert, Abort, tables
  <2>3. NothingLost'
    BY <1>2, <2>1, <2>2, BalanceOutside, BalanceStart, BalanceContinueReads,
       BalanceContinueWrites DEF Next, Continue
  <2> QED
    BY <2>1, <2>3 DEF BalanceInv
<1> QED
  BY <1>1, <1>2

\* No write of the balance of a card on which requests never overlapped, and which was
\* never transferred to itself, is lost: the balance is what the card was created with
\* plus its statement, wherever requests stop and whatever overlaps on other cards.
THEOREM BalanceIsKept == Spec => []SaldoMatchesExtrato
<1>1. TypeInv /\ TypeInv' /\ BalanceInv /\ [Next]_vars => BalanceInv'
  BY BalanceStep
<1>2. BalanceInv => SaldoMatchesExtrato
  BY DEF BalanceInv, NothingLost
<1> QED
  BY TypeInit, TypeStep, BalanceInit, <1>1, <1>2, PTL DEF Spec
=============================================================================
