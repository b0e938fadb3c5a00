----------------------------- MODULE CashProofs -----------------------------
(***************************************************************************)
(* Theorems about Cash, for every number of sessions, terminals and        *)
(* requests, for every amount and under every interleaving.                *)
(***************************************************************************)
EXTENDS Cash, TLAPS

USE DEF Terminais

(* A request in flight past its first read works on a session; what a movement
   will save is backed by the sums of movements, e in and s out: before its row
   is inserted the totals it read, after it those and the movement's amount. *)

OnSession == {"closeSave", "moveInsert", "moveSave"}

RowBacked(row, e, s) == row.totalEntradas <= e /\ row.totalSaidas <= s

RequestBacked(r, e, s) ==
    r.pc \in OnSession =>
        /\ r.caixa \in CaixaIds
        /\ r.pc # "moveSave" => RowBacked(r.lido, e[r.caixa], s[r.caixa])
        /\ r.pc = "moveSave" =>
              RowBacked(Somada(r.lido, r.entra, r.valor), e[r.caixa], s[r.caixa])

RequestsBacked == \A p \in Requests : RequestBacked(req[p], entradas, saidas)

CashInv == DataOK /\ TotalsBacked /\ RequestsBacked

\* A movement leaves a session row whose totals have grown by its amount.
LEMMA SomadaType ==
    ASSUME NEW row \in Sessao, NEW entra \in BOOLEAN, NEW v \in Nat
    PROVE  /\ Somada(row, entra, v) \in Sessao
           /\ Somada(row, entra, v).totalEntradas =
                 (IF entra THEN row.totalEntradas + v ELSE row.totalEntradas)
           /\ Somada(row, entra, v).totalSaidas =
                 (IF entra THEN row.totalSaidas ELSE row.totalSaidas + v)
BY DEF Somada, Sessao

LEMMA NewSessionType ==
    ASSUME NEW d \in Terminais, NEW f \in Nat
    PROVE  LET row == [NoSessao EXCEPT !.pdv = d, !.status = "open", !.fundo = f]
           IN  row \in Sessao /\ row.totalEntradas = 0 /\ row.totalSaidas = 0
<1>1. NoSessao \in Sessao /\ NoSessao.totalEntradas = 0 /\ NoSessao.totalSaidas = 0
  BY DEF NoSessao, Sessao
<1> QED
  BY <1>1 DEF Sessao

LEMMA IdleType == Idle \in Request /\ Idle.pc \notin OnSession
BY DEF Idle, Request, Pcs, Sessao, NoSessao, OnSession

\* Sums of movements only grow, so what was backed stays backed.
SumsGrow ==
    \A s \in CaixaIds : entradas[s] <= entradas'[s] /\ saidas[s] <= saidas'[s]

LEMMA StaysBacked ==
    ASSUME DataOK, DataOK', SumsGrow, NEW r \in Request,
           RequestBacked(r, entradas, saidas)
    PROVE  RequestBacked(r, entradas', saidas')
<1> SUFFICES ASSUME r.pc \in OnSession
             PROVE  RequestBacked(r, entradas', saidas')
  BY DEF RequestBacked
<1>1. /\ r.caixa \in CaixaIds
      /\ entradas[r.caixa] <= entradas'[r.caixa]
      /\ saidas[r.caixa] <= saidas'[r.caixa]
      /\ entradas[r.caixa] \in Nat /\ saidas[r.caixa] \in Nat
      /\ entradas'[r.caixa] \in Nat /\ saidas'[r.caixa] \in Nat
  BY DEF RequestBacked, SumsGrow, DataOK
<1>2. r.lido \in Sessao /\ Somada(r.lido, r.entra, r.valor) \in Sessao
  BY SomadaType DEF Request
<1>3. /\ r.lido.totalEntradas \in Nat /\ r.lido.totalSaidas \in Nat
      /\ Somada(r.lido, r.entra, r.valor).totalEntradas \in Nat
      /\ Somada(r.lido, r.entra, r.valor).totalSaidas \in Nat
  BY <1>2 DEF Sessao
<1> QED
  BY <1>1, <1>3 DEF RequestBacked, RowBacked

\* What a step that moves slot p to r must show of r.
LEMMA GoBacked ==
    ASSUME DataOK, DataOK', RequestsBacked, SumsGrow, NEW p \in Requests, NEW r,
           Go(p, r), RequestBacked(r, entradas', saidas')
    PROVE  RequestsBacked'
<1> SUFFICES ASSUME NEW q \in Requests
             PROVE  RequestBacked(req'[q], entradas', saidas')
  BY DEF RequestsBacked
<1>1. CASE q = p
  BY <1>1 DEF Go, DataOK
<1>2. CASE q # p
  <2>1. req'[q] = req[q] /\ req[q] \in Request
    BY <1>2 DEF Go, DataOK
  <2>2. RequestBacked(req[q], entradas, saidas)
    BY DEF RequestsBacked
  <2> QED
    BY <2>1, <2>2, StaysBacked
<1> QED
  BY <1>1, <1>2

LEMMA FinishBacked ==
    ASSUME DataOK, DataOK', RequestsBacked, SumsGrow, NEW p \in Requests, Finish(p)
    PROVE  RequestsBacked'
BY IdleType, GoBacked DEF Finish, RequestBacked

\* The slot of a request takes a value of the right type.
LEMMA GoType ==
    ASSUME DataOK, NEW p \in Requests, NEW r \in Request, Go(p, r)
    PROVE  req' \in [Requests -> Request]
BY DEF DataOK, Go

LEMMA FinishType ==
    ASSUME DataOK, NEW p \in Requests, Finish(p)
    PROVE  req' \in [Requests -> Request]
BY IdleType, GoType DEF Finish

\* Steps that only read leave what is backed alone.
LEMMA SumsKept == ASSUME DataOK, UNCHANGED <<entradas, saidas>> PROVE SumsGrow
BY DEF DataOK, SumsGrow
-----------------------------------------------------------------------------
LEMMA CashInit == Init => CashInv
<1> SUFFICES ASSUME Init PROVE CashInv
  OBVIOUS
<1>1. DataOK
  BY IdleType DEF Init, DataOK, Sessao, NoSessao
<1>2. TotalsBacked
  BY DEF Init, TotalsBacked, NoSessao
<1>3. RequestsBacked
  BY IdleType DEF Init, RequestsBacked, RequestBacked
<1> QED
  BY <1>1, <1>2, <1>3 DEF CashInv

LEMMA CashStep == CashInv /\ [Next]_vars => CashInv'
<1> SUFFICES ASSUME CashInv, [Next]_vars PROVE CashInv'
  OBVIOUS
<1> USE DEF CashInv
<1>0. \A p \in Requests :
         req[p] \in Request /\ RequestBacked(req[p], entradas, saidas)
  BY DEF DataOK, RequestsBacked
<1>1. CASE EncerraEvento
  <2>1. DataOK'
    BY <1>1 DEF EncerraEvento, DataOK
  <2> QED
    BY <1>1, <2>1 DEF EncerraEvento, TotalsBacked, RequestsBacked
<1>2. ASSUME NEW p \in Requests, NEW d \in Terminais, NEW f \in 0..MaxValor,
             OpenFind(p, d, f)
      PROVE  CashInv'
  <2> DEFINE r == [Idle EXCEPT !.pc = "openEvent", !.pdv = d, !.valor = f]
  <2>0. f \in Nat
    BY CashAssumption
  <2>1. r \in Request /\ r.pc \notin OnSession
    BY <2>0, IdleType DEF Request, Pcs, OnSession, Idle
  <2>2. Go(p, r) /\ UNCHANGED tables
    BY <1>2 DEF OpenFind
  <2> HIDE DEF r
  <2>3. DataOK'
    BY <2>1, <2>2, GoType DEF DataOK, tables
  <2>4. RequestsBacked'
    BY <2>1, <2>2, <2>3, SumsKept, GoBacked DEF RequestBacked, tables
  <2> QED
    BY <2>2, <2>3, <2>4 DEF TotalsBacked, tables
<1>3. ASSUME NEW p \in Requests, NEW s \in CaixaIds, NEW contado \in 0..MaxValor,
             CloseRead(p, s, contado)
      PROVE  CashInv'
  <2> DEFINE row == [sessoes[s] EXCEPT !.status = "closed", !.contado = contado,
                        !.diferenca = contado - Esperado(sessoes[s])]
             r == [Idle EXCEPT !.pc = "closeSave", !.caixa = s,
                               !.pdv = sessoes[s].pdv, !.lido = row]
  <2>1. sessoes[s] \in Sessao /\ contado \in Nat
    BY CashAssumption DEF DataOK
  <2>2. /\ row \in Sessao
        /\ row.totalEntradas = sessoes[s].totalEntradas
        /\ row.totalSaidas = sessoes[s].totalSaidas
    <3>1. contado - Esperado(sessoes[s]) \in Int
      BY <2>1 DEF Sessao, Esperado
    <3> QED
      BY <2>1, <3>1 DEF Sessao
  <2> HIDE DEF row
  <2>3. r \in Request /\ r.pc = "closeSave" /\ r.caixa = s /\ r.lido = row
    BY <2>1, <2>2, IdleType DEF Request, Pcs, Sessao
  <2>4. Go(p, r) /\ UNCHANGED tables
    BY <1>3 DEF CloseRead, row
  <2> HIDE DEF r
  <2>5. DataOK'
    BY <2>3, <2>4, GoType DEF DataOK, tables
  <2>6. RequestBacked(r, entradas', saidas')
    BY <2>2, <2>3, <2>4 DEF RequestBacked, RowBacked, TotalsBacked, tables
  <2>7. RequestsBacked'
    BY <2>4, <2>5, <2>6, SumsKept, GoBacked DEF tables
  <2> QED
    BY <2>4, <2>5, <2>7 DEF TotalsBacked, tables
<1>4. ASSUME NEW p \in Requests, NEW s \in CaixaIds, NEW entra \in BOOLEAN,
             NEW v \in Valores, MoveRead(p, s, entra, v)
      PROVE  CashInv'
  <2> DEFINE r == [Idle EXCEPT !.pc = "moveInsert", !.caixa = s,
                     !.pdv = sessoes[s].pdv, !.valor = v, !.entra = entra,
                     !.lido = sessoes[s]]
  <2>1. sessoes[s] \in Sessao /\ v \in Nat
    BY CashAssumption DEF DataOK, Valores
  <2>2. r \in Request /\ r.pc = "moveInsert" /\ r.caixa = s /\ r.lido = sessoes[s]
    BY <2>1, IdleType DEF Request, Pcs, Sessao
  <2>3. Go(p, r) /\ UNCHANGED tables
    BY <1>4 DEF MoveRead
  <2> HIDE DEF r
  <2>4. DataOK'
    BY <2>2, <2>3, GoType DEF DataOK, tables
  <2>5. RequestBacked(r, entradas', saidas')
    BY <2>2, <2>3 DEF RequestBacked, RowBacked, TotalsBacked, tables
  <2>6. RequestsBacked'
    BY <2>3, <2>4, <2>5, SumsKept, GoBacked DEF tables
  <2> QED
    BY <2>3, <2>4, <2>6 DEF TotalsBacked, tables
<1>5. ASSUME NEW p \in Requests, OpenEvent(p)
      PROVE  CashInv'
  <2> DEFINE r == [req[p] EXCEPT !.pc = "openInsert"]
  <2>1. r \in Request /\ r.pc \notin OnSession
    BY <1>0 DEF Request, Pcs, OnSession
  <2>2. Go(p, r) /\ UNCHANGED tables
    BY <1>5 DEF OpenEvent
  <2> HIDE DEF r
  <2>3. DataOK'
    BY <2>1, <2>2, GoType DEF DataOK, tables
  <2>4. RequestsBacked'
    BY <2>1, <2>2, <2>3, SumsKept, GoBacked DEF RequestBacked, tables
  <2> QED
    BY <2>2, <2>3, <2>4 DEF TotalsBacked, tables
<1>6. ASSUME NEW p \in Requests, NEW s \in CaixaIds, OpenInsert(p, s)
      PROVE  CashInv'
  <2> DEFINE row == [NoSessao EXCEPT !.pdv = req[p].pdv, !.status = "open",
                                     !.fundo = req[p].valor]
  <2>1. row \in Sessao /\ row.totalEntradas = 0 /\ row.totalSaidas = 0
    <3>1. req[p].pdv \in Terminais /\ req[p].valor \in Nat
      BY <1>0 DEF Request
    <3> QED
      BY <3>1, NewSessionType
  <2>2. /\ sessoes' = [sessoes EXCEPT ![s] = row]
        /\ Finish(p)
        /\ UNCHANGED <<entradas, saidas, evento>>
    BY <1>6 DEF OpenInsert
  <2> HIDE DEF row
  <2>3. DataOK'
    BY <2>1, <2>2, FinishType DEF DataOK
  <2>4. RequestsBacked'
    BY <2>2, <2>3, SumsKept, FinishBacked
  <2>5. TotalsBacked'
    BY <2>1, <2>2 DEF DataOK, TotalsBacked
  <2> QED
    BY <2>3, <2>4, <2>5
<1>7. ASSUME NEW p \in Requests, CloseSave(p)
      PROVE  CashInv'
  <2> DEFINE r == req[p]
  <2>1. /\ r.caixa \in CaixaIds /\ r.lido \in Sessao
        /\ RowBacked(r.lido, entradas[r.caixa], saidas[r.caixa])
    BY <1>0, <1>7 DEF CloseSave, At, RequestBacked, OnSession, Request
  <2>2. /\ sessoes' = [sessoes EXCEPT ![r.caixa] = r.lido]
        /\ Finish(p)
        /\ UNCHANGED <<entradas, saidas, evento>>
    BY <1>7 DEF CloseSave
  <2> HIDE DEF r
  <2>3. DataOK'
    BY <2>1, <2>2, FinishType DEF DataOK
  <2>4. RequestsBacked'
    BY <2>2, <2>3, SumsKept, FinishBacked
  <2>5. TotalsBacked'
    BY <2>1, <2>2 DEF DataOK, TotalsBacked, RowBacked
  <2> QED
    BY <2>3, <2>4, <2>5
<1>8. ASSUME NEW p \in Requests, MoveInsert(p)
      PROVE  CashInv'
  <2> DEFINE o == req[p]
             r == [o EXCEPT !.pc = "moveSave"]
  <2>1. /\ o \in Request /\ o.caixa \in CaixaIds
        /\ RowBacked(o.lido, entradas[o.caixa], saidas[o.caixa])
    BY <1>0, <1>8 DEF MoveInsert, At, RequestBacked, OnSession
  <2>2. /\ entradas' = [entradas EXCEPT ![o.caixa] =
                            IF o.entra THEN @ + o.valor ELSE @]
        /\ saidas' = [saidas EXCEPT ![o.caixa] =
                            IF o.entra THEN @ ELSE @ + o.valor]
        /\ Go(p, r)
        /\ UNCHANGED <<sessoes, evento>>
    BY <1>8 DEF MoveInsert
  <2> HIDE DEF o
  <2>3. /\ o.caixa \in CaixaIds /\ o.entra \in BOOLEAN /\ o.valor \in Nat
        /\ o.lido \in Sessao
    BY <2>1 DEF Request
  <2>4. /\ r \in Request /\ r.pc = "moveSave" /\ r.caixa = o.caixa
        /\ r.lido = o.lido /\ r.entra = o.entra /\ r.valor = o.valor
    BY <2>1 DEF Request, Pcs
  <2> HIDE DEF r
  <2>5. DataOK'
    <3>1. entradas' \in [CaixaIds -> Nat] /\ saidas' \in [CaixaIds -> Nat]
      BY <2>2, <2>3 DEF DataOK
    <3> QED
      BY <2>2, <2>4, <3>1, GoType DEF DataOK
  <2>6. SumsGrow
    BY <2>2, <2>3 DEF DataOK, SumsGrow
  <2>7. RequestBacked(r, entradas', saidas')
    <3>1. /\ entradas[o.caixa] \in Nat /\ saidas[o.caixa] \in Nat
          /\ o.lido.totalEntradas \in Nat /\ o.lido.totalSaidas \in Nat
      BY <2>3 DEF DataOK, Sessao
    <3>2. /\ entradas'[o.caixa] =
                (IF o.entra THEN entradas[o.caixa] + o.valor ELSE entradas[o.caixa])
          /\ saidas'[o.caixa] =
                (IF o.entra THEN saidas[o.caixa] ELSE saidas[o.caixa] + o.valor)
      BY <2>2, <2>3 DEF DataOK
    <3>3. RowBacked(Somada(o.lido, o.entra, o.valor),
                    entradas'[o.caixa], saidas'[o.caixa])
      <4>1. /\ Somada(o.lido, o.entra, o.valor).totalEntradas =
                  (IF o.entra THEN o.lido.totalEntradas + o.valor
                              ELSE o.lido.totalEntradas)
            /\ Somada(o.lido, o.entra, o.valor).totalSaidas =
                  (IF o.entra THEN o.lido.totalSaidas
                              ELSE o.lido.totalSaidas + o.valor)
        BY <2>3, SomadaType
      <4> QED
        BY <2>1, <2>3, <3>1, <3>2, <4>1 DEF RowBacked
    <3> QED
      BY <2>3, <2>4, <3>3 DEF RequestBacked
  <2>8. RequestsBacked'
    BY <2>2, <2>5, <2>6, <2>7, GoBacked
  <2>9. TotalsBacked'
    BY <2>2, <2>5, <2>6 DEF TotalsBacked, SumsGrow, DataOK, Sessao
  <2> QED
    BY <2>5, <2>8, <2>9
<1>9. ASSUME NEW p \in Requests, MoveSave(p)
      PROVE  CashInv'
  <2> DEFINE r == req[p]
             row == Somada(r.lido, r.entra, r.valor)
  <2>1. /\ r \in Request /\ r.caixa \in CaixaIds
        /\ RowBacked(row, entradas[r.caixa], saidas[r.caixa])
    BY <1>0, <1>9 DEF MoveSave, At, RequestBacked, OnSession
  <2>2. /\ sessoes' = [sessoes EXCEPT ![r.caixa] = row]
        /\ Finish(p)
        /\ UNCHANGED <<entradas, saidas, evento>>
    BY <1>9 DEF MoveSave
  <2>3. row \in Sessao
    BY <2>1, SomadaType DEF Request
  <2> HIDE DEF r, row
  <2>4. DataOK'
    BY <2>1, <2>2, <2>3, FinishType DEF DataOK
  <2>5. RequestsBacked'
    BY <2>2, <2>4, SumsKept, FinishBacked
  <2>6. TotalsBacked'
    BY <2>1, <2>2 DEF DataOK, TotalsBacked, RowBacked
  <2> QED
    BY <2>4, <2>5, <2>6
<1>10. ASSUME NEW p \in Requests, Abort(p)
       PROVE  CashInv'
  <2>1. DataOK'
    BY <1>10, FinishType DEF Abort, DataOK, tables
  <2>2. RequestsBacked'
    BY <1>10, <2>1, SumsKept, FinishBacked DEF Abort, tables
  <2> QED
    BY <1>10, <2>1, <2>2 DEF Abort, TotalsBacked, tables
<1>11. CASE UNCHANGED vars
  BY <1>11 DEF vars, tables, DataOK, TotalsBacked, RequestsBacked
<1> QED
  BY <1>1, <1>2, <1>3, <1>4, <1>5, <1>6, <1>7, <1>8, <1>9, <1>10, <1>11
  DEF Next, Step, Start, Continue

\* The histories hold terminals: those that requests in flight work on.
LEMMA HistoryStep ==
    ASSUME DataOK, HistoryOK, [Next]_vars
    PROVE  HistoryOK'
<1>1. CASE UNCHANGED vars
  BY <1>1 DEF vars, HistoryOK
<1>2. CASE Next
  <2>1. sobrepostos' \in SUBSET Terminais
    BY <1>2 DEF Next, Historia, Cruzados, HistoryOK
  <2>2. interrompidos' \in SUBSET Terminais
    <3>1. ASSUME NEW p \in Requests, Abort(p)
          PROVE  interrompidos' \in SUBSET Terminais
      <4>1. req[p].pdv \in Terminais
        BY DEF DataOK, Request
      <4> QED
        BY <3>1, <4>1 DEF Abort, HistoryOK
    <3> QED
      BY <1>2, <3>1 DEF Next, Step, HistoryOK
  <2> QED
    BY <2>1, <2>2 DEF HistoryOK
<1> QED
  BY <1>1, <1>2

LEMMA HistoryInit == Init => HistoryOK
BY DEF Init, HistoryOK

\* Every session row, sum of movements and request in flight keeps its type.
THEOREM TypeCorrect == Spec => []TypeOK
<1>1. CashInv => DataOK
  BY DEF CashInv
<1>2. DataOK /\ HistoryOK => TypeOK
  BY DEF TypeOK
<1>3. DataOK /\ HistoryOK /\ [Next]_vars => HistoryOK'
  BY HistoryStep
<1> QED
  BY CashInit, CashStep, HistoryInit, <1>1, <1>2, <1>3, PTL DEF Spec

\* However requests on a session interleave and wherever they stop, its totals
\* never count cash that no movement row accounts for.
THEOREM TotalsAreBacked == Spec => []TotalsBacked
<1>1. CashInv => TotalsBacked
  BY DEF CashInv
<1> QED
  BY CashInit, CashStep, <1>1, PTL DEF Spec
-----------------------------------------------------------------------------
(* Terminals on which requests never overlapped.  Two requests that name one
   terminal put it into sobrepostos, so what a request on another terminal read
   of its session is still there when it saves; a movement whose row is inserted
   and whose session is not yet saved is on its way until the save, or the
   terminal is in interrompidos. *)

CashApart ==
    \A p, q \in Requests :
        /\ p # q
        /\ req[p].pc # "idle" /\ req[q].pc # "idle"
        /\ req[p].pdv = req[q].pdv
        => req[p].pdv \in sobrepostos

\* A request on a session names it, on its terminal, whatever overlaps.
Named(r, ses) ==
    r.pc \in OnSession =>
        /\ r.caixa \in CaixaIds
        /\ ses[r.caixa].status # "none" /\ ses[r.caixa].pdv = r.pdv
        /\ r.lido.status # "none" /\ r.lido.pdv = r.pdv

\* What it read is what the table says.
Current(r, ses) ==
    /\ r.pc \in {"openEvent", "openInsert"} =>
          \A s \in CaixaIds : ses[s].status = "open" => ses[s].pdv # r.pdv
    /\ r.pc \in OnSession => ses[r.caixa].status = "open"
    /\ r.pc \in {"moveInsert", "moveSave"} => r.lido = ses[r.caixa]
    /\ r.pc = "closeSave" =>
          /\ r.lido.status = "closed"
          /\ r.lido.totalEntradas = ses[r.caixa].totalEntradas
          /\ r.lido.totalSaidas = ses[r.caixa].totalSaidas
          /\ r.lido.diferenca = r.lido.contado - Esperado(r.lido)

\* The movement it is about to count is the one that the sums are ahead by.
Counted(r, e, sa) ==
    r.pc = "moveSave" =>
        /\ e[r.caixa] = Somada(r.lido, r.entra, r.valor).totalEntradas
        /\ sa[r.caixa] = Somada(r.lido, r.entra, r.valor).totalSaidas

Knows(r, ses, e, sa, sob, int) ==
    /\ Named(r, ses)
    /\ r.pc # "idle" /\ r.pdv \notin sob =>
          Current(r, ses) /\ (r.pdv \notin int => Counted(r, e, sa))

AllKnow ==
    \A p \in Requests : Knows(req[p], sessoes, entradas, saidas, sobrepostos, interrompidos)

Saving(s) == \E p \in Requests : req[p].pc = "moveSave" /\ req[p].caixa = s

SumsMatch(s) == sessoes[s].totalEntradas = entradas[s] /\ sessoes[s].totalSaidas = saidas[s]

RowCounts(s) ==
    /\ sessoes[s].status = "none" => entradas[s] = 0 /\ saidas[s] = 0
    /\ sessoes[s].status # "none" /\ sessoes[s].pdv \notin sobrepostos =>
          /\ sessoes[s].status = "closed" =>
                sessoes[s].diferenca = sessoes[s].contado - Esperado(sessoes[s])
          /\ sessoes[s].pdv \notin interrompidos /\ ~Saving(s) => SumsMatch(s)

RowsCount == \A s \in CaixaIds : RowCounts(s)

DrawerInv == AllKnow /\ RowsCount /\ OneOpenPerPdv

Grow == sobrepostos \subseteq sobrepostos' /\ interrompidos \subseteq interrompidos'

\* A step of p writes sessions and sums of its own terminal alone.
OwnSession(p) ==
    \A s \in CaixaIds :
        \/ /\ sessoes'[s] = sessoes[s]
           /\ entradas'[s] = entradas[s] /\ saidas'[s] = saidas[s]
        \/ /\ req[p].pc # "idle"
           /\ sessoes'[s].status # "none" /\ sessoes'[s].pdv = req[p].pdv
           /\ sessoes[s].status = "none" \/ sessoes[s].pdv = req[p].pdv

LEMMA OthersKnow ==
    ASSUME CashApart, AllKnow, Grow, NEW p \in Requests, OwnSession(p),
           NEW q \in Requests, q # p
    PROVE  Knows(req[q], sessoes', entradas', saidas', sobrepostos', interrompidos')
<1>1. Knows(req[q], sessoes, entradas, saidas, sobrepostos, interrompidos)
  BY DEF AllKnow
<1>2. Named(req[q], sessoes')
  BY <1>1 DEF Knows, Named, OwnSession
<1>3. ASSUME req[q].pc # "idle", req[q].pdv \notin sobrepostos'
      PROVE  /\ Current(req[q], sessoes')
             /\ req[q].pdv \notin interrompidos' => Counted(req[q], entradas', saidas')
  <2>1. req[p].pc # "idle" => req[q].pdv # req[p].pdv
    BY <1>3 DEF CashApart, Grow
  <2>2. /\ Current(req[q], sessoes)
        /\ req[q].pdv \notin interrompidos' => Counted(req[q], entradas, saidas)
    BY <1>1, <1>3 DEF Knows, Grow
  <2>3. req[q].pc \in OnSession =>
          /\ sessoes'[req[q].caixa] = sessoes[req[q].caixa]
          /\ entradas'[req[q].caixa] = entradas[req[q].caixa]
          /\ saidas'[req[q].caixa] = saidas[req[q].caixa]
    BY <1>1, <2>1 DEF Knows, Named, OwnSession
  <2>4. req[q].pc \in {"openEvent", "openInsert"} =>
          \A s \in CaixaIds : sessoes'[s].status = "open" => sessoes'[s].pdv # req[q].pdv
    BY <2>1, <2>2 DEF Current, OwnSession
  <2> QED BY <2>2, <2>3, <2>4 DEF Current, Counted, OnSession
<1> QED BY <1>2, <1>3 DEF Knows

\* What a step of p must show of its slot.
LEMMA GoKnows ==
    ASSUME DataOK, CashApart, AllKnow, Grow, NEW p \in Requests, NEW r, Go(p, r),
           OwnSession(p),
           Knows(r, sessoes', entradas', saidas', sobrepostos', interrompidos')
    PROVE  AllKnow'
<1>1. req'[p] = r /\ \A q \in Requests \ {p} : req'[q] = req[q]
  BY DEF Go, DataOK
<1> QED BY <1>1, OthersKnow DEF AllKnow

LEMMA FinishKnows ==
    ASSUME DataOK, CashApart, AllKnow, Grow, NEW p \in Requests, Finish(p), OwnSession(p)
    PROVE  AllKnow'
<1>1. Knows(Idle, sessoes', entradas', saidas', sobrepostos', interrompidos')
  BY DEF Knows, Named, Idle, OnSession
<1> QED BY <1>1, GoKnows DEF Finish

\* A step that writes no row and ends no save.
LEMMA RowsStay ==
    ASSUME RowsCount, OneOpenPerPdv, Grow, UNCHANGED <<sessoes, entradas, saidas>>,
           \A s \in CaixaIds : Saving(s) =>
              Saving(s)' \/ sessoes[s].pdv \in interrompidos' \cup sobrepostos'
    PROVE  RowsCount' /\ OneOpenPerPdv'
<1>1. ASSUME NEW s \in CaixaIds PROVE RowCounts(s)'
  <2>1. RowCounts(s)
    BY DEF RowsCount
  <2>2. SumsMatch(s) => SumsMatch(s)'
    BY DEF SumsMatch
  <2> QED BY <2>1, <2>2 DEF RowCounts, Grow
<1>2. OneOpenPerPdv'
  BY DEF OneOpenPerPdv, Grow
<1> QED BY <1>1, <1>2 DEF RowsCount

LEMMA ReadsKeep ==
    ASSUME DataOK, CashApart, DrawerInv, Grow, NEW p \in Requests, NEW r, Go(p, r),
           UNCHANGED <<sessoes, entradas, saidas>>, req[p].pc # "moveSave",
           Knows(r, sessoes, entradas, saidas, sobrepostos', interrompidos')
    PROVE  DrawerInv'
<1>1. OwnSession(p)
  BY DEF OwnSession
<1>2. AllKnow'
  BY <1>1, GoKnows DEF DrawerInv
<1>3. \A q \in Requests \ {p} : req'[q] = req[q]
  BY DEF Go, DataOK
<1>4. \A s \in CaixaIds : Saving(s) => Saving(s)'
  BY <1>3 DEF Saving
<1> QED BY <1>2, <1>4, RowsStay DEF DrawerInv

\* A step that writes the session s of p, on which no other request is.
LEMMA RowWritten ==
    ASSUME DataOK, CashApart, DrawerInv, Grow, NEW p \in Requests, OwnSession(p),
           NEW s \in CaixaIds, sessoes'[s].status # "none", sessoes'[s].pdv = req[p].pdv,
           \A t \in CaixaIds \ {s} : /\ sessoes'[t] = sessoes[t]
                                     /\ entradas'[t] = entradas[t] /\ saidas'[t] = saidas[t],
           \A q \in Requests \ {p} : req'[q] = req[q],
           req[p].pc = "moveSave" => req[p].caixa = s,
           req[p].pdv \notin sobrepostos' =>
              /\ sessoes'[s].status = "closed" =>
                    sessoes'[s].diferenca = sessoes'[s].contado - Esperado(sessoes'[s])
              /\ req[p].pdv \notin interrompidos' /\ ~Saving(s)' => SumsMatch(s)'
              /\ sessoes'[s].status = "open" => \A t \in CaixaIds \ {s} :
                    sessoes[t].status = "open" => sessoes[t].pdv # req[p].pdv
    PROVE  RowsCount' /\ OneOpenPerPdv'
<1>1. RowCounts(s)'
  BY DEF RowCounts
<1>2. ASSUME NEW t \in CaixaIds \ {s} PROVE RowCounts(t)'
  <2>1. RowCounts(t)
    BY DEF DrawerInv, RowsCount
  <2>2. Saving(t) => Saving(t)'
    BY DEF Saving
  <2>3. SumsMatch(t) => SumsMatch(t)'
    BY DEF SumsMatch
  <2> QED BY <2>1, <2>2, <2>3 DEF RowCounts, Grow
<1>3. OneOpenPerPdv'
  <2> SUFFICES ASSUME NEW t \in CaixaIds, NEW u \in CaixaIds,
                      sessoes'[t].status = "open", sessoes'[u].status = "open",
                      sessoes'[t].pdv = sessoes'[u].pdv, sessoes'[t].pdv \notin sobrepostos'
               PROVE  t = u
    BY DEF OneOpenPerPdv
  <2> QED BY DEF DrawerInv, OneOpenPerPdv, Grow
<1> QED BY <1>1, <1>2, <1>3 DEF RowsCount
-----------------------------------------------------------------------------
LEMMA ApartStep == ASSUME DataOK', Historia PROVE CashApart'
<1>1. ASSUME NEW p \in Requests PROVE req'[p].pdv \in Terminais
  BY DEF DataOK, Request
<1> QED BY <1>1 DEF CashApart, Historia, Cruzados, At

LEMMA GrowStep == ASSUME Next PROVE Grow
BY DEF Next, Step, Historia, Abort, Grow

LEMMA DrawerInit == Init => CashApart /\ DrawerInv
<1> SUFFICES ASSUME Init PROVE CashApart /\ DrawerInv
  OBVIOUS
<1>1. CashApart /\ AllKnow
  BY DEF Init, Idle, CashApart, AllKnow, Knows, Named, OnSession
<1>2. RowsCount /\ OneOpenPerPdv
  BY DEF Init, NoSessao, RowsCount, RowCounts, OneOpenPerPdv
<1> QED BY <1>1, <1>2 DEF DrawerInv

\* A request that has a session works on the row of its terminal.
LEMMA OnItsRow ==
    ASSUME DataOK, AllKnow, NEW p \in Requests, req[p].pc \in OnSession
    PROVE  /\ req[p].caixa \in CaixaIds
           /\ sessoes[req[p].caixa].status # "none"
           /\ sessoes[req[p].caixa].pdv = req[p].pdv
           /\ req[p].lido.status # "none" /\ req[p].lido.pdv = req[p].pdv
           /\ req[p].pdv \notin sobrepostos =>
                 /\ Current(req[p], sessoes)
                 /\ req[p].pdv \notin interrompidos => Counted(req[p], entradas, saidas)
BY DEF AllKnow, Knows, Named, OnSession

\* The next step of open: the terminal is still free when it was before.
LEMMA OpenKeeps ==
    ASSUME DataOK, CashApart, DrawerInv, Grow, NEW p \in Requests,
           \/ \E d \in Terminais, f \in 0..MaxValor : OpenFind(p, d, f)
           \/ OpenEvent(p)
    PROVE  DrawerInv'
<1>1. ASSUME NEW d \in Terminais, NEW f \in 0..MaxValor, OpenFind(p, d, f)
      PROVE  DrawerInv'
  <2> DEFINE r == [Idle EXCEPT !.pc = "openEvent", !.pdv = d, !.valor = f]
  <2>1. r.pc = "openEvent" /\ r.pdv = d
    BY DEF Idle
  <2>2. \A s \in CaixaIds : sessoes[s].status = "open" => sessoes[s].pdv # d
    BY <1>1 DEF OpenFind, PodeAbrir, Abertas
  <2>3. /\ Go(p, r) /\ UNCHANGED <<sessoes, entradas, saidas>>
        /\ req[p].pc # "moveSave"
    BY <1>1 DEF OpenFind, At, tables
  <2> HIDE DEF r
  <2>4. Knows(r, sessoes, entradas, saidas, sobrepostos', interrompidos')
    BY <2>1, <2>2 DEF Knows, Named, Current, Counted, OnSession
  <2> QED BY <2>3, <2>4, ReadsKeep
<1>2. ASSUME OpenEvent(p) PROVE DrawerInv'
  <2> DEFINE r == [req[p] EXCEPT !.pc = "openInsert"]
  <2>0. req[p] \in Request
    BY DEF DataOK
  <2>1. r.pc = "openInsert" /\ r.pdv = req[p].pdv /\ req[p].pc = "openEvent"
    BY <1>2, <2>0 DEF OpenEvent, At, Request
  <2>2. req[p].pdv \notin sobrepostos =>
           \A s \in CaixaIds : sessoes[s].status = "open" => sessoes[s].pdv # req[p].pdv
    BY <2>1 DEF DrawerInv, AllKnow, Knows, Current
  <2>3. Go(p, r) /\ UNCHANGED <<sessoes, entradas, saidas>>
    BY <1>2 DEF OpenEvent, tables
  <2> HIDE DEF r
  <2>4. Knows(r, sessoes, entradas, saidas, sobrepostos', interrompidos')
    BY <2>1, <2>2 DEF Knows, Named, Current, Counted, OnSession, Grow
  <2> QED BY <2>1, <2>3, <2>4, ReadsKeep
<1> QED BY <1>1, <1>2

LEMMA OpenInsertKeeps ==
    ASSUME DataOK, CashApart, DrawerInv, Grow,
           NEW p \in Requests, NEW s \in CaixaIds, OpenInsert(p, s)
    PROVE  DrawerInv'
<1> DEFINE row == [NoSessao EXCEPT !.pdv = req[p].pdv, !.status = "open",
                                   !.fundo = req[p].valor]
<1>1. /\ row.pdv = req[p].pdv /\ row.status = "open"
      /\ row.totalEntradas = 0 /\ row.totalSaidas = 0
  BY DEF NoSessao
<1>2. /\ sessoes' = [sessoes EXCEPT ![s] = row] /\ Finish(p)
      /\ entradas' = entradas /\ saidas' = saidas
      /\ req[p].pc = "openInsert" /\ sessoes[s].status = "none"
  BY DEF OpenInsert, At
<1> HIDE DEF row
<1>3. sessoes'[s] = row /\ \A t \in CaixaIds \ {s} : sessoes'[t] = sessoes[t]
  BY <1>2 DEF DataOK
<1>4. OwnSession(p)
  BY <1>1, <1>2, <1>3 DEF OwnSession
<1>5. entradas[s] = 0 /\ saidas[s] = 0
  BY <1>2 DEF DrawerInv, RowsCount, RowCounts
<1>6. req[p].pdv \notin sobrepostos =>
         \A t \in CaixaIds : sessoes[t].status = "open" => sessoes[t].pdv # req[p].pdv
  BY <1>2 DEF DrawerInv, AllKnow, Knows, Current
<1>7. \A q \in Requests \ {p} : req'[q] = req[q]
  BY <1>2 DEF Finish, Go, DataOK
<1>8. AllKnow'
  BY <1>2, <1>4, FinishKnows DEF DrawerInv
<1>9. SumsMatch(s)'
  BY <1>1, <1>2, <1>3, <1>5 DEF SumsMatch
<1>10. RowsCount' /\ OneOpenPerPdv'
  BY <1>1, <1>2, <1>3, <1>4, <1>6, <1>7, <1>9, RowWritten DEF Grow
<1> QED BY <1>8, <1>10 DEF DrawerInv
-----------------------------------------------------------------------------
LEMMA CloseReadKeeps ==
    ASSUME DataOK, CashApart, DrawerInv, Grow, NEW p \in Requests,
           NEW s \in CaixaIds, NEW contado \in 0..MaxValor, CloseRead(p, s, contado)
    PROVE  DrawerInv'
<1> DEFINE row == [sessoes[s] EXCEPT !.status = "closed", !.contado = contado,
                      !.diferenca = contado - Esperado(sessoes[s])]
           r == [Idle EXCEPT !.pc = "closeSave", !.caixa = s,
                             !.pdv = sessoes[s].pdv, !.lido = row]
<1>1. sessoes[s] \in Sessao
  BY DEF DataOK
<1>2. /\ row.status = "closed" /\ row.pdv = sessoes[s].pdv /\ row.contado = contado
      /\ row.fundo = sessoes[s].fundo
      /\ row.totalEntradas = sessoes[s].totalEntradas
      /\ row.totalSaidas = sessoes[s].totalSaidas
      /\ row.diferenca = contado - Esperado(sessoes[s])
  BY <1>1 DEF Sessao
<1>3. /\ Go(p, r) /\ UNCHANGED <<sessoes, entradas, saidas>>
      /\ req[p].pc # "moveSave" /\ sessoes[s].status = "open"
  BY DEF CloseRead, Fechavel, At, tables
<1> HIDE DEF row
<1>4. r.pc = "closeSave" /\ r.caixa = s /\ r.pdv = sessoes[s].pdv /\ r.lido = row
  BY DEF Idle
<1> HIDE DEF r
<1>5. row.diferenca = row.contado - Esperado(row)
  BY <1>2 DEF Esperado
<1>6. Knows(r, sessoes, entradas, saidas, sobrepostos', interrompidos')
  BY <1>2, <1>3, <1>4, <1>5 DEF Knows, Named, Current, Counted, OnSession
<1> QED BY <1>3, <1>6, ReadsKeep

LEMMA CloseSaveKeeps ==
    ASSUME DataOK, CashApart, DrawerInv, Grow, NEW p \in Requests, CloseSave(p)
    PROVE  DrawerInv'
<1> DEFINE r == req[p]
<1>0. req[p].pc \in OnSession
  BY DEF CloseSave, At, OnSession
<1> SUFFICES ASSUME NEW s \in CaixaIds, r.caixa = s PROVE DrawerInv'
  BY <1>0, OnItsRow DEF DrawerInv
<1>1. r.pc = "closeSave" /\ r.pc \in OnSession
  BY DEF CloseSave, At, OnSession
<1>2. /\ s \in CaixaIds /\ sessoes[s].status # "none" /\ sessoes[s].pdv = r.pdv
      /\ r.lido.status # "none" /\ r.lido.pdv = r.pdv
      /\ r.pdv \notin sobrepostos => Current(r, sessoes)
  BY <1>1, OnItsRow DEF DrawerInv
<1>3. /\ sessoes' = [sessoes EXCEPT ![s] = r.lido] /\ Finish(p)
      /\ entradas' = entradas /\ saidas' = saidas
  BY DEF CloseSave
<1>4. sessoes'[s] = r.lido /\ \A t \in CaixaIds \ {s} : sessoes'[t] = sessoes[t]
  BY <1>2, <1>3 DEF DataOK
<1>5. \A q \in Requests \ {p} : req'[q] = req[q]
  BY <1>3 DEF Finish, Go, DataOK
<1>6. OwnSession(p)
  BY <1>1, <1>2, <1>3, <1>4 DEF OwnSession
<1>7. AllKnow'
  BY <1>3, <1>6, FinishKnows DEF DrawerInv
<1>8. ASSUME r.pdv \notin sobrepostos'
      PROVE  /\ sessoes'[s].status = "closed"
             /\ sessoes'[s].diferenca = sessoes'[s].contado - Esperado(sessoes'[s])
             /\ r.pdv \notin interrompidos' /\ ~Saving(s)' => SumsMatch(s)'
  <2>1. Current(r, sessoes) /\ RowCounts(s) /\ r.pdv \notin sobrepostos
    BY <1>2, <1>8 DEF Grow, DrawerInv, RowsCount
  <2>2. Saving(s) => Saving(s)'
    BY <1>1, <1>5 DEF Saving
  <2>3. /\ r.lido.status = "closed"
        /\ r.lido.totalEntradas = sessoes[s].totalEntradas
        /\ r.lido.totalSaidas = sessoes[s].totalSaidas
        /\ r.lido.diferenca = r.lido.contado - Esperado(r.lido)
    BY <1>1, <2>1 DEF Current
  <2>4. SumsMatch(s) => SumsMatch(s)'
    BY <1>3, <1>4, <2>3 DEF SumsMatch
  <2>5. r.pdv \notin interrompidos /\ ~Saving(s) => SumsMatch(s)
    BY <1>2, <2>1 DEF RowCounts
  <2> QED BY <1>4, <2>2, <2>3, <2>4, <2>5 DEF Grow
<1>9. RowsCount' /\ OneOpenPerPdv'
  BY <1>1, <1>2, <1>3, <1>4, <1>5, <1>6, <1>8, RowWritten
<1> QED BY <1>7, <1>9 DEF DrawerInv
-----------------------------------------------------------------------------
LEMMA MoveReadKeeps ==
    ASSUME DataOK, CashApart, DrawerInv, Grow, NEW p \in Requests, NEW s \in CaixaIds,
           NEW entra \in BOOLEAN, NEW v \in Valores, MoveRead(p, s, entra, v)
    PROVE  DrawerInv'
<1> DEFINE r == [Idle EXCEPT !.pc = "moveInsert", !.caixa = s, !.pdv = sessoes[s].pdv,
                             !.valor = v, !.entra = entra, !.lido = sessoes[s]]
<1>1. /\ Go(p, r) /\ UNCHANGED <<sessoes, entradas, saidas>>
      /\ req[p].pc # "moveSave" /\ sessoes[s].status = "open"
  BY DEF MoveRead, Movimentavel, At, tables
<1>2. /\ r.pc = "moveInsert" /\ r.caixa = s /\ r.pdv = sessoes[s].pdv
      /\ r.lido = sessoes[s]
  BY DEF Idle
<1> HIDE DEF r
<1>3. Knows(r, sessoes, entradas, saidas, sobrepostos', interrompidos')
  BY <1>1, <1>2 DEF Knows, Named, Current, Counted, OnSession
<1> QED BY <1>1, <1>3, ReadsKeep

\* Nobody else is about to save a session whose requests never overlapped.
LEMMA SavesAlone ==
    ASSUME DataOK, CashApart, AllKnow, NEW p \in Requests, req[p].pc \in OnSession,
           req[p].pdv \notin sobrepostos, NEW q \in Requests \ {p}
    PROVE  ~(req[q].pc = "moveSave" /\ req[q].caixa = req[p].caixa)
<1> SUFFICES ASSUME req[q].pc = "moveSave", req[q].caixa = req[p].caixa PROVE FALSE
  OBVIOUS
<1>1. req[q].pdv = req[p].pdv
  BY OnItsRow DEF OnSession
<1> QED BY <1>1 DEF CashApart, OnSession

LEMMA MoveInsertKeeps ==
    ASSUME DataOK, CashApart, DrawerInv, Grow, NEW p \in Requests, MoveInsert(p)
    PROVE  DrawerInv'
<1> DEFINE o == req[p]
           r == [o EXCEPT !.pc = "moveSave"]
<1>0. req[p].pc \in OnSession
  BY DEF MoveInsert, At, OnSession
<1> SUFFICES ASSUME NEW s \in CaixaIds, o.caixa = s PROVE DrawerInv'
  BY <1>0, OnItsRow DEF DrawerInv
<1>1. o.pc = "moveInsert" /\ o.pc \in OnSession
  BY DEF MoveInsert, At, OnSession
<1>2. /\ s \in CaixaIds /\ sessoes[s].status # "none" /\ sessoes[s].pdv = o.pdv
      /\ o.lido.status # "none" /\ o.lido.pdv = o.pdv
      /\ o.pdv \notin sobrepostos => Current(o, sessoes)
  BY <1>1, OnItsRow DEF DrawerInv
<1>3. /\ entradas' = [entradas EXCEPT ![s] = IF o.entra THEN @ + o.valor ELSE @]
      /\ saidas' = [saidas EXCEPT ![s] = IF o.entra THEN @ ELSE @ + o.valor]
      /\ Go(p, r) /\ sessoes' = sessoes
  BY DEF MoveInsert
<1>4. o \in Request /\ o.lido \in Sessao /\ o.entra \in BOOLEAN /\ o.valor \in Nat
  BY DEF DataOK, Request
<1>5. /\ r.pc = "moveSave" /\ r.caixa = s /\ r.pdv = o.pdv
      /\ r.lido = o.lido /\ r.entra = o.entra /\ r.valor = o.valor
  BY <1>4 DEF Request
<1> HIDE DEF r
<1>6. \A t \in CaixaIds \ {s} :
         sessoes'[t] = sessoes[t] /\ entradas'[t] = entradas[t] /\ saidas'[t] = saidas[t]
  BY <1>3 DEF DataOK
<1>7. req'[p] = r /\ \A q \in Requests \ {p} : req'[q] = req[q]
  BY <1>3 DEF Go, DataOK
<1>8. OwnSession(p)
  BY <1>1, <1>2, <1>3, <1>6 DEF OwnSession
<1>9. ASSUME o.pdv \notin sobrepostos
      PROVE  /\ Current(r, sessoes)
             /\ sessoes[s].status = "open"
             /\ o.pdv \notin interrompidos => Counted(r, entradas', saidas')
  <2>1. o.lido = sessoes[s] /\ sessoes[s].status = "open"
    BY <1>1, <1>2, <1>9 DEF Current
  <2>2. Current(r, sessoes)
    BY <1>5, <2>1 DEF Current
  <2>3. ~Saving(s)
    <3>1. \A q \in Requests \ {p} : ~(req[q].pc = "moveSave" /\ req[q].caixa = s)
      BY <1>1, <1>9, SavesAlone DEF DrawerInv
    <3> QED BY <1>1, <3>1 DEF Saving
  <2>4. o.pdv \notin interrompidos =>
           entradas[s] = o.lido.totalEntradas /\ saidas[s] = o.lido.totalSaidas
    BY <1>2, <1>9, <2>1, <2>3 DEF DrawerInv, RowsCount, RowCounts, SumsMatch
  <2>5. /\ entradas'[s] = (IF o.entra THEN entradas[s] + o.valor ELSE entradas[s])
        /\ saidas'[s] = (IF o.entra THEN saidas[s] ELSE saidas[s] + o.valor)
    BY <1>2, <1>3 DEF DataOK
  <2>6. /\ Somada(o.lido, o.entra, o.valor).totalEntradas =
              (IF o.entra THEN o.lido.totalEntradas + o.valor ELSE o.lido.totalEntradas)
        /\ Somada(o.lido, o.entra, o.valor).totalSaidas =
              (IF o.entra THEN o.lido.totalSaidas ELSE o.lido.totalSaidas + o.valor)
    BY <1>4, SomadaType
  <2> QED BY <1>5, <2>1, <2>2, <2>4, <2>5, <2>6 DEF Counted
<1>10. Named(r, sessoes)
  BY <1>2, <1>5 DEF Named
<1>11. Knows(r, sessoes', entradas', saidas', sobrepostos', interrompidos')
  BY <1>3, <1>5, <1>9, <1>10 DEF Knows, Grow
<1>12. AllKnow'
  BY <1>3, <1>8, <1>11, GoKnows DEF DrawerInv
<1>13. Saving(s)'
  BY <1>5, <1>7 DEF Saving
<1>14. ASSUME o.pdv \notin sobrepostos', NEW t \in CaixaIds \ {s},
              sessoes[t].status = "open"
       PROVE  sessoes[t].pdv # o.pdv
  BY <1>2, <1>9, <1>14 DEF DrawerInv, OneOpenPerPdv, Grow
<1>15. o.pdv \notin sobrepostos' => sessoes'[s].status = "open"
  BY <1>3, <1>9 DEF Grow
<1>16. RowsCount' /\ OneOpenPerPdv'
  BY <1>1, <1>2, <1>3, <1>6, <1>7, <1>8, <1>13, <1>14, <1>15, RowWritten
<1> QED BY <1>12, <1>16 DEF DrawerInv

LEMMA MoveSaveKeeps ==
    ASSUME DataOK, CashApart, DrawerInv, Grow, NEW p \in Requests, MoveSave(p)
    PROVE  DrawerInv'
<1> DEFINE r == req[p]
           row == Somada(r.lido, r.entra, r.valor)
<1>0. req[p].pc \in OnSession
  BY DEF MoveSave, At, OnSession
<1> SUFFICES ASSUME NEW s \in CaixaIds, r.caixa = s PROVE DrawerInv'
  BY <1>0, OnItsRow DEF DrawerInv
<1>1. r.pc = "moveSave" /\ r.pc \in OnSession
  BY DEF MoveSave, At, OnSession
<1>2. /\ s \in CaixaIds /\ sessoes[s].status # "none" /\ sessoes[s].pdv = r.pdv
      /\ r.lido.status # "none" /\ r.lido.pdv = r.pdv
      /\ r.pdv \notin sobrepostos =>
            /\ Current(r, sessoes)
            /\ r.pdv \notin interrompidos => Counted(r, entradas, saidas)
  BY <1>1, OnItsRow DEF DrawerInv
<1>3. /\ sessoes' = [sessoes EXCEPT ![s] = row] /\ Finish(p)
      /\ entradas' = entradas /\ saidas' = saidas
  BY DEF MoveSave
<1>4. row.status = r.lido.status /\ row.pdv = r.lido.pdv
  <2>1. r.lido \in Sessao
    BY DEF DataOK, Request
  <2> QED BY <2>1 DEF Somada, Sessao
<1> HIDE DEF row
<1>5. sessoes'[s] = row /\ \A t \in CaixaIds \ {s} : sessoes'[t] = sessoes[t]
  BY <1>2, <1>3 DEF DataOK
<1>6. \A q \in Requests \ {p} : req'[q] = req[q]
  BY <1>3 DEF Finish, Go, DataOK
<1>7. OwnSession(p)
  BY <1>1, <1>2, <1>3, <1>4, <1>5 DEF OwnSession
<1>8. AllKnow'
  BY <1>3, <1>7, FinishKnows DEF DrawerInv
<1>9. ASSUME r.pdv \notin sobrepostos'
      PROVE  /\ sessoes'[s].status = "open"
             /\ r.pdv \notin interrompidos' => SumsMatch(s)'
             /\ \A t \in CaixaIds \ {s} :
                   sessoes[t].status = "open" => sessoes[t].pdv # r.pdv
  <2>1. r.pdv \notin sobrepostos /\ r.lido = sessoes[s] /\ sessoes[s].status = "open"
    BY <1>1, <1>2, <1>9 DEF Current, Grow
  <2>2. r.pdv \notin interrompidos' => Counted(r, entradas, saidas)
    BY <1>2, <2>1 DEF Grow
  <2>3. r.pdv \notin interrompidos' => SumsMatch(s)'
    BY <1>1, <1>3, <1>5, <2>2 DEF Counted, SumsMatch, row
  <2>4. \A t \in CaixaIds \ {s} :
           sessoes[t].status = "open" => sessoes[t].pdv # r.pdv
    BY <1>2, <2>1 DEF DrawerInv, OneOpenPerPdv
  <2> QED BY <1>4, <1>5, <2>1, <2>3, <2>4
<1>10. RowsCount' /\ OneOpenPerPdv'
  BY <1>2, <1>3, <1>4, <1>5, <1>6, <1>7, <1>9, RowWritten
<1> QED BY <1>8, <1>10 DEF DrawerInv
-----------------------------------------------------------------------------
LEMMA AbortKeeps ==
    ASSUME DataOK, CashApart, DrawerInv, Grow, NEW p \in Requests, Abort(p)
    PROVE  DrawerInv'
<1>1. /\ Finish(p) /\ UNCHANGED <<sessoes, entradas, saidas>>
      /\ req[p].pc = "moveSave" => req[p].pdv \in interrompidos'
  BY DEF Abort, At, tables
<1>2. \A q \in Requests \ {p} : req'[q] = req[q]
  BY <1>1 DEF Finish, Go, DataOK
<1>3. OwnSession(p)
  BY <1>1 DEF OwnSession
<1>4. AllKnow'
  BY <1>1, <1>3, FinishKnows DEF DrawerInv
<1>5. ASSUME NEW s \in CaixaIds, Saving(s)
      PROVE  Saving(s)' \/ sessoes[s].pdv \in interrompidos'
  <2>1. PICK q \in Requests : req[q].pc = "moveSave" /\ req[q].caixa = s
    BY <1>5 DEF Saving
  <2>2. CASE q = p
    BY <1>1, <2>1, <2>2, OnItsRow DEF DrawerInv, OnSession
  <2>3. CASE q # p
    BY <1>2, <2>1, <2>3 DEF Saving
  <2> QED BY <2>2, <2>3
<1> QED BY <1>1, <1>4, <1>5, RowsStay DEF DrawerInv

LEMMA DrawerStep ==
    ASSUME DataOK, CashApart, DrawerInv, [Next]_vars
    PROVE  DrawerInv'
<1>1. CASE UNCHANGED vars
  BY <1>1 DEF vars, tables, DrawerInv, AllKnow, RowsCount, RowCounts, Saving, SumsMatch,
     OneOpenPerPdv
<1>2. CASE Next
  <2> USE <1>2, GrowStep
  <2>1. CASE EncerraEvento
    <3>1. UNCHANGED <<sessoes, entradas, saidas, req>>
      BY <2>1 DEF EncerraEvento
    <3>2. AllKnow'
      BY <3>1 DEF DrawerInv, AllKnow, Knows, Grow
    <3>3. \A s \in CaixaIds : Saving(s) => Saving(s)'
      BY <3>1 DEF Saving
    <3> QED BY <3>1, <3>2, <3>3, RowsStay DEF DrawerInv
  <2>2. ASSUME NEW p \in Requests, Abort(p) PROVE DrawerInv'
    BY <2>2, AbortKeeps
  <2>3. ASSUME NEW p \in Requests, Start(p) PROVE DrawerInv'
    BY <2>3, OpenKeeps, CloseReadKeeps, MoveReadKeeps DEF Start
  <2>4. ASSUME NEW p \in Requests, Continue(p) PROVE DrawerInv'
    BY <2>4, OpenKeeps, OpenInsertKeeps, CloseSaveKeeps, MoveInsertKeeps, MoveSaveKeeps
    DEF Continue
  <2> QED BY <2>1, <2>2, <2>3, <2>4 DEF Next, Step
<1> QED BY <1>1, <1>2

SessionInv == CashInv /\ CashApart /\ DrawerInv

LEMMA SessionStep == SessionInv /\ [Next]_vars => SessionInv'
<1> SUFFICES ASSUME SessionInv, [Next]_vars PROVE SessionInv'
  OBVIOUS
<1>1. CashInv' /\ DataOK /\ DataOK'
  BY CashStep DEF SessionInv, CashInv
<1>2. DrawerInv'
  BY <1>1, DrawerStep DEF SessionInv
<1>3. CASE Next
  BY <1>1, <1>2, <1>3, ApartStep DEF Next, SessionInv
<1>4. CASE UNCHANGED vars
  BY <1>1, <1>2, <1>4 DEF vars, SessionInv, CashApart
<1> QED BY <1>3, <1>4

\* On a terminal where requests never overlapped no two sessions are open: what
\* open() found free is free until its row is inserted.
THEOREM OneDrawerPerTerminal == Spec => []OneOpenPerPdv
<1>1. Init => SessionInv
  BY CashInit, DrawerInit DEF SessionInv
<1>2. SessionInv => OneOpenPerPdv
  BY DEF SessionInv, DrawerInv
<1> QED BY <1>1, <1>2, SessionStep, PTL DEF Spec

\* The difference a closing reports is what was counted less the float and every
\* movement row, where requests neither overlapped nor stopped between a
\* movement's row and the session's.
THEOREM DifferenceAnswersForMovements == Spec => []DiferencaCounts
<1>1. Init => SessionInv
  BY CashInit, DrawerInit DEF SessionInv
<1>2. ASSUME SessionInv PROVE DiferencaCounts
  <2> SUFFICES ASSUME NEW s \in CaixaIds, sessoes[s].status = "closed",
                      sessoes[s].pdv \notin sobrepostos \cup interrompidos
               PROVE  sessoes[s].diferenca =
                         sessoes[s].contado - (sessoes[s].fundo + entradas[s] - saidas[s])
    BY DEF DiferencaCounts
  <2>1. DataOK /\ AllKnow /\ RowCounts(s)
    BY <1>2 DEF SessionInv, CashInv, DrawerInv, RowsCount
  <2>2. ASSUME NEW q \in Requests, req[q].pc = "moveSave", req[q].caixa = s PROVE FALSE
    <3>1. req[q].pdv = sessoes[s].pdv /\ Current(req[q], sessoes)
      BY <2>1, <2>2, OnItsRow DEF OnSession
    <3> QED BY <2>2, <3>1 DEF Current, OnSession
  <2>3. SumsMatch(s) /\ sessoes[s].diferenca = sessoes[s].contado - Esperado(sessoes[s])
    BY <2>1, <2>2 DEF RowCounts, Saving
  <2> QED BY <2>3 DEF SumsMatch, Esperado
<1> QED BY <1>1, <1>2, SessionStep, PTL DEF Spec

\* A session once closed keeps its count, its difference and its totals, unless
\* requests overlapped on its terminal.
THEOREM ClosedStays == Spec => ClosedIsFinal
<1>1. Init => SessionInv
  BY CashInit, DrawerInit DEF SessionInv
<1>2. SessionInv /\ [Next]_vars =>
        [\A s \in CaixaIds :
            sessoes[s].status = "closed" /\ sessoes[s].pdv \notin sobrepostos'
            => sessoes'[s] = sessoes[s]]_vars
  <2> SUFFICES ASSUME SessionInv, Next, NEW s \in CaixaIds,
                      sessoes[s].status = "closed", sessoes[s].pdv \notin sobrepostos'
               PROVE  sessoes'[s] = sessoes[s]
    OBVIOUS
  <2>1. DataOK /\ AllKnow /\ sessoes[s].pdv \notin sobrepostos
    BY GrowStep DEF SessionInv, CashInv, DrawerInv, Grow
  <2>2. ASSUME NEW p \in Requests, req[p].pc \in OnSession PROVE req[p].caixa # s
    BY <2>1, <2>2, OnItsRow DEF Current
  <2>3. ASSUME NEW p \in Requests, NEW t \in CaixaIds, OpenInsert(p, t)
        PROVE  sessoes'[s] = sessoes[s]
    BY <2>1, <2>3 DEF OpenInsert, DataOK
  <2>4. ASSUME NEW p \in Requests, CloseSave(p) \/ MoveSave(p)
        PROVE  sessoes'[s] = sessoes[s]
    BY <2>1, <2>2, <2>4 DEF CloseSave, MoveSave, At, OnSession, DataOK
  <2>5. ASSUME NEW p \in Requests, Start(p) \/ OpenEvent(p) \/ MoveInsert(p) \/ Abort(p)
        PROVE  sessoes' = sessoes
    BY <2>5 DEF Start, OpenFind, OpenEvent, CloseRead, MoveRead, MoveInsert, Abort, tables
  <2>6. EncerraEvento => sessoes' = sessoes
    BY DEF EncerraEvento
  <2> QED BY <2>3, <2>4, <2>5, <2>6 DEF Next, Step, Continue
<1> QED BY <1>1, <1>2, SessionStep, PTL DEF Spec, ClosedIsFinal
=============================================================================
