-------------------------------- MODULE Cash --------------------------------
(***************************************************************************)
(* Cash sessions, backend/src/cash/cash.service.ts: opening, closing with  *)
(* the counted amount, and movements that keep the session's totals.       *)
(*                                                                         *)
(* Requests interleave at every await, and a save writes the session row   *)
(* back as the handler read it, its status included.                       *)
(***************************************************************************)
EXTENDS Integers, FiniteSets

CONSTANTS
    CaixaIds,    \* rows of cash_sessions
    Pdvs,        \* terminals
    Requests,    \* requests that may be in flight at once
    None,        \* the null of pdv_id and of request fields
    MaxValor     \* largest amount of a movement, float or count

ASSUME CashAssumption ==
    /\ MaxValor \in Nat \ {0}
    /\ None \notin CaixaIds \cup Pdvs

VARIABLES
    sessoes,     \* cash_sessions rows; status "none" is no row
    entradas,    \* per session, the sum of its movements that bring cash in
    saidas,      \* per session, the sum of those that take cash out
    evento,      \* status of the event
    req,         \* the requests in flight
    sobrepostos, \* terminals where two requests were ever in flight at once (history)
    interrompidos \* terminals where a handler stopped between two writes (history)

tables == <<sessoes, entradas, saidas, evento>>
vars == <<tables, req, sobrepostos, interrompidos>>

\* A session may be opened without naming a terminal.
Terminais == Pdvs \cup {None}

\* closed says in diferenca what counted less expected was.
Sessao == [pdv : Terminais, status : {"none", "open", "closed"},
           fundo : Nat, totalEntradas : Nat, totalSaidas : Nat,
           contado : Nat, diferenca : Int]
NoSessao == [pdv |-> None, status |-> "none", fundo |-> 0, totalEntradas |-> 0,
             totalSaidas |-> 0, contado |-> 0, diferenca |-> 0]

Pcs == {"idle", "openEvent", "openInsert", "closeSave", "moveInsert", "moveSave"}
Request == [pc : Pcs, caixa : CaixaIds \cup {None}, pdv : Terminais,
            valor : Nat, entra : BOOLEAN, lido : Sessao]
Idle == [pc |-> "idle", caixa |-> None, pdv |-> None, valor |-> 0,
         entra |-> FALSE, lido |-> NoSessao]

\* The tables and the requests in flight; TypeOK adds the histories.
DataOK ==
    /\ sessoes \in [CaixaIds -> Sessao]
    /\ entradas \in [CaixaIds -> Nat]
    /\ saidas \in [CaixaIds -> Nat]
    /\ evento \in {"active", "closed"}
    /\ req \in [Requests -> Request]

HistoryOK ==
    /\ sobrepostos \in SUBSET Terminais
    /\ interrompidos \in SUBSET Terminais

TypeOK == DataOK /\ HistoryOK

Init ==
    /\ sessoes = [s \in CaixaIds |-> NoSessao]
    /\ entradas = [s \in CaixaIds |-> 0]
    /\ saidas = [s \in CaixaIds |-> 0]
    /\ evento = "active"
    /\ req = [p \in Requests |-> Idle]
    /\ sobrepostos = {}
    /\ interrompidos = {}

At(p, pc) == req[p].pc = pc

Go(p, r) == req' = [req EXCEPT ![p] = r]
Finish(p) == Go(p, Idle)

\* A check that throws, or a stop between two awaits.
Abort(p) ==
    /\ ~At(p, "idle")
    /\ interrompidos' = IF At(p, "moveSave") THEN interrompidos \cup {req[p].pdv}
                                            ELSE interrompidos
    /\ Finish(p)
    /\ UNCHANGED tables

\* The terminals that two requests work on, and the history of them: the code
\* does nothing to keep requests on one session apart.
Cruzados ==
    {d \in Terminais : \E p, q \in Requests :
        /\ p # q
        /\ ~At(p, "idle") /\ ~At(q, "idle")
        /\ req[p].pdv = d /\ req[q].pdv = d}
Historia == sobrepostos' = sobrepostos \cup Cruzados'
-----------------------------------------------------------------------------
(* open *)

\* getOpen: a session of the terminal, or any when none is named.
Abertas(d) ==
    {s \in CaixaIds : sessoes[s].status = "open" /\ (d # None => sessoes[s].pdv = d)}

\* The drawer of the terminal is free (two terminals have two drawers).
PodeAbrirSempre(d) == TRUE    \* mutant: the check for an open session is missing
PodeAbrir(d) == Abertas(d) = {}

OpenFind(p, d, fundo) ==
    /\ At(p, "idle")
    /\ PodeAbrir(d)
    /\ Go(p, [Idle EXCEPT !.pc = "openEvent", !.pdv = d, !.valor = fundo])
    /\ UNCHANGED tables

OpenEvent(p) ==
    /\ At(p, "openEvent")
    /\ evento = "active"
    /\ Go(p, [req[p] EXCEPT !.pc = "openInsert"])
    /\ UNCHANGED tables

\* The session row; its OPENING movement changes no total.
OpenInsert(p, s) ==
    /\ At(p, "openInsert")
    /\ sessoes[s].status = "none"
    /\ sessoes' = [sessoes EXCEPT ![s] = [NoSessao EXCEPT
                       !.pdv = req[p].pdv, !.status = "open", !.fundo = req[p].valor]]
    /\ Finish(p)
    /\ UNCHANGED <<entradas, saidas, evento>>
-----------------------------------------------------------------------------
(* close *)

Esperado(row) == row.fundo + row.totalEntradas - row.totalSaidas

FechavelSempre(s) == sessoes[s].status # "none"    \* mutant: closed sessions too
Fechavel(s) == sessoes[s].status = "open"

CloseRead(p, s, contado) ==
    LET row == sessoes[s]
    IN  /\ Fechavel(s)
        /\ At(p, "idle")
        /\ Go(p, [Idle EXCEPT !.pc = "closeSave", !.caixa = s, !.pdv = row.pdv,
                    !.lido = [row EXCEPT !.status = "closed", !.contado = contado,
                                         !.diferenca = contado - Esperado(row)]])
        /\ UNCHANGED tables

\* The session row; the CLOSING movement that follows changes no total.
CloseSave(p) ==
    /\ At(p, "closeSave")
    /\ sessoes' = [sessoes EXCEPT ![req[p].caixa] = req[p].lido]
    /\ Finish(p)
    /\ UNCHANGED <<entradas, saidas, evento>>
-----------------------------------------------------------------------------
(* addMovement, for the operator and for recharges in cash *)

Movimentavel(s) == sessoes[s].status = "open"

MoveRead(p, s, entra, v) ==
    /\ Movimentavel(s)
    /\ At(p, "idle")
    /\ Go(p, [Idle EXCEPT !.pc = "moveInsert", !.caixa = s, !.pdv = sessoes[s].pdv,
                          !.valor = v, !.entra = entra, !.lido = sessoes[s]])
    /\ UNCHANGED tables

MoveInsert(p) ==
    LET r == req[p]
    IN  /\ At(p, "moveInsert")
        /\ entradas' = [entradas EXCEPT ![r.caixa] = IF r.entra THEN @ + r.valor ELSE @]
        /\ saidas' = [saidas EXCEPT ![r.caixa] = IF r.entra THEN @ ELSE @ + r.valor]
        /\ Go(p, [r EXCEPT !.pc = "moveSave"])
        /\ UNCHANGED <<sessoes, evento>>

SomadaTroca(row, entra, v) ==    \* mutant: every movement counts as an entry
    [row EXCEPT !.totalEntradas = @ + v]
Somada(row, entra, v) ==
    IF entra THEN [row EXCEPT !.totalEntradas = @ + v]
             ELSE [row EXCEPT !.totalSaidas = @ + v]

MoveSave(p) ==
    LET r == req[p]
    IN  /\ At(p, "moveSave")
        /\ sessoes' = [sessoes EXCEPT ![r.caixa] = Somada(r.lido, r.entra, r.valor)]
        /\ Finish(p)
        /\ UNCHANGED <<entradas, saidas, evento>>
-----------------------------------------------------------------------------
\* events.service closes the event.
EncerraEvento ==
    /\ evento = "active"
    /\ evento' = "closed"
    /\ UNCHANGED <<sessoes, entradas, saidas, req>>

Valores == 1..MaxValor

Start(p) ==
    \/ \E d \in Terminais, f \in 0..MaxValor : OpenFind(p, d, f)
    \/ \E s \in CaixaIds :
          \/ \E contado \in 0..MaxValor : CloseRead(p, s, contado)
          \/ \E entra \in BOOLEAN, v \in Valores : MoveRead(p, s, entra, v)

Continue(p) ==
    \/ OpenEvent(p)
    \/ \E s \in CaixaIds : OpenInsert(p, s)
    \/ CloseSave(p)
    \/ MoveInsert(p)
    \/ MoveSave(p)

Step ==
    \/ \E p \in Requests : Abort(p)
    \/ /\ EncerraEvento \/ \E p \in Requests : Start(p) \/ Continue(p)
       /\ UNCHANGED interrompidos

Next == Step /\ Historia

Spec == Init /\ [][Next]_vars
-----------------------------------------------------------------------------
(* Properties *)

\* Under every interleaving the session never expects cash, or claims payouts,
\* that no movement row accounts for: totals may lose a movement, never invent one.
TotalsBacked ==
    \A s \in CaixaIds :
        /\ sessoes[s].totalEntradas <= entradas[s]
        /\ sessoes[s].totalSaidas <= saidas[s]

\* "Ja existe um caixa aberto": one open session per terminal, unless requests
\* overlapped there.
OneOpenPerPdv ==
    \A s, t \in CaixaIds :
        /\ sessoes[s].status = "open" /\ sessoes[t].status = "open"
        /\ sessoes[s].pdv = sessoes[t].pdv /\ sessoes[s].pdv \notin sobrepostos
        => s = t

\* "Caixa ja fechado": a closed session stays as it was counted, unless requests
\* overlapped on its terminal.
ClosedIsFinal ==
    [][\A s \in CaixaIds :
          sessoes[s].status = "closed" /\ sessoes[s].pdv \notin sobrepostos'
          => sessoes'[s] = sessoes[s]]_vars

\* The difference the operator answers for is what was counted less the float and
\* the movements of the session, unless requests overlapped or stopped half way.
DiferencaCounts ==
    \A s \in CaixaIds :
        /\ sessoes[s].status = "closed"
        /\ sessoes[s].pdv \notin sobrepostos \cup interrompidos
        => sessoes[s].diferenca =
              sessoes[s].contado - (sessoes[s].fundo + entradas[s] - saidas[s])
=============================================================================
