-------------------------------- MODULE Pdv --------------------------------
(***************************************************************************)
(* Sessions of a terminal, backend/src/pdv/pdv.service.ts, over the        *)
(* terminals of Tenancy: the first opening of a serial creates its         *)
(* terminal there (a request of kind "terminais") and goes on here.        *)
(***************************************************************************)
EXTENDS Tenancy

CONSTANTS
    Sessoes,     \* rows of sessions
    Operadores   \* requests of pdv.service that may be in flight at once

VARIABLES
    online,      \* terminals with status ONLINE
    sessao,      \* sessions rows: their terminal, and whether closed
    acao,        \* the requests in flight
    perturbados  \* terminals on which requests overlapped or stopped half way (history)

pdvOwn == <<online, sessao, acao, perturbados>>
pdvVars == <<tenancyVars, pdvOwn>>

SemAcao == [pc |-> "idle", pdv |-> Nulo, sessao |-> Nulo]
SemSessao == [pdv |-> Nulo, aberta |-> FALSE]

PdvTypeOK ==
    /\ online \in SUBSET Linhas
    /\ sessao \in [Sessoes -> [pdv : Linhas \cup {Nulo}, aberta : BOOLEAN]]
    /\ acao \in [Operadores -> [pc : {"idle", "abre", "insere", "fecha", "desliga"},
                                pdv : Linhas \cup {Nulo}, sessao : Sessoes \cup {Nulo}]]
    /\ perturbados \in SUBSET Linhas

PdvInit ==
    /\ TenancyInit
    /\ online = {}
    /\ sessao = [s \in Sessoes |-> SemSessao]
    /\ acao = [o \in Operadores |-> SemAcao]
    /\ perturbados = {}

Vai(o, a) == acao' = [acao EXCEPT ![o] = a]
Abertas(t) == {s \in Sessoes : sessao[s].pdv = t /\ sessao[s].aberta}

\* Terminals two requests work on; parou is one left between two writes.
Anota(parou) ==
    perturbados' = perturbados \cup parou
        \cup {t \in Linhas : \E o, q \in Operadores :
                  o # q /\ acao'[o].pdv = t /\ acao'[q].pdv = t}

SemVerSessao(t) == TRUE    \* mutant: opens whatever is open
PodeAbrir(t) == Abertas(t) = {}

OpenSession(o, t) ==
    /\ acao[o].pc = "idle"
    /\ recurso["terminais"][t] = "ativa"
    /\ PodeAbrir(t)
    /\ Vai(o, [pc |-> "abre", pdv |-> t, sessao |-> Nulo])
    /\ UNCHANGED <<online, sessao>>
    /\ Anota({})

OpenTerminal(o) ==
    /\ acao[o].pc = "abre"
    /\ online' = online \cup {acao[o].pdv}
    /\ Vai(o, [acao[o] EXCEPT !.pc = "insere"])
    /\ UNCHANGED sessao
    /\ Anota({})

OpenInsert(o, s) ==
    /\ acao[o].pc = "insere"
    /\ sessao[s] = SemSessao
    /\ sessao' = [sessao EXCEPT ![s] = [pdv |-> acao[o].pdv, aberta |-> TRUE]]
    /\ Vai(o, SemAcao)
    /\ UNCHANGED online
    /\ Anota({})

CloseSession(o, s) ==
    /\ acao[o].pc = "idle"
    /\ sessao[s].aberta
    /\ Vai(o, [pc |-> "fecha", pdv |-> sessao[s].pdv, sessao |-> s])
    /\ UNCHANGED <<online, sessao>>
    /\ Anota({})

CloseSave(o) ==
    /\ acao[o].pc = "fecha"
    /\ sessao' = [sessao EXCEPT ![acao[o].sessao].aberta = FALSE]
    /\ Vai(o, [acao[o] EXCEPT !.pc = "desliga"])
    /\ UNCHANGED online
    /\ Anota({})

CloseTerminal(o) ==
    /\ acao[o].pc = "desliga"
    /\ online' = online \ {acao[o].pdv}
    /\ Vai(o, SemAcao)
    /\ UNCHANGED sessao
    /\ Anota({})

PdvDesiste(o) ==
    /\ acao[o].pc # "idle"
    /\ Vai(o, SemAcao)
    /\ UNCHANGED <<online, sessao>>
    /\ Anota(IF acao[o].pc \in {"insere", "desliga"} THEN {acao[o].pdv} ELSE {})

PdvOwnNext ==
    \E o \in Operadores :
        \/ \E t \in Linhas : OpenSession(o, t)
        \/ OpenTerminal(o)
        \/ \E s \in Sessoes : OpenInsert(o, s) \/ CloseSession(o, s)
        \/ CloseSave(o)
        \/ CloseTerminal(o)
        \/ PdvDesiste(o)

PdvNext ==
    \/ TenancyNext /\ UNCHANGED pdvOwn
    \/ PdvOwnNext /\ UNCHANGED tenancyVars

PdvSpec == PdvInit /\ [][PdvNext]_pdvVars

\* The list of terminals tells the manager who is working: one session at most is
\* open on a terminal, and it is ONLINE exactly while one is (or while the request
\* that opens or closes it is between its two writes).
OnlineTemSessao ==
    \A t \in Linhas \ perturbados :
        /\ Cardinality(Abertas(t)) <= 1
        /\ (\A o \in Operadores : acao[o].pdv # t) => (t \in online <=> Abertas(t) # {})
=============================================================================
