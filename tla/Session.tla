------------------------------- MODULE Session -------------------------------
(***************************************************************************)
(* Sessions: backend/src/auth/auth.service.ts, which issues a short-lived  *)
(* access token with a refresh token and exchanges the latter once, and    *)
(* its client in the browser, web-admin's api.ts and store/auth.ts.        *)
(*                                                                         *)
(* A token k of Tokens is one issue: the row of refresh_tokens and the     *)
(* access token signed with it.  Every tab has its store in memory and     *)
(* writes it to localStorage ('pdv-auth') whenever it changes; a tab reads *)
(* it back only when it is opened.  The access token requests are made     *)
(* with is another entry ('pdv_token'), which all tabs share.  A call that *)
(* gets 401 makes the tab refresh, once for all calls waiting, and is sent *)
(* again; when the refresh fails the tab goes to the login page, which     *)
(* loads it anew.  The requests of refresh run on the server in the steps  *)
(* of the call that leads it.                                              *)
(***************************************************************************)
EXTENDS Integers, Access

CONSTANTS
    Users,       \* rows of users, of one browser's people
    Tabs,        \* tabs of that browser
    Tokens,      \* refresh tokens that may be issued
    Calls,       \* API calls in flight at once
    None,        \* null
    Papeis       \* the roles the users are created with

ASSUME SessionAssumption ==
    /\ Papeis \subseteq Roles
    /\ None \notin Users \cup Tokens \cup Tabs

VARIABLES
    conta,       \* users rows: ativo and role
    linha,       \* refresh_tokens rows with their access token
    pdvToken,    \* localStorage 'pdv_token'
    guardado,    \* localStorage 'pdv-auth': the store as last written
    aba,         \* the store in each tab's memory
    entra,       \* the login request of each tab
    sai,         \* the logout of each tab
    chamada,     \* the API calls
    marcadas,    \* chains that tabs shared, or whose answers were lost (history)
    encerradas,  \* chains a logout was carried out for (history)
    expulsas,    \* chains whose tab was sent to the login page (history)
    misturou,    \* a login met another user's session in the browser (history)
    alterados    \* users that users.update changed (history)

servidor == <<conta, linha>>
navegador == <<pdvToken, guardado, aba>>
pedidos == <<entra, sai, chamada>>
historia == <<marcadas, encerradas, expulsas, misturou, alterados>>
vars == <<servidor, navegador, pedidos, historia>>

Store == [token : Tokens \cup {None}, user : Users \cup {None},
          papel : Roles \cup {None}]
Linha == [st : {"none", "live", "revoked", "expired"}, dono : Users \cup {None},
          papel : Roles \cup {None}, acesso : BOOLEAN, raiz : Tokens \cup {None}]
Entrada == [pc : {"idle", "lido"}, user : Users \cup {None},
            papel : Roles \cup {None}]
Saida == [pc : {"idle", "enviado", "feito"}, token : Tokens \cup {None}]
Chamada == [pc : {"idle", "enviada", "espera", "renova", "achou", "revogou"},
            aba : Tabs \cup {None}, token : Tokens \cup {None}, repetida : BOOLEAN,
            ativo : BOOLEAN, papel : Roles \cup {None}]

Vazia == [token |-> None, user |-> None, papel |-> None]
SemLinha == [st |-> "none", dono |-> None, papel |-> None, acesso |-> FALSE,
             raiz |-> None]
SemEntrada == [pc |-> "idle", user |-> None, papel |-> None]
SemSaida == [pc |-> "idle", token |-> None]
Livre == [pc |-> "idle", aba |-> None, token |-> None, repetida |-> FALSE,
          ativo |-> FALSE, papel |-> None]

TypeOK ==
    /\ conta \in [Users -> [ativo : BOOLEAN, papel : Roles]]
    /\ linha \in [Tokens -> Linha]
    /\ pdvToken \in Tokens \cup {None}
    /\ guardado \in Store
    /\ aba \in [Tabs -> Store]
    /\ entra \in [Tabs -> Entrada]
    /\ sai \in [Tabs -> Saida]
    /\ chamada \in [Calls -> Chamada]
    /\ marcadas \in SUBSET Tokens
    /\ encerradas \in SUBSET Tokens
    /\ expulsas \in SUBSET Tokens
    /\ misturou \in BOOLEAN
    /\ alterados \in SUBSET Users

SessionInit ==
    /\ conta \in [Users -> [ativo : {TRUE}, papel : Papeis]]
    /\ linha = [k \in Tokens |-> SemLinha]
    /\ pdvToken = None
    /\ guardado = Vazia
    /\ aba = [t \in Tabs |-> Vazia]
    /\ entra = [t \in Tabs |-> SemEntrada]
    /\ sai = [t \in Tabs |-> SemSaida]
    /\ chamada = [c \in Calls |-> Livre]
    /\ marcadas = {}
    /\ encerradas = {}
    /\ expulsas = {}
    /\ misturou = FALSE
    /\ alterados = {}
-----------------------------------------------------------------------------
(* Tokens and their chains *)

Viva(k) == linha[k].st = "live"

\* The chain of a token, named by the token its login was answered with.
Cadeia(k) == IF k = None THEN {} ELSE {linha[k].raiz}

Renovando(c) == chamada[c].pc \in {"renova", "achou", "revogou"}
NoServidor(c) == chamada[c].pc \in {"achou", "revogou"}
DaAba(t) == {c \in Calls : chamada[c].aba = t}

\* issueTokens: the row k is new, its access token says who the user is and what.
Emite(k, u, papel, raiz) ==
    /\ linha[k].st = "none"
    /\ linha' = [linha EXCEPT ![k] = [st |-> "live", dono |-> u, papel |-> papel,
                                      acesso |-> TRUE, raiz |-> raiz]]

\* setAuth, setTokens and logout of the store: memory, the stored copy and pdv_token.
Grava(t, store) ==
    /\ aba' = [aba EXCEPT ![t] = store]
    /\ guardado' = store
    /\ pdvToken' = store.token

\* Chains in more than one tab's memory, and chains that a refresh is exchanging on
\* the server while a logout for them is under way: the code keeps neither apart.
Partilhadas ==
    {r \in Tokens : \E s \in Tabs :
        /\ r \in Cadeia(aba[s].token)
        /\ \E t \in Tabs \ {s} : r \in Cadeia(aba[t].token)}
Cruzadas ==
    {r \in Tokens : \E t \in Tabs :
        /\ sai[t].pc = "enviado" /\ r \in Cadeia(sai[t].token)
        /\ \E c \in Calls : NoServidor(c) /\ r \in Cadeia(chamada[c].token)}

\* What every step records; perdidas are the chains it lost an answer of.
Historia(perdidas) == marcadas' = marcadas \cup perdidas \cup Partilhadas' \cup Cruzadas'
-----------------------------------------------------------------------------
(* Login *)

\* validateUser and the checks of user and tenant; a failed one ends in EntraFalha.
EntraLe(t, u) ==
    /\ entra[t].pc = "idle"
    /\ conta[u].ativo
    /\ entra' = [entra EXCEPT ![t] = [pc |-> "lido", user |-> u,
                                      papel |-> conta[u].papel]]
    /\ UNCHANGED <<servidor, navegador, sai, chamada, encerradas, expulsas,
                   misturou, alterados>>
    /\ Historia({})

EntraFalha(t) ==
    /\ entra[t].pc = "lido"
    /\ entra' = [entra EXCEPT ![t] = SemEntrada]
    /\ UNCHANGED <<servidor, navegador, sai, chamada, encerradas, expulsas,
                   misturou, alterados>>
    /\ Historia({})

\* A session of another user that this login meets: in another tab, or being refreshed.
OutroUsuario(t, u) ==
    \/ \E s \in Tabs \ {t} : aba[s].token # None /\ linha[aba[s].token].dono # u
    \/ \E c \in Calls : Renovando(c) /\ linha[chamada[c].token].dono # u

GravaSemToken(t, store) ==    \* mutant: setAuth leaves pdv_token as it was
    /\ aba' = [aba EXCEPT ![t] = store]
    /\ guardado' = store
    /\ pdvToken' = IF pdvToken = None THEN store.token ELSE pdvToken
SetAuth(t, store) == Grava(t, store)

\* issueTokens, and setAuth with the answer.
EntraEmite(t, k) ==
    LET u == entra[t].user
        papel == entra[t].papel
    IN  /\ entra[t].pc = "lido"
        /\ Emite(k, u, papel, k)
        /\ SetAuth(t, [token |-> k, user |-> u, papel |-> papel])
        /\ entra' = [entra EXCEPT ![t] = SemEntrada]
        /\ misturou' = (misturou \/ OutroUsuario(t, u))
        /\ UNCHANGED <<conta, sai, chamada, encerradas, expulsas, alterados>>
        /\ Historia(IF \E c \in DaAba(t) : Renovando(c) THEN {k} ELSE {})
-----------------------------------------------------------------------------
(* API calls and the refresh they cause *)

\* ProtectedRoute shows a page to a tab that has a token and a user.
ComTela(t) == aba[t].token # None /\ aba[t].user # None

Chama(c, t) ==
    /\ chamada[c].pc = "idle"
    /\ ComTela(t)
    /\ chamada' = [chamada EXCEPT ![c] = [Livre EXCEPT !.pc = "enviada", !.aba = t,
                                                       !.token = pdvToken]]
    /\ UNCHANGED <<servidor, navegador, entra, sai, encerradas, expulsas, misturou,
                   alterados>>
    /\ Historia({})

SemVoo(t) == FALSE    \* mutant: every call refreshes for itself
\* refreshPromise: a refresh of this tab is under way.
EmVoo(t) == \E c \in DaAba(t) : Renovando(c)

\* The answer: anything but 401 ends the call, as do 401 for a call already
\* repeated and for a tab without a token; otherwise it waits for the refresh
\* under way or starts one with the refresh token in the tab's memory.
Responde(c) ==
    LET q == chamada[c]
        aceito == q.token # None /\ linha[q.token].acesso
    IN  /\ q.pc = "enviada"
        /\ chamada' = [chamada EXCEPT ![c] =
             IF aceito \/ q.repetida \/ aba[q.aba].token = None THEN Livre
             ELSE IF EmVoo(q.aba) THEN [q EXCEPT !.pc = "espera"]
             ELSE [q EXCEPT !.pc = "renova", !.token = aba[q.aba].token]]
        /\ UNCHANGED <<servidor, navegador, entra, sai, encerradas, expulsas,
                       misturou, alterados>>
        /\ Historia({})

TrocavelSempre(k) == linha[k].st # "expired"    \* mutant: revokedAt is not looked at
Trocavel(k) == Viva(k)

RenovaAcha(c) ==
    LET k == chamada[c].token
    IN  /\ chamada[c].pc = "renova"
        /\ Trocavel(k)
        /\ chamada' = [chamada EXCEPT ![c].pc = "achou",
                                      ![c].ativo = conta[linha[k].dono].ativo,
                                      ![c].papel = conta[linha[k].dono].papel]
        /\ UNCHANGED <<servidor, navegador, entra, sai, encerradas, expulsas,
                       misturou, alterados>>
        /\ Historia({})

RenovaRevoga(c) ==
    /\ chamada[c].pc = "achou"
    /\ linha' = [linha EXCEPT ![chamada[c].token].st = "revoked"]
    /\ chamada' = [chamada EXCEPT ![c].pc = "revogou"]
    /\ UNCHANGED <<conta, navegador, entra, sai, encerradas, expulsas, misturou,
                   alterados>>
    /\ Historia({})

\* setTokens leaves user and role as they were; the calls that waited are repeated.
RenovaEmite(c, k) ==
    LET q == chamada[c]
    IN  /\ q.pc = "revogou"
        /\ q.ativo
        /\ Emite(k, linha[q.token].dono, q.papel, linha[q.token].raiz)
        /\ Grava(q.aba, [aba[q.aba] EXCEPT !.token = k])
        /\ chamada' = [d \in Calls |->
             IF d = c \/ (d \in DaAba(q.aba) /\ chamada[d].pc = "espera")
             THEN [Livre EXCEPT !.pc = "enviada", !.aba = q.aba, !.token = k,
                                !.repetida = TRUE]
             ELSE chamada[d]]
        /\ UNCHANGED <<conta, entra, sai, encerradas, expulsas, misturou, alterados>>
        /\ Historia({})

\* What a tab leaves behind when it is loaded anew: its calls end, and answers to
\* a refresh or a logout under way are lost.
SemChamadas(t) == [c \in Calls |-> IF c \in DaAba(t) THEN Livre ELSE chamada[c]]
Perdidas(t) ==
    Cadeia(sai[t].token)
    \cup UNION {Cadeia(chamada[c].token) : c \in {d \in DaAba(t) : Renovando(d)}}

\* The server refuses, or the request fails at any await or on its way: forceLogout.
Recusada(c) ==
    \/ chamada[c].pc = "renova" /\ ~Trocavel(chamada[c].token)
    \/ chamada[c].pc = "revogou" /\ ~chamada[c].ativo

RenovaFalha(c) ==
    LET t == chamada[c].aba
        k == chamada[c].token
    IN  /\ Renovando(c)
        /\ Grava(t, Vazia)
        /\ chamada' = SemChamadas(t)
        /\ sai' = [sai EXCEPT ![t] = SemSaida]
        /\ entra' = [entra EXCEPT ![t] = SemEntrada]
        /\ expulsas' = expulsas \cup Cadeia(aba[t].token)
        /\ UNCHANGED <<servidor, encerradas, misturou, alterados>>
        /\ Historia(Cadeia(sai[t].token)
                    \cup (IF Recusada(c) THEN {} ELSE Cadeia(k) \cup Cadeia(aba[t].token)))

\* The answer with the new tokens is lost after they were issued.
RenovaPerde(c, k) ==
    LET q == chamada[c]
        t == q.aba
    IN  /\ q.pc = "revogou"
        /\ q.ativo
        /\ Emite(k, linha[q.token].dono, q.papel, linha[q.token].raiz)
        /\ Grava(t, Vazia)
        /\ chamada' = SemChamadas(t)
        /\ sai' = [sai EXCEPT ![t] = SemSaida]
        /\ entra' = [entra EXCEPT ![t] = SemEntrada]
        /\ expulsas' = expulsas \cup Cadeia(aba[t].token)
        /\ UNCHANGED <<conta, encerradas, misturou, alterados>>
        /\ Historia(Perdidas(t) \cup Cadeia(aba[t].token))
-----------------------------------------------------------------------------
(* Logout: logoutRemote posts the refresh token it holds, then clears *)

Sai(t) ==
    /\ sai[t].pc = "idle"
    /\ ComTela(t)
    /\ sai' = [sai EXCEPT ![t] = [pc |-> "enviado", token |-> aba[t].token]]
    /\ UNCHANGED <<servidor, navegador, entra, chamada, encerradas, expulsas,
                   misturou, alterados>>
    /\ Historia({})

SaiServidor(t) ==
    LET k == sai[t].token
    IN  /\ sai[t].pc = "enviado"
        /\ linha' = [linha EXCEPT ![k].st = IF Viva(k) THEN "revoked" ELSE @]
        /\ sai' = [sai EXCEPT ![t].pc = "feito"]
        /\ encerradas' = encerradas \cup Cadeia(k)
        /\ UNCHANGED <<conta, navegador, entra, chamada, expulsas, misturou, alterados>>
        /\ Historia({})

\* finally: also when the request failed.
SaiLimpa(t) ==
    /\ sai[t].pc # "idle"
    /\ Grava(t, Vazia)
    /\ sai' = [sai EXCEPT ![t] = SemSaida]
    /\ UNCHANGED <<servidor, entra, chamada, encerradas, expulsas, misturou, alterados>>
    /\ Historia(IF sai[t].pc = "feito" THEN {} ELSE Cadeia(sai[t].token))
-----------------------------------------------------------------------------
(* The rest of the world *)

\* A tab is opened or loaded anew and reads the store that was written last.
AbreAba(t) ==
    /\ aba' = [aba EXCEPT ![t] = guardado]
    /\ chamada' = SemChamadas(t)
    /\ sai' = [sai EXCEPT ![t] = SemSaida]
    /\ entra' = [entra EXCEPT ![t] = SemEntrada]
    /\ UNCHANGED <<servidor, pdvToken, guardado, encerradas, expulsas, misturou,
                   alterados>>
    /\ Historia(Perdidas(t))

\* setEventId and setImpersonateTenantId: the tab's whole store is written, whatever
\* other tabs wrote since; pdv_token stays.
GravaEvento(t) ==
    /\ guardado' = aba[t]
    /\ UNCHANGED <<servidor, pdvToken, aba, pedidos, encerradas, expulsas, misturou,
                   alterados>>
    /\ Historia({})

\* JWT_EXPIRES_IN, and days later JWT_REFRESH_DAYS.
VenceAcesso(k) ==
    /\ linha[k].acesso
    /\ linha' = [linha EXCEPT ![k].acesso = FALSE]
    /\ UNCHANGED <<conta, navegador, pedidos, encerradas, expulsas, misturou, alterados>>
    /\ Historia({})

VenceRefresh(k) ==
    /\ Viva(k) /\ ~linha[k].acesso
    /\ linha' = [linha EXCEPT ![k].st = "expired"]
    /\ UNCHANGED <<conta, navegador, pedidos, encerradas, expulsas, misturou, alterados>>
    /\ Historia({})

\* users.update
AtualizaConta(u, ativo, papel) ==
    /\ conta[u] # [ativo |-> ativo, papel |-> papel]
    /\ conta' = [conta EXCEPT ![u] = [ativo |-> ativo, papel |-> papel]]
    /\ alterados' = alterados \cup {u}
    /\ UNCHANGED <<linha, navegador, pedidos, encerradas, expulsas, misturou>>
    /\ Historia({})
-----------------------------------------------------------------------------
DaTab(t) ==
    \/ \E u \in Users : EntraLe(t, u)
    \/ EntraFalha(t)
    \/ \E k \in Tokens : EntraEmite(t, k)
    \/ \E c \in Calls : Chama(c, t)
    \/ Sai(t)
    \/ SaiServidor(t)
    \/ SaiLimpa(t)
    \/ AbreAba(t)
    \/ GravaEvento(t)

DaChamada(c) ==
    \/ Responde(c)
    \/ RenovaAcha(c)
    \/ RenovaRevoga(c)
    \/ \E k \in Tokens : RenovaEmite(c, k) \/ RenovaPerde(c, k)
    \/ RenovaFalha(c)

DoMundo ==
    \/ \E k \in Tokens : VenceAcesso(k) \/ VenceRefresh(k)
    \/ \E u \in Users, ativo \in BOOLEAN, papel \in Papeis :
          AtualizaConta(u, ativo, papel)

SessionNext ==
    \/ \E t \in Tabs : DaTab(t)
    \/ \E c \in Calls : DaChamada(c)
    \/ DoMundo

SessionSpec == SessionInit /\ [][SessionNext]_vars
-----------------------------------------------------------------------------
(* Properties *)

\* Rotation leaves one place to sign in from: a chain has one refresh token that
\* can be exchanged, and none after a logout, unless tabs shared the chain, a
\* logout met an exchange under way on the server, or an answer was lost.
UmaSessao ==
    \A r \in Tokens \ marcadas :
        LET vivas == {k \in Tokens : Viva(k) /\ linha[k].raiz = r}
        IN  /\ \A k, l \in vivas : k = l
            /\ r \in encerradas => vivas = {}

\* The single flight of refreshes works: nobody is sent to the login page while the
\* session could go on, unless tabs shared it or an answer was lost.
NuncaExpulso ==
    \A r \in expulsas \ marcadas :
        \/ r \in encerradas
        \/ linha[r].dono \in alterados
        \/ \E k \in Tokens : linha[k].raiz = r /\ linha[k].st = "expired"

\* A tab's requests are made as the user it shows, though the token comes from an
\* entry all tabs share, unless a login met another user's session.
AgeComoMostra ==
    ~misturou =>
        \A t \in Tabs : ComTela(t) /\ pdvToken # None =>
            linha[pdvToken].dono = aba[t].user

\* No page offers what the server then refuses as forbidden: role matrix, routes
\* and the guards of the controllers agree, outside the two places named in Access;
\* and the role a page is shown for is the one its calls are made with, until
\* users.update changes it.
TelaRespondida ==
    /\ Conferem
    /\ ~misturou =>
         \A t \in Tabs :
             ComTela(t) /\ pdvToken # None /\ aba[t].user \notin alterados =>
                 linha[pdvToken].papel = aba[t].papel
=============================================================================
