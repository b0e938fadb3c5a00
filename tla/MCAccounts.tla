----------------------------- MODULE MCAccounts -----------------------------
(***************************************************************************)
(* TLC instance of the accounts: the sessions of one browser (Session),    *)
(* the company they belong to (Tenancy) and its terminals (Pdv).  The      *)
(* three share no row the properties are about, so a behaviour is one of   *)
(* the browser, one of the company, or the terminals being created and     *)
(* then one of their sessions.                                             *)
(*                                                                         *)
(* Bounds.  MaxEmCurso requests of the browser are under way at once; one  *)
(* once an account was changed, a chain shared or an answer lost.  In the  *)
(* last two cases no token expires any more, and with two chains nothing   *)
(* new is asked.  An account changes once, beside a login or a refresh: it *)
(* is switched off or gets another role, not both.  A token expires under  *)
(* a call sent with it or where a tab holds it.  An event is chosen while  *)
(* nothing is under way, no chain is shared and no account was changed.  A *)
(* login that meets another user's session is not followed further, nor is *)
(* the company once saves or creations overlapped or a limit was lowered   *)
(* (what is under way then ends).                                          *)
(***************************************************************************)
EXTENDS Session, Pdv, TLC

CONSTANTS MaxEmCurso, MaxUsuarios

Limites == {[k \in Recursos |-> IF k = "usuarios" THEN n ELSE 1] : n \in 1..MaxUsuarios}

\* Requests, rows and sessions of the company are the same model values as tabs,
\* users and calls: one of the two is idle, so one permutation serves both.
Symmetry == Permutations(Users) \cup Permutations(Tabs) \cup Permutations(Calls)

\* Rows are never reused, so tokens are issued in one order instead of permuted.
Fila ==
    CHOOSE f \in [1..Cardinality(Tokens) -> Tokens] : \A i, j \in DOMAIN f : f[i] = f[j] => i = j
Emissao ==
    \A i \in 2..Cardinality(Tokens) :
        linha'[Fila[i]].st # "none" => linha'[Fila[i - 1]].st # "none"

Parada == \A u \in Users : conta[u] = [ativo |-> TRUE, papel |-> "cashier"]
Raizes(lin) == {k \in Tokens : lin[k].raiz = k}
EmCurso ==
    Cardinality({t \in Tabs : entra[t].pc # "idle"})
    + Cardinality({t \in Tabs : sai[t].pc # "idle"})
    + Cardinality({c \in Calls : chamada[c].pc # "idle"})

Ocupacao ==
    \/ EmCurso' <= EmCurso
    \/ EmCurso' <= IF marcadas # {} /\ Cardinality(Raizes(linha)) > 1 THEN 0
                   ELSE IF marcadas # {} \/ alterados # {} THEN 1
                   ELSE MaxEmCurso

Mudanca ==
    conta' # conta =>
        /\ alterados = {} /\ marcadas = {} /\ EmCurso = 1
        /\ \/ \E t \in Tabs : entra[t].pc # "idle"
           \/ \E c \in Calls : Renovando(c)
        /\ \A u \in Users : conta'[u].ativo \/ conta'[u].papel = conta[u].papel

Vencimento ==
    \A k \in Tokens :
        /\ linha[k].acesso /\ ~linha'[k].acesso =>
             /\ marcadas = {}
             /\ \E c \in Calls : chamada[c].pc = "enviada" /\ chamada[c].token = k
        /\ linha[k].st = "live" /\ linha'[k].st = "expired" =>
             marcadas = {} /\ EmCurso = 0 /\ \E t \in Tabs : aba[t].token = k

Escolha ==
    guardado' # guardado /\ UNCHANGED aba =>
        /\ marcadas = {} /\ EmCurso = 0 /\ alterados = {}

Entradas ==
    Raizes(linha') # Raizes(linha) => marcadas = {} /\ Cardinality(Raizes(linha')) <= 2

Navegador ==
    /\ ~misturou
    /\ SessionNext
    /\ Emissao /\ Ocupacao /\ Mudanca /\ Vencimento /\ Escolha /\ Entradas

\* Trials and invoices, users, and terminals: one of the three in a behaviour.
Contratos == trialVencido' \/ \E i \in Faturas : fatura'[i] # "none"
Linhagem(k) ==
    \/ \E r \in Linhas : recurso'[k][r] # "none"
    \/ \E p \in Pedidos : Criando(p, k)'
UmAssunto ==
    /\ Contratos => \A k \in Recursos : ~Linhagem(k)
    /\ \A j, k \in Recursos : Linhagem(j) /\ Linhagem(k) => j = k

Empresa ==
    /\ TenancyNext
    /\ UmAssunto
    /\ juntos # {} \/ baixou =>
         \A p \in Pedidos : Em(p, "idle") => pedido'[p] = pedido[p]

\* The company has its terminals and nothing else of it is under way.
SoTerminais ==
    /\ tenant.status = "trial" /\ ~trialVencido /\ juntos = {}
    /\ Uso("usuarios") = 0
    /\ \A p \in Pedidos : Em(p, "idle")
    /\ \A i \in Faturas : fatura[i] = "none"

\* The browser has done nothing yet.
SemNavegador ==
    linha = [k \in Tokens |-> SemLinha] /\ EmCurso = 0 /\ Parada /\ alterados = {}

SemOperacao ==
    /\ online = {} /\ perturbados = {}
    /\ sessao = [s \in Sessoes |-> SemSessao]
    /\ acao = [o \in Operadores |-> SemAcao]

Fim == misturou \/ juntos # {} \/ baixou

MCInit == SessionInit /\ Parada /\ PdvInit

MCNext ==
    \/ tenant = SemTenant /\ Navegador /\ UNCHANGED pdvVars
    \/ SemNavegador /\ UNCHANGED vars
       /\ \/ SemOperacao /\ Empresa /\ UNCHANGED pdvOwn
          \/ SoTerminais /\ PdvOwnNext /\ UNCHANGED tenancyVars
    \/ Fim /\ UNCHANGED <<vars, pdvVars>>

MCSpec == MCInit /\ [][MCNext]_<<vars, pdvVars>>
=============================================================================
