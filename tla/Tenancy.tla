------------------------------- MODULE Tenancy -------------------------------
(***************************************************************************)
(* A company of the platform: its row of tenants (status and the limits of *)
(* its plan), its invoices, and the rows the limits count: users, events   *)
(* and terminals.  tenants.service, platform.service, users.service,       *)
(* events.service.create and pdv.service.getOrCreateTerminal.  Every query *)
(* filters by company, so one company is modelled.                         *)
(*                                                                         *)
(* Requests are slots as in Cards; a save of the company's row writes back *)
(* every column as it was read.  A check that throws ends in Desiste.      *)
(***************************************************************************)
EXTENDS Integers, FiniteSets

CONSTANTS
    Pedidos,     \* requests that may be in flight at once
    Recursos,    \* what the plan limits: usuarios, eventos, terminais
    Linhas,      \* ids of their rows
    Faturas,     \* rows of subscription_invoices
    Planos,      \* PLAN_CATALOG: the limits a plan, or an operator, may set
    Nulo         \* null

ASSUME TenancyAssumption ==
    /\ "usuarios" \in Recursos
    /\ Planos # {} /\ Planos \subseteq [Recursos -> Nat \ {0}]
    /\ IsFiniteSet(Linhas)
    /\ Nulo \notin Linhas \cup Faturas \cup Recursos

VARIABLES
    tenant,        \* the company's row: status and limits
    trialVencido,  \* trialAte is in the past
    recurso,       \* per kind, its rows; a user may be inactive
    fatura,        \* invoices
    pedido,        \* the requests in flight
    juntos,        \* kinds of rows two requests ever created, or one of which two ever
                   \* changed, at once; "tenant": two ever had its row to save (history)
    baixou         \* a save ever lowered a limit (history)

tenancyVars == <<tenant, trialVencido, recurso, fatura, pedido, juntos, baixou>>

Status == {"trial", "active", "suspended", "cancelled"}
TenantRow == [status : Status \cup {"none"}, max : Planos]

Pedido == [pc : {"idle", "admin", "grava", "conta", "insere", "edita", "paga",
                 "pagaTenant"},
           lido : TenantRow, tipo : Recursos \cup {Nulo}, linha : Linhas \cup {Nulo},
           fatura : Faturas \cup {Nulo}, status : Status \cup {Nulo},
           ativo : {"ativa", "inativa", Nulo}]

SemTenant == [status |-> "none", max |-> CHOOSE m \in Planos : TRUE]
Parado == [pc |-> "idle", lido |-> SemTenant, tipo |-> Nulo, linha |-> Nulo,
           fatura |-> Nulo, status |-> Nulo, ativo |-> Nulo]

TenancyTypeOK ==
    /\ tenant \in TenantRow
    /\ trialVencido \in BOOLEAN
    /\ recurso \in [Recursos -> [Linhas -> {"none", "ativa", "inativa"}]]
    /\ fatura \in [Faturas -> {"none", "pending", "paid"}]
    /\ pedido \in [Pedidos -> Pedido]
    /\ juntos \in SUBSET (Recursos \cup {"tenant"})
    /\ baixou \in BOOLEAN

TenancyInit ==
    /\ tenant = SemTenant
    /\ trialVencido = FALSE
    /\ recurso = [k \in Recursos |-> [r \in Linhas |-> "none"]]
    /\ fatura = [i \in Faturas |-> "none"]
    /\ pedido = [p \in Pedidos |-> Parado]
    /\ juntos = {}
    /\ baixou = FALSE
-----------------------------------------------------------------------------
Em(p, pc) == pedido[p].pc = pc
Segue(p, r) == pedido' = [pedido EXCEPT ![p] = r]
Encerra(p) == Segue(p, Parado)

Existe == tenant.status # "none"

Ativas(k, rec) == {r \in Linhas : rec[k][r] = "ativa"}
Uso(k) == Cardinality(Ativas(k, recurso))

\* A request on its way to a new row of kind k.
Criando(p, k) ==
    \/ pedido[p].pc \in {"conta", "insere"} /\ pedido[p].tipo = k
    \/ pedido[p].pc = "admin" /\ k = "usuarios"

MesmoUsuario(p, q) == pedido[p].linha # Nulo /\ pedido[p].linha = pedido[q].linha

Encontros ==
    {k \in Recursos :
        \E p, q \in Pedidos :
            /\ p # q
            /\ \/ Criando(p, k) /\ Criando(q, k)
               \/ k = "usuarios" /\ MesmoUsuario(p, q)}
    \cup (IF \E p, q \in Pedidos : p # q /\ Em(p, "grava") /\ Em(q, "grava")
          THEN {"tenant"} ELSE {})

Baixa == \E k \in Recursos : tenant'.max[k] < tenant.max[k]

TenancyHistoria ==
    /\ juntos' = juntos \cup Encontros'
    /\ baixou' = (baixou \/ (Existe /\ Baixa))

Desiste(p) ==
    /\ ~Em(p, "idle")
    /\ Encerra(p)
    /\ UNCHANGED <<tenant, trialVencido, recurso, fatura>>
-----------------------------------------------------------------------------
(* The company's row *)

\* provision and onboard save the company, then its first user; tenants.create
\* saves the company alone.  Its slug is unique in the database.
Provisiona(p, m, comAdmin) ==
    /\ Em(p, "idle")
    /\ ~Existe
    /\ tenant' = [status |-> "trial", max |-> m]
    /\ IF comAdmin THEN Segue(p, [Parado EXCEPT !.pc = "admin"]) ELSE Encerra(p)
    /\ UNCHANGED <<trialVencido, recurso, fatura>>

ProvisionaAdmin(p, r) ==
    /\ Em(p, "admin")
    /\ recurso["usuarios"][r] = "none"
    /\ recurso' = [recurso EXCEPT !["usuarios"][r] = "ativa"]
    /\ Encerra(p)
    /\ UNCHANGED <<tenant, trialVencido, fatura>>

\* setStatus, changePlan, updateCompany and tenants.update: the row with its new
\* status st or limits m, where they are given, is saved by Salva.
Altera(p, st, m) ==
    /\ Em(p, "idle")
    /\ Existe
    /\ Segue(p, [Parado EXCEPT !.pc = "grava", !.status = st,
                    !.lido = [status |-> IF st = Nulo THEN tenant.status ELSE st,
                              max |-> m]])
    /\ UNCHANGED <<tenant, trialVencido, recurso, fatura>>

Salva(p) ==
    /\ Em(p, "grava")
    /\ tenant' = pedido[p].lido
    /\ Encerra(p)
    /\ UNCHANGED <<trialVencido, recurso, fatura>>

\* createInvoice
CriaFatura(i) ==
    /\ Existe
    /\ fatura[i] = "none"
    /\ fatura' = [fatura EXCEPT ![i] = "pending"]
    /\ UNCHANGED <<tenant, trialVencido, recurso, pedido>>

\* markInvoicePaid: the invoice whatever its status, then the company as it is by then.
PagaLe(p, i) ==
    /\ Em(p, "idle")
    /\ fatura[i] # "none"
    /\ Segue(p, [Parado EXCEPT !.pc = "paga", !.fatura = i])
    /\ UNCHANGED <<tenant, trialVencido, recurso, fatura>>

PagaFatura(p) ==
    /\ Em(p, "paga")
    /\ fatura' = [fatura EXCEPT ![pedido[p].fatura] = "paid"]
    /\ Segue(p, [pedido[p] EXCEPT !.pc = "pagaTenant"])
    /\ UNCHANGED <<tenant, trialVencido, recurso>>

PagoAtiva(row) == [row EXCEPT !.status = "active"]    \* mutant: whatever the status
Pago(row) == IF row.status = "trial" THEN [row EXCEPT !.status = "active"] ELSE row

PagaTenant(p) ==
    /\ Em(p, "pagaTenant")
    /\ Segue(p, [Parado EXCEPT !.pc = "grava", !.lido = Pago(tenant)])
    /\ UNCHANGED <<tenant, trialVencido, recurso, fatura>>

\* The end of the trial: expireTrials for each company it found, login and
\* assertActive for the one they read.
Expira(p) ==
    /\ Em(p, "idle")
    /\ tenant.status = "trial"
    /\ trialVencido
    /\ Segue(p, [Parado EXCEPT !.pc = "grava",
                               !.lido = [tenant EXCEPT !.status = "suspended"]])
    /\ UNCHANGED <<tenant, trialVencido, recurso, fatura>>

VenceTrial ==
    /\ Existe
    /\ ~trialVencido
    /\ trialVencido' = TRUE
    /\ UNCHANGED <<tenant, recurso, fatura, pedido>>
-----------------------------------------------------------------------------
(* What the plan limits: users.create, events.create, getOrCreateTerminal; and
   users.update, which counts when it makes an inactive user active *)

CriaLe(p, k) ==
    /\ Em(p, "idle")
    /\ Existe
    /\ Segue(p, [Parado EXCEPT !.pc = "conta", !.tipo = k, !.lido = tenant])
    /\ UNCHANGED <<tenant, trialVencido, recurso, fatura>>

\* users.update of user r, whose row will say ativo; Edita saves the row as a whole.
EditaLe(p, r, ativo) ==
    /\ Em(p, "idle")
    /\ recurso["usuarios"][r] # "none"
    /\ Segue(p, [Parado EXCEPT
                    !.pc = IF ativo = "ativa" /\ recurso["usuarios"][r] = "inativa"
                           THEN "conta" ELSE "edita",
                    !.tipo = "usuarios", !.linha = r, !.lido = tenant, !.ativo = ativo])
    /\ UNCHANGED <<tenant, trialVencido, recurso, fatura>>

Edita(p) ==
    LET q == pedido[p]
    IN  /\ Em(p, "edita")
        /\ recurso' = [recurso EXCEPT !["usuarios"][q.linha] = q.ativo]
        /\ Encerra(p)
        /\ UNCHANGED <<tenant, trialVencido, fatura>>

CabeMaisUm(k, row) == Uso(k) <= row.max[k]    \* mutant: one too many
Cabe(k, row) == Uso(k) < row.max[k]

CriaConta(p) ==
    LET q == pedido[p]
    IN  /\ Em(p, "conta")
        /\ Cabe(q.tipo, q.lido)
        /\ Segue(p, [q EXCEPT !.pc = "insere"])
        /\ UNCHANGED <<tenant, trialVencido, recurso, fatura>>

\* The new row, or the user's.
CriaInsere(p, r) ==
    LET q == pedido[p]
    IN  /\ Em(p, "insere")
        /\ IF q.linha = Nulo THEN recurso[q.tipo][r] = "none" ELSE r = q.linha
        /\ recurso' = [recurso EXCEPT ![q.tipo][r] = "ativa"]
        /\ Encerra(p)
        /\ UNCHANGED <<tenant, trialVencido, fatura>>
-----------------------------------------------------------------------------
Atende(p) ==
    \/ \E m \in Planos, comAdmin \in BOOLEAN : Provisiona(p, m, comAdmin)
    \/ \E r \in Linhas : ProvisionaAdmin(p, r)
    \/ \E st \in Status \cup {Nulo}, m \in Planos \cup {tenant.max} : Altera(p, st, m)
    \/ Salva(p)
    \/ \E i \in Faturas : PagaLe(p, i)
    \/ PagaFatura(p)
    \/ PagaTenant(p)
    \/ Expira(p)
    \/ \E k \in Recursos : CriaLe(p, k)
    \/ \E r \in Linhas, ativo \in {"ativa", "inativa"} : EditaLe(p, r, ativo)
    \/ Edita(p)
    \/ CriaConta(p)
    \/ \E r \in Linhas : CriaInsere(p, r)
    \/ Desiste(p)

TenancyNext ==
    /\ \/ \E p \in Pedidos : Atende(p)
       \/ \E i \in Faturas : CriaFatura(i)
       \/ VenceTrial
    /\ TenancyHistoria

TenancySpec == TenancyInit /\ [][TenancyNext]_tenancyVars
-----------------------------------------------------------------------------
(* Properties *)

\* "Limite de ... do plano atingido": a company never has more active users, events
\* or terminals than its plan allows, unless two requests created one, or changed the
\* same user, at once, or the limit was lowered under what it has.
DentroDoLimite ==
    ~baixou => \A k \in Recursos \ juntos : Existe => Uso(k) <= tenant.max[k]

\* The status of a company is what was last asked of it: no payment, no job and no
\* save of other columns brings a suspended or cancelled company back or stops an
\* active one, and a trial ends by its date, a payment or a command.
StatusPorComando ==
    [][LET was == tenant.status
           is == tenant'.status
           mandado == \E p \in Pedidos : Em(p, "grava") /\ pedido[p].status = is
       IN  was # is /\ was # "none" /\ "tenant" \notin juntos' =>
              \/ mandado
              \/ was = "trial" /\ is = "suspended" /\ trialVencido
              \/ was = "trial" /\ is = "active" /\ \E i \in Faturas : fatura[i] = "paid"
      ]_tenancyVars
=============================================================================
