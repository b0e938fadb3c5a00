------------------------------- MODULE Access -------------------------------
(***************************************************************************)
(* Who may do what: the matrix of roles and permissions, which the         *)
(* repository keeps three times (backend, web-admin, shared), the guards   *)
(* of every controller, the permission every page of web-admin is shown    *)
(* for, and the calls each page makes.  A handler is <<controller, name>>; *)
(* a controller is the function from its handlers to the roles its guards  *)
(* let through.  Constant-level: Session says when the role a page was     *)
(* shown for is the role a call is made with.                              *)
(***************************************************************************)

Roles == {"platform_admin", "tenant_admin", "supervisor", "cashier",
          "bartender", "exit"}

AllTenant ==
    {"tenant.manage", "team.manage", "billing.view", "events.manage",
     "products.manage", "reports.view", "cards.manage", "recharge.create",
     "pos.sell", "exit.control", "cash.open", "cash.close", "refund.approve",
     "terminals.manage", "integrations.manage", "fiscal.manage",
     "customers.manage", "audit.view"}

RolePermissions ==
    [platform_admin |-> {"platform.manage", "audit.view"},
     tenant_admin   |-> AllTenant,
     supervisor     |-> AllTenant \ {"tenant.manage", "team.manage", "billing.view",
                                     "integrations.manage", "fiscal.manage"},
     cashier        |-> {"recharge.create", "cards.manage", "customers.manage",
                         "cash.open", "cash.close"},
     bartender      |-> {"pos.sell", "products.manage"},
     exit           |-> {"exit.control"}]

Can(r, permission) == permission \in RolePermissions[r]

LegacyRole == [super_admin |-> "platform_admin", admin |-> "tenant_admin",
               operator |-> "bartender", exit |-> "exit"]

\* The guards: PermissionsGuard lets through who has one of the permissions,
\* RolesGuard compares normalized roles, JwtAuthGuard alone asks for a session.
RequirePermission(ps) == {r \in Roles : \E p \in ps : Can(r, p)}
RolesGuard(names) == {LegacyRole[n] : n \in names}
JwtAuth == Roles
Publico == Roles \cup {"ninguem"}    \* no guard: without a session too
-----------------------------------------------------------------------------
(* Controllers *)

Vender == RequirePermission({"pos.sell"})
Cobrar == RequirePermission({"pos.sell", "recharge.create"})
Administrar == RolesGuard({"admin", "super_admin"})

CardsStatusSemCaixa ==    \* mutant: the guard of the status forgets the cashier
    RequirePermission({"pos.sell", "exit.control"})
CardsStatus ==
    RequirePermission({"cards.manage", "recharge.create", "pos.sell", "exit.control"})

CardsController ==
    LET Manage == RequirePermission({"cards.manage"})
        Recharge == RequirePermission({"recharge.create"})
    IN  [status |-> CardsStatus, create |-> Manage,
         rechargeIntent |-> Recharge, recharge |-> Recharge,
         reserve |-> Vender, confirm |-> Vender, rollback |-> Vender,
         refund |-> RequirePermission({"refund.approve"}),
         block |-> Manage, unblock |-> Manage, transfer |-> Manage,
         history |-> RequirePermission({"cards.manage", "recharge.create",
                                        "reports.view"})]

CashController ==
    LET Open == RequirePermission({"cash.open"})
    IN  [getOpen |-> Open, open |-> Open, movements |-> Open, addMovement |-> Open,
         close |-> RequirePermission({"cash.close"})]

ComandasController ==
    [h \in {"paymentMethods", "listOpen", "nfcTap", "findOne", "addItems",
            "removeItem", "close", "reopen", "pay", "cancel"} |-> JwtAuth]

PaymentsController ==
    [providers |-> RequirePermission({"pos.sell", "recharge.create",
                                      "integrations.manage"}),
     pix |-> Cobrar, card |-> Cobrar, status |-> Cobrar, confirm |-> Cobrar,
     cancel |-> Cobrar]

CustomersController ==
    LET Manage == RequirePermission({"customers.manage"})
    IN  [list |-> RequirePermission({"customers.manage", "exit.control"}),
         lookup |-> RequirePermission({"customers.manage", "recharge.create"}),
         register |-> Manage, checkin |-> Manage]

ExitController ==
    LET Portaria == RolesGuard({"exit", "admin", "super_admin"})
    IN  [check |-> Portaria \cup RolesGuard({"operator"}), release |-> Portaria,
         today |-> Portaria, blocked |-> Portaria, reactivate |-> Administrar]

EventsController ==
    LET Manage == RequirePermission({"events.manage"})
    IN  [findAll |-> RequirePermission({"reports.view", "events.manage", "pos.sell",
                                        "recharge.create"}),
         findOne |-> RequirePermission({"reports.view", "events.manage", "pos.sell"}),
         dashboard |-> RequirePermission({"reports.view"}),
         create |-> Manage, activate |-> Manage, close |-> Manage]

ProductsController ==
    LET Manage == RequirePermission({"products.manage"})
    IN  [findByEvent |-> RequirePermission({"products.manage", "pos.sell",
                                            "reports.view"}),
         lowStock |-> RequirePermission({"products.manage", "reports.view"}),
         findOne |-> RequirePermission({"products.manage", "pos.sell"}),
         create |-> Manage, update |-> Manage, remove |-> Manage]

OrdersController ==
    [h \in {"create", "findOne", "addItems", "checkout"} |-> JwtAuth]
FiscalController ==
    [h \in {"status", "pendingOrders", "createDemoOrder", "emit", "findAll",
            "findOne", "xml", "danfe", "cancel"} |-> JwtAuth]
PdvController ==
    [h \in {"openSession", "closeSession", "listTerminals", "getStatus"} |-> JwtAuth]
SyncController == [h \in {"sync", "process", "pending"} |-> JwtAuth]
ReportsController == [h \in {"sales", "products"} |-> JwtAuth]
BrandingController == [get |-> JwtAuth]
AdminController == [h \in {"overview", "comandas"} |-> Administrar]
UsersController == [h \in {"list", "create", "update"} |-> Administrar]
IntegrationsController == [h \in {"list", "create", "deactivate"} |-> Administrar]
KdsController == [queue |-> RequirePermission({"pos.sell", "products.manage"})]
AuditController == [list |-> RequirePermission({"audit.view"})]
LeadsController ==
    [create |-> Publico, list |-> RequirePermission({"platform.manage"})]
PlansController == [list |-> Publico]
AuthController ==
    [login |-> Publico, refresh |-> Publico, logout |-> Publico, pin |-> Publico,
     setPin |-> JwtAuth]
PlatformController ==
    LET Super == RolesGuard({"super_admin"})
    IN  [plans |-> Publico, overview |-> Super, companies |-> Super, company |-> Super,
         createCompany |-> Super, updateCompany |-> Super, changePlan |-> Super,
         setStatus |-> Super, createInvoice |-> Super, markInvoicePaid |-> Super,
         expireTrials |-> Super]
TenantsController ==
    LET Super == RolesGuard({"super_admin"})
    IN  [onboard |-> Publico, findAll |-> Super, create |-> Super, me |-> JwtAuth,
         findOne |-> Administrar, update |-> Administrar]

Controllers ==
    [cards |-> CardsController, cash |-> CashController,
     comandas |-> ComandasController, payments |-> PaymentsController,
     customers |-> CustomersController, exit |-> ExitController,
     events |-> EventsController, products |-> ProductsController,
     orders |-> OrdersController, fiscal |-> FiscalController,
     pdv |-> PdvController, sync |-> SyncController, reports |-> ReportsController,
     branding |-> BrandingController, admin |-> AdminController,
     users |-> UsersController, integrations |-> IntegrationsController,
     kds |-> KdsController, audit |-> AuditController, leads |-> LeadsController,
     plans |-> PlansController, auth |-> AuthController,
     platform |-> PlatformController, tenants |-> TenantsController]

Aceita(papel, h) == papel \in Controllers[h[1]][h[2]]
-----------------------------------------------------------------------------
(* Pages of web-admin *)

\* App.tsx: the permission each route is wrapped in.
Rotas ==
    [pos |-> "pos.sell", pagar |-> "pos.sell", recarga |-> "recharge.create",
     saida |-> "exit.control", caixa |-> "cash.open", app |-> "reports.view",
     reports |-> "reports.view", admin |-> "tenant.manage",
     cadastro |-> "customers.manage", platform |-> "platform.manage",
     empresas |-> "platform.manage", empresa |-> "platform.manage",
     leads |-> "platform.manage", equipe |-> "team.manage",
     billing |-> "billing.view", cards |-> "cards.manage",
     products |-> "products.manage", pdv |-> "terminals.manage",
     fiscal |-> "fiscal.manage", integrations |-> "integrations.manage"]

Paginas == DOMAIN Rotas

\* ProtectedRoute: the exit operator sees only the exit.
Mostra(papel, pg) ==
    /\ papel = "exit" => pg = "saida"
    /\ Can(papel, Rotas[pg])

\* NAV_BY_PERMISSION and CASH_NAV: the permission each entry of the menu asks for.
Menu ==
    {<<"platform", "platform.manage">>, <<"leads", "platform.manage">>,
     <<"empresas", "platform.manage">>, <<"equipe", "team.manage">>,
     <<"billing", "billing.view">>, <<"admin", "tenant.manage">>,
     <<"cadastro", "customers.manage">>, <<"pos", "pos.sell">>,
     <<"saida", "exit.control">>, <<"app", "reports.view">>,
     <<"cards", "cards.manage">>, <<"recarga", "recharge.create">>,
     <<"products", "products.manage">>, <<"reports", "reports.view">>,
     <<"pdv", "terminals.manage">>, <<"fiscal", "fiscal.manage">>,
     <<"integrations", "integrations.manage">>, <<"caixa", "cash.open">>}

\* homePathForRole, as a page
Inicio ==
    [platform_admin |-> "platform", tenant_admin |-> "app", supervisor |-> "app",
     cashier |-> "recarga", bartender |-> "pos", exit |-> "saida"]

Chamadas(c, hs) == {<<c, h>> : h \in hs}

PosPage ==
    Chamadas("events", {"findAll"}) \cup Chamadas("products", {"findByEvent"})
    \cup Chamadas("payments", {"providers", "status", "pix", "card", "confirm"})
    \cup Chamadas("comandas", {"findOne", "nfcTap", "addItems", "removeItem", "pay"})
PhonePayPage ==
    Chamadas("comandas", {"findOne"})
    \cup Chamadas("payments", {"status", "pix", "card", "confirm", "cancel"})
RechargeFlow ==
    Chamadas("cards", {"status", "recharge", "rechargeIntent"})
    \cup Chamadas("payments", {"status", "confirm"})
ExitGatePage == Chamadas("exit", {"today", "blocked", "check", "release"})
CashPage == Chamadas("cash", {"getOpen", "open", "close"})
DashboardPage == {<<"events", "dashboard">>, <<"reports", "products">>}
ReportsPage == Chamadas("reports", {"sales", "products"})
AdminControlPage == Chamadas("admin", {"overview", "comandas"})
CadastroPage == Chamadas("customers", {"lookup", "register", "checkin"})
PlatformDashboardPage == Chamadas("platform", {"overview", "expireTrials"})
TenantsPage ==
    {<<"plans", "list">>, <<"events", "findAll">>}
    \cup Chamadas("platform", {"companies", "createCompany"})
CompanyDetailPage ==
    {<<"events", "findAll">>}
    \cup Chamadas("platform", {"company", "changePlan", "setStatus", "updateCompany",
                               "createInvoice", "markInvoicePaid"})
LeadsPage == {<<"leads", "list">>}
TeamPage == Chamadas("users", {"list", "create", "update"})
BillingPage == {<<"tenants", "me">>, <<"plans", "list">>}
CardsPage == Chamadas("cards", {"status", "create", "block", "unblock"})
ProductsPage == Chamadas("products", {"findByEvent", "create", "update"})
PdvPage == {<<"pdv", "listTerminals">>}
FiscalPage ==
    Chamadas("fiscal", {"status", "pendingOrders", "findAll", "emit",
                        "createDemoOrder", "cancel"})
IntegrationsPage == Chamadas("integrations", {"list", "create", "deactivate"})

\* Pages outside ProtectedRoute.
LoginPage == Chamadas("auth", {"login"})
OnboardPage == {<<"plans", "list">>, <<"tenants", "onboard">>}
LandingPage == {<<"plans", "list">>, <<"leads", "create">>}
PlansPage == {<<"plans", "list">>}
Publicas == LoginPage \cup OnboardPage \cup LandingPage \cup PlansPage

PageCalls ==
    [pos |-> PosPage, pagar |-> PhonePayPage, recarga |-> RechargeFlow,
     saida |-> ExitGatePage, caixa |-> CashPage, app |-> DashboardPage,
     reports |-> ReportsPage, admin |-> AdminControlPage, cadastro |-> CadastroPage,
     platform |-> PlatformDashboardPage, empresas |-> TenantsPage,
     empresa |-> CompanyDetailPage, leads |-> LeadsPage, equipe |-> TeamPage,
     billing |-> BillingPage, cards |-> CardsPage, products |-> ProductsPage,
     pdv |-> PdvPage, fiscal |-> FiscalPage, integrations |-> IntegrationsPage]

\* The calls that a page shown for one role makes and that the guards refuse to
\* the role the call is made with.
Recusadas(mostrado, usado) ==
    UNION {{h \in PageCalls[pg] : ~Aceita(usado, h)} :
             pg \in {p \in Paginas : Mostra(mostrado, p)}}

\* Where matrix and guards are known to disagree: exit.controller names roles,
\* the page asks for exit.control, which the supervisor has; and entering a
\* tenant from the platform pages lists its events, for which platform_admin
\* has none of the permissions.
Divergentes(papel) ==
    CASE papel = "supervisor" -> ExitGatePage
      [] papel = "platform_admin" -> {<<"events", "findAll">>}
      [] OTHER -> {}

\* Every role has its home page, is offered pages it is shown, and no page, its own
\* or a public one, makes a call that is refused to it.
Conferem ==
    /\ \A r \in Roles :
        /\ Mostra(r, Inicio[r])
        /\ r # "exit" => \A e \in Menu : Can(r, e[2]) => Mostra(r, e[1])
        /\ Recusadas(r, r) \subseteq Divergentes(r)
    /\ \A h \in Publicas : Aceita("ninguem", h)
=============================================================================
