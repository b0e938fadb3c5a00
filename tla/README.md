# SistemaPDV in TLA+

Verification of SistemaPDV, a cashless point of sale: customers carry an NFC
wristband, load it with money, consume on tabs (*comandas*), pay with the
wristband, PIX, card or cash, and leave through a controlled exit. These modules
model the services of `backend/src` that move money, decide who may leave, who is
signed in and what a company may do, and the screens (web and terminal app) that
charge a customer. TLC checks them on small instances, TLAPS proves theorems
about them for every instance.

The modules use the names of the source. All line references are to `src/`.

## 1. The system

### Parts

| part | state it keeps | operations | talks to |
|---|---|---|---|
| **cards** `cards/cards.service.ts` | `cards` (saldo, status), `saldo_reserves`, `recharges`, `transactions` | create, createRechargeIntent, recharge, reserve, confirm, rollback, refund, block, unblock, transfer | payments (intents it creates and reads), cash (movements of cash recharges), products (stock) |
| **comandas** `comandas/comandas.service.ts` | `comandas`, `comanda_items`, `comanda_payments` | nfcTap, addItems, removeItem, close, reopen, pay, cancel | cards (reserve and confirm when the wristband pays), fiscal |
| **payments** `payments/payments.service.ts` | `payment_intents` | createPix, createCardContactless, getStatus, confirm, cancel, the provider's webhook | comandas (`pay`), PIX and SoftPOS providers |
| **exit** `exit/exit.service.ts` | `exits`, and `cards.status`, `comandas.status` | check, release, reactivateCard | reads and writes the tables of comandas and cards |
| **customers** `customers/customers.service.ts` | `customers`, the customer of a card and of a comanda | register, checkin | cards, comandas (nfcTap) |
| **cash** `cash/cash.service.ts` | `cash_sessions`, `cash_movements` | open, close, addMovement, requireOpen | called by cards for recharges in cash |
| **orders** `orders/orders.service.ts` | `orders`, `order_items` | create, addItems, checkout | cards (reserve, confirm), fiscal (emit) |
| **fiscal** `fiscal/fiscal.service.ts` | `nfce_documents`, a sequence in memory | emit, cancel, demo order | the NFC-e provider |
| **auth** `auth/auth.service.ts` | `refresh_tokens` | login, refresh, logout, PIN | the browser's store and its retry after 401 |
| **permissions** `shared/permissions.ts`, guards | none: tables in the code | PermissionsGuard, RolesGuard, routes, menus | every controller and page |
| **tenants, platform, users, plans** | `tenants` (status, limits), `subscription_invoices`, `users` | provision, setStatus, changePlan, expireTrials, invoices, users | guards of every request |
| **pdv** `pdv/pdv.service.ts` | terminals, their sessions | openSession, closeSession | limits of the plan |
| **web-admin** | what a screen shows, the store of a tab | the POS, the phone page and the recharge screen charge and poll | HTTP API |
| **android** | the payment screen, the gateway's continuation | PayActivity charges through the acquirer's app | HTTP API, acquirer |
| **sync** `sync/sync.service.ts` | `sync_queue` | enqueue, processPending | nothing reads it |
| **events, products, reports, audit, leads, admin, kds, integrations** | one row each | create, update, list | events.close is read by cards and cash |

### What makes it hard

Every handler is an `async` function of one Node process (of several, when the
server is scaled): between two `await`s of a request the steps of the others run.
Almost no handler uses a transaction or a lock, so most invariants of the system
are checked at one await and relied upon at a later one. Three mechanisms decide
what goes wrong:

* **TypeORM's `save(entity)`** reloads the row, compares it with the entity and
  writes the columns that differ. An entity read two awaits ago therefore
  overwrites *every* column another request changed meanwhile, the status
  included. `update(id, {...})` writes only the columns it names. The models keep
  the row as it was read (`lido`) beside the row in the table and distinguish the two.
* **`dataSource` transactions** (recharge, confirm, refund, transfer) make several
  writes one step. They do not make the read before them part of it.
* **A request may stop at any await**: a check that throws, a database error, a
  restart. Whatever was written stays. `Abort` is this.
* **Screens and networks.** A request or its answer may be lost, and an answer is
  applied to whatever the screen shows when it arrives. The acquirer takes money
  outside the system and reports it when it likes, or never.

### What makes each part correct

* cards: the balance is the first balance plus the statement; reserves that hold
  money never exceed it; a reserve is debited exactly when it is CONFIRMED and
  leaves ACTIVE once; a payment is credited once, and only if it was approved
  for that card and amount; a status changes only by the operation that is to
  change it. `Wallet` says all of it as one specification.
* comandas: one active comanda per wristband; its totals are those of its items;
  what was paid is what the customer owes, never more; statuses only move
  forward; a PAID comanda is covered.
* payments: an intent is resolved once and recorded on its comanda once; nothing
  is recorded for a payment that was not approved.
* exit and customers: nobody is RELEASED with a debt; the release cancels only
  empty comandas; nobody inherits another customer's comanda at check-in.
* cash: one open session per terminal; a closed session is final; the difference
  the operator answers for is that of the movements.
* orders and fiscal: a paid order was debited its total once and stays as it was; one
  authorized document per order, each with a number of its own.
* auth: a chain of refresh tokens has one live end and none after logout; nobody
  is thrown out while the session could go on; a tab acts as the user it shows.
* permissions: no page makes a call that the server refuses as forbidden.
* tenants, users, pdv: the limits of the plan are kept; the status of a company
  is what was last asked of it; a terminal is ONLINE while a session is open.
* screens: what says it is paid is paid; a charge belongs to what is in view; one
  charge per payment; no screen waits for ever.

## 2. Modules

| module | models | state | a slot of requests |
|---|---|---|---|
| `Cards` | cards.service, whole | card rows, statement, reserves, intents, recharges, sessions and movements as recharge sees them | a request of cards.service, of exit or of check-in that saves a card |
| `Wallet` | abstract: accounts on which every operation takes effect at once | balances and situations, holds, orders | none: no interleaving |
| `Carteira` | the refinement mapping from `Cards` to `Wallet` | | |
| `Comandas` | comandas.service | comandas, items, sums of confirmed payments, what the wristband was debited | a request of comandas.service |
| `Payments` | payments.service for comandas, EXTENDS `Comandas` | intents | a handler of payments at pc `"outer"`, which becomes a request of `Comandas` when it calls `pay` |
| `Exit` | exit.service, EXTENDS `Comandas` | RELEASED rows | a handler of exit at pc `"outer"` |
| `Customers` | customers.service, EXTENDS `Exit` | customers, whose card and whose comanda | a handler of check-in at pc `"outer"`, its variables in `ci` |
| `Cash` | cash.service | sessions, sums of movements | a request of cash.service |
| `Orders` | orders.service and fiscal's demo order | orders, rows and sums of items, debits | a request of orders.service |
| `Fiscal` | fiscal.service and focus-nfe.provider, EXTENDS `Orders` | documents, what the provider authorized, the sequence in memory | an emission or a cancellation |
| `Access` | role matrix, guards, routes, menus, calls of pages: constants only | | |
| `Session` | auth.service, api.ts, store/auth.ts, EXTENDS `Access` | users, refresh tokens, localStorage, the store of each tab | a login, a logout or an API call of a tab |
| `Tenancy` | tenants, platform, users, events.create, getOrCreateTerminal | one company's row, its invoices and limited rows | a request of any of these |
| `Pdv` | pdv.service, EXTENDS `Tenancy` | terminals ONLINE, sessions | a request of pdv.service |
| `Terminal` | the server, the network, the acquirer as the screens see them | intents, money taken, the screen, one message per operation | |
| `Telas` | PosPage, PhonePayPage, RechargeFlow, EXTENDS `Terminal` | | |
| `Maquininha` | PayActivity and the gateways, EXTENDS `Telas`; fairness and the properties of all screens | the continuation, charges in the acquirer's app and at its terminal, charges given up | |
| `MC*` | TLC instances of the above: bounds and symmetry only | | |
| `*Proofs` | theorems: `CardsProofs`, `CarteiraProofs` (the refinement and what rests on it), `CashProofs`, `ComandasProofs`, `PaymentsExitProofs` (`Payments`, `Exit`, `Customers` over `ComandasProofs`), `OrdersProofs` (`Orders`, `Fiscal`), `AccountsProofs` (`Tenancy`, `Pdv`, `Session` with `Access`), `MaquininhaProofs` (`Terminal`, `Telas`, `Maquininha`) | | |

`Payments`, `Exit` and `Customers` compose with `Comandas` over its tables: the handlers
of these services interleave. `Fiscal` composes with `Orders` in the same way, `Pdv`
with the terminals of `Tenancy`, and the screens with a server whose handlers are one
step each (how they interleave is the subject of the other modules).

A type invariant stands in every module. It is proved where there are proofs
of the module, and otherwise documents the state.

How the code becomes actions: a handler is cut at its awaits. `XRead` is its first
database read with the checks that follow it; each further action is one database
operation with the code around it, up to the next. A slot `p` of `Requests`
carries the local variables. A check that fails has no action of its own:
`Abort(p)` ends any request that is between two awaits, so every failing check is
one of its behaviours (and so is every crash). Reads that cannot influence a write are
left out. Amounts are integers in units of money; the code's tolerance of one
cent disappears with them. Ids are not given out twice: `ItemNovo` says so where rows
can be deleted. Sums of rows (payments of a comanda, movements of a session,
transactions of a card) are kept as sums, since no code deletes such rows.

A save of a row read with a relation (`order.items`; the items that `close` and `pay` of a
comanda read, the payments that `cancel` reads) would also take away the parent of rows that
were inserted since, which the columns forbid: it throws. `Orders` models this (`Inalterado`), because
there a single request meets it. In `Comandas` only overlapping requests do, and the model
lets such a save succeed as well as fail, which allows more than the code does.

### Histories instead of idealised schedules

Most of what the code promises is true only while requests on one wristband do not
overlap, or do not stop half way; some of it is true always. The modules
say which, per card, with two history variables:

* `sobrepostos`: cards (terminals, in `Cash`) on which two requests were *ever* in
  flight at once, or of which one request held two copies of the row (a transfer of a
  card to itself). `Next` is a step of the code conjoined with `Historia`, which
  only records this: no schedule is excluded.
* `interrompidos`: cards on which a handler ever stopped between two of its writes.

`descobertos` (`Cards`: a refund was to take more than is free), `perturbados` and `juntos`
(`Orders`, `Pdv`, `Tenancy`), `marcadas` and `misturou` (`Session`), `retidos` (`Customers`),
`perdidas` and `reiniciou` (`Fiscal`), `mexeu` and `largadas` (the screens) do the same for
cards, orders, terminals, kinds of rows, chains of tokens, wristbands, documents, screens and
charges: each names the one circumstance under which the promise is known to fail, and nothing
else is excluded. An order is in `perturbados` once two requests *that may still save it*
overlapped on it, or one stopped after it had debited: an `addItems` that inserted an item
cannot save its order any more, and whatever it does is covered.

A property with such a qualification says nothing of the circumstance itself. The list of
hazards keeps the two apart: what the code does not prevent is listed with no property, or in
the note.

Properties come in groups, under the headings of each module: those of every
interleaving; those of cards not in `sobrepostos`, where requests may still stop
at any await and anything may overlap on the other cards; those of cards in
neither set; and what the code claims without qualification, which runs refute.

## 3. What TLC checks

Twelve runs: eight check what holds, four show a claim of the repository refuted.

| run | instance | shows |
|---|---|---|
| `cards` | 2 cards, 2 reserves, 1 intent row, 1 session, 2 requests, amounts of 1, refunds of any amount, balances -1..2 | `ConfirmedHasDebit`, `CreditWasApproved`, `MovementAfterCredit` whatever overlaps; `Implements` (the handlers implement `Wallet`), `SaldoMatchesExtrato`, `OneDebitPerConfirm`, `NoOverReserve`, `CreditedOnce` per card |
| `cards_double_credit` | 1 card, 1 intent | refutes `OneRechargePerIntent` |
| `comandas` | 1 card, 2 comandas, 1 item row of total up to 2, discount up to 1, 2 requests | `NeverOverstated`, `WalletPaymentsDebited` whatever overlaps; `OneActiveComanda`, `FinalMatchesPayments`, `ComandaLifecycle` without overlap; `TotalMatchesItems`, `NoOverpay` without overlap and half-done handlers |
| `comandas_partial_add` | 1 request, 2 items | refutes `PaidCoversItems` |
| `payments` | 1 comanda, 2 intents, 2 requests | `PaidByApproved` whatever overlaps; `RecordedOnceApart`, `IntentLifecycle` without overlap |
| `payments_twice` | 1 comanda, 1 intent, 2 requests | refutes `RecordedOnce` |
| `exit` | 1 card, 2 comandas, 1 item, 2 customers, 2 requests; bar, exit and check-in together | `ReleasedOwesNothing`, `OnlyEmptyCancelled` without overlap, whatever stops; `NaoHerda` without overlap, on cards not blocked or collected with a comanda pending |
| `cash` | 2 sessions, a named and the unnamed terminal, 2 requests | `TotalsBacked` whatever overlaps; `OneOpenPerPdv`, `ClosedIsFinal` without overlap; `DiferencaCounts` without overlap and half-done movements |
| `orders` | 1 order of up to 2 items, some free, 2 requests, 2 emissions, 3 documents, restarts | `PagoConfere`, `PagoFica` without overlap of requests that save and half-done checkouts; `UmaNotaPorPedido`, `NumeroUnico` |
| `orders_unpaid` | 1 request, 1 item | refutes `PagoCobrado` |
| `accounts` | 2 users, 2 tabs, 3 tokens, 2 calls; a company with 2 requests, 2 users or 2 terminals, 1 invoice, limits up to 2; 2 terminal sessions | `UmaSessao`, `NuncaExpulso`, `AgeComoMostra`, `TelaRespondida`; `DentroDoLimite`, `StatusPorComando`; `OnlineTemSessao` |
| `terminal` | one screen of each of 4 kinds, 2 comandas or wristbands, 2 charges | `PagoNoServidor` whatever is late or lost; `TelaCoerente`; `CobradoUmaVez`, counting apart the charges the terminal gave up; `EsperaTermina`, a liveness property |

### Bounds, and why they are enough

* **Two requests.** Every race found here is between two. More of them are left
  to the proofs, which know no bound.
* **`UltimoEncontro` and `Fim`.** Left alone, two requests on one card can lose and
  double money without end, and TLC would spend its time on what follows from a
  loss already made. In the `MC` modules, once two requests overlapped on a card, in *any* state
  reached until then, no further request starts; the two run to their end in
  every order of their steps and stops, and the behaviour stutters there. In `cards` the same is
  done once a card was transferred to itself or a refund was to take more than is free
  (`Encerrando`). Requests on different cards overlap without this limit. What is checked under every
  interleaving is thus checked for every overlapping pair from every
  state that non-overlapping requests reach. Deadlock stays checked: `Fim` is the
  only stutter. `MCExit` has one card and only properties of cards never
  overlapped, so its behaviours end where two requests overlap.
* **`UmaSo`** (`comandas`): that meeting is explored with at most one comanda; the
  properties checked there relate the requests on one comanda. Without overlap two
  comandas are explored in full, which `OneActiveComanda` needs.
* **`MaxSaldo`** and **`MaxDivida`** bound balances to -1..2 and statements to -2..2.
  Two credits or two reserves of 1 fit, and a refund of more than the balance does.
* **`Assunto`** (`cards`): a state has reserves and transfers, with the event on, or intents,
  drawers and recharges, with balances up to 1; refunds and changes of status are in both. The two
  meet on the card row alone, and refunds and status saves stand for the others' saves of it. One
  status that is not ACTIVE, and one end of an intent that is not APPROVED, stand for the
  others, of which the handlers ask no more. Once one of the two reserves expired or was
  rolled back the other stays as it is, while both may be confirmed; of two requests beside
  intents and drawers at least one recharges, for two that do not are the wallet's.
* **`MaxPago`** is 3 in `comandas`, one more than the largest total, so that an
  overpayment fits; 2 elsewhere, so that a double one of 1 fits. **`MaxSaidas`** is 1:
  a card released, put back into use by reactivation or check-in, and used again.
  **`MaxMovimentos`** is 1: one entry and one payout per session, enough for one save
  to overwrite the other's total.
* `MCPayments` pays by intents only, without blocked cards; `MCExit` pays without
  the wristband and blocks no card (to check-in a blocked card is what a collected one
  is). `comandas` explores the rest.
* `orders`: **`MaxItens`** bounds the rows of order_items of an order: with 2, two requests can
  each add one, of price 0 or 1; **`MaxNumero`** bounds the local sequence by 3,
  a number for each of the 3 documents, two emissions and one more after a restart or a
  cancellation.
* `accounts`: browser, company and terminals share no row the properties are about, so
  a behaviour is about one of them. Two tabs and two calls are what a shared or a
  single-flight refresh needs; three tokens, two rotations of a chain or a second
  login. **`MaxEmCurso`** bounds the browser's requests under way to 2; after a chain was shared
  or an answer lost, to 1, because the properties say nothing of that chain any more,
  and to 1 after an account was changed, while the request that met the change goes on.
  **`MaxUsuarios`** lets a limit be lowered and raised. **`Escolha`** lets an event be
  chosen while nothing is under way, which is enough to write an old store back. Tokens
  are issued in one order instead of being permuted: no row is used twice. `MCAccounts`
  names the other bounds.
* `terminal`: **`MaxPendentes`** lets two requests of the screen be in flight, which an
  answer that overtakes another needs; **`MaxPolls`** stands for the sixty tries of
  `pollApproved`. PosPage gets one charge, the other screens two. No symmetry is used,
  for `EsperaTermina` is a liveness property; in the other runs symmetry of sets of ids
  is sound, as all their properties are safety.

### Fairness

Only the screens have any, in `Maquininha!Fairness`, and only `EsperaTermina` needs it.

* Weak fairness of `PedePoll`: `refetchInterval: 2000` (PosPage 118-123 and its likes) and
  `repeat(60)` ask again for as long as the charge in view is awaiting. `refetchInterval` pauses
  in a tab that is hidden: the assumption includes that the tab is in view again at some time.
* Strong fairness of `ServePoll` and of the application of the poll's answer: each poll
  may be lost, but a poll repeated for ever is answered at some time. It is the usual
  assumption on a lossy network; without it the customer does wait for ever.
* Weak fairness of `MaqPoll`, a coroutine that is not stopped.
* Weak fairness of `Tempo`: `expiresAt` passes.

Nothing is assumed of the customer, the operator, the acquirer, or of any other request.

### The abstract specification

`Wallet` is what the rest of the system relies on: accounts that open, are credited,
drawn, held, settled, given back, transferred and blocked, one operation at a time.
Money is held or drawn only where it is free, a hold is paid or given back and never
used again, and a situation changes only by an order or by a transfer out of the account. The
desk alone may take any amount back (`Saca`), held or not: refund compares it with nothing.
An account may be given up (`Perde`), and promises nothing from then on.
`Carteira` maps `Cards` to it: a hold is an ACTIVE reserve, past its TTL or not; an order
is a request about to save a status; an account is lost from the step at which two
requests overlapped on its card, or it was transferred to itself. `Implements` is `W!Spec`.

### Where the code does not do what it says

Four claims are refuted by runs and listed as findings:

* `OneRechargePerIntent`: "bloqueia double credit" (`backend/src/shared/money-guards.spec.ts:54`).
  The guard reads `recharges` before the transaction; two overlapping recharges
  with one approved intent credit it twice.
* `PaidCoversItems`: "só libera o cartão para nova comanda após quitação total"
  (`comandas.service.ts:345`). addItems throws at an invalid second product after
  the first was saved, the totals stay 0, and `pay` marks the comanda PAID. One request
  at a time suffices.
* `RecordedOnce`: "Pagamento já estava aprovado" (`payments.service.ts:226`).
  Webhook and poll both read the intent awaiting; it is paid twice.
* `PagoCobrado`: "Pedidos e checkout via pulseira" (`README.md:119`). addItems reads the order with
  its items (`orders.service.ts:45`), inserts the new rows, and saves the order with the items as
  it read them; the relation (`order.entity.ts:62`) would take the new rows' order_id away, which is
  not nullable (`order-item.entity.ts:10`). The save throws, the items stay and the total stays 0:
  the checkout debits 0 and marks the sale PAID. One request at a time suffices.

The unqualified forms of other properties fail too, by the overlap, the stop or the
circumstance that their qualification excludes; dropping the qualification from the
property shows the behaviour in a few steps:

* two reserves hold more than the balance (`NoOverReserve`, `cards.service.ts:386`), and of
  two saves of one card the second undoes the first's amount or block (`Implements`, `:315`);
* a refund of a named amount takes money that a reserve holds, or more than there is
  (`NoOverReserve`, `:480`), and a transfer of a card to itself credits the amount on top of
  the balance (`SaldoMatchesExtrato`, `:600`): one request suffices for either;
* two taps of one wristband open two comandas (`OneActiveComanda`, `comandas.service.ts:139`);
* an item enters a comanda that close already saved PENDING (`:217`);
* two payments both see nothing paid (`NoOverpay`, `:374`);
* a pay that stops before its last update leaves `totalPago` 0, and reopen accepts
  the comanda (`:335`);
* a cancel that read the intent earlier overwrites APPROVED (`IntentLifecycle`, `payments.service.ts:296`);
* an item added after the check leaves with the customer (`ReleasedOwesNothing`, `exit.service.ts:136`);
* a card blocked, or collected by force, with a comanda pending hands it to the next
  customer: check-in asks for open comandas only of an ACTIVE card (`NaoHerda`,
  `customers.service.ts:264`);
* two openings of a terminal succeed (`OneOpenPerPdv`, `cash.service.ts:69`) and a late movement
  reopens a closed session (`ClosedIsFinal`, `:215`);
* two checkouts debit an order twice (`PagoConfere`, `orders.service.ts:87`), an addItems without
  items that overlaps a checkout reopens it (`PagoFica`, `:81`), and items inserted between a
  checkout's debit and its save make that save throw, so that the order is debited and OPEN
  (`PagoConfere`, `:110`);
* a demo order whose items stop half way stays PAID with total 0 (`fiscal.service.ts`);
* two emissions at once, or an answer that is lost, authorize two documents for one order
  (`UmaNotaPorPedido`, `fiscal.service.ts:94`), and after a restart the local numbers begin
  again at 1 (`NumeroUnico`, `focus-nfe.provider.ts:50`). A cancellation is saved and never sent
  to the provider;
* two tabs that refresh one chain at once obtain two sessions, or one of them is sent to the
  login page (`UmaSessao`, `NuncaExpulso`, `auth.service.ts:167`); `refresh` looks neither at the
  status of the company nor at its trial;
* after a login as another user in a second tab, the first acts as that user while it
  shows its own (`AgeComoMostra`, `store/auth.ts:61`);
* a supervisor is shown the exit page and refused every call of it
  (`exit.controller.ts` names roles), and `platform_admin` entering a company lists its events,
  for which it has no permission (`TenantsPage.tsx:103`): `Access!Divergentes`;
* two creations at once exceed the plan (`DentroDoLimite`, `users.service.ts:37`), and a change of
  plan that read the company before its suspension brings it back (`StatusPorComando`,
  `platform.service.ts:403`);
* a wristband read with a charge in view, or a uid typed over while a charge is created, puts
  one customer's charge beside another's comanda (`TelaCoerente`, `PosPage.tsx:148`,
  `RechargeFlow.tsx:109`);
* when confirm is lost after the acquirer took the money, its return cannot be read, or the
  order that the server sent to the terminal is paid after the screen gave the charge up, the
  terminal offers to charge again (`CobradoUmaVez`, `PayActivity.kt:112`). If the acquirer's app never comes back, the
  screen stays busy until it is closed: `EsperaTermina` is about polling alone.

## 4. What is proved

TLAPS, for any sets of cards, reserves, intents, sessions, terminals, comandas, items, orders,
users, tabs, tokens and requests, any amounts, any number of steps.

* **`CardsProofs!TypeCorrect`** (`Spec => []TypeOK`). `TypeOK` is not inductive: that a
  save leaves a well-typed row needs to know that the request names a card, that a
  commit names a reserve, and so on. `TypeInv` adds `Sound(r)`, the fields a
  request has at each pc; that a row with a status has a card; and that the
  reserve a request is about to save exists. One step per action of `Next`; the
  history is a second, independent invariant.
* **`CardsProofs!ConfirmedIsDebited`**, **`CreditIsApproved`** and **`NeverRevives`**: under
  every interleaving. For the first, no handler but the commit writes CONFIRMED, and it writes
  the DEBIT with it. The second adds that what the check made before the commit still holds at
  the commit: an intent once approved stays in `aprovados` and never changes card or amount. The
  third is a property of each step: from a typed state no save of a reserve writes ACTIVE, and
  only the insertion of a new row writes a card or a value.
* **`CardsProofs!BalanceIsKept`**: `SaldoMatchesExtrato`, for cards never overlapped and
  never transferred to themselves, while anything happens on the
  others. The invariant: two requests that name one card, or one that names it twice, have put it
  into `sobrepostos` (`Apart`, by `Historia`); so the row a request read of a card
  outside it is still the row in the table (`AllFresh`); a card without a row has
  neither balance nor statement. Then every save moves balance and statement by the same amount.
  A transfer of a card to itself is an overlap of its own: it reads the row
  twice and saves it twice, and the amount is credited on top.
* **`CarteiraProofs!KeepsPromise`** (`Spec => Implements`), the refinement. Initial states map
  to initial states, and every step of a handler maps to one operation of `Wallet` or
  to a stutter (a read, a step on a lost account, the passing of a TTL). The step needs `HoldInv` on
  top of the invariant above: what a request found out before its last await still holds
  when it writes, provided no other request named its card: the sum of the
  reserves it subtracted (`Reserved`, a cardinality of cells, changes only by requests that
  name the card), the amount it is about to take, the reserve it found ACTIVE. A step that
  puts cards into `sobrepostos` maps to `Perde` of these cards, and the code's other effects of
  that step are on them alone.
  A refund of a named amount takes what it names: `HoldInv` knows of it that the amount is positive,
  and the wallet it implements lets the desk take money that is held (`Wallet!Saca`).
* **`CarteiraProofs!DebitedOnce`** and **`ReservesAreCovered`**: two facts the wallet's promise
  does not say, from its invariant. `CoverInv` adds to it that what is held of a card outside
  `sobrepostos` and `descobertos` is at most its balance: confirm takes the amount out of both sums
  at once, a debit of a transfer takes what its check left free, and a refund that takes more is
  known to `descobertos` before it commits (`ExcessSeen`).
* **`CarteiraProofs!PaymentCreditedOnce`** and **`CashFollowsCredit`**: a recharge that found its intent not credited is the only one of that card until its commit
  (`OnceInv`); a request at the movement of the drawer has committed, and is not counted yet.
* **`CashProofs!TypeCorrect`** and **`TotalsAreBacked`**: under every interleaving a session never
  counts cash that no movement row accounts for. The invariant says what a
  request about to save holds: before its movement row is inserted no more than the sums,
  after it no more than the sums including its own amount; sums only grow.
* **`CashProofs!OneDrawerPerTerminal`**, **`DifferenceAnswersForMovements`** and
  **`ClosedStays`**: `SessionInv` says that on a terminal outside `sobrepostos` one request is at
  work at a time, so what it read (that no session is open; the row it will save; the sums) is still
  so in the table; and that a movement row its session does not count yet is one a request in flight is
  about to count, or the terminal is in `interrompidos`.
* **`ComandasProofs!SheetType`** (`Spec => []TypeOK`) and **`PaidTotalIsBacked`**: under every
  interleaving. What a request will write as `totalPago` is in the payment rows already
  (`Backed`), and those only grow. `Named`: a request past its first read names a row that exists,
  and its wristband; a row never changes wristband.
* **`ComandasProofs!WalletPaymentsWereTaken`**, under every interleaving too: of two `pay` that overlap,
  each may still insert only what it debited itself. `WalletInv` counts that money as a set of cells
  (request, unit) that the debit filled and each insertion empties.
* **`ComandasProofs!OneComandaPerCard`**, **`TotalsAreOfItems`**, **`NeverOverpaid`**,
  **`FinalIsPaidFor`** and **`ComandaLives`**: `SheetInv`, for wristbands outside `sobrepostos`
  (`Apart`), says what a request at each pc still knows (`Current`: the status it found, the row it
  will save, what is paid, the items it added up), that items a request is about to save or remove
  stay with its comanda (`HeldInv`), and what each row says when nobody is at work on it
  (`RowGood`). These proofs need no assumption beyond `ComandasAssumption`. The lemmas about a
  step (`TabKept`, `WalletKept`, `SheetKept`) ask for a step of comandas.service and not for
  `Next`, so that they hold among the steps of other services too.
* **`PaymentsExitProofs!PaymentsAreApproved`**: under every interleaving of webhook, poll,
  operator and `pay`, what is recorded for an intent was approved. A handler at `"outer"` names an
  existing intent of its comanda, and the reference a `pay` carries is of an intent that was
  approved for the comanda it pays (`Served`): approval is written before `pay` is called.
* **`PaymentsExitProofs!IntentRecordedOnce`** and **`IntentResolvedOnce`**, on wristbands never
  overlapped: what a handler found its intent to be still holds when it writes
  (`Resolves`), a reference on its way is in no payment row yet, and an intent in a payment row
  is approved (`IntentsGood`). That no second handler can be
  at work on the intent is `Apart` once more: an intent belongs to one comanda, and a comanda to one
  wristband for ever.
* **`PaymentsExitProofs!ComandasWithIntents`** and **`ComandaLivesWithIntents`**: what is proved of
  `Comandas` holds with payments composed as well. A handler at `"outer"` leaves the tables of
  `Comandas` alone, and the slot it hands to `pay` carries what `PayRead` would have read (`PayTabs`).
* **`PaymentsExitProofs!ReleaseOwesNothing`**, **`ReleaseCancelsOnlyEmpty`** and
  **`NobodyInherits`**: the bar, exit and check-in together. `DeskInv` holds what each
  handler decided and relies on later: after the check of a release that was not forced the
  wristband owes nothing until the row is written (`OweNothing`); a request at
  work has an active comanda (`Working`), so nothing it saves brings a settled one back to
  life; a check-in past its reads is on the right owner (`Bound`); an active comanda belongs to the
  owner of its wristband or to nobody (`Heirs`), unless the card is in `retidos`, which every card
  blocked or collected with an active comanda is (`Kept`). Each step touches rows and items
  of its own wristband only (`TouchesRows`, `TouchesItems`), which is why another slot's
  decision survives it (`OthersKept`). The release's own update keeps its decision
  too: it cancels comandas, which never creates a debt.
* **`PaymentsExitProofs!ComandasWithExit`** and **`CustomersTypes`**: `NeverOverstated`,
  `WalletPaymentsDebited` and the types with exit and check-in composed. The other properties of
  `Comandas` are not claimed there, and one would be false: a `pay` that stops after its row, a reopen
  and a removal leave an open comanda that costs nothing but holds money, and a release cancels it.
* **`OrdersProofs!OrderAgrees`** and **`PaidStays`**: an addItems that inserted an item has fewer
  items in hand than the order has rows, for ever (`Held`), so its save is refused. Of the others, on an
  order outside `perturbados` at most one is at work (`Apart`), its copy of the order is the row, and
  the debits are where its program counter says (`Busy`); when none is, row and debits agree
  (`Settled`). `PaidStays` is the same invariant read at one step: a request on a paid order would
  have found it open.
* **`OrdersProofs!OneDocumentPerSale`** and **`NumbersOnce`**: outside `forcados` and `emissaoDupla` an
  emission under way means that its order has no authorized document, and it is the only one
  (`UmaPorVez`, `Separadas`); a document is of a sale as it was paid (`DoVendido`); what the provider
  authorized and no answer lost is saved, or about to be (`NoFisco`); until a restart a number, in a row or
  on its way, is below the sequence and nothing else has it (`Numeros`).
  **`OrderAgreesWithFiscal`** carries `OrderAgrees` and `PaidStays` over the steps of fiscal.service,
  which write no order but the demo one.
* **`AccountsProofs!WithinThePlan`** and **`StatusByCommand`**: while limits only rise, what a request
  read of them is no more than they are, and one that counted has room for its row outside the
  kinds in `juntos` (`ComLugar`); the one request that holds the company's row to save writes the
  status that the row still has, or what it was asked for (`SalvaComando`). **`CompanyUnderPdv`** says
  the same with pdv.service creating terminals. **`OnlineHasSession`**: a terminal outside
  `perturbados` is ONLINE exactly while its one session is open, and between the two writes of
  a request it is in that request's hands alone (`Coerente`).
* **`AccountsProofs!OneSession`**: of a chain outside `marcadas` the token that is alive is the one
  in the hands of whoever has the chain: the tab's store, the refresh that found it, the logout on
  its way (`Alive`). A rotation keeps that because the refresh alone has the chain: its tab holds no
  other token of it and no other tab any (`Own`, `Kin`), a tab refreshes once at a time
  (`OneFlight`), no two refreshes are of one chain (`OneCall`), and none is exchanged on the server
  after the chain ended (`NotEnded`). Chains that a step of the browser puts into two stores, or a
  logout meets half way, are marked by that step (`Noticed`).
* **`AccountsProofs!NeverExpelled`**: a token that was revoked and is still in a tab's store is of a
  refresh half way, or its chain is in the history (`SessExpelled`). So a refresh that starts with
  a revoked token, the only one that is refused without its token expiring or its account changing, is
  of a chain that was shared, ended or lost an answer.
* **`AccountsProofs!ActsAsShown`** and **`ScreenIsAnswered`**: until `misturou` all tokens that
  requests are or will be made with (`InPlay`: `pdv_token`, the stored copy, every store, every
  refresh under way) have one owner, and a store shows the owner of its token (`OneOwner`); rows, stores
  and requests of an account that was not changed carry its role (`OneRole`). That no page
  makes a call the guards refuse (`Conferem`) is a fact about the tables of `Access`, proved group
  of pages by group of pages (`NoPageRefused`).
* **`MaquininhaProofs!PaidOnTheServer`**, on every screen and whatever is late or lost: an
  answer, however old, says nothing that has stopped being so (`Good`: what is paid, approved or
  credited stays so, `BancoGrows`), and a screen shows only what an answer said (`Shows`).
  **`ScreenIsCoherent`**: until `mexeu`, every request, answer and charge in flight is about what the
  screen has in view (`MsgInView`), which needs that the operator waits for one answer at a time
  (`Alone`). **`ChargesOnce`**: on the terminal one request is under way at a time, about the charge in
  view (`InStep`). `Once`: of all charges of the comanda at most one is open (`Open`: neither given
  up nor never made), and it is the one in hand (`InHand`) or the one that paid the comanda, after which
  no charge is created; and what is approved, or asked to be confirmed, is backed by money taken, its own or
  that of a charge given up (`Backed`), which a late return may bring back in its place.

Assumptions on constants: `CardsAssumption`, `CashAssumption`, `ComandasAssumption`,
`OrdersAssumption`, `FiscalAssumption`, `TenancyAssumption`, `SessionAssumption`,
`TerminalAssumption`, `MaquininhaAssumption` (amounts and limits are positive, prices are numbers, a
poll is made at least once, users are created with roles of the matrix, `None` is no id, reserves and item rows are finite),
and those named with the theorems. Nothing else is taken on trust.

So every safety property of the passing runs is proved. Out of the prover's reach and left to
TLC: liveness (`EsperaTermina`) and `ENABLED`; induction over data and recursive operators (the
sums of rows are kept as numbers or as cardinalities of sets of cells for that reason:
`Cells`, `Soma`).

## 5. Not modelled

* In modelled services: the number of a comanda (read as a maximum awaits before it is
  inserted, so not unique), seats, KDS fields, receipts, photos, audit rows, stock of products,
  the wording of errors, provider references and idempotency keys (`X-Idempotency-Key` is the
  comanda's id, so a second charge of a comanda may be given the provider's first one; each is
  modelled as new), an order left at the acquirer by a charge whose row was not saved, tenant filters (one tenant is modelled), decimal rounding, hashing and signing,
  XML and DANFE.
* `sync`: its queue has no consumer in this repository.
* reports, leads, audit, products, integrations, kds, admin, seeds, migrations and single-row
  CRUD, which keep no invariant beyond their row; their guards are in `Access`.
* On the screens: PhonePayPage's PIX and card buttons pressed at once (one charge is in flight at a
  time), a second request of a kind sent before the first is answered, the demo flavor of the terminal
  app, and an acquirer that takes one charge twice, in its app and at the terminal.
* Layout of the web pages and of the other Android screens; deployment files; the SQL of
  `supabase/`. `assertActive` and `assertWithinLimits` of tenants.service have no caller.

## 6. Plan

Done, in this order: `Cards`, `Comandas`, `Payments`, `Exit`, `Cash` and first proofs; then
`Wallet` and the refinement with its proof, `Orders` and its proofs, `Fiscal`, `Customers`, `Access`,
`Session`, `Tenancy`, `Pdv`, the screens and their liveness, the other proofs of `Cards` and `Cash`,
those of `Comandas`, `Fiscal`, `Tenancy` and `Pdv`, of `Payments`, `Exit` and `Customers` over
the invariant of `Comandas`, of the screens and of `Session`. Next:

1. An abstract account for a comanda (owed, paid, settled), implemented by `Comandas` with
   `Payments` as `Wallet` is by `Cards`.
