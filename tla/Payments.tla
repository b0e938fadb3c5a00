------------------------------ MODULE Payments ------------------------------
(***************************************************************************)
(* The payment intents of backend/src/payments/payments.service.ts (PIX    *)
(* and card) for a comanda, composed with Comandas: confirm approves the   *)
(* intent and then calls comandasService.pay in the same request.          *)
(*                                                                         *)
(* A request of this module works in the slot p of Comandas: while req[p]  *)
(* is at "outer" the handler here runs, and pay[p] holds its variables;    *)
(* once it called pay, req[p] is a request of Comandas that carries the    *)
(* intent as its reference.                                                *)
(***************************************************************************)
EXTENDS Comandas

VARIABLES
    intents,    \* payment_intents rows of comandas; due: expiresAt is past
    aprovados,  \* intents that were APPROVED at some time (history)
    pay         \* per slot, the handler of this module

payVars == <<intents, aprovados, pay>>
paymentsVars == <<vars, payVars>>

IntentStatus == {"none", "awaiting_customer", "approved", "expired", "cancelled"}
IntentRow == [comanda : ComandaIds \cup {None}, valor : Nat,
              status : IntentStatus, due : BOOLEAN]
NoIntent == [comanda |-> None, valor |-> 0, status |-> "none", due |-> FALSE]

PayPcs == {"none", "createValor", "createSave", "statusExpire", "statusRemote",
           "confirmRead", "confirmExpire", "confirmSave", "confirmPay",
           "cancelSave"}
PayRequest == [pc : PayPcs, intent : Refs \cup {None}, valor : Nat]
NoPay == [pc |-> "none", intent |-> None, valor |-> 0]

PaymentsTypeOK ==
    /\ TypeOK
    /\ intents \in [Refs -> IntentRow]
    /\ aprovados \in SUBSET Refs
    /\ pay \in [Requests -> PayRequest]

PaymentsInit ==
    /\ Init
    /\ intents = [i \in Refs |-> NoIntent]
    /\ aprovados = {}
    /\ pay = [p \in Requests |-> NoPay]
-----------------------------------------------------------------------------
(* Handlers *)

PayAt(p, pc) == pay[p].pc = pc
PayGo(p, r) == pay' = [pay EXCEPT ![p] = r]

\* A handler takes slot p for work on comanda c, and leaves it.
EnterPay(p, c, r) ==
    /\ At(p, "idle")
    /\ Go(p, [Idle EXCEPT !.pc = "outer", !.card = comandas[c].card, !.comanda = c])
    /\ PayGo(p, r)

LeavePay(p) == Finish(p) /\ PayGo(p, NoPay)

\* A check that throws, or a stop between two awaits.
PayAbort(p) ==
    /\ ~PayAt(p, "none")
    /\ Stop(p, PayAt(p, "confirmPay"))
    /\ LeavePay(p)
    /\ UNCHANGED <<tables, intents, aprovados>>

SetIntent(i, st) == intents' = [intents EXCEPT ![i].status = st]
-----------------------------------------------------------------------------
(* createPix and createCardContactless *)

\* resolveComandaValor: first the comanda's status and items.
CreateIntentRead(p, c) ==
    /\ Pagavel(c)
    /\ EnterPay(p, c, [NoPay EXCEPT !.pc = "createValor"])
    /\ UNCHANGED <<tables, intents, aprovados>>

Restante(c) == ComDesconto(comandas[c].total, comandas[c].totalPago)

\* Then, from a second read, what is left to pay: v is dto.valor or all of it.
CreateIntentValor(p, v) ==
    /\ PayAt(p, "createValor")
    /\ v \in 1..Restante(req[p].comanda)
    /\ PayGo(p, [NoPay EXCEPT !.pc = "createSave", !.valor = v])
    /\ UNCHANGED <<tables, req, intents, aprovados>>

\* The provider made the charge: the intent waits for the customer.
CreateIntentSave(p, i) ==
    /\ PayAt(p, "createSave")
    /\ intents[i].status = "none"
    /\ intents' = [intents EXCEPT ![i] = [comanda |-> req[p].comanda,
                       valor |-> pay[p].valor, status |-> "awaiting_customer",
                       due |-> FALSE]]
    /\ LeavePay(p)
    /\ UNCHANGED <<tables, aprovados>>

\* Time passes expiresAt.
IntentDue(i) ==
    /\ intents[i].status # "none"
    /\ ~intents[i].due
    /\ intents' = [intents EXCEPT ![i].due = TRUE]
    /\ UNCHANGED <<tables, req, aprovados, pay>>
-----------------------------------------------------------------------------
(* getStatus, polled by the POS: expires the intent or asks the provider *)

StatusRead(p, i) ==
    /\ intents[i].status = "awaiting_customer"
    /\ EnterPay(p, intents[i].comanda,
                [NoPay EXCEPT !.pc = IF intents[i].due THEN "statusExpire"
                                                       ELSE "statusRemote",
                              !.intent = i])
    /\ UNCHANGED <<tables, intents, aprovados>>

StatusExpire(p) ==
    /\ PayAt(p, "statusExpire")
    /\ SetIntent(pay[p].intent, "expired")
    /\ LeavePay(p)
    /\ UNCHANGED <<tables, aprovados>>

\* The provider says it was paid: the poll confirms, as the webhook does.
StatusRemotePaid(p) ==
    /\ PayAt(p, "statusRemote")
    /\ PayGo(p, [pay[p] EXCEPT !.pc = "confirmRead"])
    /\ UNCHANGED <<tables, req, intents, aprovados>>
-----------------------------------------------------------------------------
(* confirm *)

ConfirmStart(p, i) ==
    /\ intents[i].status # "none"
    /\ EnterPay(p, intents[i].comanda, [NoPay EXCEPT !.pc = "confirmRead", !.intent = i])
    /\ UNCHANGED <<tables, intents, aprovados>>

ConfirmavelSempre(i) ==    \* mutant: an intent already resolved is confirmed again
    intents[i].status # "none"
Confirmavel(i) == intents[i].status = "awaiting_customer"

\* An intent already APPROVED ends the request here (PayAbort).
ConfirmRead(p) ==
    LET i == pay[p].intent
    IN  /\ PayAt(p, "confirmRead")
        /\ Confirmavel(i)
        /\ PayGo(p, [pay[p] EXCEPT !.pc = IF intents[i].due THEN "confirmExpire"
                                                            ELSE "confirmSave"])
        /\ UNCHANGED <<tables, req, intents, aprovados>>

ConfirmExpire(p) ==
    /\ PayAt(p, "confirmExpire")
    /\ SetIntent(pay[p].intent, "expired")
    /\ LeavePay(p)
    /\ UNCHANGED <<tables, aprovados>>

ConfirmSaveLater(p) ==    \* mutant: pays first and leaves APPROVED for later
    /\ PayAt(p, "confirmSave")
    /\ PayGo(p, [pay[p] EXCEPT !.pc = "confirmPay"])
    /\ UNCHANGED <<tables, req, intents, aprovados>>

ConfirmSave(p) ==
    LET i == pay[p].intent
    IN  /\ PayAt(p, "confirmSave")
        /\ SetIntent(i, "approved")
        /\ aprovados' = aprovados \cup {i}
        /\ PayGo(p, [pay[p] EXCEPT !.pc = "confirmPay"])
        /\ UNCHANGED <<tables, req>>

\* comandasService.pay reads the comanda; from here the request is one of
\* Comandas.  When the comanda takes no payment, pay throws and the intent
\* stays APPROVED.
ConfirmPay(p) ==
    LET i == pay[p].intent
        c == intents[i].comanda
    IN  /\ PayAt(p, "confirmPay")
        /\ Pagavel(c)
        /\ Go(p, PayStart(c, 0, intents[i].valor, i))
        /\ PayGo(p, NoPay)
        /\ UNCHANGED <<tables, intents, aprovados>>

ConfirmPayRefused(p) ==
    /\ PayAt(p, "confirmPay")
    /\ ~Pagavel(intents[pay[p].intent].comanda)
    /\ LeavePay(p)
    /\ UNCHANGED <<tables, intents, aprovados>>
-----------------------------------------------------------------------------
(* cancel *)

AnulavelSempre(i) == intents[i].status # "none"    \* mutant: APPROVED too
Anulavel(i) == intents[i].status \notin {"none", "approved"}

CancelIntentRead(p, i) ==
    /\ Anulavel(i)
    /\ EnterPay(p, intents[i].comanda, [NoPay EXCEPT !.pc = "cancelSave", !.intent = i])
    /\ UNCHANGED <<tables, intents, aprovados>>

CancelIntentSave(p) ==
    /\ PayAt(p, "cancelSave")
    /\ SetIntent(pay[p].intent, "cancelled")
    /\ LeavePay(p)
    /\ UNCHANGED <<tables, aprovados>>
-----------------------------------------------------------------------------
PaymentsStart(p) ==
    \/ \E c \in ComandaIds : CreateIntentRead(p, c)
    \/ \E i \in Refs : StatusRead(p, i) \/ ConfirmStart(p, i) \/ CancelIntentRead(p, i)

PaymentsContinue(p) ==
    \/ \E v \in 1..Cardinality(ItemIds) * MaxTotal : CreateIntentValor(p, v)
    \/ \E i \in Refs : CreateIntentSave(p, i)
    \/ StatusExpire(p)
    \/ StatusRemotePaid(p)
    \/ ConfirmRead(p)
    \/ ConfirmExpire(p)
    \/ ConfirmSave(p)
    \/ ConfirmPay(p)
    \/ ConfirmPayRefused(p)
    \/ CancelIntentSave(p)

PaymentsStep ==
    \/ Step /\ UNCHANGED payVars
    \/ \E p \in Requests : PayAbort(p)
    \/ /\ \/ \E i \in Refs : IntentDue(i)
          \/ \E p \in Requests : PaymentsStart(p) \/ PaymentsContinue(p)
       /\ UNCHANGED interrompidos

PaymentsNext == PaymentsStep /\ Historia

PaymentsSpec == PaymentsInit /\ [][PaymentsNext]_paymentsVars
-----------------------------------------------------------------------------
(* Properties that hold under every interleaving *)

\* A payment row names an intent only if the intent was approved: confirm saves
\* APPROVED before it calls pay.
PaidByApproved ==
    \A i \in Refs : refs[i] > 0 => i \in aprovados
-----------------------------------------------------------------------------
(* Properties of the cards on which requests never overlapped *)

IntentSeparado(i) == comandas[intents[i].comanda].card \notin sobrepostos

\* The webhook, the poll and the operator may all confirm the same intent: it is
\* recorded on the comanda once.
RecordedOnceApart ==
    \A i \in Refs : refs[i] > 1 => ~IntentSeparado(i)

\* An intent is resolved once: APPROVED and CANCELLED are final, and one that
\* expired can only be cancelled ("Nao e possivel cancelar pagamento aprovado").
IntentLifecycle ==
    [][\A i \in Refs :
          LET was == intents[i].status
              is == intents'[i].status
          IN  was # is /\ IntentSeparado(i)' =>
                \/ was = "none" /\ is = "awaiting_customer"
                \/ was = "awaiting_customer" /\ is \in {"approved", "expired", "cancelled"}
                \/ was = "expired" /\ is = "cancelled"]_paymentsVars
-----------------------------------------------------------------------------
(* What the code claims whatever overlaps *)

\* "Pagamento ja estava aprovado": a confirmation that arrives twice is recorded
\* on the comanda once.
RecordedOnce ==
    \A i \in Refs : refs[i] <= 1
=============================================================================
