------------------------------ MODULE Customers ------------------------------
(***************************************************************************)
(* Registration and check-in, backend/src/customers/customers.service.ts:  *)
(* a customer is found by CPF (or written, or brought from Supabase), the  *)
(* wristband is bound to the customer and put into use, and a comanda is   *)
(* opened or resumed on it.  Composed with Exit and Comandas.              *)
(*                                                                         *)
(* A request of this module works in the slot p of Comandas: req[p] is at  *)
(* "outer" and ci[p] holds its variables.  The session token is written    *)
(* with the customer, on the card and on the comanda: it is not a variable *)
(* of its own.                                                             *)
(***************************************************************************)
EXTENDS Exit

CONSTANT Clientes    \* people, by their CPF

VARIABLES
    cadastro,   \* customers rows
    novos,      \* wristbands that have no row in cards yet
    dono,       \* customerId of the card rows
    titular,    \* customerId of the comandas rows
    retidos,    \* cards blocked, or collected, with a comanda still active (history)
    ci          \* per slot, the handler of this module

customersVars == <<cadastro, novos, dono, titular, retidos, ci>>
todasVars == <<allVars, customersVars>>
linhas == <<cadastro, novos, dono, titular>>

CiPcs == {"none", "regInsert", "bindRead", "bindInsert", "bindCount", "bindSave",
          "tapRead", "tapFind", "tapInsert", "bindUpdate"}
CiRequest == [pc : CiPcs, cliente : Clientes \cup {None},
              comanda : ComandaIds \cup {None}]
NoCi == [pc |-> "none", cliente |-> None, comanda |-> None]

CustomersTypeOK ==
    /\ ExitTypeOK
    /\ cadastro \in SUBSET Clientes
    /\ novos \in SUBSET CardIds
    /\ dono \in [CardIds -> Clientes \cup {None}]
    /\ titular \in [ComandaIds -> Clientes \cup {None}]
    /\ retidos \in SUBSET CardIds
    /\ ci \in [Requests -> CiRequest]

CustomersInit ==
    /\ ExitInit
    /\ cadastro = {}
    /\ novos \in SUBSET CardIds
    /\ dono = [k \in CardIds |-> None]
    /\ titular = [c \in ComandaIds |-> None]
    /\ retidos = {}
    /\ ci = [p \in Requests |-> NoCi]

CiAt(p, pc) == ci[p].pc = pc
CiGo(p, pc) == ci' = [ci EXCEPT ![p].pc = pc]

EnterCi(p, k, c, pc) ==
    /\ At(p, "idle")
    /\ Go(p, [Idle EXCEPT !.pc = "outer", !.card = k])
    /\ ci' = [ci EXCEPT ![p] = [NoCi EXCEPT !.pc = pc, !.cliente = c]]
    /\ UNCHANGED tables

LeaveCi(p) == Finish(p) /\ ci' = [ci EXCEPT ![p] = NoCi]

CiAbort(p) ==
    /\ ~CiAt(p, "none")
    /\ Stop(p, ci[p].pc \in {"tapRead", "tapFind", "tapInsert", "bindUpdate"})
    /\ LeaveCi(p)
    /\ UNCHANGED <<tables, exitVars, linhas>>
-----------------------------------------------------------------------------
(* register and checkin, up to the customer's row *)

RegisterRead(p, k, c) ==
    /\ c \notin cadastro
    /\ EnterCi(p, k, c, "regInsert")
    /\ UNCHANGED linhas

\* (tenant_id, cpf) is unique: the second of two registrations fails here.
RegisterInsert(p) ==
    /\ CiAt(p, "regInsert")
    /\ ci[p].cliente \notin cadastro
    /\ cadastro' = cadastro \cup {ci[p].cliente}
    /\ CiGo(p, "bindRead")
    /\ UNCHANGED <<tables, req, novos, dono, titular>>

\* lookupByCpf: the row, or one written from what Supabase knows.
Checkin(p, k, c) ==
    /\ EnterCi(p, k, c, "bindRead")
    /\ cadastro' = cadastro \cup {c}
    /\ UNCHANGED <<novos, dono, titular>>
-----------------------------------------------------------------------------
(* bindCardAndOpen *)

DeOutro(k, c) == dono[k] \notin {None, c} /\ cardStatus[k] = "active"

BindRead(p) ==
    LET k == req[p].card
    IN  /\ CiAt(p, "bindRead")
        /\ CiGo(p, IF k \in novos THEN "bindInsert"
                   ELSE IF DeOutro(k, ci[p].cliente) THEN "bindCount" ELSE "bindSave")
        /\ UNCHANGED <<tables, req, linhas>>

\* The uid of a card is unique in its tenant.
BindInsert(p) ==
    LET k == req[p].card
    IN  /\ CiAt(p, "bindInsert")
        /\ k \in novos
        /\ novos' = novos \ {k}
        /\ dono' = [dono EXCEPT ![k] = ci[p].cliente]
        /\ CiGo(p, "tapRead")
        /\ UNCHANGED <<tables, req, cadastro, titular>>

LivreSemAberta(k) ==    \* mutant: comandas awaiting payment do not count
    \A c \in ComandaAtiva(k) : comandas[c].status # "open"
LivreDeComanda(k) == ComandaAtiva(k) = {}

BindCount(p) ==
    /\ CiAt(p, "bindCount")
    /\ LivreDeComanda(req[p].card)
    /\ CiGo(p, "bindSave")
    /\ UNCHANGED <<tables, req, linhas>>

BindSave(p) ==
    LET k == req[p].card
    IN  /\ CiAt(p, "bindSave")
        /\ dono' = [dono EXCEPT ![k] = ci[p].cliente]
        /\ cardStatus' = [cardStatus EXCEPT ![k] = "active"]
        /\ CiGo(p, "tapRead")
        /\ UNCHANGED <<comandas, itens, pagos, pagosSaldo, debitado, refs, req,
                       cadastro, novos, titular>>

\* nfcTap, called by the handler.
BindTap(p) ==
    /\ CiAt(p, "tapRead")
    /\ cardStatus[req[p].card] = "active"
    /\ CiGo(p, "tapFind")
    /\ UNCHANGED <<tables, req, linhas>>

BindTapFind(p) ==
    LET ativas == ComandaAtiva(req[p].card)
    IN  /\ CiAt(p, "tapFind")
        /\ IF ativas = {} THEN CiGo(p, "tapInsert")
           ELSE \E c \in ativas : ci' = [ci EXCEPT ![p].pc = "bindUpdate", ![p].comanda = c]
        /\ UNCHANGED <<tables, req, linhas>>

BindTapInsert(p, c) ==
    LET k == req[p].card
    IN  /\ CiAt(p, "tapInsert")
        /\ comandas[c].status = "none"
        /\ Grava(c, [NoComanda EXCEPT !.card = k, !.status = "open"])
        /\ titular' = [titular EXCEPT ![c] = dono[k]]
        /\ ci' = [ci EXCEPT ![p].pc = "bindUpdate", ![p].comanda = c]
        /\ UNCHANGED <<cardStatus, itens, pagos, pagosSaldo, debitado, refs, req,
                       cadastro, novos, dono>>

BindUpdate(p) ==
    /\ CiAt(p, "bindUpdate")
    /\ titular' = [titular EXCEPT ![ci[p].comanda] = ci[p].cliente]
    /\ LeaveCi(p)
    /\ UNCHANGED <<tables, cadastro, novos, dono>>
-----------------------------------------------------------------------------
CustomersStart(p) ==
    \E k \in CardIds, c \in Clientes : RegisterRead(p, k, c) \/ Checkin(p, k, c)

CustomersContinue(p) ==
    \/ RegisterInsert(p)
    \/ BindRead(p)
    \/ BindInsert(p)
    \/ BindCount(p)
    \/ BindSave(p)
    \/ BindTap(p)
    \/ BindTapFind(p)
    \/ \E c \in ComandaIds : BindTapInsert(p, c)
    \/ BindUpdate(p)

\* The steps of Exit and Comandas: a wristband without a row is not found, and a
\* comanda that a tap opens gets the customer of its card.
ExitStepHere ==
    /\ ExitStep
    /\ \A p \in Requests : At(p, "idle") => req'[p].card \notin novos
    /\ titular' = [c \in ComandaIds |->
          IF comandas[c].status = "none" /\ comandas'[c].status # "none"
          THEN dono[comandas'[c].card] ELSE titular[c]]
    /\ UNCHANGED <<cadastro, novos, dono, ci>>

CustomersStep ==
    \/ ExitStepHere
    \/ \E p \in Requests : CiAbort(p)
    \/ /\ \E p \in Requests : CustomersStart(p) \/ CustomersContinue(p)
       /\ UNCHANGED <<exitVars, interrompidos>>

Retem ==
    retidos' = retidos \cup {k \in CardIds : cardStatus'[k] # "active" /\ ComandaAtiva(k)' # {}}

CustomersNext == CustomersStep /\ Historia /\ Retem

CustomersSpec == CustomersInit /\ [][CustomersNext]_todasVars
-----------------------------------------------------------------------------
\* Check-in never hands a customer somebody else's comanda ("Este cartao ainda
\* esta vinculado a outro cliente com comanda aberta"), on a card on which
\* requests never overlapped and which was not blocked or collected with a
\* comanda still active: those two ways round the question remain.  A comanda
\* opened before any check-in belongs to nobody.
NaoHerda ==
    [][\A p \in Requests :
          LET c == ci[p].comanda
          IN  /\ CiAt(p, "bindUpdate") /\ titular'[c] = ci[p].cliente
              /\ req[p].card \notin sobrepostos' \cup retidos
              => titular[c] \in {None, ci[p].cliente}]_todasVars
=============================================================================
