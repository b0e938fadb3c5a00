------------------------------- MODULE Terminal -------------------------------
(***************************************************************************)
(* The screens that charge a customer: web-admin's PosPage ("pos"),        *)
(* PhonePayPage ("celular") and RechargeFlow ("recarga").  A screen sends  *)
(* requests, is edited while they are in flight, and applies each answer   *)
(* when it arrives, whatever it shows by then; it polls the charge in view *)
(* until the charge is no longer awaiting the customer.  The terminal app  *)
(* is in module Maquininha.                                                *)
(*                                                                         *)
(* The server handles each request in one step here: how its handlers      *)
(* interleave is the subject of Payments and Cards.                        *)
(*                                                                         *)
(* One request of a kind is in flight at a time.  Where the screen does    *)
(* not wait (a confirmation, a cancellation, an item removed, a wristband  *)
(* read), a second request stands for one sent once the first is answered. *)
(* PhonePayPage's PIX and card buttons are one operation, charge: asking   *)
(* for both at once is left out.                                           *)
(***************************************************************************)
EXTENDS Naturals, FiniteSets

CONSTANTS
    Alvos,     \* what is charged: comandas, or wristbands on the recharge screen
    Intents,   \* payment_intents rows
    Tipos,     \* the kinds of screen
    None

ASSUME TerminalAssumption == None \notin Alvos \cup Intents

VARIABLES
    intents,    \* the rows; due: expiresAt is past
    cobrados,   \* intents the acquirer took the customer's money for
    pagas,      \* comandas with nothing left to pay
    creditos,   \* <<intent, wristband>> of every credited recharge
    tela,       \* the screen
    rede,       \* per operation, its request or answer in flight
    mexeu       \* the operator went on while an answer or a charge was pending (history)

banco == <<intents, cobrados, pagas, creditos>>
telaVars == <<banco, tela, rede, mexeu>>

Status == {"none", "awaiting_customer", "approved", "expired", "cancelled"}
IntentRow == [alvo : Alvos \cup {None}, status : Status, due : BOOLEAN]

Ops == {"tap", "item", "charge", "confirm", "cancel", "cash", "get", "poll", "credit"}
Mensagem == [fase : {"livre", "ida", "volta"}, alvo : Alvos \cup {None},
             intent : Intents \cup {None}, status : Status, paga : BOOLEAN]
Livre == [fase |-> "livre", alvo |-> None, intent |-> None, status |-> "none",
          paga |-> FALSE]

\* alvo and paga: the comanda (or wristband) in view and whether what is shown
\* of it says it is paid; intent and status: the charge in view.
Tela == [tipo : Tipos, alvo : Alvos \cup {None}, paga : BOOLEAN,
         intent : Intents \cup {None}, status : Status,
         step : {"form", "awaiting", "approved", "done",
                 "adquirente", "remoto", "confirmando", "pago", "fechada"}]

TelaTypeOK ==
    /\ intents \in [Intents -> IntentRow]
    /\ cobrados \in SUBSET Intents
    /\ pagas \in SUBSET Alvos
    /\ creditos \in SUBSET (Intents \X Alvos)
    /\ tela \in Tela
    /\ rede \in [Ops -> Mensagem]
    /\ mexeu \in BOOLEAN

\* PosPage opens with no comanda; the other screens open for one.
TelaInit ==
    /\ intents = [i \in Intents |-> [alvo |-> None, status |-> "none", due |-> FALSE]]
    /\ cobrados = {} /\ pagas = {} /\ creditos = {}
    /\ \E t \in Tipos, a \in Alvos :
          tela = [tipo |-> t, alvo |-> IF t = "pos" THEN None ELSE a, paga |-> FALSE,
                  intent |-> None, status |-> "none", step |-> "form"]
    /\ rede = [o \in Ops |-> Livre]
    /\ mexeu = FALSE
-----------------------------------------------------------------------------
(* The network *)

Na(o, fase) == rede[o].fase = fase
Solta(o) == rede' = [rede EXCEPT ![o] = Livre]

\* Requests the screen makes by itself.
Automaticas == {"poll", "get"}
Pendente(menos) == \E o \in Ops \ menos : ~Na(o, "livre")

\* The screen asks for o.
Pede(o, a, i) ==
    /\ Na(o, "livre")
    /\ rede' = [rede EXCEPT ![o] = [Livre EXCEPT !.fase = "ida", !.alvo = a, !.intent = i]]
    /\ mexeu' = (mexeu \/ (o \notin Automaticas /\ Pendente(Automaticas)))
    /\ UNCHANGED <<banco, tela>>

\* The server answers with what the screens use of comanda a and charge i, as
\* they are after the step.
Responde(o, a, i) ==
    rede' = [rede EXCEPT ![o] = [fase |-> "volta", alvo |-> a, intent |-> i,
                 status |-> IF i = None THEN "none" ELSE intents'[i].status,
                 paga |-> a \in pagas']]

\* The request or its answer is lost: the screen only shows an error.
Perde(o) ==
    /\ ~Na(o, "livre")
    /\ Solta(o)
    /\ UNCHANGED <<banco, tela, mexeu>>

-----------------------------------------------------------------------------
(* The server's side of each request *)

Muda(i, st) == intents' = [intents EXCEPT ![i].status = st]
Aguarda(i) == intents[i].status = "awaiting_customer"
Comanda == tela.tipo # "recarga"

\* nfc/tap opens or resumes the comanda of a wristband: one that is not paid.
ServeTap ==
    /\ Na("tap", "ida")
    /\ UNCHANGED <<banco, tela, mexeu>>
    /\ \E a \in Alvos \ pagas : Responde("tap", a, None)

\* items: added or removed; the comanda must still be open.
ServeItem ==
    /\ Na("item", "ida")
    /\ rede["item"].alvo \notin pagas
    /\ UNCHANGED <<banco, tela, mexeu>>
    /\ Responde("item", rede["item"].alvo, None)

ServeGet ==
    /\ Na("get", "ida")
    /\ UNCHANGED <<banco, tela, mexeu>>
    /\ Responde("get", rede["get"].alvo, None)

\* createPix and createCardContactless refuse a comanda with nothing to pay.
CobravelSempre(a) == TRUE    \* mutant: the amount left is not compared with zero
Cobravel(a) == Comanda => a \notin pagas

ServeCharge(i) ==
    LET a == rede["charge"].alvo
    IN  /\ Na("charge", "ida")
        /\ Cobravel(a)
        /\ intents[i].status = "none"
        /\ intents' = [intents EXCEPT ![i] = [alvo |-> a, due |-> FALSE,
                                               status |-> "awaiting_customer"]]
        /\ UNCHANGED <<cobrados, pagas, creditos>>
        /\ Responde("charge", None, i)
        /\ UNCHANGED <<tela, mexeu>>

\* confirm approves the charge and, for a comanda, pays it; when the comanda
\* was paid by other means pay throws and the charge stays approved.
Aprova(i) ==
    /\ Muda(i, "approved")
    /\ pagas' = IF Comanda THEN pagas \cup {intents[i].alvo} ELSE pagas
    /\ UNCHANGED <<cobrados, creditos>>

ServeConfirm ==
    LET i == rede["confirm"].intent
        a == intents[i].alvo
    IN  /\ Na("confirm", "ida")
        /\ \/ /\ Aguarda(i) /\ ~intents[i].due
              /\ Aprova(i)
              /\ IF Comanda /\ a \in pagas THEN Solta("confirm") ELSE Responde("confirm", a, i)
           \/ /\ intents[i].status = "approved"
              /\ UNCHANGED banco
              /\ Responde("confirm", a, i)
           \/ /\ Aguarda(i) /\ intents[i].due
              /\ Muda(i, "expired") /\ Solta("confirm")
              /\ UNCHANGED <<cobrados, pagas, creditos>>
        /\ UNCHANGED <<tela, mexeu>>

ServeCancel ==
    LET i == rede["cancel"].intent
    IN  /\ Na("cancel", "ida")
        /\ intents[i].status # "approved"
        /\ Muda(i, "cancelled")
        /\ UNCHANGED <<cobrados, pagas, creditos>>
        /\ Responde("cancel", None, i)
        /\ UNCHANGED <<tela, mexeu>>

\* pay in cash, or a recharge in cash: the wristband is credited at once.
ServeCash ==
    LET a == rede["cash"].alvo
    IN  /\ Na("cash", "ida")
        /\ Cobravel(a)
        /\ pagas' = IF Comanda THEN pagas \cup {a} ELSE pagas
        /\ UNCHANGED <<intents, cobrados, creditos>>
        /\ Responde("cash", a, None)
        /\ UNCHANGED <<tela, mexeu>>

\* getStatus: a charge past its time expires; one the acquirer reports as paid
\* is confirmed by the poll itself.
VenceNunca(i) == FALSE    \* mutant: the poll leaves expiry to confirm
Vence(i) == Aguarda(i) /\ intents[i].due

ServePoll ==
    LET i == rede["poll"].intent
        a == intents[i].alvo
        cobrada == Aguarda(i) /\ ~intents[i].due /\ i \in cobrados
    IN  /\ Na("poll", "ida")
        /\ \/ /\ Vence(i)
              /\ Muda(i, "expired")
              /\ UNCHANGED <<cobrados, pagas, creditos>>
              /\ Responde("poll", None, i)
           \/ /\ cobrada
              /\ Aprova(i)
              /\ IF Comanda /\ a \in pagas THEN Solta("poll") ELSE Responde("poll", None, i)
           \/ /\ ~Vence(i)    \* also when the acquirer does not answer
              /\ UNCHANGED banco
              /\ Responde("poll", None, i)
        /\ UNCHANGED <<tela, mexeu>>

\* recharge: the charge must be approved, be of this wristband, and not be
\* credited yet.
ServeCredit ==
    LET i == rede["credit"].intent
        a == rede["credit"].alvo
    IN  /\ Na("credit", "ida")
        /\ intents[i].status = "approved" /\ intents[i].alvo = a
        /\ <<i, a>> \notin creditos
        /\ creditos' = creditos \cup {<<i, a>>}
        /\ UNCHANGED <<intents, cobrados, pagas>>
        /\ Responde("credit", None, i)
        /\ UNCHANGED <<tela, mexeu>>

ServeOutros ==
    \/ ServeTap \/ ServeItem \/ ServeGet \/ ServeConfirm \/ ServeCancel
    \/ ServeCash \/ ServePoll \/ ServeCredit
Serve == ServeOutros \/ \E i \in Intents : ServeCharge(i)

\* Time passes expiresAt, which nothing reads of a charge already resolved.
Tempo(i) ==
    /\ Aguarda(i) /\ ~intents[i].due
    /\ intents' = [intents EXCEPT ![i].due = TRUE]
    /\ UNCHANGED <<cobrados, pagas, creditos, tela, rede, mexeu>>

\* The customer pays at the acquirer a charge that was sent to it.
ClientePaga(i) ==
    /\ intents[i].status # "none" /\ i \notin cobrados
    /\ cobrados' = cobrados \cup {i}
    /\ UNCHANGED <<intents, pagas, creditos, tela, rede, mexeu>>

\* Another device pays the comanda, or cancels the charge.
OutroPaga(a) ==
    /\ Comanda
    /\ a \notin pagas
    /\ pagas' = pagas \cup {a}
    /\ UNCHANGED <<intents, cobrados, creditos, tela, rede, mexeu>>

OutroCancela(i) ==
    /\ Aguarda(i)
    /\ Muda(i, "cancelled")
    /\ UNCHANGED <<cobrados, pagas, creditos, tela, rede, mexeu>>

Outros ==
    \/ \E i \in Intents : Tempo(i) \/ OutroCancela(i)
    \/ \E a \in Alvos : OutroPaga(a)
=============================================================================
