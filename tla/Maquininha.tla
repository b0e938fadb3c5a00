------------------------------ MODULE Maquininha ------------------------------
(***************************************************************************)
(* The payment screen of the terminal app, PayActivity.kt, with the        *)
(* gateways that hand a charge to the acquirer's own app and wait for its  *)
(* deep link.  It works over the server of module Terminal; the property   *)
(* section covers all the screens.                                         *)
(*                                                                         *)
(* The screen may be closed (Back, or the process killed) at any moment:   *)
(* the coroutine that waited goes with it, the acquirer's app does not.    *)
(* An attempt the screen gave up may still be paid: in the acquirer's app, *)
(* or, in the mercadopago flavor, at the terminal the server sent the      *)
(* order to when the charge was created.                                   *)
(*                                                                         *)
(* A charge counts once in cobrados, also when both the app and the        *)
(* terminal took it.  A request that was given up is served before the     *)
(* next one of its kind, or never.  The demo flavor, whose gateway         *)
(* approves everything, is left out.                                       *)
(***************************************************************************)
EXTENDS Telas

CONSTANT MaxPolls    \* repeat(60) of pollApproved

ASSUME MaquininhaAssumption == MaxPolls \in Nat \ {0}

VARIABLES
    pendente,    \* the gateway's continuation: the charge whose coroutine waits
    emCurso,     \* charges in the acquirer's app
    consultas,   \* polls made by pollApproved
    noTerminal,  \* charges whose order the server sent to the acquirer's terminal
    largadas     \* charges the screen gave up with their outcome open (history)

maqVars == <<pendente, emCurso, consultas, noTerminal, largadas>>
allVars == <<telaVars, maqVars>>

MaquininhaTypeOK ==
    /\ TelaTypeOK
    /\ pendente \in Intents \cup {None}
    /\ emCurso \in SUBSET Intents
    /\ consultas \in 0..MaxPolls
    /\ noTerminal \in SUBSET Intents
    /\ largadas \in SUBSET Intents

MaquininhaInit ==
    /\ TelaInit
    /\ pendente = None /\ emCurso = {} /\ consultas = 0
    /\ noTerminal = {} /\ largadas = {}
-----------------------------------------------------------------------------
No(st) == E("maquininha") /\ tela.step = st
Vai(st) == [tela EXCEPT !.step = st]
Parada == [SemCobranca EXCEPT !.step = "form"]    \* setBusy(false)

\* The screen goes on without knowing what became of charge i, if there is one.
Larga(i) == largadas' = largadas \cup ({i} \ {None})

\* pay: the buttons are disabled while busy.
MaqPaga == No("form") /\ PedeCharge /\ UNCHANGED maqVars

\* createSession: in the mercadopago mode the order goes to the terminal at once,
\* if the acquirer accepts it.
MaqServeCharge(i) ==
    /\ ServeCharge(i)
    /\ noTerminal' \in {noTerminal, noTerminal \cup {i}}
    /\ UNCHANGED <<pendente, emCurso, consultas, largadas>>

\* The charge exists: doPayment keeps the continuation and opens the acquirer's
\* app; or no app opens and the charge goes on by the server (awaitRemote); or
\* it fails at once.
MaqDoPayment ==
    LET m == rede["charge"]
    IN  /\ No("form")
        /\ \/ /\ Recebe("charge", [ComIntent(m) EXCEPT !.step = "adquirente"])
              /\ pendente' = m.intent
              /\ emCurso' = emCurso \cup {m.intent}
              /\ UNCHANGED <<consultas, noTerminal, largadas>>
           \/ /\ Recebe("charge", [ComIntent(m) EXCEPT !.step = "remoto"])
              /\ consultas' = 0
              /\ UNCHANGED <<pendente, emCurso, noTerminal, largadas>>
           \/ /\ Recebe("charge", Parada)
              /\ Larga(m.intent)
              /\ UNCHANGED <<pendente, emCurso, consultas, noTerminal>>

\* The customer pays in the acquirer's app, or at the terminal the order was
\* sent to, whatever the screen shows by then.
MaqClientePaga(i) ==
    /\ i \in emCurso \cup noTerminal
    /\ ClientePaga(i)
    /\ UNCHANGED maqVars

\* The acquirer's app comes back from charge i.  The gateway resumes whatever
\* continuation it holds; of a closed screen, nothing happens.  A result that
\* cannot be read, or says nothing, counts as not approved.
AprovaSempre(i) == TRUE    \* mutant: any return counts as approved
Aprovou(i) == i \in cobrados

MaqRetorno(i) ==
    /\ E("maquininha") /\ i \in emCurso
    /\ emCurso' = emCurso \ {i}
    /\ pendente' = IF No("fechada") THEN pendente ELSE None
    /\ IF No("adquirente") /\ pendente = tela.intent
       THEN \/ /\ Aprovou(i)
               /\ tela' = Vai("confirmando")
               /\ rede' = [rede EXCEPT !["confirm"] =
                              [Livre EXCEPT !.fase = "ida", !.intent = tela.intent]]
               /\ UNCHANGED largadas
            \/ tela' = Parada /\ Larga(tela.intent) /\ UNCHANGED rede
       ELSE UNCHANGED <<tela, rede, largadas>>
    /\ UNCHANGED <<banco, mexeu, consultas, noTerminal>>

\* "Pago!" and finish().
MaqPago ==
    /\ No("confirmando")
    /\ Recebe("confirm", Vai("pago"))
    /\ UNCHANGED maqVars

\* An error of the request in flight, or the refusal of a confirmation, ends
\* the attempt.
MaqErro(o) ==
    /\ ~No("fechada")
    /\ ~Na(o, "livre") \/ (o = "confirm" /\ No("confirmando"))
    /\ tela' = Parada
    /\ Solta(o)
    /\ Larga(IF o = "charge" THEN rede["charge"].intent ELSE tela.intent)
    /\ UNCHANGED <<banco, mexeu, pendente, emCurso, consultas, noTerminal>>

\* What a closed screen was waiting for reaches nobody.
MaqPerde(o) ==
    /\ No("fechada")
    /\ Perde(o)
    /\ Larga(rede[o].intent)
    /\ UNCHANGED <<pendente, emCurso, consultas, noTerminal>>

\* pollApproved: errors count as one more try; after the last, or when the
\* charge expired or was cancelled, "Tempo esgotado".
EsgotaPago == Vai("pago")    \* mutant: the end of the tries counts as approved
Esgota == Parada

MaqPoll ==
    /\ No("remoto") /\ ~Na("poll", "livre") /\ ~Na("poll", "ida")
    /\ LET st == rede["poll"].status
           fim == st \in {"cancelled", "expired"} \/ consultas + 1 = MaxPolls
       IN  /\ Recebe("poll", IF st = "approved" THEN Vai("pago")
                             ELSE IF fim THEN Esgota ELSE tela)
           /\ consultas' = IF fim \/ st = "approved" THEN 0 ELSE consultas + 1
           /\ IF fim /\ st # "approved" THEN Larga(tela.intent) ELSE UNCHANGED largadas
    /\ UNCHANGED <<pendente, emCurso, noTerminal>>

MaqPollErro ==
    /\ No("remoto") /\ ~Na("poll", "livre")
    /\ LET fim == consultas + 1 = MaxPolls
       IN  /\ tela' = IF fim THEN Esgota ELSE tela
           /\ consultas' = IF fim THEN 0 ELSE consultas + 1
           /\ IF fim THEN Larga(tela.intent) ELSE UNCHANGED largadas
    /\ Solta("poll")
    /\ UNCHANGED <<banco, mexeu, pendente, emCurso, noTerminal>>

\* Back, or the process is killed: then the gateway loses its continuation.
MaqFecha ==
    /\ E("maquininha") /\ ~No("fechada")
    /\ tela' = [SemCobranca EXCEPT !.step = "fechada"]
    /\ IF No("pago") THEN UNCHANGED largadas ELSE Larga(tela.intent)
    /\ consultas' = 0
    /\ pendente' \in {pendente, None}
    /\ UNCHANGED <<banco, rede, mexeu, emCurso, noTerminal>>

\* Opened again for the same comanda; no request of the old screen is left.
MaqAbre ==
    /\ No("fechada") /\ \A o \in Ops : Na(o, "livre")
    /\ Mostra(Vai("form"))
    /\ UNCHANGED <<mexeu, maqVars>>

MaqNext ==
    /\ E("maquininha")
    /\ \/ MaqPaga \/ MaqDoPayment \/ MaqPago \/ MaqPoll \/ MaqPollErro \/ MaqFecha \/ MaqAbre
       \/ \E i \in Intents : MaqServeCharge(i) \/ MaqClientePaga(i) \/ MaqRetorno(i)
       \/ \E o \in {"charge", "confirm"} : MaqErro(o)
       \/ \E o \in Ops : MaqPerde(o)
       \/ (PedePoll \/ ServeOutros \/ Outros) /\ UNCHANGED maqVars

Next == (TelasNext /\ UNCHANGED maqVars) \/ MaqNext

\* refetchInterval polls again after an error too, and so does pollApproved: a
\* poll that is repeated for ever is answered at some time.  (In a hidden tab
\* refetchInterval pauses: the tab is in view again at some time.)  And time passes.
Fairness ==
    /\ WF_allVars(PedePoll /\ UNCHANGED maqVars)
    /\ SF_allVars(ServePoll /\ UNCHANGED maqVars)
    /\ SF_allVars((PollOk \/ RecargaPollOk \/ PollAlheio) /\ UNCHANGED maqVars)
    /\ WF_allVars(MaqPoll)
    /\ \A i \in Intents : WF_allVars(Tempo(i) /\ UNCHANGED maqVars)

Spec == MaquininhaInit /\ [][Next]_allVars /\ Fairness
-----------------------------------------------------------------------------
(* Properties *)

\* A screen that says it is paid ("Pagamento aprovado", "Pago!") is right: the
\* server has the comanda as paid, or the charge as approved, however late the
\* answers were and whatever was read, typed or reset meanwhile.
PagoNoServidor ==
    /\ tela.paga => tela.alvo \in pagas
    /\ E("recarga") /\ tela.step = "approved" => intents[tela.intent].status = "approved"
    /\ No("pago") => intents[tela.intent].status = "approved"

\* The charge in view is of the comanda (wristband) in view, and a recharge that
\* says it was done was credited to that wristband, as long as nothing was read,
\* typed or reset while an answer or a charge was pending.
TelaCoerente ==
    /\ tela.intent # None /\ ~mexeu => intents[tela.intent].alvo = tela.alvo
    /\ E("recarga") /\ tela.step = "done" /\ tela.intent # None /\ ~mexeu
       => <<tela.intent, tela.alvo>> \in creditos

\* On the payment screen a customer pays one charge of the comanda at most, not
\* counting those the screen gave up with their outcome open; and a charge is
\* approved only when it was taken, unless a given up one was taken and came back
\* in its place.
Aprovadas == {i \in Intents : intents[i].status = "approved"}

CobradoUmaVez ==
    E("maquininha") =>
        /\ Cardinality(cobrados \ largadas) <= 1
        /\ Aprovadas \ cobrados # {} => cobrados \cap largadas # {}

\* No screen waits for the customer for ever: the poll finds the charge approved,
\* cancelled or expired.
EsperaTermina == Esperando ~> ~Esperando
=============================================================================
