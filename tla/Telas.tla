-------------------------------- MODULE Telas --------------------------------
(***************************************************************************)
(* What the web screens of module Terminal ask for and how they apply the  *)
(* answers: PosPage, PhonePayPage and RechargeFlow of web-admin.           *)
(***************************************************************************)
EXTENDS Terminal

E(tipo) == tela.tipo = tipo
SemCobranca == [tela EXCEPT !.intent = None, !.status = "none"]
Mostra(r) == tela' = r /\ UNCHANGED <<banco, rede>>

\* An edit of the screen, remembered when something was pending.
Edita(r) ==
    /\ Mostra(r)
    /\ mexeu' = (mexeu \/ Pendente({"poll"}))

\* The answer of o is applied.
Recebe(o, r) ==
    /\ Na(o, "volta")
    /\ tela' = r
    /\ Solta(o)
    /\ UNCHANGED <<banco, mexeu>>

ComComanda(a, paga) == [tela EXCEPT !.alvo = a, !.paga = paga]
ComIntent(m) == [tela EXCEPT !.intent = m.intent, !.status = m.status]
-----------------------------------------------------------------------------
(* All three poll the charge they show while it awaits the customer. *)

Esperando ==
    /\ tela.intent # None /\ tela.status = "awaiting_customer"
    /\ tela.step = [pos |-> "form", celular |-> "form", recarga |-> "awaiting",
                    maquininha |-> "remoto"][tela.tipo]

PedePoll == Esperando /\ Pede("poll", None, tela.intent)

\* The answer is of the charge it was asked for: it is not shown if another
\* is in view by then.
DaTela == rede["poll"].intent = tela.intent

PollAlheio == ~DaTela /\ Recebe("poll", tela)

PedeCharge == Pede("charge", tela.alvo, None)
PedeConfirm == tela.intent # None /\ Pede("confirm", None, tela.intent)
-----------------------------------------------------------------------------
(* PosPage and PhonePayPage *)

Pagavel == tela.alvo # None /\ ~tela.paga

\* A wristband is read, also with a charge in view.
PosTap ==
    /\ E("pos")
    /\ Na("tap", "livre")
    /\ rede' = [rede EXCEPT !["tap"].fase = "ida"]
    /\ mexeu' = (mexeu \/ Pendente({"poll"}) \/ tela.intent # None)
    /\ UNCHANGED <<banco, tela>>

\* When an answer brings another comanda beside the charge in view, the effect on
\* the polled charge runs again with what the last poll said: it may still await
\* the customer, or be approved, and then the new comanda is read again.
TrazOutra(r) == E("pos") /\ r.intent # None /\ r.alvo # tela.alvo

RecebeComanda(o, r) ==
    \/ Recebe(o, r)
    \/ TrazOutra(r) /\ Recebe(o, [r EXCEPT !.status = "awaiting_customer"])
    \/ /\ TrazOutra(r) /\ r.status = "approved"
       /\ Na(o, "volta") /\ (o = "get" \/ Na("get", "livre"))
       /\ tela' = r
       /\ rede' = [rede EXCEPT ![o] = Livre,
                               !["get"] = [Livre EXCEPT !.fase = "ida", !.alvo = r.alvo]]
       /\ UNCHANGED <<banco, mexeu>>

PosTapOk == RecebeComanda("tap", ComComanda(rede["tap"].alvo, FALSE))

PosItem == E("pos") /\ Pagavel /\ Pede("item", tela.alvo, None)
PosItemOk == RecebeComanda("item", ComComanda(rede["item"].alvo, rede["item"].paga))

PosCash == E("pos") /\ Pagavel /\ tela.intent = None /\ Pede("cash", tela.alvo, None)
PosCashOk ==
    /\ E("pos")
    /\ LET m == rede["cash"]
       IN  Recebe("cash", [SemCobranca EXCEPT !.alvo = m.alvo, !.paga = m.paga])

Charge == (E("pos") \/ E("celular")) /\ Pagavel /\ tela.intent = None /\ PedeCharge
ChargeOk == (E("pos") \/ E("celular")) /\ Recebe("charge", ComIntent(rede["charge"]))

Confirma == (E("pos") \/ E("celular")) /\ Pagavel /\ PedeConfirm
PosConfirmaOk ==
    /\ E("pos")
    /\ LET m == rede["confirm"]
       IN  RecebeComanda("confirm", [tela EXCEPT !.alvo = m.alvo, !.paga = m.paga,
                                                 !.intent = m.intent, !.status = m.status])

\* PosPage and PhonePayPage show the polled charge; approved, they read the
\* comanda in view again.
PollOk ==
    LET m == rede["poll"]
    IN  /\ E("pos") \/ E("celular")
        /\ Na("poll", "volta") /\ DaTela
        /\ tela' = ComIntent(m)
        /\ rede' = [rede EXCEPT !["poll"] = Livre,
                        !["get"] = IF m.status = "approved" /\ tela.alvo # None
                                      /\ Na("get", "livre")
                                   THEN [Livre EXCEPT !.fase = "ida", !.alvo = tela.alvo]
                                   ELSE @]
        /\ UNCHANGED <<banco, mexeu>>

GetOk == RecebeComanda("get", ComComanda(rede["get"].alvo, rede["get"].paga))

\* Back to the payment options; or, once paid, to the next customer.
Voltar == E("pos") /\ tela.intent # None /\ Edita(SemCobranca)
ResetPos ==
    E("pos") /\ tela.paga /\ Edita([SemCobranca EXCEPT !.alvo = None, !.paga = FALSE])

\* PhonePayPage reads its comanda again every 3 s and after a confirmation.
CelularGet == E("celular") /\ Pede("get", tela.alvo, None)
CelularConfirmaOk ==
    /\ E("celular")
    /\ Recebe("confirm", ComIntent(rede["confirm"]))
CelularCancela ==
    E("celular") /\ Pagavel /\ tela.intent # None /\ Pede("cancel", None, tela.intent)
CelularCancelaOk == E("celular") /\ Recebe("cancel", SemCobranca)

PosNext ==
    \/ PosTap \/ PosTapOk \/ PosItem \/ PosItemOk \/ PosCash \/ PosCashOk
    \/ PosConfirmaOk \/ Voltar \/ ResetPos
    \/ CelularGet \/ CelularConfirmaOk \/ CelularCancela \/ CelularCancelaOk
    \/ Charge \/ ChargeOk \/ Confirma \/ PollOk \/ GetOk
-----------------------------------------------------------------------------
(* RechargeFlow *)

Passo(st) == E("recarga") /\ tela.step = st

\* The uid can be typed over while a charge is being created.
Digita(a) == Passo("form") /\ a # tela.alvo /\ Edita([tela EXCEPT !.alvo = a])

Livres == Na("cash", "livre") /\ Na("charge", "livre")
RecargaCash == Passo("form") /\ Livres /\ Pede("cash", tela.alvo, None)
RecargaCharge == Passo("form") /\ Livres /\ PedeCharge
RecargaConfirma == Passo("awaiting") /\ PedeConfirm
RecargaCredita == Passo("approved") /\ Pede("credit", tela.alvo, tela.intent)

RecargaChargeOk ==
    /\ E("recarga")
    /\ Recebe("charge", [ComIntent(rede["charge"]) EXCEPT !.step = "awaiting"])
RecargaConfirmaOk ==
    /\ E("recarga")
    /\ Recebe("confirm", [ComIntent(rede["confirm"]) EXCEPT !.step = "approved"])
RecargaFeita(o) == E("recarga") /\ Recebe(o, [tela EXCEPT !.step = "done"])

\* Approved: the wristband is still to be credited.  Resolved otherwise: back
\* to the form.  A poll that says awaiting changes nothing.
RecargaPollOk ==
    LET m == rede["poll"]
    IN  /\ E("recarga") /\ DaTela
        /\ Recebe("poll",
              IF tela.step # "awaiting" \/ m.status = "awaiting_customer" THEN tela
              ELSE IF m.status = "approved" THEN [ComIntent(m) EXCEPT !.step = "approved"]
              ELSE [SemCobranca EXCEPT !.step = "form"])

ResetGuarda ==    \* mutant: the charge is left behind
    [tela EXCEPT !.step = "form"]
Reset == [SemCobranca EXCEPT !.step = "form"]

RecargaReset == (Passo("awaiting") \/ Passo("done")) /\ Edita(Reset)

RecargaNext ==
    \/ \E a \in Alvos : Digita(a)
    \/ RecargaCash \/ RecargaCharge \/ RecargaConfirma \/ RecargaCredita
    \/ RecargaChargeOk \/ RecargaConfirmaOk \/ RecargaFeita("cash")
    \/ RecargaFeita("credit") \/ RecargaPollOk \/ RecargaReset
-----------------------------------------------------------------------------
\* The server, the network, the customer and the other devices.
Ambiente ==
    \/ Serve
    \/ \E o \in Ops : Perde(o)
    \/ \E i \in Intents : ClientePaga(i)
    \/ Outros

TelasNext ==
    /\ ~E("maquininha")
    /\ PosNext \/ RecargaNext \/ PedePoll \/ PollAlheio \/ Ambiente
=============================================================================
