-------------------------- MODULE MaquininhaProofs --------------------------
(***************************************************************************)
(* Theorems about the screens (Terminal, Telas, Maquininha), for every     *)
(* number of comandas, wristbands and charges, whatever is late or lost.   *)
(***************************************************************************)
EXTENDS Maquininha, FiniteSetTheorems, TLAPS
-----------------------------------------------------------------------------
(* What holds of the messages and of the screen whatever is late or lost *)

\* Message m of operation o: what it names exists, and what an answer says stays true.
Good(o, m, ins, pg) ==
    /\ m.fase # "livre" /\ o \in {"confirm", "poll", "cancel", "credit"} =>
          m.intent \in Intents /\ ins[m.intent].status # "none"
    /\ m.fase # "livre" /\ o \in {"item", "get", "cash"} => m.alvo \in Alvos
    /\ m.fase = "ida" /\ o \in {"charge", "credit"} => m.alvo \in Alvos
    /\ m.fase = "volta" /\ o \in {"tap", "confirm"} => m.alvo \in Alvos
    /\ m.fase = "volta" /\ o = "charge" => m.intent \in Intents /\ ins[m.intent].status # "none"
    /\ m.fase = "volta" /\ m.paga => m.alvo \in pg
    /\ m.fase = "volta" /\ m.status = "approved" =>
          m.intent \in Intents /\ ins[m.intent].status = "approved"
    /\ m.fase = "volta" /\ o = "confirm" => m.status = "approved"

AllGood == \A o \in Ops : Good(o, rede[o], intents, pagas)

RowsOK == \A i \in Intents : intents[i].status # "none" => intents[i].alvo \in Alvos

InPayment == {"adquirente", "remoto", "confirmando", "pago"}

\* What screen t shows is so.
Shows(t, ins, pg) ==
    /\ t.paga => t.alvo \in pg
    /\ t.tipo # "pos" => t.alvo \in Alvos
    /\ t.tipo = "recarga" => pg = {}
    /\ t.intent # None => t.intent \in Intents /\ ins[t.intent].status # "none"
    /\ t.tipo = "recarga" /\ t.step = "approved" =>
          t.intent # None /\ ins[t.intent].status = "approved"
    /\ t.tipo = "maquininha" => (t.intent # None <=> t.step \in InPayment)
    /\ t.tipo = "maquininha" /\ t.step = "pago" => ins[t.intent].status = "approved"

\* The payment screen asks for one thing at a time, and what is under way is about the
\* charge in view; a closed screen may leave a request behind.
InStep(t, r, mx) ==
    t.tipo = "maquininha" =>
        /\ r["charge"].fase # "livre" =>
              /\ t.step \in {"form", "fechada"}
              /\ r["confirm"].fase = "livre" /\ r["poll"].fase = "livre"
        /\ r["confirm"].fase # "livre" =>
              \/ t.step = "fechada"
              \/ t.step = "confirmando" /\ r["confirm"].intent = t.intent
        /\ r["poll"].fase # "livre" =>
              \/ t.step = "fechada"
              \/ t.step = "remoto" /\ r["poll"].intent = t.intent
        /\ \A o \in Ops \ {"charge", "confirm", "poll"} : r[o].fase = "livre"
        /\ ~mx

ScreenInv ==
    /\ TelaTypeOK /\ RowsOK /\ AllGood
    /\ Shows(tela, intents, pagas) /\ InStep(tela, rede, mexeu)
-----------------------------------------------------------------------------
(* What holds until something is read, typed or reset while another thing is pending *)

\* Message m of operation o is about what screen t shows.
MsgInView(o, m, t, ins, crd) ==
    m.fase # "livre" =>
        /\ o = "tap" => t.tipo = "pos" /\ t.intent = None
        /\ o \in {"item", "get", "cash"} => m.alvo = t.alvo
        /\ o = "cash" /\ t.tipo = "recarga" => t.step = "form"
        /\ o = "charge" => IF m.fase = "ida" THEN m.alvo = t.alvo ELSE ins[m.intent].alvo = t.alvo
        /\ o = "confirm" => ins[m.intent].alvo = t.alvo /\ (m.fase = "volta" => m.alvo = t.alvo)
        /\ o = "credit" =>
              /\ t.step = "approved" /\ m.intent = t.intent
              /\ IF m.fase = "ida" THEN m.alvo = t.alvo ELSE <<t.intent, t.alvo>> \in crd

ScreenInView(t, ins, crd) ==
    /\ t.intent # None => ins[t.intent].alvo = t.alvo
    /\ t.tipo = "recarga" /\ t.step = "form" => t.intent = None
    /\ t.tipo = "recarga" /\ t.step = "done" /\ t.intent # None => <<t.intent, t.alvo>> \in crd

\* The operator is asked to wait for one answer at a time.
Alone(r) ==
    /\ \A o, q \in Ops \ Automaticas : r[o].fase # "livre" /\ r[q].fase # "livre" => o = q
    /\ r["tap"].fase # "livre" => r["get"].fase = "livre"

MsgsInView == \A o \in Ops : MsgInView(o, rede[o], tela, intents, creditos)

InView == ~mexeu => MsgsInView /\ ScreenInView(tela, intents, creditos) /\ Alone(rede)

Screens == ScreenInv /\ InView
-----------------------------------------------------------------------------
(* The tables and the messages *)

BancoOK ==
    /\ intents' \in [Intents -> IntentRow] /\ cobrados' \in SUBSET Intents
    /\ pagas' \in SUBSET Alvos /\ creditos' \in SUBSET (Intents \X Alvos)

\* What is paid, approved, credited or handed out stays so.
BancoGrows ==
    /\ pagas \subseteq pagas' /\ creditos \subseteq creditos'
    /\ ~Comanda => pagas' = pagas
    /\ \A i \in Intents :
          /\ intents[i].status = "approved" => intents'[i].status = "approved"
          /\ intents[i].status # "none" =>
                intents'[i].status # "none" /\ intents'[i].alvo = intents[i].alvo

Others(o) == \A q \in Ops \ {o} : rede'[q] = rede[q]

LEMMA Frees ==
    ASSUME TelaTypeOK, NEW o \in Ops, Solta(o)
    PROVE  rede' \in [Ops -> Mensagem] /\ rede'[o].fase = "livre" /\ Others(o)
BY DEF TelaTypeOK, Solta, Livre, Mensagem, Status, Others

LEMMA Asks ==
    ASSUME TelaTypeOK, NEW o \in Ops, NEW a \in Alvos \cup {None}, NEW i \in Intents \cup {None},
           Pede(o, a, i)
    PROVE  /\ rede' \in [Ops -> Mensagem] /\ Others(o) /\ rede[o].fase = "livre"
           /\ rede'[o].fase = "ida" /\ rede'[o].alvo = a /\ rede'[o].intent = i
           /\ mexeu' \in BOOLEAN /\ UNCHANGED <<banco, tela>>
           /\ mexeu' = (mexeu \/ (o \notin Automaticas /\ Pendente(Automaticas)))
<1> DEFINE m == [Livre EXCEPT !.fase = "ida", !.alvo = a, !.intent = i]
<1>1. m \in Mensagem /\ m.fase = "ida" /\ m.alvo = a /\ m.intent = i
  BY DEF Livre, Mensagem, Status
<1>2. /\ rede' = [rede EXCEPT ![o] = m] /\ Na(o, "livre") /\ UNCHANGED <<banco, tela>>
      /\ mexeu' = (mexeu \/ (o \notin Automaticas /\ Pendente(Automaticas)))
  BY DEF Pede
<1>3. mexeu' \in BOOLEAN
  BY <1>2 DEF TelaTypeOK
<1> HIDE DEF m
<1> QED BY <1>1, <1>2, <1>3 DEF TelaTypeOK, Others, Na

LEMMA Answers ==
    ASSUME TelaTypeOK, BancoOK, NEW o \in Ops, NEW a \in Alvos \cup {None},
           NEW i \in Intents \cup {None}, Responde(o, a, i)
    PROVE  /\ rede' \in [Ops -> Mensagem] /\ Others(o)
           /\ rede'[o].fase = "volta" /\ rede'[o].alvo = a /\ rede'[o].intent = i
           /\ rede'[o].paga <=> a \in pagas'
           /\ i # None => rede'[o].status = intents'[i].status
           /\ i = None => rede'[o].status = "none"
<1> DEFINE m == [fase |-> "volta", alvo |-> a, intent |-> i,
                 status |-> IF i = None THEN "none" ELSE intents'[i].status,
                 paga |-> a \in pagas']
<1>1. i # None => intents'[i].status \in Status
  BY DEF BancoOK, IntentRow
<1>2. m \in Mensagem
  BY <1>1 DEF Mensagem, Status
<1>3. rede' = [rede EXCEPT ![o] = m]
  BY DEF Responde
<1>4. rede' \in [Ops -> Mensagem] /\ rede'[o] = m /\ Others(o)
  BY <1>2, <1>3 DEF TelaTypeOK, Others
<1>5. m.fase = "volta" /\ m.alvo = a /\ m.intent = i
  OBVIOUS
<1>6. m.paga = (a \in pagas')
  OBVIOUS
<1>7. m.status = IF i = None THEN "none" ELSE intents'[i].status
  OBVIOUS
<1> QED BY <1>4, <1>5, <1>6, <1>7

LEMMA GoodKept ==
    ASSUME BancoGrows, NEW o, NEW m, Good(o, m, intents, pagas)
    PROVE  Good(o, m, intents', pagas')
BY DEF Good, BancoGrows

LEMMA ShowsKept ==
    ASSUME BancoGrows, Shows(tela, intents, pagas) PROVE Shows(tela, intents', pagas')
<1>1. CASE tela.intent = None
  BY <1>1 DEF Shows, BancoGrows, InPayment, Comanda
<1>2. CASE tela.intent # None
  BY <1>2 DEF Shows, BancoGrows, InPayment, Comanda
<1> QED BY <1>1, <1>2

LEMMA MsgKept ==
    ASSUME BancoGrows, NEW o, NEW m \in Mensagem, NEW t, Good(o, m, intents, pagas),
           MsgInView(o, m, t, intents, creditos)
    PROVE  MsgInView(o, m, t, intents', creditos')
<1>1. m.fase # "livre" /\ o = "confirm" => intents'[m.intent].alvo = intents[m.intent].alvo
  BY DEF Good, BancoGrows
<1>2. m.fase \notin {"livre", "ida"} /\ o = "charge" =>
          intents'[m.intent].alvo = intents[m.intent].alvo
  BY DEF Good, BancoGrows, Mensagem
<1> QED BY <1>1, <1>2 DEF MsgInView, BancoGrows

LEMMA ScreenKept ==
    ASSUME BancoGrows, NEW t, Shows(t, intents, pagas), ScreenInView(t, intents, creditos)
    PROVE  ScreenInView(t, intents', creditos')
BY DEF Shows, ScreenInView, BancoGrows

LEMMA FreeIsGood ==
    ASSUME NEW o, NEW m, m.fase = "livre", NEW ins, NEW pg PROVE Good(o, m, ins, pg)
BY DEF Good
-----------------------------------------------------------------------------
(* Kinds of step *)

\* A step that changes the message of o alone, and the tables at most upwards.
LEMMA AfterMessage ==
    ASSUME ScreenInv, BancoGrows, NEW o \in Ops, Others(o),
           Good(o, rede'[o], intents', pagas')
    PROVE  AllGood'
<1> SUFFICES ASSUME NEW q \in Ops PROVE Good(q, rede'[q], intents', pagas')
  BY DEF AllGood
<1> QED BY GoodKept DEF ScreenInv, AllGood, Others

\* The server frees or answers the message of o, about the charge it was asked for.
Served(o) ==
    /\ BancoOK /\ BancoGrows /\ RowsOK' /\ rede' \in [Ops -> Mensagem] /\ Others(o)
    /\ rede[o].fase = "ida" /\ UNCHANGED <<tela, mexeu>>
    /\ rede'[o].fase # "livre" /\ o \in {"confirm", "poll"} => rede'[o].intent = rede[o].intent
    /\ Good(o, rede'[o], intents', pagas')
    /\ MsgInView(o, rede[o], tela, intents, creditos) =>
          MsgInView(o, rede'[o], tela, intents', creditos')

LEMMA ServedKeeps ==
    ASSUME Screens, NEW o \in Ops, Served(o) PROVE Screens'
<1>1. AllGood'
  BY AfterMessage DEF Served, Screens
<1>2. Shows(tela, intents, pagas)'
  BY ShowsKept DEF Screens, ScreenInv, Served
<1>3. TelaTypeOK'
  BY DEF Screens, ScreenInv, Served, BancoOK, TelaTypeOK
<1>4. \A q \in Ops : rede'[q].fase # "livre" => rede[q].fase # "livre"
  BY DEF Served, Others
<1>5. InStep(tela, rede, mexeu)'
  <2>1. \A q \in {"confirm", "poll"} : rede'[q].fase # "livre" => rede'[q].intent = rede[q].intent
    BY DEF Served, Others, Ops
  <2>2. "charge" \in Ops /\ "confirm" \in Ops /\ "poll" \in Ops /\ tela' = tela /\ mexeu' = mexeu
    BY DEF Ops, Served
  <2>3. rede \in [Ops -> Mensagem] /\ rede' \in [Ops -> Mensagem]
    BY DEF Screens, ScreenInv, TelaTypeOK, Served
  <2>4. \A q \in Ops : rede[q].fase = "livre" => rede'[q].fase = "livre"
    BY <1>4, <2>3
  <2> QED BY <1>4, <2>1, <2>2, <2>4 DEF Screens, ScreenInv, InStep
<1>6. ASSUME ~mexeu' PROVE MsgsInView' /\ ScreenInView(tela, intents, creditos)' /\ Alone(rede)'
  <2>1. ~mexeu /\ MsgsInView /\ ScreenInView(tela, intents, creditos) /\ Alone(rede)
    BY <1>6 DEF Served, Screens, InView
  <2>2. ASSUME NEW q \in Ops PROVE MsgInView(q, rede'[q], tela, intents', creditos')
    <3>1. CASE q = o
      BY <2>1, <3>1 DEF Served, MsgsInView
    <3>2. CASE q # o
      BY <2>1, <3>2, MsgKept DEF Served, Others, MsgsInView, Screens, ScreenInv, AllGood, TelaTypeOK
    <3> QED BY <3>1, <3>2
  <2>3. MsgsInView'
    BY <2>2 DEF MsgsInView, Served
  <2>4. ScreenInView(tela, intents, creditos)'
    BY <2>1, ScreenKept DEF Served, Screens, ScreenInv
  <2>5. Alone(rede)'
    BY <1>4, <2>1 DEF Alone, Ops
  <2> QED BY <2>3, <2>4, <2>5
<1> QED BY <1>1, <1>2, <1>3, <1>5, <1>6 DEF Served, Screens, ScreenInv, InView

\* Only the tables change, upwards.
LEMMA BancoKeeps ==
    ASSUME Screens, BancoOK, BancoGrows, RowsOK', UNCHANGED <<tela, rede, mexeu>> PROVE Screens'
<1>1. AllGood'
  BY GoodKept DEF Screens, ScreenInv, AllGood
<1>2. Shows(tela, intents, pagas)'
  BY ShowsKept DEF Screens, ScreenInv
<1>3. TelaTypeOK' /\ InStep(tela, rede, mexeu)'
  BY DEF Screens, ScreenInv, BancoOK, TelaTypeOK, InStep
<1>4. ASSUME ~mexeu' PROVE MsgsInView' /\ ScreenInView(tela, intents, creditos)' /\ Alone(rede)'
  <2>1. ~mexeu /\ MsgsInView /\ ScreenInView(tela, intents, creditos) /\ Alone(rede)
    BY <1>4 DEF Screens, InView
  <2>2. MsgsInView'
    BY <2>1, MsgKept DEF MsgsInView, Screens, ScreenInv, AllGood, TelaTypeOK
  <2>3. ScreenInView(tela, intents, creditos)'
    BY <2>1, ScreenKept DEF Screens, ScreenInv
  <2>4. Alone(rede)'
    BY <2>1 DEF Alone
  <2> QED BY <2>2, <2>3, <2>4
<1> QED BY <1>1, <1>2, <1>3, <1>4 DEF Screens, ScreenInv, InView

\* Nothing of the tables changes.
LEMMA BancoStays ==
    ASSUME Screens, UNCHANGED banco
    PROVE  BancoOK /\ BancoGrows /\ RowsOK' /\ UNCHANGED <<intents, cobrados, pagas, creditos>>
BY DEF Screens, ScreenInv, TelaTypeOK, banco, BancoOK, BancoGrows, RowsOK

\* A request that is sent, of what the screen shows.
LEMMA AskedKeeps ==
    ASSUME Screens, NEW o \in Ops, NEW a \in Alvos \cup {None}, NEW i \in Intents \cup {None},
           o # "tap", Pede(o, a, i), Good(o, rede'[o], intents, pagas),
           InStep(tela, rede, mexeu)',
           ~mexeu => MsgInView(o, rede'[o], tela, intents, creditos),
           ~mexeu /\ o \in Automaticas /\ rede["tap"].fase # "livre" => o = "poll"
    PROVE  Screens'
<1>1. /\ rede' \in [Ops -> Mensagem] /\ Others(o) /\ rede[o].fase = "livre"
      /\ mexeu' \in BOOLEAN /\ UNCHANGED <<banco, tela>>
      /\ mexeu' = (mexeu \/ (o \notin Automaticas /\ Pendente(Automaticas)))
  BY Asks DEF Screens, ScreenInv
<1>2. /\ BancoGrows /\ RowsOK' /\ UNCHANGED <<intents, cobrados, pagas, creditos>>
  BY <1>1, BancoStays
<1>3. AllGood'
  BY <1>1, <1>2, AfterMessage DEF Screens
<1>4. TelaTypeOK' /\ Shows(tela, intents, pagas)'
  BY <1>1, <1>2 DEF Screens, ScreenInv, TelaTypeOK
<1>5. ASSUME ~mexeu' PROVE MsgsInView' /\ ScreenInView(tela, intents, creditos)' /\ Alone(rede)'
  <2>1. ~mexeu /\ MsgsInView /\ ScreenInView(tela, intents, creditos) /\ Alone(rede)
    BY <1>1, <1>5 DEF Screens, InView, ScreenInv, TelaTypeOK
  <2>2. MsgsInView'
    BY <1>1, <1>2, <2>1 DEF MsgsInView, Others
  <2>3. o \notin Automaticas => \A q \in Ops \ Automaticas : rede[q].fase = "livre"
    BY <1>1, <1>5 DEF Pendente, Na
  <2>4. Alone(rede)'
    <3>1. ASSUME NEW p \in Ops \ Automaticas, NEW q \in Ops \ Automaticas,
                 rede'[p].fase # "livre", rede'[q].fase # "livre"
          PROVE  p = q
      <4>1. CASE o \in Automaticas
        BY <1>1, <2>1, <3>1, <4>1 DEF Others, Alone
      <4>2. CASE o \notin Automaticas
        BY <1>1, <2>3, <3>1, <4>2 DEF Others
      <4> QED BY <4>1, <4>2
    <3>2. ASSUME rede'["tap"].fase # "livre" PROVE rede'["get"].fase = "livre"
      <4>1. "tap" \in Ops /\ "get" \in Ops
        BY DEF Ops
      <4> QED BY <1>1, <2>1, <2>3, <3>2, <4>1 DEF Others, Alone, Automaticas
    <3> QED BY <3>1, <3>2 DEF Alone
  <2> QED BY <1>1, <1>2, <2>1, <2>2, <2>4 DEF ScreenInView
<1> QED BY <1>2, <1>3, <1>4, <1>5 DEF Screens, ScreenInv, InView

\* An answer that is applied, or a message that is dropped: the screen goes on to r.
LEMMA AppliedKeeps ==
    ASSUME Screens, NEW o \in Ops, Solta(o), UNCHANGED <<banco, mexeu>>, tela' \in Tela,
           Shows(tela', intents, pagas), InStep(tela, rede, mexeu)',
           ~mexeu => ScreenInView(tela', intents, creditos),
           ~mexeu => \A q \in Ops \ {o} : MsgInView(q, rede[q], tela', intents, creditos)
    PROVE  Screens'
<1>1. rede' \in [Ops -> Mensagem] /\ rede'[o].fase = "livre" /\ Others(o)
  BY Frees DEF Screens, ScreenInv
<1>2. /\ BancoGrows /\ RowsOK' /\ UNCHANGED <<intents, cobrados, pagas, creditos>>
  BY BancoStays
<1>3. AllGood'
  BY <1>1, <1>2, AfterMessage, FreeIsGood DEF Screens
<1>4. TelaTypeOK' /\ Shows(tela, intents, pagas)'
  BY <1>1, <1>2 DEF Screens, ScreenInv, TelaTypeOK
<1>5. ASSUME ~mexeu' PROVE MsgsInView' /\ ScreenInView(tela, intents, creditos)' /\ Alone(rede)'
  <2>1. ~mexeu /\ Alone(rede)
    BY <1>5 DEF Screens, InView
  <2>2. MsgsInView'
    <3> SUFFICES ASSUME NEW q \in Ops PROVE MsgInView(q, rede'[q], tela', intents', creditos')
      BY DEF MsgsInView
    <3>1. CASE q = o
      BY <1>1, <3>1 DEF MsgInView
    <3>2. CASE q # o
      BY <1>1, <1>2, <2>1, <3>2 DEF Others
    <3> QED BY <3>1, <3>2
  <2>3. Alone(rede)'
    <3>1. \A q \in Ops : rede'[q].fase # "livre" => rede[q].fase # "livre"
      BY <1>1 DEF Others
    <3>2. "tap" \in Ops /\ "get" \in Ops
      BY DEF Ops
    <3> QED BY <2>1, <3>1, <3>2 DEF Alone
  <2>4. ScreenInView(tela', intents', creditos')
    BY <1>2, <2>1
  <2> QED BY <2>2, <2>3, <2>4
<1> QED BY <1>2, <1>3, <1>4, <1>5 DEF Screens, ScreenInv, InView

\* An edit made while nothing but the poll is pending, or that is remembered.
LEMMA EditedKeeps ==
    ASSUME Screens, UNCHANGED <<banco, rede>>, tela' \in Tela, tela'.tipo # "maquininha",
           mexeu' = (mexeu \/ Pendente({"poll"})),
           Shows(tela', intents, pagas), ~mexeu => ScreenInView(tela', intents, creditos)
    PROVE  Screens'
<1>1. /\ BancoGrows /\ RowsOK' /\ UNCHANGED <<intents, cobrados, pagas, creditos>>
  BY BancoStays
<1>2. AllGood' /\ mexeu' \in BOOLEAN
  BY <1>1, GoodKept DEF Screens, ScreenInv, AllGood, TelaTypeOK
<1>3. TelaTypeOK' /\ Shows(tela, intents, pagas)' /\ InStep(tela, rede, mexeu)'
  BY <1>1, <1>2 DEF Screens, ScreenInv, TelaTypeOK, InStep
<1>4. ASSUME ~mexeu' PROVE MsgsInView' /\ ScreenInView(tela, intents, creditos)' /\ Alone(rede)'
  <2>1. ~mexeu /\ Alone(rede) /\ \A q \in Ops \ {"poll"} : rede[q].fase = "livre"
    BY <1>4 DEF Screens, ScreenInv, TelaTypeOK, InView, Pendente, Na
  <2>2. MsgsInView'
    <3> SUFFICES ASSUME NEW q \in Ops PROVE MsgInView(q, rede[q], tela', intents', creditos')
      BY DEF MsgsInView
    <3>1. CASE q = "poll"
      BY <3>1 DEF MsgInView
    <3>2. CASE q # "poll"
      BY <2>1, <3>2 DEF MsgInView
    <3> QED BY <3>1, <3>2
  <2>3. Alone(rede)'
    BY <2>1 DEF Alone
  <2>4. ScreenInView(tela', intents', creditos')
    BY <1>1, <2>1
  <2> QED BY <2>2, <2>3, <2>4
<1> QED BY <1>1, <1>2, <1>3, <1>4 DEF Screens, ScreenInv, InView

\* A message about what the screen shows is about what it shows next, when the screen
\* differs in nothing the message is about.
LEMMA SameView ==
    ASSUME Screens, ~mexeu, NEW r \in Tela, r.tipo = tela.tipo, r.alvo = tela.alvo, NEW q \in Ops,
           q \in {"tap", "credit"} => r.intent = tela.intent,
           q = "credit" \/ (q = "cash" /\ tela.tipo = "recarga") => r.step = tela.step
    PROVE  MsgInView(q, rede[q], r, intents, creditos)
BY DEF Screens, InView, MsgsInView, MsgInView

\* While the operator waits for o, nothing else was asked.
LEMMA OnlyOne ==
    ASSUME Screens, ~mexeu, NEW o \in Ops \ Automaticas, rede[o].fase # "livre",
           NEW q \in Ops \ {o}, q \notin Automaticas
    PROVE  rede[q].fase = "livre"
BY DEF Screens, InView, Alone

LEMMA FreeInView ==
    ASSUME NEW q, NEW m, m.fase = "livre", NEW t PROVE MsgInView(q, m, t, intents, creditos)
BY DEF MsgInView
-----------------------------------------------------------------------------
(* The server *)

\* A charge awaiting the customer is resolved.
LEMMA Resolves ==
    ASSUME Screens, NEW i \in Intents, NEW st \in Status, Muda(i, st),
           intents[i].status # "none", st # "none",
           intents[i].status = "approved" => st = "approved",
           pagas' \in SUBSET Alvos, pagas \subseteq pagas', ~Comanda => pagas' = pagas, UNCHANGED <<cobrados, creditos>>
    PROVE  BancoOK /\ BancoGrows /\ RowsOK' /\ intents'[i].status = st
BY DEF Screens, ScreenInv, TelaTypeOK, Muda, IntentRow, BancoOK, BancoGrows, RowsOK

LEMMA Approves ==
    ASSUME Screens, NEW i \in Intents, Aguarda(i), Aprova(i)
    PROVE  BancoOK /\ BancoGrows /\ RowsOK' /\ intents'[i].status = "approved"
<1>1. Muda(i, "approved") /\ pagas' = IF Comanda THEN pagas \cup {intents[i].alvo} ELSE pagas
  BY DEF Aprova
<1>2. UNCHANGED <<cobrados, creditos>> /\ intents[i].status = "awaiting_customer"
  BY DEF Aprova, Aguarda
<1>3. pagas' \in SUBSET Alvos /\ pagas \subseteq pagas' /\ (~Comanda => pagas' = pagas)
  BY <1>1, <1>2 DEF Screens, ScreenInv, TelaTypeOK, RowsOK
<1> QED BY <1>1, <1>2, <1>3, Resolves DEF Status

\* The request is dropped.
LEMMA ServedFrees ==
    ASSUME Screens, NEW o \in Ops, rede[o].fase = "ida", Solta(o), UNCHANGED <<tela, mexeu>>,
           BancoOK, BancoGrows, RowsOK'
    PROVE  Served(o)
<1>1. rede' \in [Ops -> Mensagem] /\ rede'[o].fase = "livre" /\ Others(o)
  BY Frees DEF Screens, ScreenInv
<1> QED BY <1>1, FreeIsGood DEF Served, MsgInView

\* The comanda as the server has it, or the charge, is what the answer says.
LEMMA AnswerIsGood ==
    ASSUME Screens, NEW o \in Ops, BancoOK, BancoGrows, Na(o, "ida"),
           NEW a \in Alvos \cup {None}, NEW i \in Intents \cup {None}, Responde(o, a, i),
           o \in {"tap", "item", "get", "cash", "confirm"} => a \in Alvos,
           o \in {"confirm", "poll", "cancel", "credit", "charge"} =>
               i \in Intents /\ intents'[i].status # "none",
           o = "confirm" => intents'[i].status = "approved"
    PROVE  Good(o, rede'[o], intents', pagas')
<1>1. /\ rede'[o].fase = "volta" /\ rede'[o].alvo = a /\ rede'[o].intent = i
      /\ i # None => rede'[o].status = intents'[i].status
      /\ i = None => rede'[o].status = "none"
  BY Answers DEF Screens, ScreenInv
<1>2. rede'[o].paga <=> a \in pagas'
  BY Answers DEF Screens, ScreenInv
<1>3. rede'[o].paga => rede'[o].alvo \in pagas'
  BY <1>1, <1>2
<1>4. rede'[o].status = "approved" => i \in Intents /\ intents'[i].status = "approved"
  BY <1>1
<1>5. i \in Intents => i # None
  BY TerminalAssumption
<1>6. o \in {"confirm", "poll", "cancel", "credit", "charge"} =>
          rede'[o].intent \in Intents /\ intents'[rede'[o].intent].status # "none"
  BY <1>1
<1>7. o \in {"tap", "item", "get", "cash", "confirm"} => rede'[o].alvo \in Alvos
  BY <1>1
<1>8. o = "confirm" => rede'[o].status = "approved"
  BY <1>1, <1>5
<1> QED BY <1>1, <1>3, <1>4, <1>6, <1>7, <1>8 DEF Good

\* An answer about what the request was about.
LEMMA ServedAnswers ==
    ASSUME Screens, NEW o \in Ops, Na(o, "ida"), UNCHANGED <<tela, mexeu>>,
           BancoOK, BancoGrows, RowsOK',
           NEW a \in Alvos \cup {None}, NEW i \in Intents \cup {None}, Responde(o, a, i),
           o \in {"tap", "item", "get", "cash", "confirm"} => a \in Alvos,
           o \in {"confirm", "poll", "cancel", "credit", "charge"} =>
               i \in Intents /\ intents'[i].status # "none",
           o = "confirm" => intents'[i].status = "approved" /\ a = intents[i].alvo,
           o \in {"item", "get", "cash"} => a = rede[o].alvo,
           o \in {"confirm", "poll", "credit"} => i = rede[o].intent,
           o = "charge" => intents'[i].alvo = rede[o].alvo,
           o = "credit" => <<i, rede[o].alvo>> \in creditos'
    PROVE  Served(o)
<1>1. /\ rede' \in [Ops -> Mensagem] /\ Others(o)
      /\ rede'[o].fase = "volta" /\ rede'[o].alvo = a /\ rede'[o].intent = i
  BY Answers DEF Screens, ScreenInv
<1>2. Good(o, rede'[o], intents', pagas')
  BY AnswerIsGood
<1>3. rede[o].fase = "ida"
  BY DEF Na
<1>4. ASSUME MsgInView(o, rede[o], tela, intents, creditos)
      PROVE  MsgInView(o, rede'[o], tela, intents', creditos')
  <2>1. CASE o \in {"item", "get", "cash", "tap"}
    BY <1>1, <1>3, <1>4, <2>1 DEF MsgInView
  <2>2. CASE o \in {"charge", "credit"}
    BY <1>1, <1>3, <1>4, <2>2 DEF MsgInView
  <2>3. CASE o = "confirm"
    <3>1. rede[o].intent = i /\ intents[i].status # "none" /\ i \in Intents
      BY <1>3, <2>3 DEF Screens, ScreenInv, AllGood, Good
    <3>2. intents'[i].alvo = intents[i].alvo
      BY <3>1 DEF BancoGrows
    <3> QED BY <1>1, <1>3, <1>4, <2>3, <3>1, <3>2 DEF MsgInView
  <2>4. CASE o \in {"poll", "cancel"}
    BY <2>4 DEF MsgInView
  <2> QED BY <2>1, <2>2, <2>3, <2>4 DEF Ops
<1> QED BY <1>1, <1>2, <1>3, <1>4 DEF Served

LEMMA ServeTapKeeps ==
    ASSUME Screens, ServeTap PROVE Served("tap")
<1>1. PICK a \in Alvos \ pagas : Responde("tap", a, None)
  BY DEF ServeTap
<1>2. /\ BancoOK /\ BancoGrows /\ RowsOK' /\ UNCHANGED <<tela, mexeu>> /\ Na("tap", "ida")
      /\ "tap" \in Ops
  BY BancoStays DEF ServeTap, Ops
<1> QED BY <1>1, <1>2, ServedAnswers

LEMMA ServeItemKeeps ==
    ASSUME Screens, ServeItem PROVE Served("item")
<1>1. /\ BancoOK /\ BancoGrows /\ RowsOK' /\ UNCHANGED <<tela, mexeu>> /\ Na("item", "ida")
      /\ "item" \in Ops /\ Responde("item", rede["item"].alvo, None)
  BY BancoStays DEF ServeItem, Ops
<1>2. rede["item"].alvo \in Alvos
  BY <1>1 DEF Na, Screens, ScreenInv, AllGood, Good
<1> QED BY <1>1, <1>2, ServedAnswers

LEMMA ServeGetKeeps ==
    ASSUME Screens, ServeGet PROVE Served("get")
<1>1. /\ BancoOK /\ BancoGrows /\ RowsOK' /\ UNCHANGED <<tela, mexeu>> /\ Na("get", "ida")
      /\ "get" \in Ops /\ Responde("get", rede["get"].alvo, None)
  BY BancoStays DEF ServeGet, Ops
<1>2. rede["get"].alvo \in Alvos
  BY <1>1 DEF Na, Screens, ScreenInv, AllGood, Good
<1> QED BY <1>1, <1>2, ServedAnswers

LEMMA ServeChargeKeeps ==
    ASSUME Screens, NEW i \in Intents, ServeCharge(i)
    PROVE  /\ Served("charge")
           /\ rede'["charge"].fase = "volta" /\ rede'["charge"].intent = i
           /\ intents'[i].status = "awaiting_customer" /\ intents'[i].alvo = rede["charge"].alvo
<1>1. /\ UNCHANGED <<tela, mexeu, cobrados, pagas, creditos>> /\ Na("charge", "ida")
      /\ "charge" \in Ops /\ Responde("charge", None, i) /\ intents[i].status = "none"
      /\ intents' = [intents EXCEPT ![i] = [alvo |-> rede["charge"].alvo, due |-> FALSE,
                                            status |-> "awaiting_customer"]]
  BY DEF ServeCharge, Ops
<1>2. rede["charge"].alvo \in Alvos
  BY <1>1 DEF Na, Screens, ScreenInv, AllGood, Good
<1> DEFINE w == [alvo |-> rede["charge"].alvo, due |-> FALSE, status |-> "awaiting_customer"]
<1>3. w \in IntentRow /\ w.alvo = rede["charge"].alvo /\ w.status = "awaiting_customer"
  BY <1>2 DEF IntentRow, Status
<1>4. intents' = [intents EXCEPT ![i] = w]
  BY <1>1
<1> HIDE DEF w
<1>5. /\ intents' \in [Intents -> IntentRow] /\ intents'[i] = w
      /\ \A j \in Intents \ {i} : intents'[j] = intents[j]
  BY <1>3, <1>4 DEF Screens, ScreenInv, TelaTypeOK
<1>6. BancoOK /\ BancoGrows
  BY <1>1, <1>5 DEF Screens, ScreenInv, TelaTypeOK, BancoOK, BancoGrows
<1>7. RowsOK'
  BY <1>2, <1>3, <1>5 DEF Screens, ScreenInv, RowsOK
<1>8. Served("charge")
  BY <1>1, <1>3, <1>5, <1>6, <1>7, ServedAnswers
<1>9. rede'["charge"].fase = "volta" /\ rede'["charge"].intent = i
  BY <1>1, <1>6, Answers DEF Screens, ScreenInv
<1> QED BY <1>3, <1>5, <1>8, <1>9

LEMMA ServeConfirmKeeps ==
    ASSUME Screens, ServeConfirm PROVE Served("confirm")
<1> DEFINE i == rede["confirm"].intent
           a == intents[i].alvo
<1>1. UNCHANGED <<tela, mexeu>> /\ Na("confirm", "ida") /\ "confirm" \in Ops
  BY DEF ServeConfirm, Ops
<1>2. i \in Intents /\ intents[i].status # "none" /\ a \in Alvos
  BY <1>1 DEF Na, Screens, ScreenInv, AllGood, Good, RowsOK
<1>3. CASE Aguarda(i) /\ Aprova(i) /\ Solta("confirm")
  BY <1>1, <1>2, <1>3, Approves, ServedFrees DEF Na
<1>4. CASE Aguarda(i) /\ Aprova(i) /\ Responde("confirm", a, i)
  <2>1. BancoOK /\ BancoGrows /\ RowsOK' /\ intents'[i].status = "approved"
    BY <1>2, <1>4, Approves
  <2> QED BY <1>1, <1>2, <1>4, <2>1, ServedAnswers
<1>5. CASE intents[i].status = "approved" /\ UNCHANGED banco /\ Responde("confirm", a, i)
  <2>1. BancoOK /\ BancoGrows /\ RowsOK' /\ intents'[i].status = "approved"
    BY <1>5, BancoStays
  <2> QED BY <1>1, <1>2, <1>5, <2>1, ServedAnswers
<1>6. CASE /\ Aguarda(i) /\ Muda(i, "expired") /\ Solta("confirm")
           /\ UNCHANGED <<cobrados, pagas, creditos>>
  <2>1. intents[i].status = "awaiting_customer" /\ "expired" \in Status
    BY <1>6 DEF Aguarda, Status
  <2>2. pagas' \in SUBSET Alvos /\ pagas \subseteq pagas'
    BY <1>6 DEF Screens, ScreenInv, TelaTypeOK
  <2>3. BancoOK /\ BancoGrows /\ RowsOK'
    BY <1>2, <1>6, <2>1, <2>2, Resolves
  <2> QED BY <1>1, <1>6, <2>3, ServedFrees DEF Na
<1> HIDE DEF i, a
<1>7. \/ Aguarda(i) /\ Aprova(i) /\ (Solta("confirm") \/ Responde("confirm", a, i))
      \/ intents[i].status = "approved" /\ UNCHANGED banco /\ Responde("confirm", a, i)
      \/ /\ Aguarda(i) /\ Muda(i, "expired") /\ Solta("confirm")
         /\ UNCHANGED <<cobrados, pagas, creditos>>
  BY DEF ServeConfirm, i, a
<1> QED BY <1>3, <1>4, <1>5, <1>6, <1>7

LEMMA ServeCancelKeeps ==
    ASSUME Screens, ServeCancel PROVE Served("cancel")
<1> DEFINE i == rede["cancel"].intent
<1>1. /\ UNCHANGED <<tela, mexeu>> /\ Na("cancel", "ida") /\ "cancel" \in Ops
      /\ intents[i].status # "approved" /\ Muda(i, "cancelled")
      /\ UNCHANGED <<cobrados, pagas, creditos>> /\ Responde("cancel", None, i)
  BY DEF ServeCancel, Ops
<1>2. i \in Intents /\ intents[i].status # "none"
  BY <1>1 DEF Na, Screens, ScreenInv, AllGood, Good
<1> HIDE DEF i
<1>3. pagas' \in SUBSET Alvos /\ pagas \subseteq pagas' /\ "cancelled" \in Status
  BY <1>1 DEF Screens, ScreenInv, TelaTypeOK, Status
<1>4. BancoOK /\ BancoGrows /\ RowsOK' /\ intents'[i].status = "cancelled"
  BY <1>1, <1>2, <1>3, Resolves
<1> QED BY <1>1, <1>2, <1>4, ServedAnswers DEF i

LEMMA ServeCashKeeps ==
    ASSUME Screens, ServeCash PROVE Served("cash")
<1> DEFINE a == rede["cash"].alvo
<1>1. /\ UNCHANGED <<tela, mexeu, intents, cobrados, creditos>> /\ Na("cash", "ida")
      /\ "cash" \in Ops /\ pagas' = (IF Comanda THEN pagas \cup {a} ELSE pagas)
      /\ Responde("cash", a, None)
  BY DEF ServeCash, Ops
<1>2. a \in Alvos
  BY <1>1 DEF Na, Screens, ScreenInv, AllGood, Good
<1>3. BancoOK /\ BancoGrows /\ RowsOK'
  BY <1>1, <1>2 DEF Screens, ScreenInv, TelaTypeOK, BancoOK, BancoGrows, RowsOK
<1> QED BY <1>1, <1>2, <1>3, ServedAnswers

LEMMA ServePollKeeps ==
    ASSUME Screens, ServePoll PROVE Served("poll")
<1> DEFINE i == rede["poll"].intent
<1>1. UNCHANGED <<tela, mexeu>> /\ Na("poll", "ida") /\ "poll" \in Ops
  BY DEF ServePoll, Ops
<1>2. i \in Intents /\ intents[i].status # "none"
  BY <1>1 DEF Na, Screens, ScreenInv, AllGood, Good
<1>3. CASE Aguarda(i) /\ Aprova(i) /\ Solta("poll")
  BY <1>1, <1>2, <1>3, Approves, ServedFrees DEF Na
<1>4. CASE Aguarda(i) /\ Aprova(i) /\ Responde("poll", None, i)
  <2>1. BancoOK /\ BancoGrows /\ RowsOK' /\ intents'[i].status = "approved"
    BY <1>2, <1>4, Approves
  <2> QED BY <1>1, <1>2, <1>4, <2>1, ServedAnswers
<1>5. CASE UNCHANGED banco /\ Responde("poll", None, i)
  <2>1. BancoOK /\ BancoGrows /\ RowsOK' /\ intents'[i].status # "none"
    BY <1>2, <1>5, BancoStays
  <2> QED BY <1>1, <1>2, <1>5, <2>1, ServedAnswers
<1>6. CASE /\ Vence(i) /\ Muda(i, "expired") /\ UNCHANGED <<cobrados, pagas, creditos>>
           /\ Responde("poll", None, i)
  <2>1. intents[i].status = "awaiting_customer" /\ "expired" \in Status
    BY <1>6 DEF Vence, Aguarda, Status
  <2>2. pagas' \in SUBSET Alvos /\ pagas \subseteq pagas'
    BY <1>6 DEF Screens, ScreenInv, TelaTypeOK
  <2>3. BancoOK /\ BancoGrows /\ RowsOK' /\ intents'[i].status = "expired"
    BY <1>2, <1>6, <2>1, <2>2, Resolves
  <2> QED BY <1>1, <1>2, <1>6, <2>3, ServedAnswers
<1> HIDE DEF i
<1>7. \/ Aguarda(i) /\ Aprova(i) /\ (Solta("poll") \/ Responde("poll", None, i))
      \/ UNCHANGED banco /\ Responde("poll", None, i)
      \/ /\ Vence(i) /\ Muda(i, "expired") /\ UNCHANGED <<cobrados, pagas, creditos>>
         /\ Responde("poll", None, i)
  BY DEF ServePoll, i
<1> QED BY <1>3, <1>4, <1>5, <1>6, <1>7

LEMMA ServeCreditKeeps ==
    ASSUME Screens, ServeCredit PROVE Served("credit")
<1> DEFINE i == rede["credit"].intent
           a == rede["credit"].alvo
<1>1. /\ UNCHANGED <<tela, mexeu, intents, cobrados, pagas>> /\ Na("credit", "ida")
      /\ "credit" \in Ops /\ creditos' = creditos \cup {<<i, a>>} /\ Responde("credit", None, i)
  BY DEF ServeCredit, Ops
<1>2. i \in Intents /\ intents[i].status # "none" /\ a \in Alvos
  BY <1>1 DEF Na, Screens, ScreenInv, AllGood, Good
<1>3. BancoOK /\ BancoGrows /\ RowsOK'
  BY <1>1, <1>2 DEF Screens, ScreenInv, TelaTypeOK, BancoOK, BancoGrows, RowsOK
<1> QED BY <1>1, <1>2, <1>3, ServedAnswers

LEMMA ServeServes ==
    ASSUME Screens, Serve PROVE \E o \in Ops : Served(o)
<1>1. \A o \in {"tap", "item", "get", "charge", "confirm", "cancel", "cash", "poll", "credit"} :
          o \in Ops
  BY DEF Ops
<1>2. CASE \E i \in Intents : ServeCharge(i)
  <2> PICK i \in Intents : ServeCharge(i)
    BY <1>2
  <2>1. Served("charge")
    BY ServeChargeKeeps
  <2> QED BY <1>1, <2>1
<1>3. CASE ~\E i \in Intents : ServeCharge(i)
  BY <1>1, <1>3, ServeTapKeeps, ServeItemKeeps, ServeGetKeeps, ServeConfirmKeeps, ServeCancelKeeps,
     ServeCashKeeps, ServePollKeeps, ServeCreditKeeps DEF Serve, ServeOutros
<1> QED BY <1>2, <1>3

LEMMA ServeKeeps ==
    ASSUME Screens, Serve PROVE Screens' /\ UNCHANGED <<tela, mexeu>> /\ BancoGrows
BY ServeServes, ServedKeeps DEF Served

\* Time, the customer and the other devices.
LEMMA TempoKeeps ==
    ASSUME Screens, NEW i \in Intents, Tempo(i)
    PROVE  BancoOK /\ BancoGrows /\ RowsOK' /\ UNCHANGED <<tela, rede, mexeu>>
BY DEF Tempo, Screens, ScreenInv, TelaTypeOK, IntentRow, BancoOK, BancoGrows, RowsOK

LEMMA ClientePagaKeeps ==
    ASSUME Screens, NEW i \in Intents, ClientePaga(i)
    PROVE  BancoOK /\ BancoGrows /\ RowsOK' /\ UNCHANGED <<tela, rede, mexeu>>
BY DEF ClientePaga, Screens, ScreenInv, TelaTypeOK, BancoOK, BancoGrows, RowsOK

LEMMA OutroPagaKeeps ==
    ASSUME Screens, NEW a \in Alvos, OutroPaga(a)
    PROVE  BancoOK /\ BancoGrows /\ RowsOK' /\ UNCHANGED <<tela, rede, mexeu>>
BY DEF OutroPaga, Screens, ScreenInv, TelaTypeOK, BancoOK, BancoGrows, RowsOK

LEMMA OutroCancelaKeeps ==
    ASSUME Screens, NEW i \in Intents, OutroCancela(i)
    PROVE  BancoOK /\ BancoGrows /\ RowsOK' /\ UNCHANGED <<tela, rede, mexeu>>
<1>1. /\ intents[i].status = "awaiting_customer" /\ Muda(i, "cancelled")
      /\ UNCHANGED <<cobrados, pagas, creditos, tela, rede, mexeu>>
  BY DEF OutroCancela, Aguarda
<1>2. pagas' \in SUBSET Alvos /\ pagas \subseteq pagas' /\ "cancelled" \in Status
  BY <1>1 DEF Screens, ScreenInv, TelaTypeOK, Status
<1> QED BY <1>1, <1>2, Resolves

LEMMA OutrosKeeps ==
    ASSUME Screens, Outros PROVE Screens' /\ UNCHANGED <<tela, rede, mexeu>>
<1>1. BancoOK /\ BancoGrows /\ RowsOK' /\ UNCHANGED <<tela, rede, mexeu>>
  BY TempoKeeps, OutroPagaKeeps, OutroCancelaKeeps DEF Outros
<1> QED BY <1>1, BancoKeeps

\* A request or an answer is lost.
LEMMA PerdeKeeps ==
    ASSUME Screens, NEW o \in Ops, Perde(o) PROVE Screens'
<1>1. Solta(o) /\ UNCHANGED <<banco, tela, mexeu>>
  BY DEF Perde
<1>2. rede' \in [Ops -> Mensagem] /\ rede'[o].fase = "livre" /\ Others(o)
  BY <1>1, Frees DEF Screens, ScreenInv
<1>3. InStep(tela, rede, mexeu)'
  <2>1. \A q \in Ops : rede'[q] = rede[q] \/ rede'[q].fase = "livre"
    BY <1>2 DEF Others
  <2> QED BY <1>1, <2>1 DEF Screens, ScreenInv, InStep, Ops
<1>4. tela' \in Tela /\ Shows(tela', intents, pagas)
  BY <1>1 DEF Screens, ScreenInv, TelaTypeOK
<1>5. ~mexeu => ScreenInView(tela', intents, creditos)
                /\ \A q \in Ops \ {o} : MsgInView(q, rede[q], tela', intents, creditos)
  BY <1>1 DEF Screens, InView, MsgsInView
<1> QED BY <1>1, <1>3, <1>4, <1>5, AppliedKeeps

-----------------------------------------------------------------------------
(* What the screens ask for *)

\* On the other screens nothing is said of the steps of the payment screen.
LEMMA OtherScreens ==
    ASSUME NEW t, t.tipo # "maquininha", NEW r, NEW mx PROVE InStep(t, r, mx)
BY DEF InStep

LEMMA PedePollKeeps ==
    ASSUME Screens, PedePoll PROVE Screens' /\ UNCHANGED <<banco, tela>>
<1>1. Esperando /\ Pede("poll", None, tela.intent) /\ "poll" \in Ops /\ "poll" \in Automaticas
  BY DEF PedePoll, Ops, Automaticas
<1>2. tela.intent \in Intents /\ intents[tela.intent].status # "none"
  BY <1>1 DEF Esperando, Screens, ScreenInv, Shows
<1>3. /\ rede' \in [Ops -> Mensagem] /\ Others("poll") /\ rede'["poll"].fase = "ida"
      /\ rede'["poll"].intent = tela.intent /\ UNCHANGED <<banco, tela>> /\ mexeu' = mexeu
  BY <1>1, <1>2, Asks DEF Screens, ScreenInv, TelaTypeOK
<1>4. Good("poll", rede'["poll"], intents, pagas)
  BY <1>2, <1>3 DEF Good
<1>5. InStep(tela, rede, mexeu)'
  <2>1. CASE tela.tipo = "maquininha"
    <3>1. tela.step = "remoto"
      BY <1>1, <2>1 DEF Esperando
    <3>2. \A q \in Ops \ {"poll"} : rede'[q] = rede[q]
      BY <1>3 DEF Others
    <3> QED BY <1>3, <2>1, <3>1, <3>2 DEF Screens, ScreenInv, InStep, Ops
  <2>2. CASE tela.tipo # "maquininha"
    BY <1>3, <2>2 DEF InStep
  <2> QED BY <2>1, <2>2
<1>6. MsgInView("poll", rede'["poll"], tela, intents, creditos)
  BY DEF MsgInView
<1> QED BY <1>1, <1>2, <1>3, <1>4, <1>5, <1>6, AskedKeeps

\* PosPage, PhonePayPage and RechargeFlow ask for o.
LEMMA WebAsks ==
    ASSUME Screens, tela.tipo # "maquininha", NEW o \in Ops \ {"tap", "poll"},
           NEW a \in Alvos \cup {None}, NEW i \in Intents \cup {None}, Pede(o, a, i),
           o \in {"item", "get", "cash", "charge", "credit"} => a \in Alvos /\ a = tela.alvo,
           o \in {"confirm", "cancel", "credit"} => i = tela.intent /\ i # None,
           o = "cash" /\ tela.tipo = "recarga" => tela.step = "form",
           o = "credit" => tela.step = "approved",
           o = "get" => tela.tipo # "pos"
    PROVE  Screens'
<1>1. /\ rede' \in [Ops -> Mensagem] /\ rede'[o].fase = "ida" /\ rede'[o].alvo = a
      /\ rede'[o].intent = i /\ UNCHANGED <<banco, tela>>
  BY Asks DEF Screens, ScreenInv
<1>2. i # None /\ i = tela.intent => i \in Intents /\ intents[i].status # "none"
  BY DEF Screens, ScreenInv, Shows
<1>3. Good(o, rede'[o], intents, pagas)
  BY <1>1, <1>2 DEF Good
<1>4. InStep(tela, rede, mexeu)'
  BY <1>1, OtherScreens
<1>5. ASSUME ~mexeu PROVE MsgInView(o, rede'[o], tela, intents, creditos)
  <2>1. tela.intent # None => intents[tela.intent].alvo = tela.alvo
    BY <1>5 DEF Screens, InView, ScreenInView
  <2> QED BY <1>1, <2>1 DEF MsgInView, Ops
<1>6. ~mexeu /\ o \in Automaticas /\ rede["tap"].fase # "livre" => o = "poll"
  <2>1. ~mexeu /\ rede["tap"].fase # "livre" => tela.tipo = "pos"
    BY DEF Screens, InView, MsgsInView, MsgInView, Ops
  <2> QED BY <2>1 DEF Automaticas
<1> QED BY <1>1, <1>3, <1>4, <1>5, <1>6, AskedKeeps

\* tela.alvo is a comanda unless PosPage shows none; the comanda in view can be paid.
LEMMA PagavelAlvo == ASSUME Screens, Pagavel PROVE tela.alvo \in Alvos
BY DEF Screens, ScreenInv, TelaTypeOK, Tela, Pagavel

LEMMA PosAsks ==
    ASSUME Screens, tela.tipo # "maquininha",
           PosItem \/ PosCash \/ Charge \/ Confirma \/ CelularGet \/ CelularCancela
    PROVE  Screens'
<1>1. tela.alvo \in Alvos \cup {None} /\ tela.intent \in Intents \cup {None}
      /\ (tela.tipo # "pos" => tela.alvo \in Alvos)
  BY DEF Screens, ScreenInv, TelaTypeOK, Tela, Shows
<1>2. CASE PosItem
  <2>1. Pede("item", tela.alvo, None) /\ tela.alvo \in Alvos
    BY <1>2, PagavelAlvo DEF PosItem
  <2>2. "item" \in Ops \ {"tap", "poll"}
    BY DEF Ops
  <2> QED BY <2>1, <2>2, WebAsks
<1>3. CASE PosCash
  <2>1. Pede("cash", tela.alvo, None) /\ tela.alvo \in Alvos /\ tela.tipo = "pos"
    BY <1>3, PagavelAlvo DEF PosCash, E
  <2>2. "cash" \in Ops \ {"tap", "poll"}
    BY DEF Ops
  <2> QED BY <2>1, <2>2, WebAsks
<1>4. CASE Charge
  <2>1. Pede("charge", tela.alvo, None) /\ tela.alvo \in Alvos
    BY <1>4, PagavelAlvo DEF Charge, PedeCharge
  <2>2. "charge" \in Ops \ {"tap", "poll"}
    BY DEF Ops
  <2> QED BY <2>1, <2>2, WebAsks
<1>5. CASE Confirma
  <2>1. Pede("confirm", None, tela.intent) /\ tela.intent # None
    BY <1>5 DEF Confirma, PedeConfirm
  <2>2. "confirm" \in Ops \ {"tap", "poll"}
    BY DEF Ops
  <2> QED BY <1>1, <2>1, <2>2, WebAsks
<1>6. CASE CelularGet
  <2>1. Pede("get", tela.alvo, None) /\ tela.tipo = "celular"
    BY <1>6 DEF CelularGet, E
  <2>2. "get" \in Ops \ {"tap", "poll"}
    BY DEF Ops
  <2> QED BY <1>1, <2>1, <2>2, WebAsks
<1>7. CASE CelularCancela
  <2>1. Pede("cancel", None, tela.intent) /\ tela.intent # None
    BY <1>7 DEF CelularCancela
  <2>2. "cancel" \in Ops \ {"tap", "poll"}
    BY DEF Ops
  <2> QED BY <1>1, <2>1, <2>2, WebAsks
<1> QED BY <1>2, <1>3, <1>4, <1>5, <1>6, <1>7

LEMMA PosTapKeeps == ASSUME Screens, PosTap PROVE Screens'
<1>1. /\ E("pos") /\ Na("tap", "livre") /\ rede' = [rede EXCEPT !["tap"].fase = "ida"]
      /\ mexeu' = (mexeu \/ Pendente({"poll"}) \/ tela.intent # None)
      /\ UNCHANGED <<banco, tela>> /\ "tap" \in Ops
  BY DEF PosTap, Ops
<1> DEFINE m == [rede["tap"] EXCEPT !.fase = "ida"]
<1>2. m \in Mensagem /\ m.fase = "ida" /\ rede' = [rede EXCEPT !["tap"] = m]
  BY <1>1 DEF Screens, ScreenInv, TelaTypeOK, Mensagem
<1> HIDE DEF m
<1>3. rede' \in [Ops -> Mensagem] /\ Others("tap") /\ rede'["tap"].fase = "ida"
  BY <1>1, <1>2 DEF Others, Screens, ScreenInv, TelaTypeOK
<1>4. BancoGrows /\ RowsOK' /\ UNCHANGED <<intents, cobrados, pagas, creditos>>
  BY <1>1, BancoStays
<1>5. mexeu' \in BOOLEAN
  BY <1>1 DEF Screens, ScreenInv, TelaTypeOK
<1>6. Good("tap", rede'["tap"], intents', pagas')
  BY <1>3 DEF Good
<1>7. AllGood' /\ TelaTypeOK' /\ Shows(tela, intents, pagas)' /\ InStep(tela, rede, mexeu)'
  <2>1. AllGood'
    BY <1>1, <1>3, <1>4, <1>6, AfterMessage DEF Screens
  <2>2. TelaTypeOK' /\ Shows(tela, intents, pagas)'
    BY <1>1, <1>3, <1>4, <1>5 DEF Screens, ScreenInv, TelaTypeOK
  <2>3. InStep(tela, rede, mexeu)'
    BY <1>1, OtherScreens DEF E
  <2> QED BY <2>1, <2>2, <2>3
<1>8. ASSUME ~mexeu' PROVE MsgsInView' /\ ScreenInView(tela, intents, creditos)' /\ Alone(rede)'
  <2>1. /\ ~mexeu /\ ~Pendente({"poll"}) /\ tela.intent = None
    BY <1>1, <1>8 DEF Screens, ScreenInv, TelaTypeOK
  <2>2. \A q \in Ops \ {"poll", "tap"} : rede'[q].fase = "livre"
    BY <1>3, <2>1 DEF Pendente, Na, Others
  <2>3. MsgsInView'
    <3> SUFFICES ASSUME NEW q \in Ops PROVE MsgInView(q, rede'[q], tela', intents', creditos')
      BY DEF MsgsInView
    <3>1. CASE q = "poll"
      BY <3>1 DEF MsgInView
    <3>2. CASE q = "tap"
      BY <1>1, <2>1, <3>2 DEF MsgInView, E
    <3>3. CASE q \notin {"poll", "tap"}
      BY <2>2, <3>3 DEF MsgInView
    <3> QED BY <3>1, <3>2, <3>3
  <2>4. ScreenInView(tela, intents, creditos)'
    BY <1>1, <1>4, <2>1 DEF Screens, InView, ScreenInView
  <2>5. Alone(rede)'
    BY <2>2 DEF Alone, Automaticas, Ops
  <2> QED BY <2>3, <2>4, <2>5
<1> QED BY <1>4, <1>7, <1>8 DEF Screens, ScreenInv, InView
-----------------------------------------------------------------------------
(* How the web screens apply the answers *)

LEMMA WebApplies ==
    ASSUME Screens, tela.tipo # "maquininha", NEW o \in Ops, NEW r \in Tela, Recebe(o, r),
           r.tipo = tela.tipo, Shows(r, intents, pagas),
           ~mexeu => ScreenInView(r, intents, creditos),
           ~mexeu => \A q \in Ops \ {o} : MsgInView(q, rede[q], r, intents, creditos)
    PROVE  Screens'
<1>1. Solta(o) /\ UNCHANGED <<banco, mexeu>> /\ tela' = r
  BY DEF Recebe
<1>2. InStep(tela, rede, mexeu)'
  BY <1>1, OtherScreens
<1> QED BY <1>1, <1>2, AppliedKeeps

\* An answer that may bring another comanda into view: beside a charge it does so only
\* after the operator went on.
LEMMA PosApplies ==
    ASSUME Screens, tela.tipo # "maquininha", NEW o \in Ops, NEW r \in Tela,
           RecebeComanda(o, r), r.tipo = tela.tipo, Shows(r, intents, pagas), r.alvo \in Alvos,
           ~mexeu => r.alvo = tela.alvo \/ r.intent = None,
           ~mexeu => ScreenInView(r, intents, creditos),
           ~mexeu => \A q \in Ops \ {o} : MsgInView(q, rede[q], r, intents, creditos)
    PROVE  Screens'
<1>1. CASE Recebe(o, r)
  BY <1>1, WebApplies
<1>2. CASE TrazOutra(r) /\ Recebe(o, [r EXCEPT !.status = "awaiting_customer"])
  <2> DEFINE t == [r EXCEPT !.status = "awaiting_customer"]
  <2>1. /\ t \in Tela /\ t.tipo = r.tipo /\ t.alvo = r.alvo /\ t.paga = r.paga
        /\ t.intent = r.intent /\ t.step = r.step
    BY DEF Tela, Status
  <2>2. Recebe(o, t) /\ mexeu
    BY <1>2 DEF TrazOutra, Screens, ScreenInv, TelaTypeOK
  <2> HIDE DEF t
  <2>3. Shows(t, intents, pagas)
    BY <2>1 DEF Shows, InPayment
  <2> QED BY <2>1, <2>2, <2>3, WebApplies
<1>3. CASE /\ mexeu /\ tela' = r /\ UNCHANGED <<banco, mexeu>>
           /\ rede' = [rede EXCEPT ![o] = Livre,
                                   !["get"] = [Livre EXCEPT !.fase = "ida", !.alvo = r.alvo]]
  <2> DEFINE g == [Livre EXCEPT !.fase = "ida", !.alvo = r.alvo]
  <2>1. /\ g \in Mensagem /\ g.fase = "ida" /\ g.alvo = r.alvo /\ Livre \in Mensagem
        /\ Livre.fase = "livre" /\ "get" \in Ops
    BY DEF Livre, Mensagem, Status, Ops
  <2>2. rede' = [rede EXCEPT ![o] = Livre, !["get"] = g]
    BY <1>3
  <2> HIDE DEF g
  <2>3. /\ rede' \in [Ops -> Mensagem]
        /\ \A q \in Ops : rede'[q] = rede[q] \/ rede'[q] = Livre \/ (q = "get" /\ rede'[q] = g)
    BY <2>1, <2>2 DEF Screens, ScreenInv, TelaTypeOK
  <2>4. BancoGrows /\ RowsOK' /\ UNCHANGED <<intents, cobrados, pagas, creditos>>
    BY <1>3, BancoStays
  <2>5. AllGood'
    <3> SUFFICES ASSUME NEW q \in Ops PROVE Good(q, rede'[q], intents, pagas)
      BY <2>4 DEF AllGood
    <3>1. CASE rede'[q] = rede[q]
      BY <3>1 DEF Screens, ScreenInv, AllGood
    <3>2. CASE rede'[q] = Livre
      BY <2>1, <3>2, FreeIsGood
    <3>3. CASE q = "get" /\ rede'[q] = g
      BY <2>1, <3>3 DEF Good
    <3> QED BY <2>3, <3>1, <3>2, <3>3
  <2>6. TelaTypeOK' /\ Shows(tela, intents, pagas)'
    BY <1>3, <2>3, <2>4 DEF Screens, ScreenInv, TelaTypeOK
  <2>7. InStep(tela, rede, mexeu)'
    BY <1>3, OtherScreens
  <2>8. InView'
    BY <1>3 DEF InView
  <2> QED BY <2>4, <2>5, <2>6, <2>7, <2>8 DEF Screens, ScreenInv
<1>4. TrazOutra(r) => mexeu
  BY DEF TrazOutra, Screens, ScreenInv, TelaTypeOK
<1> QED BY <1>1, <1>2, <1>3, <1>4 DEF RecebeComanda

\* An answer is applied only once it is there.
LEMMA AnswerIsThere == ASSUME NEW o, NEW r, RecebeComanda(o, r) PROVE rede[o].fase = "volta"
BY DEF RecebeComanda, Recebe, Na

\* The operator waited for o.
LEMMA WaitedFor ==
    ASSUME Screens, ~mexeu, NEW o \in Ops \ Automaticas, rede[o].fase # "livre",
           NEW r \in Tela, r.alvo = tela.alvo
    PROVE  \A q \in Ops \ {o} : MsgInView(q, rede[q], r, intents, creditos)
<1> SUFFICES ASSUME NEW q \in Ops \ {o} PROVE MsgInView(q, rede[q], r, intents, creditos)
  OBVIOUS
<1>1. CASE q \notin Automaticas
  BY <1>1, OnlyOne, FreeInView
<1>2. CASE q \in Automaticas
  BY <1>2 DEF Screens, InView, MsgsInView, MsgInView, Automaticas
<1> QED BY <1>1, <1>2

\* The fields of the screen after each kind of answer.
LEMMA ComComandaIs ==
    ASSUME tela \in Tela, NEW a \in Alvos \cup {None}, NEW p \in BOOLEAN
    PROVE  /\ ComComanda(a, p) \in Tela /\ ComComanda(a, p).tipo = tela.tipo
           /\ ComComanda(a, p).alvo = a /\ ComComanda(a, p).paga = p
           /\ ComComanda(a, p).intent = tela.intent /\ ComComanda(a, p).step = tela.step
BY DEF ComComanda, Tela

LEMMA ComIntentIs ==
    ASSUME tela \in Tela, NEW m \in Mensagem
    PROVE  /\ ComIntent(m) \in Tela /\ ComIntent(m).tipo = tela.tipo
           /\ ComIntent(m).alvo = tela.alvo /\ ComIntent(m).paga = tela.paga
           /\ ComIntent(m).intent = m.intent /\ ComIntent(m).step = tela.step
           /\ ComIntent(m).status = m.status
BY DEF ComIntent, Tela, Mensagem

LEMMA SemCobrancaIs ==
    ASSUME tela \in Tela
    PROVE  /\ SemCobranca \in Tela /\ SemCobranca.tipo = tela.tipo
           /\ SemCobranca.alvo = tela.alvo /\ SemCobranca.paga = tela.paga
           /\ SemCobranca.intent = None /\ SemCobranca.step = tela.step
BY DEF SemCobranca, Tela, Status

\* The comanda is read again: the answer is of the one in view.
LEMMA ComandaRead ==
    ASSUME Screens, tela.tipo # "maquininha", NEW o \in {"item", "get"},
           RecebeComanda(o, ComComanda(rede[o].alvo, rede[o].paga))
    PROVE  Screens'
<1> DEFINE m == rede[o]
           r == ComComanda(m.alvo, m.paga)
<1>1. o \in Ops /\ m \in Mensagem /\ m.fase = "volta" /\ tela \in Tela
  BY AnswerIsThere DEF Ops, Screens, ScreenInv, TelaTypeOK
<1>2. m.alvo \in Alvos /\ (m.paga => m.alvo \in pagas)
  BY <1>1 DEF Screens, ScreenInv, AllGood, Good
<1>3. m.paga \in BOOLEAN
  BY <1>1 DEF Mensagem
<1>4. /\ r \in Tela /\ r.tipo = tela.tipo /\ r.alvo = m.alvo /\ r.paga = m.paga
      /\ r.intent = tela.intent /\ r.step = tela.step
  BY <1>1, <1>2, <1>3, ComComandaIs
<1>5. RecebeComanda(o, r)
  OBVIOUS
<1> HIDE DEF r
<1>6. Shows(r, intents, pagas)
  BY <1>2, <1>4 DEF Screens, ScreenInv, Shows
<1>7. ASSUME ~mexeu PROVE r.alvo = tela.alvo
  BY <1>1, <1>4, <1>7 DEF Screens, InView, MsgsInView, MsgInView
<1>8. ASSUME ~mexeu PROVE ScreenInView(r, intents, creditos)
  BY <1>4, <1>7, <1>8 DEF Screens, InView, ScreenInView
<1>9. ASSUME ~mexeu PROVE \A q \in Ops \ {o} : MsgInView(q, rede[q], r, intents, creditos)
  BY <1>4, <1>7, <1>9, SameView
<1> QED BY <1>1, <1>2, <1>4, <1>5, <1>6, <1>7, <1>8, <1>9, PosApplies

LEMMA PosTapOkKeeps == ASSUME Screens, tela.tipo # "maquininha", PosTapOk PROVE Screens'
<1> DEFINE m == rede["tap"]
           r == ComComanda(m.alvo, FALSE)
<1>1. /\ "tap" \in Ops /\ m \in Mensagem /\ m.fase = "volta" /\ tela \in Tela /\ RecebeComanda("tap", r)
      /\ "tap" \in Ops \ Automaticas
  BY AnswerIsThere DEF PosTapOk, Ops, Screens, ScreenInv, TelaTypeOK, Automaticas
<1>2. m.alvo \in Alvos
  BY <1>1 DEF Screens, ScreenInv, AllGood, Good
<1>3. /\ r \in Tela /\ r.tipo = tela.tipo /\ r.alvo = m.alvo /\ r.paga = FALSE
      /\ r.intent = tela.intent /\ r.step = tela.step
  BY <1>1, <1>2, ComComandaIs
<1> HIDE DEF r
<1>4. Shows(r, intents, pagas)
  BY <1>2, <1>3 DEF Screens, ScreenInv, Shows
<1>5. ASSUME ~mexeu PROVE tela.tipo = "pos" /\ tela.intent = None /\ rede["get"].fase = "livre"
  BY <1>1, <1>5 DEF Screens, InView, MsgsInView, MsgInView, Alone
<1>6. ASSUME ~mexeu PROVE ScreenInView(r, intents, creditos)
  BY <1>3, <1>5, <1>6 DEF ScreenInView
<1>7. ASSUME ~mexeu, NEW q \in Ops \ {"tap"} PROVE MsgInView(q, rede[q], r, intents, creditos)
  <2>1. CASE q \notin Automaticas
    BY <1>1, <1>7, <2>1, OnlyOne, FreeInView
  <2>2. CASE q = "get"
    BY <1>5, <1>7, <2>2, FreeInView
  <2>3. CASE q = "poll"
    BY <2>3 DEF MsgInView
  <2> QED BY <2>1, <2>2, <2>3 DEF Automaticas
<1> QED BY <1>1, <1>2, <1>3, <1>4, <1>5, <1>6, <1>7, PosApplies

LEMMA PosCashOkKeeps == ASSUME Screens, PosCashOk PROVE Screens'
<1> DEFINE m == rede["cash"]
           r == [SemCobranca EXCEPT !.alvo = m.alvo, !.paga = m.paga]
<1>1. /\ "cash" \in Ops /\ m \in Mensagem /\ m.fase = "volta" /\ tela \in Tela /\ Recebe("cash", r)
      /\ "cash" \in Ops \ Automaticas /\ tela.tipo = "pos"
  BY DEF PosCashOk, Ops, Recebe, Na, Screens, ScreenInv, TelaTypeOK, Automaticas, E
<1>2. m.alvo \in Alvos /\ m.paga \in BOOLEAN /\ (m.paga => m.alvo \in pagas)
  BY <1>1 DEF Screens, ScreenInv, AllGood, Good, Mensagem
<1>3. /\ r \in Tela /\ r.tipo = "pos" /\ r.alvo = m.alvo /\ r.paga = m.paga
      /\ r.intent = None /\ r.step = tela.step
  BY <1>1, <1>2, SemCobrancaIs DEF Tela
<1> HIDE DEF r
<1>4. Shows(r, intents, pagas)
  BY <1>2, <1>3 DEF Shows
<1>5. ASSUME ~mexeu PROVE r.alvo = tela.alvo
  BY <1>1, <1>3, <1>5 DEF Screens, InView, MsgsInView, MsgInView
<1>6. ASSUME ~mexeu PROVE ScreenInView(r, intents, creditos)
  BY <1>3 DEF ScreenInView
<1>7. ASSUME ~mexeu PROVE \A q \in Ops \ {"cash"} : MsgInView(q, rede[q], r, intents, creditos)
  BY <1>1, <1>3, <1>5, <1>7, WaitedFor
<1> QED BY <1>1, <1>3, <1>4, <1>6, <1>7, WebApplies

\* The charge that was created, or confirmed, comes into view.
LEMMA ChargeOkKeeps == ASSUME Screens, ChargeOk PROVE Screens'
<1> DEFINE m == rede["charge"]
           r == ComIntent(m)
<1>1. /\ "charge" \in Ops \ Automaticas /\ m \in Mensagem /\ m.fase = "volta" /\ tela \in Tela
      /\ Recebe("charge", r) /\ tela.tipo \in {"pos", "celular"}
  BY DEF ChargeOk, Ops, Recebe, Na, Screens, ScreenInv, TelaTypeOK, Automaticas, E
<1>2. m.intent \in Intents /\ intents[m.intent].status # "none"
  BY <1>1 DEF Screens, ScreenInv, AllGood, Good
<1>3. /\ r \in Tela /\ r.tipo = tela.tipo /\ r.alvo = tela.alvo /\ r.paga = tela.paga
      /\ r.intent = m.intent /\ r.step = tela.step
  BY <1>1, ComIntentIs
<1> HIDE DEF r
<1>4. Shows(r, intents, pagas)
  BY <1>1, <1>2, <1>3 DEF Screens, ScreenInv, Shows
<1>5. ASSUME ~mexeu PROVE ScreenInView(r, intents, creditos)
  <2>1. intents[m.intent].alvo = tela.alvo
    BY <1>1, <1>5 DEF Screens, InView, MsgsInView, MsgInView
  <2> QED BY <1>1, <1>3, <2>1 DEF ScreenInView
<1>6. ASSUME ~mexeu PROVE \A q \in Ops \ {"charge"} : MsgInView(q, rede[q], r, intents, creditos)
  BY <1>1, <1>3, <1>6, WaitedFor
<1> QED BY <1>1, <1>3, <1>4, <1>5, <1>6, WebApplies

LEMMA ConfirmaOkKeeps == ASSUME Screens, PosConfirmaOk \/ CelularConfirmaOk PROVE Screens'
<1> DEFINE m == rede["confirm"]
           p == [tela EXCEPT !.alvo = m.alvo, !.paga = m.paga, !.intent = m.intent,
                             !.status = m.status]
           c == ComIntent(m)
<1>1. /\ "confirm" \in Ops \ Automaticas /\ m \in Mensagem /\ m.fase = "volta" /\ tela \in Tela
      /\ tela.tipo \in {"pos", "celular"}
      /\ RecebeComanda("confirm", p) \/ (Recebe("confirm", c) /\ tela.tipo = "celular")
  BY AnswerIsThere DEF PosConfirmaOk, CelularConfirmaOk, Ops, Recebe, Na, Screens, ScreenInv, TelaTypeOK,
         Automaticas, E
<1>2. /\ m.intent \in Intents /\ intents[m.intent].status # "none" /\ m.alvo \in Alvos
      /\ (m.paga => m.alvo \in pagas)
  BY <1>1 DEF Screens, ScreenInv, AllGood, Good
<1>3. /\ p \in Tela /\ p.tipo = tela.tipo /\ p.alvo = m.alvo /\ p.paga = m.paga
      /\ p.intent = m.intent /\ p.step = tela.step
  BY <1>1 DEF Tela, Mensagem
<1>4. /\ c \in Tela /\ c.tipo = tela.tipo /\ c.alvo = tela.alvo /\ c.paga = tela.paga
      /\ c.intent = m.intent /\ c.step = tela.step
  BY <1>1, ComIntentIs
<1> HIDE DEF p, c
<1>5. PICK r \in {p, c} : RecebeComanda("confirm", r) /\ (r = p \/ tela.tipo = "celular")
  BY <1>1 DEF RecebeComanda
<1>6. Shows(r, intents, pagas)
  BY <1>1, <1>2, <1>3, <1>4 DEF Screens, ScreenInv, Shows
<1>7. ASSUME ~mexeu PROVE r.alvo = tela.alvo /\ intents[m.intent].alvo = tela.alvo
  BY <1>1, <1>3, <1>4, <1>7 DEF Screens, InView, MsgsInView, MsgInView
<1>8. ASSUME ~mexeu PROVE ScreenInView(r, intents, creditos)
  BY <1>1, <1>3, <1>4, <1>7, <1>8 DEF ScreenInView
<1>9. ASSUME ~mexeu PROVE \A q \in Ops \ {"confirm"} : MsgInView(q, rede[q], r, intents, creditos)
  BY <1>1, <1>3, <1>4, <1>7, <1>9, WaitedFor
<1>10. r.alvo \in Alvos
  BY <1>2, <1>3, <1>4, <1>5 DEF Screens, ScreenInv, Shows
<1> QED BY <1>1, <1>3, <1>4, <1>5, <1>6, <1>7, <1>8, <1>9, <1>10, PosApplies

LEMMA CelularCancelaOkKeeps == ASSUME Screens, CelularCancelaOk PROVE Screens'
<1>1. /\ "cancel" \in Ops \ Automaticas /\ rede["cancel"].fase # "livre" /\ tela \in Tela
      /\ Recebe("cancel", SemCobranca) /\ tela.tipo = "celular"
  BY DEF CelularCancelaOk, Ops, Recebe, Na, Screens, ScreenInv, TelaTypeOK, Automaticas, E
<1> DEFINE r == SemCobranca
<1>2. /\ r \in Tela /\ r.tipo = tela.tipo /\ r.alvo = tela.alvo /\ r.paga = tela.paga
      /\ r.intent = None /\ r.step = tela.step
  BY <1>1, SemCobrancaIs
<1>3. Recebe("cancel", r)
  BY <1>1
<1> HIDE DEF r
<1>4. Shows(r, intents, pagas)
  BY <1>1, <1>2 DEF Screens, ScreenInv, Shows
<1>5. ASSUME ~mexeu PROVE ScreenInView(r, intents, creditos)
  BY <1>1, <1>2 DEF ScreenInView
<1>6. ASSUME ~mexeu PROVE \A q \in Ops \ {"cancel"} : MsgInView(q, rede[q], r, intents, creditos)
  BY <1>1, <1>2, <1>6, WaitedFor
<1> QED BY <1>1, <1>2, <1>3, <1>4, <1>5, <1>6, WebApplies

\* PosPage and PhonePayPage show the polled charge and may read the comanda again.
LEMMA PollOkKeeps == ASSUME Screens, PollOk PROVE Screens'
<1> DEFINE m == rede["poll"]
           g == IF m.status = "approved" /\ tela.alvo # None /\ Na("get", "livre")
                THEN [Livre EXCEPT !.fase = "ida", !.alvo = tela.alvo] ELSE rede["get"]
<1>1. /\ m \in Mensagem /\ m.fase = "volta" /\ tela \in Tela /\ tela.tipo \in {"pos", "celular"}
      /\ m.intent = tela.intent /\ tela' = ComIntent(m) /\ UNCHANGED <<banco, mexeu>>
      /\ "poll" \in Ops /\ "get" \in Ops /\ "tap" \in Ops
  BY DEF PollOk, Ops, Na, Screens, ScreenInv, TelaTypeOK, E, DaTela
<1>2. rede' = [rede EXCEPT !["poll"] = Livre, !["get"] = g]
  BY DEF PollOk
<1>3. g = rede["get"] \/ (g.fase = "ida" /\ g.alvo = tela.alvo /\ tela.alvo \in Alvos)
  BY <1>1 DEF Livre, Tela
<1>4. g \in Mensagem
  <2>1. [Livre EXCEPT !.fase = "ida", !.alvo = tela.alvo] \in Mensagem
    BY <1>1 DEF Livre, Mensagem, Tela, Status
  <2> QED BY <1>1, <2>1 DEF Screens, ScreenInv, TelaTypeOK
<1> HIDE DEF g
<1>5. /\ rede' \in [Ops -> Mensagem] /\ rede'["poll"] = Livre /\ rede'["get"] = g
      /\ \A q \in Ops \ {"poll", "get"} : rede'[q] = rede[q]
  <2>1. Livre \in Mensagem
    BY DEF Livre, Mensagem, Status
  <2> QED BY <1>1, <1>2, <1>4, <2>1 DEF Screens, ScreenInv, TelaTypeOK
<1>6. m.intent \in Intents /\ m.intent # None
  BY <1>1, TerminalAssumption DEF Screens, ScreenInv, AllGood, Good
<1>7. /\ tela' \in Tela /\ tela'.tipo = tela.tipo /\ tela'.alvo = tela.alvo
      /\ tela'.paga = tela.paga /\ tela'.intent = tela.intent /\ tela'.step = tela.step
  BY <1>1, ComIntentIs
<1>8. BancoGrows /\ RowsOK' /\ UNCHANGED <<intents, cobrados, pagas, creditos>>
  BY <1>1, BancoStays
<1>9. AllGood'
  <2> SUFFICES ASSUME NEW q \in Ops PROVE Good(q, rede'[q], intents, pagas)
    BY <1>8 DEF AllGood
  <2>1. CASE q = "poll"
    BY <1>5, <2>1 DEF Good, Livre
  <2>2. CASE q = "get"
    BY <1>3, <1>5, <2>2 DEF Good, Screens, ScreenInv, AllGood
  <2>3. CASE q \notin {"poll", "get"}
    BY <1>5, <2>3 DEF Screens, ScreenInv, AllGood
  <2> QED BY <2>1, <2>2, <2>3
<1>10. TelaTypeOK' /\ Shows(tela, intents, pagas)' /\ InStep(tela, rede, mexeu)'
  <2>1. TelaTypeOK'
    BY <1>1, <1>5, <1>7, <1>8 DEF Screens, ScreenInv, TelaTypeOK
  <2>2. Shows(tela, intents, pagas)'
    BY <1>7, <1>8 DEF Screens, ScreenInv, Shows
  <2>3. InStep(tela, rede, mexeu)'
    BY <1>1, <1>7, OtherScreens
  <2> QED BY <2>1, <2>2, <2>3
<1>11. ASSUME ~mexeu' PROVE MsgsInView' /\ ScreenInView(tela, intents, creditos)' /\ Alone(rede)'
  <2>1. ~mexeu /\ MsgsInView /\ ScreenInView(tela, intents, creditos) /\ Alone(rede)
    BY <1>1, <1>11 DEF Screens, InView
  <2>2. MsgsInView'
    <3> SUFFICES ASSUME NEW q \in Ops PROVE MsgInView(q, rede'[q], tela', intents', creditos')
      BY DEF MsgsInView
    <3>1. CASE q = "poll"
      BY <1>5, <3>1 DEF MsgInView
    <3>2. CASE q = "get" /\ g # rede["get"]
      BY <1>3, <1>5, <1>7, <3>2 DEF MsgInView
    <3>3. CASE q \notin {"poll", "get"} \/ (q = "get" /\ g = rede["get"])
      <4>1. rede'[q] = rede[q]
        BY <1>5, <3>3
      <4> QED BY <1>7, <1>8, <2>1, <4>1, SameView
    <3> QED BY <3>1, <3>2, <3>3
  <2>3. ScreenInView(tela, intents, creditos)'
    BY <1>7, <1>8, <2>1 DEF ScreenInView
  <2>4. rede["tap"].fase = "livre"
    BY <1>1, <1>6, <2>1 DEF MsgsInView, MsgInView
  <2>5. Alone(rede)'
    BY <1>1, <1>5, <2>1, <2>4 DEF Alone, Automaticas
  <2> QED BY <2>2, <2>3, <2>5
<1> QED BY <1>8, <1>9, <1>10, <1>11 DEF Screens, ScreenInv, InView

\* The operator goes on: back to the options, or to the next customer.
LEMMA PosEdits == ASSUME Screens, Voltar \/ ResetPos PROVE Screens'
<1> DEFINE p == [SemCobranca EXCEPT !.alvo = None, !.paga = FALSE]
<1>1. tela \in Tela /\ tela.tipo = "pos" /\ (Edita(SemCobranca) \/ Edita(p))
  BY DEF Voltar, ResetPos, E, Screens, ScreenInv, TelaTypeOK
<1>2. /\ SemCobranca \in Tela /\ SemCobranca.tipo = "pos" /\ SemCobranca.alvo = tela.alvo
      /\ SemCobranca.paga = tela.paga /\ SemCobranca.intent = None
  BY <1>1, SemCobrancaIs
<1>3. p \in Tela /\ p.tipo = "pos" /\ p.paga = FALSE /\ p.intent = None
  BY <1>2 DEF Tela
<1> HIDE DEF p
<1>4. PICK r \in {SemCobranca, p} : Edita(r)
  BY <1>1
<1>5. r \in Tela /\ r.tipo = "pos" /\ r.intent = None /\ Shows(r, intents, pagas)
  BY <1>2, <1>3 DEF Screens, ScreenInv, Shows
<1>6. ScreenInView(r, intents, creditos)
  BY <1>5 DEF ScreenInView
<1>7. tela' = r /\ UNCHANGED <<banco, rede>> /\ mexeu' = (mexeu \/ Pendente({"poll"}))
  BY <1>4 DEF Edita, Mostra
<1> QED BY <1>5, <1>6, <1>7, EditedKeeps

LEMMA PosNextKeeps == ASSUME Screens, tela.tipo # "maquininha", PosNext PROVE Screens'
<1>1. CASE PosTap \/ PosTapOk \/ PosItem \/ PosCash \/ PosCashOk
  BY <1>1, PosTapKeeps, PosTapOkKeeps, PosAsks, PosCashOkKeeps
<1>2. CASE PosItemOk \/ GetOk
  BY <1>2, ComandaRead DEF PosItemOk, GetOk
<1>3. CASE PosConfirmaOk \/ CelularConfirmaOk \/ Voltar \/ ResetPos \/ CelularGet
  BY <1>3, ConfirmaOkKeeps, PosEdits, PosAsks
<1>4. CASE CelularCancela \/ CelularCancelaOk \/ Charge \/ ChargeOk \/ Confirma \/ PollOk
  BY <1>4, PosAsks, CelularCancelaOkKeeps, ChargeOkKeeps, PollOkKeeps
<1> QED BY <1>1, <1>2, <1>3, <1>4 DEF PosNext

\* The answer of another charge is not shown.
LEMMA PollAlheioKeeps == ASSUME Screens, PollAlheio PROVE Screens' /\ UNCHANGED <<banco, tela>>
<1>1. Solta("poll") /\ UNCHANGED <<banco, tela, mexeu>> /\ "poll" \in Ops
  BY DEF PollAlheio, Recebe, Ops
<1>2. rede' \in [Ops -> Mensagem] /\ rede'["poll"].fase = "livre" /\ Others("poll")
  BY <1>1, Frees DEF Screens, ScreenInv
<1>3. InStep(tela, rede, mexeu)'
  <2>1. \A q \in Ops : rede'[q] = rede[q] \/ rede'[q].fase = "livre"
    BY <1>2 DEF Others
  <2> QED BY <1>1, <2>1 DEF Screens, ScreenInv, InStep, Ops
<1>4. tela' \in Tela /\ Shows(tela', intents, pagas)
  BY <1>1 DEF Screens, ScreenInv, TelaTypeOK
<1>5. ~mexeu => ScreenInView(tela', intents, creditos)
                /\ \A q \in Ops \ {"poll"} : MsgInView(q, rede[q], tela', intents, creditos)
  BY <1>1 DEF Screens, InView, MsgsInView
<1> QED BY <1>1, <1>3, <1>4, <1>5, AppliedKeeps
-----------------------------------------------------------------------------
(* RechargeFlow *)

LEMMA RecargaAsks ==
    ASSUME Screens, RecargaCash \/ RecargaCharge \/ RecargaConfirma \/ RecargaCredita
    PROVE  Screens'
<1>1. tela.tipo = "recarga" /\ tela.alvo \in Alvos /\ tela.intent \in Intents \cup {None}
  BY DEF Screens, ScreenInv, TelaTypeOK, Tela, Shows, RecargaCash, RecargaCharge, RecargaConfirma,
         RecargaCredita, Passo, E
<1>2. CASE RecargaCash
  <2>1. Pede("cash", tela.alvo, None) /\ tela.step = "form" /\ "cash" \in Ops \ {"tap", "poll"}
    BY <1>2 DEF RecargaCash, Passo, Ops
  <2> QED BY <1>1, <2>1, WebAsks
<1>3. CASE RecargaCharge
  <2>1. Pede("charge", tela.alvo, None) /\ "charge" \in Ops \ {"tap", "poll"}
    BY <1>3 DEF RecargaCharge, PedeCharge, Ops
  <2> QED BY <1>1, <2>1, WebAsks
<1>4. CASE RecargaConfirma
  <2>1. Pede("confirm", None, tela.intent) /\ tela.intent # None /\ "confirm" \in Ops \ {"tap", "poll"}
    BY <1>4 DEF RecargaConfirma, PedeConfirm, Ops
  <2> QED BY <1>1, <2>1, WebAsks
<1>5. CASE RecargaCredita
  <2>1. /\ Pede("credit", tela.alvo, tela.intent) /\ tela.step = "approved"
        /\ "credit" \in Ops \ {"tap", "poll"}
    BY <1>5 DEF RecargaCredita, Passo, Ops
  <2>2. tela.intent # None
    BY <1>1, <2>1 DEF Screens, ScreenInv, Shows
  <2> QED BY <1>1, <2>1, <2>2, WebAsks
<1> QED BY <1>2, <1>3, <1>4, <1>5

LEMMA RecargaEdits == ASSUME Screens, RecargaReset \/ \E a \in Alvos : Digita(a) PROVE Screens'
<1>1. tela \in Tela /\ tela.tipo = "recarga"
  BY DEF RecargaReset, Digita, Passo, E, Screens, ScreenInv, TelaTypeOK
<1>2. CASE RecargaReset
  <2> DEFINE r == Reset
  <2>1. r \in Tela /\ r.tipo = "recarga" /\ r.alvo = tela.alvo /\ r.paga = tela.paga
        /\ r.intent = None /\ r.step = "form"
    BY <1>1, SemCobrancaIs DEF Reset, Tela
  <2>2. tela' = r /\ UNCHANGED <<banco, rede>> /\ mexeu' = (mexeu \/ Pendente({"poll"}))
    BY <1>2 DEF RecargaReset, Edita, Mostra
  <2> HIDE DEF r
  <2>3. Shows(r, intents, pagas) /\ ScreenInView(r, intents, creditos)
    BY <1>1, <2>1 DEF Screens, ScreenInv, Shows, ScreenInView
  <2> QED BY <2>1, <2>2, <2>3, EditedKeeps
<1>3. CASE \E a \in Alvos : Digita(a)
  <2> PICK a \in Alvos : Digita(a)
    BY <1>3
  <2> DEFINE r == [tela EXCEPT !.alvo = a]
  <2>1. r \in Tela /\ r.tipo = "recarga" /\ r.alvo = a /\ r.paga = tela.paga
        /\ r.intent = tela.intent /\ r.step = tela.step
    BY <1>1 DEF Tela
  <2>2. /\ tela' = r /\ UNCHANGED <<banco, rede>> /\ mexeu' = (mexeu \/ Pendente({"poll"}))
        /\ tela.step = "form"
    BY DEF Digita, Edita, Mostra, Passo
  <2> HIDE DEF r
  <2>3. Shows(r, intents, pagas)
    BY <1>1, <2>1 DEF Screens, ScreenInv, Shows
  <2>4. ~mexeu => ScreenInView(r, intents, creditos)
    BY <1>1, <2>1, <2>2 DEF Screens, InView, ScreenInView
  <2> QED BY <2>1, <2>2, <2>3, <2>4, EditedKeeps
<1> QED BY <1>2, <1>3

LEMMA RecargaChargeOkKeeps == ASSUME Screens, RecargaChargeOk PROVE Screens'
<1> DEFINE m == rede["charge"]
           r == [ComIntent(m) EXCEPT !.step = "awaiting"]
<1>1. /\ "charge" \in Ops \ Automaticas /\ m \in Mensagem /\ m.fase = "volta" /\ tela \in Tela
      /\ Recebe("charge", r) /\ tela.tipo = "recarga"
  BY DEF RecargaChargeOk, Ops, Recebe, Na, Screens, ScreenInv, TelaTypeOK, Automaticas, E
<1>2. m.intent \in Intents /\ intents[m.intent].status # "none"
  BY <1>1 DEF Screens, ScreenInv, AllGood, Good
<1>3. /\ r \in Tela /\ r.tipo = tela.tipo /\ r.alvo = tela.alvo /\ r.paga = tela.paga
      /\ r.intent = m.intent /\ r.step = "awaiting"
  BY <1>1, ComIntentIs DEF Tela
<1> HIDE DEF r
<1>4. Shows(r, intents, pagas)
  BY <1>1, <1>2, <1>3 DEF Screens, ScreenInv, Shows
<1>5. ASSUME ~mexeu PROVE ScreenInView(r, intents, creditos)
  <2>1. intents[m.intent].alvo = tela.alvo
    BY <1>1, <1>5 DEF Screens, InView, MsgsInView, MsgInView
  <2> QED BY <1>1, <1>3, <2>1 DEF ScreenInView
<1>6. ASSUME ~mexeu PROVE \A q \in Ops \ {"charge"} : MsgInView(q, rede[q], r, intents, creditos)
  BY <1>1, <1>3, <1>6, WaitedFor
<1> QED BY <1>1, <1>3, <1>4, <1>5, <1>6, WebApplies

LEMMA RecargaConfirmaOkKeeps == ASSUME Screens, RecargaConfirmaOk PROVE Screens'
<1> DEFINE m == rede["confirm"]
           r == [ComIntent(m) EXCEPT !.step = "approved"]
<1>1. /\ "confirm" \in Ops \ Automaticas /\ m \in Mensagem /\ m.fase = "volta" /\ tela \in Tela
      /\ Recebe("confirm", r) /\ tela.tipo = "recarga"
  BY DEF RecargaConfirmaOk, Ops, Recebe, Na, Screens, ScreenInv, TelaTypeOK, Automaticas, E
<1>2. m.intent \in Intents /\ intents[m.intent].status = "approved" /\ m.intent # None
  BY <1>1, TerminalAssumption DEF Screens, ScreenInv, AllGood, Good
<1>3. /\ r \in Tela /\ r.tipo = tela.tipo /\ r.alvo = tela.alvo /\ r.paga = tela.paga
      /\ r.intent = m.intent /\ r.step = "approved"
  BY <1>1, ComIntentIs DEF Tela
<1> HIDE DEF r
<1>4. Shows(r, intents, pagas)
  BY <1>1, <1>2, <1>3 DEF Screens, ScreenInv, Shows
<1>5. ASSUME ~mexeu PROVE ScreenInView(r, intents, creditos)
  <2>1. intents[m.intent].alvo = tela.alvo
    BY <1>1, <1>5 DEF Screens, InView, MsgsInView, MsgInView
  <2> QED BY <1>1, <1>3, <2>1 DEF ScreenInView
<1>6. ASSUME ~mexeu PROVE \A q \in Ops \ {"confirm"} : MsgInView(q, rede[q], r, intents, creditos)
  BY <1>1, <1>3, <1>6, WaitedFor
<1> QED BY <1>1, <1>3, <1>4, <1>5, <1>6, WebApplies

LEMMA RecargaFeitaKeeps ==
    ASSUME Screens, NEW o \in {"cash", "credit"}, RecargaFeita(o) PROVE Screens'
<1> DEFINE r == [tela EXCEPT !.step = "done"]
<1>1. /\ o \in Ops \ Automaticas /\ rede[o].fase = "volta" /\ tela \in Tela
      /\ Recebe(o, r) /\ tela.tipo = "recarga"
  BY DEF RecargaFeita, Ops, Recebe, Na, Screens, ScreenInv, TelaTypeOK, Automaticas, E
<1>2. /\ r \in Tela /\ r.tipo = tela.tipo /\ r.alvo = tela.alvo /\ r.paga = tela.paga
      /\ r.intent = tela.intent /\ r.step = "done"
  BY <1>1 DEF Tela
<1> HIDE DEF r
<1>3. Shows(r, intents, pagas)
  BY <1>1, <1>2 DEF Screens, ScreenInv, Shows
<1>4. ASSUME ~mexeu PROVE ScreenInView(r, intents, creditos)
  <2>1. MsgInView(o, rede[o], tela, intents, creditos) /\ ScreenInView(tela, intents, creditos)
    BY <1>1, <1>4 DEF Screens, InView, MsgsInView
  <2>2. CASE o = "cash"
    BY <1>1, <1>2, <2>1, <2>2 DEF MsgInView, ScreenInView
  <2>3. CASE o = "credit"
    BY <1>1, <1>2, <2>1, <2>3 DEF MsgInView, ScreenInView
  <2> QED BY <2>2, <2>3
<1>5. ASSUME ~mexeu PROVE \A q \in Ops \ {o} : MsgInView(q, rede[q], r, intents, creditos)
  BY <1>1, <1>2, <1>5, WaitedFor
<1> QED BY <1>1, <1>2, <1>3, <1>4, <1>5, WebApplies

LEMMA RecargaPollOkKeeps == ASSUME Screens, RecargaPollOk PROVE Screens'
<1> DEFINE m == rede["poll"]
           ap == [ComIntent(m) EXCEPT !.step = "approved"]
           vo == [SemCobranca EXCEPT !.step = "form"]
<1>1. /\ "poll" \in Ops /\ m \in Mensagem /\ m.fase = "volta" /\ tela \in Tela
      /\ tela.tipo = "recarga" /\ m.intent = tela.intent
  BY DEF RecargaPollOk, Ops, Recebe, Na, Screens, ScreenInv, TelaTypeOK, E, DaTela
<1>2. \/ Recebe("poll", tela)
      \/ tela.step = "awaiting" /\ m.status = "approved" /\ Recebe("poll", ap)
      \/ tela.step = "awaiting" /\ Recebe("poll", vo)
  BY DEF RecargaPollOk
<1>3. /\ ap \in Tela /\ ap.tipo = tela.tipo /\ ap.alvo = tela.alvo /\ ap.paga = tela.paga
      /\ ap.intent = tela.intent /\ ap.step = "approved"
  BY <1>1, ComIntentIs DEF Tela
<1>4. /\ vo \in Tela /\ vo.tipo = tela.tipo /\ vo.alvo = tela.alvo /\ vo.paga = tela.paga
      /\ vo.intent = None /\ vo.step = "form"
  BY <1>1, SemCobrancaIs DEF Tela
<1> HIDE DEF ap, vo
<1>5. PICK r \in {tela, ap, vo} :
          /\ Recebe("poll", r)
          /\ r # tela => tela.step = "awaiting" /\ (r = vo \/ m.status = "approved")
  BY <1>2
<1>6. /\ r \in Tela /\ r.tipo = tela.tipo /\ r.alvo = tela.alvo /\ r.paga = tela.paga
      /\ r.intent \in {tela.intent, None}
  BY <1>1, <1>3, <1>4, <1>5
<1>7. Shows(r, intents, pagas)
  <2>1. CASE r = tela
    BY <2>1 DEF Screens, ScreenInv
  <2>2. CASE r = vo
    BY <1>1, <1>4, <2>2 DEF Screens, ScreenInv, Shows
  <2>3. CASE r = ap /\ m.status = "approved"
    <3>1. m.intent \in Intents /\ intents[m.intent].status = "approved" /\ m.intent # None
      BY <1>1, <2>3, TerminalAssumption DEF Screens, ScreenInv, AllGood, Good
    <3> QED BY <1>1, <1>3, <2>3, <3>1 DEF Screens, ScreenInv, Shows
  <2> QED BY <1>5, <2>1, <2>2, <2>3
<1>8. ASSUME ~mexeu PROVE ScreenInView(r, intents, creditos)
  BY <1>1, <1>3, <1>4, <1>5, <1>8 DEF Screens, InView, ScreenInView
<1>9. ASSUME ~mexeu, NEW q \in Ops \ {"poll"} PROVE MsgInView(q, rede[q], r, intents, creditos)
  <2>1. MsgInView(q, rede[q], tela, intents, creditos)
    BY <1>9 DEF Screens, InView, MsgsInView
  <2>2. CASE r = tela
    BY <2>1, <2>2
  <2>3. CASE r # tela
    BY <1>1, <1>5, <1>6, <2>1, <2>3 DEF MsgInView
  <2> QED BY <2>2, <2>3
<1> QED BY <1>1, <1>5, <1>6, <1>7, <1>8, <1>9, WebApplies

LEMMA RecargaNextKeeps == ASSUME Screens, RecargaNext PROVE Screens'
<1>1. CASE RecargaReset \/ \E a \in Alvos : Digita(a)
  BY <1>1, RecargaEdits
<1>2. CASE RecargaCash \/ RecargaCharge \/ RecargaConfirma \/ RecargaCredita
  BY <1>2, RecargaAsks
<1>3. CASE RecargaFeita("cash") \/ RecargaFeita("credit")
  BY <1>3, RecargaFeitaKeeps
<1>4. CASE RecargaChargeOk \/ RecargaConfirmaOk \/ RecargaPollOk
  BY <1>4, RecargaChargeOkKeeps, RecargaConfirmaOkKeeps, RecargaPollOkKeeps
<1> QED BY <1>1, <1>2, <1>3, <1>4 DEF RecargaNext

\* A step of a web screen or of what is around it.
LEMMA TelasKeeps == ASSUME Screens, TelasNext PROVE Screens'
<1>1. tela.tipo # "maquininha"
  BY DEF TelasNext, E
<1>2. CASE PosNext \/ RecargaNext \/ PedePoll \/ PollAlheio
  BY <1>1, <1>2, PosNextKeeps, RecargaNextKeeps, PedePollKeeps, PollAlheioKeeps
<1>3. CASE Serve \/ Outros \/ \E o \in Ops : Perde(o)
  BY <1>3, ServeKeeps, OutrosKeeps, PerdeKeeps
<1>4. CASE \E i \in Intents : ClientePaga(i)
  BY <1>4, ClientePagaKeeps, BancoKeeps
<1> QED BY <1>2, <1>3, <1>4 DEF TelasNext, Ambiente
-----------------------------------------------------------------------------
(* The payment screen *)

\* The screen goes on to r; no request is sent or answered.
LEMMA ScreenGoesOn ==
    ASSUME Screens, UNCHANGED <<banco, rede, mexeu>>, tela' \in Tela,
           Shows(tela', intents, pagas), InStep(tela', rede, mexeu),
           ~mexeu => ScreenInView(tela', intents, creditos),
           ~mexeu => \A q \in Ops : MsgInView(q, rede[q], tela', intents, creditos)
    PROVE  Screens'
<1>1. BancoGrows /\ RowsOK' /\ UNCHANGED <<intents, cobrados, pagas, creditos>>
  BY BancoStays
<1>2. AllGood' /\ TelaTypeOK' /\ Shows(tela, intents, pagas)' /\ InStep(tela, rede, mexeu)'
  BY <1>1 DEF Screens, ScreenInv, AllGood, TelaTypeOK
<1>3. InView'
  BY <1>1 DEF Screens, InView, MsgsInView
<1> QED BY <1>1, <1>2, <1>3 DEF Screens, ScreenInv

\* What is under way on the payment screen, and what it is about.
LEMMA OnMaquininha ==
    ASSUME Screens, E("maquininha")
    PROVE  /\ ~mexeu /\ tela \in Tela /\ tela.alvo \in Alvos
           /\ rede \in [Ops -> Mensagem] /\ {"charge", "confirm", "poll"} \subseteq Ops
           /\ \A o \in Ops \ {"charge", "confirm", "poll"} : rede[o].fase = "livre"
           /\ tela.step \notin {"form", "fechada"} => rede["charge"].fase = "livre"
           /\ tela.step \notin {"confirmando", "fechada"} => rede["confirm"].fase = "livre"
           /\ tela.step \notin {"remoto", "fechada"} => rede["poll"].fase = "livre"
           /\ rede["charge"].fase # "livre" =>
                 rede["confirm"].fase = "livre" /\ rede["poll"].fase = "livre"
           /\ tela.intent # None => /\ tela.intent \in Intents
                                    /\ intents[tela.intent].alvo = tela.alvo
           /\ tela.intent # None <=> tela.step \in InPayment
BY DEF Screens, ScreenInv, TelaTypeOK, Tela, Shows, InStep, InView, ScreenInView, E, Ops

LEMMA VaiIs ==
    ASSUME tela \in Tela, NEW st \in {"form", "confirmando", "pago"}
    PROVE  /\ Vai(st) \in Tela /\ Vai(st).tipo = tela.tipo /\ Vai(st).alvo = tela.alvo
           /\ Vai(st).paga = tela.paga /\ Vai(st).intent = tela.intent /\ Vai(st).step = st
BY DEF Vai, Tela

LEMMA SemStepIs ==
    ASSUME tela \in Tela, NEW st \in {"form", "fechada"}
    PROVE  LET r == [SemCobranca EXCEPT !.step = st]
           IN  /\ r \in Tela /\ r.tipo = tela.tipo /\ r.alvo = tela.alvo
               /\ r.paga = tela.paga /\ r.intent = None /\ r.step = st
BY SemCobrancaIs DEF Tela

\* Without a charge in view, what remains is about the comanda of the screen.
LEMMA NoChargeShown ==
    ASSUME Screens, E("maquininha"), NEW r \in Tela, r.tipo = tela.tipo, r.alvo = tela.alvo,
           r.paga = tela.paga, r.intent = None, r.step \in {"form", "fechada"}
    PROVE  /\ Shows(r, intents, pagas) /\ ScreenInView(r, intents, creditos)
           /\ \A q \in Ops : MsgInView(q, rede[q], r, intents, creditos)
<1>1. Shows(r, intents, pagas)
  BY DEF Screens, ScreenInv, Shows, InPayment, E
<1>2. ScreenInView(r, intents, creditos)
  BY DEF ScreenInView, E
<1>3. ASSUME NEW q \in Ops PROVE MsgInView(q, rede[q], r, intents, creditos)
  <2>1. MsgInView(q, rede[q], tela, intents, creditos)
    BY OnMaquininha DEF Screens, InView, MsgsInView
  <2>2. CASE q \in {"charge", "confirm", "poll"}
    BY <2>1, <2>2 DEF MsgInView
  <2>3. CASE q \notin {"charge", "confirm", "poll"}
    BY <2>3, OnMaquininha, FreeInView
  <2> QED BY <2>2, <2>3
<1> QED BY <1>1, <1>2, <1>3

LEMMA MaqPagaKeeps == ASSUME Screens, E("maquininha"), MaqPaga PROVE Screens'
<1>1. /\ tela.step = "form" /\ Pede("charge", tela.alvo, None) /\ "charge" \in Ops
      /\ tela.alvo \in Alvos /\ rede["charge"].fase = "livre" /\ tela.tipo = "maquininha"
  BY OnMaquininha DEF MaqPaga, PedeCharge, No, Pede, Na, E
<1>2. /\ rede' \in [Ops -> Mensagem] /\ Others("charge") /\ rede'["charge"].fase = "ida"
      /\ rede'["charge"].alvo = tela.alvo /\ UNCHANGED <<banco, tela>>
      /\ mexeu' = (mexeu \/ ("charge" \notin Automaticas /\ Pendente(Automaticas)))
  BY <1>1, Asks DEF Screens, ScreenInv
<1>3. ~mexeu'
  <2>1. \A o \in Ops : rede[o].fase = "livre"
    BY <1>1, OnMaquininha
  <2> QED BY <1>2, <2>1, OnMaquininha DEF Pendente, Na
<1>4. InStep(tela, rede, mexeu)'
  <2>1. \A q \in Ops \ {"charge"} : rede'[q] = rede[q]
    BY <1>2 DEF Others
  <2> QED BY <1>1, <1>2, <1>3, <2>1 DEF Screens, ScreenInv, InStep, Ops
<1>5. Good("charge", rede'["charge"], intents, pagas)
  BY <1>1, <1>2 DEF Good
<1>6. MsgInView("charge", rede'["charge"], tela, intents, creditos)
  BY <1>2 DEF MsgInView
<1> QED BY <1>1, <1>4, <1>5, <1>6, AskedKeeps DEF Automaticas

LEMMA MaqDoPaymentKeeps == ASSUME Screens, E("maquininha"), MaqDoPayment PROVE Screens'
<1> DEFINE m == rede["charge"]
<1>1. /\ tela.step = "form" /\ m \in Mensagem /\ m.fase = "volta" /\ tela.tipo = "maquininha"
      /\ "charge" \in Ops \ Automaticas
  BY OnMaquininha DEF MaqDoPayment, No, Recebe, Na, E, Automaticas
<1>2. m.intent \in Intents /\ intents[m.intent].status # "none" /\ m.intent # None
  BY <1>1, TerminalAssumption DEF Screens, ScreenInv, AllGood, Good
<1>3. intents[m.intent].alvo = tela.alvo
  BY <1>1, OnMaquininha DEF Screens, InView, MsgsInView, MsgInView
<1>4. ASSUME NEW st \in {"adquirente", "remoto"}
      PROVE  LET r == [ComIntent(m) EXCEPT !.step = st]
             IN  /\ r \in Tela /\ r.tipo = "maquininha" /\ r.alvo = tela.alvo
                 /\ r.paga = tela.paga /\ r.intent = m.intent /\ r.step = st
  BY <1>1, OnMaquininha, ComIntentIs DEF Tela
<1>5. PICK r \in Tela :
          /\ tela' = r /\ Solta("charge") /\ UNCHANGED <<banco, mexeu>>
          /\ r.tipo = "maquininha" /\ r.alvo = tela.alvo /\ r.paga = tela.paga
          /\ \/ r.intent = m.intent /\ r.step \in {"adquirente", "remoto"}
             \/ r.intent = None /\ r.step = "form"
  <2>1. CASE Recebe("charge", Parada)
    BY <1>1, <2>1, OnMaquininha, SemStepIs DEF Recebe, Parada
  <2>2. CASE \E st \in {"adquirente", "remoto"} :
                Recebe("charge", [ComIntent(m) EXCEPT !.step = st])
    BY <1>4, <2>2 DEF Recebe
  <2> QED BY <2>1, <2>2 DEF MaqDoPayment
<1>6. rede' \in [Ops -> Mensagem] /\ rede'["charge"].fase = "livre" /\ Others("charge")
  BY <1>1, <1>5, Frees DEF Screens, ScreenInv
<1>7. Shows(r, intents, pagas)
  BY <1>1, <1>2, <1>5 DEF Screens, ScreenInv, Shows, InPayment
<1>8. InStep(tela, rede, mexeu)'
  <2>1. \A q \in Ops : rede'[q].fase = "livre"
    BY <1>1, <1>6, OnMaquininha DEF Others
  <2> QED BY <1>5, <2>1, OnMaquininha DEF InStep
<1>9. ScreenInView(r, intents, creditos)
  BY <1>1, <1>3, <1>5 DEF ScreenInView
<1>10. \A q \in Ops \ {"charge"} : MsgInView(q, rede[q], r, intents, creditos)
  BY <1>1, <1>5, OnMaquininha, FreeInView
<1> QED BY <1>1, <1>5, <1>7, <1>8, <1>9, <1>10, AppliedKeeps

LEMMA MaqPagoKeeps == ASSUME Screens, E("maquininha"), MaqPago PROVE Screens'
<1> DEFINE m == rede["confirm"]
           r == Vai("pago")
<1>1. /\ tela.step = "confirmando" /\ m.fase = "volta" /\ tela.tipo = "maquininha"
      /\ "confirm" \in Ops /\ tela' = r /\ Solta("confirm") /\ UNCHANGED <<banco, mexeu>>
  BY OnMaquininha DEF MaqPago, No, Recebe, Na, E
<1>2. m.intent = tela.intent /\ intents[tela.intent].status = "approved"
  BY <1>1 DEF Screens, ScreenInv, AllGood, Good, InStep
<1>3. /\ r \in Tela /\ r.tipo = tela.tipo /\ r.alvo = tela.alvo /\ r.paga = tela.paga
      /\ r.intent = tela.intent /\ r.step = "pago"
  BY OnMaquininha, VaiIs
<1> HIDE DEF r
<1>4. rede' \in [Ops -> Mensagem] /\ rede'["confirm"].fase = "livre" /\ Others("confirm")
  BY <1>1, Frees DEF Screens, ScreenInv
<1>5. Shows(r, intents, pagas)
  BY <1>1, <1>2, <1>3 DEF Screens, ScreenInv, Shows, InPayment
<1>6. InStep(tela, rede, mexeu)'
  <2>1. \A q \in Ops : rede'[q].fase = "livre"
    BY <1>1, <1>4, OnMaquininha DEF Others
  <2> QED BY <1>1, <2>1, OnMaquininha DEF InStep
<1>7. ScreenInView(r, intents, creditos)
  BY <1>1, <1>3, OnMaquininha DEF ScreenInView
<1>8. \A q \in Ops \ {"confirm"} : MsgInView(q, rede[q], r, intents, creditos)
  BY <1>1, OnMaquininha, FreeInView
<1> QED BY <1>1, <1>3, <1>5, <1>6, <1>7, <1>8, AppliedKeeps

LEMMA MaqErroKeeps ==
    ASSUME Screens, E("maquininha"), NEW o \in {"charge", "confirm"}, MaqErro(o) PROVE Screens'
<1> DEFINE r == Parada
<1>1. /\ tela.step # "fechada" /\ tela.tipo = "maquininha"
      /\ rede[o].fase # "livre" \/ (o = "confirm" /\ tela.step = "confirmando")
      /\ o \in Ops /\ tela' = r /\ Solta(o) /\ UNCHANGED <<banco, mexeu>>
  BY OnMaquininha DEF MaqErro, No, Na, E
<1>2. /\ r \in Tela /\ r.tipo = tela.tipo /\ r.alvo = tela.alvo /\ r.paga = tela.paga
      /\ r.intent = None /\ r.step = "form"
  BY OnMaquininha, SemStepIs DEF Parada
<1> HIDE DEF r
<1>3. rede' \in [Ops -> Mensagem] /\ rede'[o].fase = "livre" /\ Others(o)
  BY <1>1, Frees DEF Screens, ScreenInv
<1>4. InStep(tela, rede, mexeu)'
  <2>1. \A q \in Ops \ {o} : rede[q].fase = "livre"
    <3>1. CASE o = "charge"
      BY <1>1, <3>1, OnMaquininha
    <3>2. CASE o = "confirm"
      BY <1>1, <3>2, OnMaquininha
    <3> QED BY <3>1, <3>2
  <2>2. \A q \in Ops : rede'[q].fase = "livre"
    BY <1>3, <2>1 DEF Others
  <2> QED BY <1>1, <2>2, OnMaquininha DEF InStep
<1>5. /\ Shows(r, intents, pagas) /\ ScreenInView(r, intents, creditos)
      /\ \A q \in Ops : MsgInView(q, rede[q], r, intents, creditos)
  BY <1>2, NoChargeShown
<1> QED BY <1>1, <1>2, <1>4, <1>5, AppliedKeeps

\* The acquirer's app came back: nothing changes, the attempt ends, or it is confirmed.
LEMMA MaqRetornoKeeps ==
    ASSUME Screens, E("maquininha"), NEW i \in Intents, MaqRetorno(i) PROVE Screens'
<1>1. UNCHANGED <<banco, mexeu>> /\ tela \in Tela /\ tela.tipo = "maquininha"
  BY OnMaquininha DEF MaqRetorno, E
<1>2. CASE UNCHANGED <<tela, rede>>
  BY <1>1, <1>2, BancoStays, BancoKeeps
<1>3. CASE No("adquirente") /\ tela' = Parada /\ UNCHANGED rede
  <2> DEFINE r == Parada
  <2>1. /\ r \in Tela /\ r.tipo = tela.tipo /\ r.alvo = tela.alvo /\ r.paga = tela.paga
        /\ r.intent = None /\ r.step = "form"
    BY <1>1, SemStepIs DEF Parada
  <2>2. tela' = r /\ tela.step = "adquirente"
    BY <1>3 DEF No
  <2> HIDE DEF r
  <2>3. InStep(r, rede, mexeu)
    BY <2>1, <2>2, OnMaquininha DEF InStep
  <2>4. /\ Shows(r, intents, pagas) /\ ScreenInView(r, intents, creditos)
        /\ \A q \in Ops : MsgInView(q, rede[q], r, intents, creditos)
    BY <2>1, NoChargeShown
  <2> QED BY <1>1, <1>3, <2>1, <2>2, <2>3, <2>4, ScreenGoesOn
<1>4. CASE /\ No("adquirente") /\ tela' = Vai("confirmando")
           /\ rede' = [rede EXCEPT !["confirm"] =
                           [Livre EXCEPT !.fase = "ida", !.intent = tela.intent]]
  <2> DEFINE r == Vai("confirmando")
             m == [Livre EXCEPT !.fase = "ida", !.intent = tela.intent]
  <2>1. /\ r \in Tela /\ r.tipo = tela.tipo /\ r.alvo = tela.alvo /\ r.paga = tela.paga
        /\ r.intent = tela.intent /\ r.step = "confirmando"
    BY <1>1, VaiIs
  <2>2. tela' = r /\ tela.step = "adquirente"
    BY <1>4 DEF No
  <2>3. /\ tela.intent \in Intents /\ intents[tela.intent].status # "none"
        /\ intents[tela.intent].alvo = tela.alvo /\ tela.intent # None
    BY <2>2, OnMaquininha DEF InPayment, Screens, ScreenInv, Shows
  <2>4. m \in Mensagem /\ m.fase = "ida" /\ m.intent = tela.intent
    BY <2>3 DEF Livre, Mensagem, Status
  <2>5. rede' = [rede EXCEPT !["confirm"] = m]
    BY <1>4
  <2> HIDE DEF r, m
  <2>6. /\ rede' \in [Ops -> Mensagem] /\ rede'["confirm"] = m
        /\ \A q \in Ops \ {"confirm"} : rede'[q] = rede[q] /\ rede[q].fase = "livre"
    BY <2>2, <2>4, <2>5, OnMaquininha
  <2>7. BancoGrows /\ RowsOK' /\ UNCHANGED <<intents, cobrados, pagas, creditos>>
    BY <1>1, BancoStays
  <2>8. AllGood'
    <3> SUFFICES ASSUME NEW q \in Ops PROVE Good(q, rede'[q], intents, pagas)
      BY <2>7 DEF AllGood
    <3>1. CASE q = "confirm"
      BY <2>3, <2>4, <2>6, <3>1 DEF Good
    <3>2. CASE q # "confirm"
      BY <2>6, <3>2, FreeIsGood
    <3> QED BY <3>1, <3>2
  <2>9. TelaTypeOK' /\ Shows(tela, intents, pagas)' /\ InStep(tela, rede, mexeu)'
    <3>1. TelaTypeOK'
      BY <1>1, <2>1, <2>2, <2>6, <2>7 DEF Screens, ScreenInv, TelaTypeOK
    <3>2. Shows(r, intents, pagas)
      BY <1>1, <2>1, <2>3 DEF Screens, ScreenInv, Shows, InPayment
    <3>3. InStep(r, rede', mexeu)
      BY <1>1, <2>1, <2>4, <2>6, OnMaquininha DEF InStep, Ops
    <3> QED BY <1>1, <2>2, <2>7, <3>1, <3>2, <3>3
  <2>10. MsgsInView' /\ ScreenInView(tela, intents, creditos)' /\ Alone(rede)'
    <3>1. ASSUME NEW q \in Ops PROVE MsgInView(q, rede'[q], r, intents, creditos)
      <4>1. CASE q = "confirm"
        BY <2>1, <2>3, <2>4, <2>6, <4>1 DEF MsgInView
      <4>2. CASE q # "confirm"
        BY <2>6, <4>2 DEF MsgInView
      <4> QED BY <4>1, <4>2
    <3>2. ScreenInView(r, intents, creditos)
      BY <1>1, <2>1, <2>3 DEF ScreenInView
    <3>3. Alone(rede')
      BY <2>6, OnMaquininha DEF Alone, Ops
    <3> QED BY <2>2, <2>7, <3>1, <3>2, <3>3 DEF MsgsInView
  <2> QED BY <2>7, <2>8, <2>9, <2>10 DEF Screens, ScreenInv, InView
<1> QED BY <1>2, <1>3, <1>4 DEF MaqRetorno

\* An answer of the poll, or its error: the screen stays, says it is paid, or gives up.
LEMMA MaqPollKeeps == ASSUME Screens, E("maquininha"), MaqPoll \/ MaqPollErro PROVE Screens'
<1> DEFINE m == rede["poll"]
<1>1. /\ tela.step = "remoto" /\ m.fase # "livre" /\ tela.tipo = "maquininha" /\ tela \in Tela
      /\ "poll" \in Ops /\ Solta("poll") /\ UNCHANGED <<banco, mexeu>>
  BY OnMaquininha DEF MaqPoll, MaqPollErro, No, Recebe, Na, E
<1>2. \/ tela' = tela \/ tela' = Parada
      \/ tela' = Vai("pago") /\ m.fase = "volta" /\ m.status = "approved"
  BY DEF MaqPoll, MaqPollErro, Recebe, Na, Esgota
<1>3. rede' \in [Ops -> Mensagem] /\ rede'["poll"].fase = "livre" /\ Others("poll")
  BY <1>1, Frees DEF Screens, ScreenInv
<1>4. \A q \in Ops : rede'[q].fase = "livre"
  BY <1>1, <1>3, OnMaquininha DEF Others
<1>5. \A q \in Ops \ {"poll"} : rede[q].fase = "livre"
  BY <1>3, <1>4 DEF Others
<1>6. InStep(tela, rede, mexeu)'
  BY <1>1, <1>4, OnMaquininha DEF InStep
<1>7. \A q \in Ops \ {"poll"} : MsgInView(q, rede[q], tela', intents, creditos)
  BY <1>5, FreeInView
<1>8. CASE tela' = tela
  BY <1>1, <1>6, <1>7, <1>8, AppliedKeeps DEF Screens, ScreenInv, InView
<1>9. CASE tela' = Parada
  <2> DEFINE r == Parada
  <2>1. /\ r \in Tela /\ r.tipo = tela.tipo /\ r.alvo = tela.alvo /\ r.paga = tela.paga
        /\ r.intent = None /\ r.step = "form"
    BY <1>1, SemStepIs DEF Parada
  <2>2. tela' = r
    BY <1>9
  <2> HIDE DEF r
  <2>3. Shows(r, intents, pagas) /\ ScreenInView(r, intents, creditos)
    BY <2>1, NoChargeShown
  <2> QED BY <1>1, <1>6, <1>7, <2>1, <2>2, <2>3, AppliedKeeps
<1>10. CASE tela' = Vai("pago") /\ m.fase = "volta" /\ m.status = "approved"
  <2> DEFINE r == Vai("pago")
  <2>1. /\ r \in Tela /\ r.tipo = tela.tipo /\ r.alvo = tela.alvo /\ r.paga = tela.paga
        /\ r.intent = tela.intent /\ r.step = "pago"
    BY <1>1, VaiIs
  <2>2. tela' = r
    BY <1>10
  <2> HIDE DEF r
  <2>3. m.intent = tela.intent /\ intents[tela.intent].status = "approved"
    BY <1>1, <1>10 DEF Screens, ScreenInv, AllGood, Good, InStep
  <2>4. Shows(r, intents, pagas)
    BY <1>1, <2>1, <2>3 DEF Screens, ScreenInv, Shows, InPayment
  <2>5. ScreenInView(r, intents, creditos)
    BY <1>1, <2>1, OnMaquininha DEF ScreenInView
  <2> QED BY <1>1, <1>6, <1>7, <2>1, <2>2, <2>4, <2>5, AppliedKeeps
<1> QED BY <1>2, <1>8, <1>9, <1>10

\* It is closed, or opened again.
LEMMA MaqFechaAbreKeeps == ASSUME Screens, E("maquininha"), MaqFecha \/ MaqAbre PROVE Screens'
<1>1. UNCHANGED <<banco, rede, mexeu>> /\ tela \in Tela /\ tela.tipo = "maquininha"
  BY OnMaquininha DEF MaqFecha, MaqAbre, Mostra, E
<1>2. CASE MaqFecha
  <2> DEFINE r == [SemCobranca EXCEPT !.step = "fechada"]
  <2>1. /\ r \in Tela /\ r.tipo = tela.tipo /\ r.alvo = tela.alvo /\ r.paga = tela.paga
        /\ r.intent = None /\ r.step = "fechada"
    BY <1>1, SemStepIs
  <2>2. tela' = r
    BY <1>2 DEF MaqFecha
  <2> HIDE DEF r
  <2>3. InStep(r, rede, mexeu)
    BY <2>1, OnMaquininha DEF InStep
  <2>4. /\ Shows(r, intents, pagas) /\ ScreenInView(r, intents, creditos)
        /\ \A q \in Ops : MsgInView(q, rede[q], r, intents, creditos)
    BY <2>1, NoChargeShown
  <2> QED BY <1>1, <2>1, <2>2, <2>3, <2>4, ScreenGoesOn
<1>3. CASE MaqAbre
  <2> DEFINE r == Vai("form")
  <2>1. /\ r \in Tela /\ r.tipo = tela.tipo /\ r.alvo = tela.alvo /\ r.paga = tela.paga
        /\ r.intent = tela.intent /\ r.step = "form"
    BY <1>1, VaiIs
  <2>2. tela' = r /\ tela.step = "fechada" /\ \A q \in Ops : rede[q].fase = "livre"
    BY <1>3 DEF MaqAbre, Mostra, No, Na
  <2> HIDE DEF r
  <2>3. r.intent = None
    BY <2>1, <2>2, OnMaquininha DEF InPayment
  <2>4. InStep(r, rede, mexeu)
    BY <2>1, <2>2, OnMaquininha DEF InStep
  <2>5. /\ Shows(r, intents, pagas) /\ ScreenInView(r, intents, creditos)
        /\ \A q \in Ops : MsgInView(q, rede[q], r, intents, creditos)
    BY <2>1, <2>3, NoChargeShown
  <2> QED BY <1>1, <2>1, <2>2, <2>4, <2>5, ScreenGoesOn
<1> QED BY <1>2, <1>3

LEMMA MaqKeeps == ASSUME Screens, MaqNext PROVE Screens'
<1>1. E("maquininha")
  BY DEF MaqNext
<1>2. CASE MaqPaga \/ MaqDoPayment \/ MaqPago \/ MaqPoll \/ MaqPollErro
  BY <1>1, <1>2, MaqPagaKeeps, MaqDoPaymentKeeps, MaqPagoKeeps, MaqPollKeeps
<1>3. CASE MaqFecha \/ MaqAbre \/ \E o \in {"charge", "confirm"} : MaqErro(o)
  BY <1>1, <1>3, MaqFechaAbreKeeps, MaqErroKeeps
<1>4. CASE \E i \in Intents : MaqClientePaga(i) \/ MaqRetorno(i)
  BY <1>1, <1>4, MaqRetornoKeeps, ClientePagaKeeps, BancoKeeps DEF MaqClientePaga
<1>5. CASE \E i \in Intents : MaqServeCharge(i)
  BY <1>5, ServeKeeps DEF MaqServeCharge, Serve
<1>6. CASE PedePoll \/ ServeOutros \/ Outros \/ \E o \in Ops : MaqPerde(o)
  BY <1>6, PedePollKeeps, ServeKeeps, OutrosKeeps, PerdeKeeps DEF Serve, MaqPerde
<1> QED BY <1>2, <1>3, <1>4, <1>5, <1>6 DEF MaqNext
-----------------------------------------------------------------------------
(* One charge for a comanda *)

\* A charge that was created and that the screen did not give up.
Open(i) == intents[i].status # "none" /\ i \notin largadas

\* The charge the screen works on, or that an answer on its way brings to it.
InHand(i) ==
    \/ tela.step \in InPayment /\ i = tela.intent
    \/ rede["charge"].fase = "volta" /\ i = rede["charge"].intent

\* Charge i was taken, or one that was given up was.
Backed(i) == i \in cobrados \/ cobrados \cap largadas # {}

\* The server is asked to confirm only a charge that is backed.
ConfirmBacked == rede["confirm"].fase # "livre" => Backed(rede["confirm"].intent)

\* All charges are of the comanda on the screen.  One at most is open: the one in hand,
\* or the one that paid the comanda.  What is approved, or about to be, is backed.
Once ==
    /\ \A i \in Intents : intents[i].status # "none" =>
          /\ intents[i].alvo = tela.alvo
          /\ i \in largadas \/ InHand(i) \/ intents[i].status = "approved"
    /\ \A i, j \in Intents : Open(i) /\ Open(j) => i = j
    /\ \A i \in largadas : i \in Intents /\ intents[i].status # "none" /\ ~InHand(i)
    /\ \A i \in cobrados \cup emCurso : i \in Intents /\ intents[i].status # "none"
    /\ \A i \in Intents : intents[i].status = "approved" =>
          Backed(i) /\ intents[i].alvo \in pagas
    /\ ConfirmBacked
    /\ rede["charge"].fase = "ida" => rede["charge"].intent = None

ChargedOnce == E("maquininha") => Once

\* The variables of the payment screen alone.
MaqTypes ==
    /\ pendente \in Intents \cup {None} /\ emCurso \in SUBSET Intents
    /\ consultas \in 0..(MaxPolls - 1)
    /\ noTerminal \in SUBSET Intents /\ largadas \in SUBSET Intents

\* A web screen does not become the payment screen.
LEMMA TipoStays == ASSUME Screens, TelasNext PROVE tela'.tipo = tela.tipo
<1>1. tela \in Tela
  BY DEF Screens, ScreenInv, TelaTypeOK
<1>2. CASE PosTap \/ PosItem \/ PosCash \/ Charge \/ Confirma \/ CelularGet \/ CelularCancela
           \/ RecargaCash \/ RecargaCharge \/ RecargaConfirma \/ RecargaCredita
           \/ PedePoll \/ PollAlheio
  BY <1>2 DEF PosTap, PosItem, PosCash, Charge, Confirma, CelularGet, CelularCancela, RecargaCash,
     RecargaCharge, RecargaConfirma, RecargaCredita, PedePoll, PollAlheio, Pede, PedeCharge,
     PedeConfirm, Recebe
<1>3. CASE PosTapOk \/ PosItemOk \/ GetOk
  BY <1>1, <1>3 DEF PosTapOk, PosItemOk, GetOk, RecebeComanda, Recebe, ComComanda, Tela
<1>4. CASE ChargeOk \/ CelularConfirmaOk \/ PollOk \/ RecargaChargeOk \/ RecargaConfirmaOk
  BY <1>1, <1>4 DEF ChargeOk, CelularConfirmaOk, PollOk, RecargaChargeOk, RecargaConfirmaOk,
     Recebe, ComIntent, Tela
<1>5. CASE PosCashOk \/ PosConfirmaOk \/ CelularCancelaOk \/ Voltar \/ ResetPos \/ RecargaReset
  BY <1>1, <1>5 DEF PosCashOk, PosConfirmaOk, CelularCancelaOk, Voltar, ResetPos, RecargaReset,
     Reset, RecebeComanda, Recebe, Edita, Mostra, SemCobranca, Tela
<1>6. CASE RecargaPollOk \/ RecargaFeita("cash") \/ RecargaFeita("credit") \/ \E a \in Alvos : Digita(a)
  BY <1>1, <1>6 DEF RecargaPollOk, RecargaFeita, Digita, Recebe, Edita, Mostra, SemCobranca,
     ComIntent, Tela
<1>7. CASE Ambiente
  BY <1>7, ServeKeeps, OutrosKeeps, ClientePagaKeeps DEF Ambiente, Perde
<1> QED BY <1>2, <1>3, <1>4, <1>5, <1>6, <1>7 DEF TelasNext, PosNext, RecargaNext

\* A step of the server, the customer or the other devices, the screen as it was: no charge
\* is new.
LEMMA AroundTheScreen ==
    ASSUME Screens, ChargedOnce, E("maquininha"), UNCHANGED <<tela, emCurso, largadas>>,
           rede'["charge"] = rede["charge"],
           rede'["confirm"].fase # "livre" =>
               rede["confirm"].fase # "livre" /\ rede'["confirm"].intent = rede["confirm"].intent,
           cobrados \subseteq cobrados', pagas \subseteq pagas',
           \A i \in cobrados' : i \in Intents /\ intents[i].status # "none",
           \A i \in Intents :
               /\ intents'[i].alvo = intents[i].alvo
               /\ intents'[i].status # "none" <=> intents[i].status # "none"
               /\ intents[i].status = "approved" => intents'[i].status = "approved"
               /\ intents'[i].status = "approved" =>
                      \/ intents[i].status = "approved"
                      \/ Backed(i) /\ intents[i].alvo \in pagas'
    PROVE  ChargedOnce'
<1>1. Once
  BY DEF ChargedOnce
<1>2. \A i : (InHand(i)' <=> InHand(i)) /\ (Backed(i) => Backed(i)')
  BY DEF InHand, Backed
<1>3. \A i \in Intents : Open(i)' <=> Open(i)
  BY DEF Open
<1>4. ConfirmBacked'
  BY <1>1, <1>2 DEF Once, ConfirmBacked
<1> QED BY <1>1, <1>2, <1>3, <1>4 DEF ChargedOnce, Once

\* A step of the screen, or a message it no longer waits for: the tables stay, and the charge
\* that leaves the hand is approved or given up.
LEMMA OnTheScreen ==
    ASSUME Screens, ChargedOnce, E("maquininha"), UNCHANGED banco, tela'.alvo = tela.alvo,
           \A i \in Intents : InHand(i)' => InHand(i),
           \A i \in Intents : InHand(i) =>
               InHand(i)' \/ i \in largadas' \/ intents[i].status = "approved",
           largadas \subseteq largadas',
           \A i \in largadas' \ largadas :
               i \in Intents /\ intents[i].status # "none" /\ ~InHand(i)',
           \A i \in emCurso' : i \in Intents /\ intents[i].status # "none",
           ConfirmBacked',
           rede'["charge"].fase = "ida" => rede'["charge"].intent = None
    PROVE  ChargedOnce'
<1>1. Once /\ UNCHANGED <<intents, cobrados, pagas>>
  BY DEF ChargedOnce, banco
<1>2. \A i : Backed(i) => Backed(i)'
  BY <1>1 DEF Backed
<1>3. \A i \in Intents : Open(i)' => Open(i)
  BY <1>1 DEF Open
<1>4. \A i \in Intents : intents'[i].status # "none" =>
          /\ intents'[i].alvo = tela'.alvo
          /\ i \in largadas' \/ InHand(i)' \/ intents'[i].status = "approved"
  BY <1>1 DEF Once
<1>5. \A i, j \in Intents : Open(i)' /\ Open(j)' => i = j
  BY <1>1, <1>3 DEF Once
<1>6. \A i \in largadas' : i \in Intents /\ intents'[i].status # "none" /\ ~InHand(i)'
  BY <1>1 DEF Once
<1>7. /\ \A i \in cobrados' \cup emCurso' : i \in Intents /\ intents'[i].status # "none"
      /\ \A i \in Intents : intents'[i].status = "approved" =>
            Backed(i)' /\ intents'[i].alvo \in pagas'
  BY <1>1, <1>2 DEF Once
<1> QED BY <1>4, <1>5, <1>6, <1>7 DEF ChargedOnce, Once

\* What giving up charge i changes.
LEMMA LargaIs ==
    ASSUME NEW i \in Intents \cup {None}, Larga(i)
    PROVE  /\ largadas \subseteq largadas' /\ \A j \in largadas' \ largadas : j = i /\ i \in Intents
           /\ i \in Intents => i \in largadas'
BY TerminalAssumption DEF Larga

\* On the payment screen the server is asked for a charge, a confirmation or a poll.
LEMMA MaqServes ==
    ASSUME Screens, E("maquininha"), ServeOutros PROVE ServeConfirm \/ ServePoll
<1>1. \A o \in {"tap", "item", "get", "cancel", "cash", "credit"} : ~Na(o, "ida")
  <2>1. \A o \in {"tap", "item", "get", "cancel", "cash", "credit"} :
            o \in Ops \ {"charge", "confirm", "poll"}
    BY DEF Ops
  <2> QED BY <2>1, OnMaquininha DEF Na
<1>2. ~ServeTap /\ ~ServeItem /\ ~ServeGet /\ ~ServeCancel /\ ~ServeCash /\ ~ServeCredit
  BY <1>1 DEF ServeTap, ServeItem, ServeGet, ServeCancel, ServeCash, ServeCredit
<1> QED BY <1>2 DEF ServeOutros

\* The comanda must have something left to pay: then no charge is open.
LEMMA MaqCharges ==
    ASSUME Screens, ChargedOnce, E("maquininha"), NEW i \in Intents, MaqServeCharge(i)
    PROVE  ChargedOnce'
<1> DEFINE a == rede["charge"].alvo
<1>1. /\ rede["charge"].fase = "ida" /\ a \notin pagas /\ tela.tipo = "maquininha"
      /\ UNCHANGED <<tela, cobrados, pagas, emCurso, largadas>> /\ intents[i].status = "none"
      /\ intents' = [intents EXCEPT ![i] = [alvo |-> a, due |-> FALSE,
                                            status |-> "awaiting_customer"]]
  BY DEF MaqServeCharge, ServeCharge, Na, Cobravel, Comanda, E
<1>2. a = tela.alvo /\ tela.step \in {"form", "fechada"} /\ rede["confirm"].fase = "livre"
  BY <1>1, OnMaquininha DEF Screens, InView, MsgsInView, MsgInView
<1>3. /\ Served("charge") /\ intents'[i].status = "awaiting_customer" /\ intents'[i].alvo = a
      /\ rede'["charge"].fase = "volta" /\ rede'["charge"].intent = i
  BY ServeChargeKeeps DEF MaqServeCharge
<1>4. \A j \in Intents \ {i} : intents'[j] = intents[j]
  BY <1>1 DEF Screens, ScreenInv, TelaTypeOK
<1>5. rede'["confirm"] = rede["confirm"]
  BY <1>3 DEF Served, Others, Ops
<1>6. Once
  BY DEF ChargedOnce
<1>7. \A j \in Intents : ~InHand(j)
  BY <1>1, <1>2 DEF InHand, InPayment
<1>8. \A j \in Intents : ~Open(j)
  BY <1>1, <1>2, <1>6, <1>7 DEF Once, Open
<1>9. \A j : (InHand(j)' <=> j = i) /\ (Backed(j)' <=> Backed(j))
  BY <1>1, <1>2, <1>3 DEF InHand, Backed, InPayment
<1>10. \A j \in Intents : Open(j)' => j = i
  BY <1>1, <1>4, <1>8 DEF Open
<1>11. i \notin largadas
  BY <1>1, <1>6 DEF Once
<1>12. \A j \in Intents : intents'[j].status # "none" =>
          /\ intents'[j].alvo = tela'.alvo
          /\ j \in largadas' \/ InHand(j)' \/ intents'[j].status = "approved"
  BY <1>1, <1>2, <1>3, <1>4, <1>6, <1>7, <1>9 DEF Once
<1>13. /\ \A j \in largadas' : j \in Intents /\ intents'[j].status # "none" /\ ~InHand(j)'
       /\ \A j \in cobrados' \cup emCurso' : j \in Intents /\ intents'[j].status # "none"
  BY <1>1, <1>4, <1>6, <1>9, <1>11 DEF Once
<1>14. \A j \in Intents : intents'[j].status = "approved" =>
          Backed(j)' /\ intents'[j].alvo \in pagas'
  BY <1>1, <1>3, <1>4, <1>6, <1>9 DEF Once
<1>15. ConfirmBacked'
  BY <1>2, <1>5 DEF ConfirmBacked
<1> QED BY <1>3, <1>10, <1>12, <1>13, <1>14, <1>15 DEF ChargedOnce, Once

\* What an approval, an expiry or a cancellation does to the rows.
LEMMA MudaIs ==
    ASSUME Screens, NEW i \in Intents, NEW st \in Status, Muda(i, st)
    PROVE  /\ \A j \in Intents \ {i} : intents'[j] = intents[j]
           /\ intents'[i].alvo = intents[i].alvo /\ intents'[i].status = st
BY DEF Muda, Screens, ScreenInv, TelaTypeOK, IntentRow

\* The server confirms a charge that came back as approved, or approves, expires or reports
\* the one that is polled.
LEMMA MaqConfirms ==
    ASSUME Screens, ChargedOnce, E("maquininha"), ServeConfirm \/ ServePoll, UNCHANGED maqVars
    PROVE  ChargedOnce'
<1>1. PICK o \in {"confirm", "poll"} :
          Served(o) /\ ((o = "confirm" /\ ServeConfirm) \/ (o = "poll" /\ ServePoll))
  BY ServeConfirmKeeps, ServePollKeeps
<1> DEFINE i == rede[o].intent
<1>2. /\ UNCHANGED <<tela, emCurso, largadas>> /\ pagas \subseteq pagas' /\ rede[o].fase = "ida"
      /\ rede'["charge"] = rede["charge"]
      /\ rede'["confirm"].fase # "livre" =>
             rede["confirm"].fase # "livre" /\ rede'["confirm"].intent = rede["confirm"].intent
  BY <1>1 DEF Served, BancoGrows, Others, maqVars, Ops
<1>3. i \in Intents /\ intents[i].status # "none"
  BY <1>1, <1>2 DEF Screens, ScreenInv, AllGood, Good, Ops
<1>4. \/ Aguarda(i) /\ Aprova(i) /\ (o = "confirm" \/ i \in cobrados)
      \/ UNCHANGED banco
      \/ Aguarda(i) /\ Muda(i, "expired") /\ UNCHANGED <<cobrados, pagas, creditos>>
  BY <1>1 DEF ServeConfirm, ServePoll, Vence
<1>5. Aprova(i) => Backed(i) \/ UNCHANGED banco
  <2>1. CASE o = "confirm"
    BY <1>2, <2>1 DEF ChargedOnce, Once, ConfirmBacked
  <2>2. CASE o = "poll" /\ Aguarda(i) /\ Muda(i, "expired")
    BY <1>3, <2>2, MudaIs DEF Aprova, Status
  <2> QED BY <1>1, <1>4, <2>1, <2>2 DEF Backed
<1> HIDE DEF i
<1>6. cobrados' = cobrados
  BY <1>4 DEF Aprova, banco
<1>7. \A j \in Intents :
          /\ intents'[j].alvo = intents[j].alvo
          /\ intents'[j].status # "none" <=> intents[j].status # "none"
          /\ intents[j].status = "approved" => intents'[j].status = "approved"
          /\ intents'[j].status = "approved" =>
                 \/ intents[j].status = "approved"
                 \/ Backed(j) /\ intents[j].alvo \in pagas'
  <2>1. CASE UNCHANGED banco
    BY <2>1 DEF banco
  <2>2. CASE Aguarda(i) /\ Aprova(i) /\ Backed(i)
    <3>1. Muda(i, "approved") /\ pagas' = pagas \cup {intents[i].alvo}
      BY <2>2 DEF Aprova, Comanda, E
    <3>2. "approved" \in Status
      BY DEF Status
    <3> QED BY <1>3, <2>2, <3>1, <3>2, MudaIs DEF Aguarda
  <2>3. CASE Aguarda(i) /\ Muda(i, "expired")
    <3>1. "expired" \in Status
      BY DEF Status
    <3> QED BY <1>3, <2>3, <3>1, MudaIs DEF Aguarda
  <2> QED BY <1>4, <1>5, <2>1, <2>2, <2>3
<1>8. \A j \in cobrados' : j \in Intents /\ intents[j].status # "none"
  BY <1>6 DEF ChargedOnce, Once
<1> QED BY <1>2, <1>6, <1>7, <1>8, AroundTheScreen

\* Time passes, another device pays or cancels, or the customer pays.
LEMMA MaqAround ==
    ASSUME Screens, ChargedOnce, E("maquininha"),
           (Outros /\ UNCHANGED maqVars) \/ \E i \in Intents : MaqClientePaga(i)
    PROVE  ChargedOnce'
<1>1. UNCHANGED <<tela, rede, emCurso, largadas>> /\ pagas \subseteq pagas'
  BY DEF maqVars, Outros, Tempo, OutroCancela, OutroPaga, MaqClientePaga, ClientePaga
<1>2. \A j \in Intents :
          /\ intents'[j].alvo = intents[j].alvo
          /\ intents'[j].status # "none" <=> intents[j].status # "none"
          /\ intents[j].status = "approved" <=> intents'[j].status = "approved"
  <2>1. CASE \E i \in Intents : Tempo(i)
    BY <2>1 DEF Tempo, Screens, ScreenInv, TelaTypeOK, IntentRow
  <2>2. CASE \E i \in Intents : OutroCancela(i)
    BY <2>2, MudaIs DEF OutroCancela, Aguarda, Status
  <2>3. CASE UNCHANGED intents
    BY <2>3
  <2> QED BY <2>1, <2>2, <2>3 DEF Outros, OutroPaga, MaqClientePaga, ClientePaga
<1>3. /\ cobrados \subseteq cobrados'
      /\ \A i \in cobrados' : i \in Intents /\ intents[i].status # "none"
  BY DEF ChargedOnce, Once, maqVars, Outros, Tempo, OutroCancela, OutroPaga, MaqClientePaga,
         ClientePaga
<1> QED BY <1>1, <1>2, <1>3, AroundTheScreen

\* The screen asks for a charge, or polls the one in view.
LEMMA MaqAsks ==
    ASSUME Screens, ChargedOnce, E("maquininha"), MaqPaga \/ (PedePoll /\ UNCHANGED maqVars)
    PROVE  ChargedOnce'
<1>1. PICK o \in {"charge", "poll"}, a \in Alvos \cup {None}, i \in Intents \cup {None} :
          Pede(o, a, i) /\ (o = "charge" => i = None)
  BY OnMaquininha DEF MaqPaga, PedePoll, PedeCharge, Tela
<1>2. "charge" \in Ops /\ "poll" \in Ops /\ "confirm" \in Ops /\ UNCHANGED maqVars
  BY DEF Ops, MaqPaga
<1>3. /\ UNCHANGED <<banco, tela>> /\ Others(o) /\ rede[o].fase = "livre"
      /\ rede'[o].fase = "ida" /\ rede'[o].intent = i
  BY <1>1, <1>2, Asks DEF Screens, ScreenInv
<1>4. rede'["confirm"] = rede["confirm"]
  BY <1>2, <1>3 DEF Others
<1>5. rede'["charge"] = rede["charge"] \/ (rede["charge"].fase = "livre"
          /\ rede'["charge"].fase = "ida" /\ rede'["charge"].intent = None)
  BY <1>1, <1>2, <1>3 DEF Others
<1>6. UNCHANGED <<tela, emCurso, largadas, cobrados, pagas, intents>>
  BY <1>2, <1>3 DEF maqVars, banco
<1>7. \A j : (InHand(j)' <=> InHand(j)) /\ (Backed(j)' <=> Backed(j))
  BY <1>5, <1>6 DEF InHand, Backed
<1>8. Once /\ ConfirmBacked'
  BY <1>4, <1>7 DEF ChargedOnce, Once, ConfirmBacked
<1>9. rede'["charge"].fase = "ida" => rede'["charge"].intent = None
  BY <1>5, <1>8 DEF Once
<1> QED BY <1>3, <1>6, <1>7, <1>8, <1>9, OnTheScreen DEF Once

\* The answer to the charge: handed to the acquirer, followed by the server, or given up.
LEMMA MaqOpens ==
    ASSUME Screens, ChargedOnce, E("maquininha"), MaqDoPayment PROVE ChargedOnce'
<1> DEFINE m == rede["charge"]
<1>1. /\ tela.step = "form" /\ m.fase = "volta" /\ UNCHANGED banco /\ tela \in Tela
      /\ "charge" \in Ops /\ "confirm" \in Ops /\ Solta("charge") /\ m \in Mensagem
      /\ rede["confirm"].fase = "livre"
  BY OnMaquininha DEF MaqDoPayment, No, Recebe, Na, Ops
<1>2. m.intent \in Intents /\ intents[m.intent].status # "none"
  BY <1>1 DEF Screens, ScreenInv, AllGood, Good
<1>3. rede'["charge"].fase = "livre" /\ rede'["confirm"].fase = "livre"
  <2>1. rede'["charge"].fase = "livre" /\ Others("charge")
    BY <1>1, Frees DEF Screens, ScreenInv
  <2> QED BY <1>1, <2>1 DEF Others
<1>4. /\ tela'.alvo = tela.alvo /\ emCurso' \subseteq emCurso \cup {m.intent}
      /\ \/ tela'.step \in InPayment /\ tela'.intent = m.intent /\ UNCHANGED largadas
         \/ tela'.step = "form" /\ Larga(m.intent)
  <2>1. \A st \in {"adquirente", "remoto"} :
            /\ [ComIntent(m) EXCEPT !.step = st].step = st
            /\ [ComIntent(m) EXCEPT !.step = st].intent = m.intent
            /\ [ComIntent(m) EXCEPT !.step = st].alvo = tela.alvo
    BY <1>1, ComIntentIs DEF Tela
  <2>2. Parada.step = "form" /\ Parada.alvo = tela.alvo
    BY <1>1, SemStepIs DEF Parada
  <2> QED BY <2>1, <2>2 DEF MaqDoPayment, Recebe, InPayment
<1>5. \A i \in Intents : InHand(i) <=> i = m.intent
  BY <1>1 DEF InHand, InPayment
<1>6. \A i \in Intents : InHand(i)' <=> tela'.step \in InPayment /\ i = tela'.intent
  BY <1>3 DEF InHand
<1>7. /\ largadas \subseteq largadas' /\ \A i \in largadas' \ largadas : i = m.intent
      /\ tela'.step = "form" => m.intent \in largadas'
      /\ largadas' # largadas => tela'.step = "form"
  BY <1>2, <1>4, LargaIs DEF InPayment
<1>8. \A i \in emCurso' : i \in Intents /\ intents[i].status # "none"
  BY <1>2, <1>4 DEF ChargedOnce, Once
<1>9. \A i \in Intents : /\ InHand(i)' => InHand(i)
                         /\ InHand(i) => InHand(i)' \/ i \in largadas'
  BY <1>4, <1>5, <1>6, <1>7 DEF InPayment
<1>10. \A i \in largadas' \ largadas :
           i \in Intents /\ intents[i].status # "none" /\ ~InHand(i)'
  BY <1>2, <1>6, <1>7 DEF InPayment
<1>11. ConfirmBacked'
  BY <1>3 DEF ConfirmBacked
<1> QED BY <1>1, <1>3, <1>4, <1>7, <1>8, <1>9, <1>10, <1>11, OnTheScreen

\* The screen gives its attempt up, or gives back what it had in hand: nothing is left in it.
LEMMA HandsFree ==
    ASSUME Screens, ChargedOnce, E("maquininha"), UNCHANGED banco, tela'.alvo = tela.alvo,
           tela'.step \notin InPayment, rede'["charge"].fase = "livre",
           rede'["confirm"].fase # "livre" => rede'["confirm"] = rede["confirm"],
           emCurso' \subseteq emCurso, NEW i \in Intents \cup {None}, Larga(i),
           i # None => intents[i].status # "none",
           \A j \in Intents : InHand(j) => j = i \/ intents[j].status = "approved"
    PROVE  ChargedOnce'
<1>1. /\ largadas \subseteq largadas' /\ \A j \in largadas' \ largadas : j = i /\ i \in Intents
      /\ i \in Intents => i \in largadas'
  BY LargaIs
<1>2. \A j : ~InHand(j)'
  BY DEF InHand
<1>3. Once /\ UNCHANGED cobrados
  BY DEF ChargedOnce, banco
<1>4. \A j : Backed(j) => Backed(j)'
  BY <1>1, <1>3 DEF Backed
<1>5. \A j \in emCurso' : j \in Intents /\ intents[j].status # "none"
  BY <1>3 DEF Once
<1>6. ConfirmBacked'
  BY <1>3, <1>4 DEF Once, ConfirmBacked
<1>7. \A j \in largadas' \ largadas : j \in Intents /\ intents[j].status # "none"
  BY <1>1, TerminalAssumption
<1> QED BY <1>1, <1>2, <1>5, <1>6, <1>7, OnTheScreen

\* The screen without a charge in view, still the payment screen.
LEMMA ParadaIs ==
    ASSUME Screens, E("maquininha"), tela' = Parada
    PROVE  tela'.step = "form" /\ tela'.alvo = tela.alvo
BY OnMaquininha, SemStepIs DEF Parada, E

\* The charge on the screen exists.
LEMMA ChargeInView ==
    ASSUME Screens, E("maquininha"), tela.step \in InPayment
    PROVE  /\ tela.intent \in Intents /\ intents[tela.intent].status # "none"
           /\ rede["charge"].fase = "livre" /\ \A j \in Intents : InHand(j) <=> j = tela.intent
<1>1. tela.intent # None /\ rede["charge"].fase = "livre"
  BY OnMaquininha DEF InPayment
<1> QED BY <1>1 DEF Screens, ScreenInv, Shows, InHand

\* What the acquirer's app brings back belongs to the charge in view, or to one given up.
LEMMA MaqReturns ==
    ASSUME Screens, ChargedOnce, E("maquininha"), NEW i \in Intents, MaqRetorno(i)
    PROVE  ChargedOnce'
<1>1. /\ UNCHANGED banco /\ emCurso' \subseteq emCurso /\ i \in emCurso
      /\ cobrados' = cobrados /\ Once /\ "confirm" \in Ops
  BY DEF MaqRetorno, banco, ChargedOnce, Ops
<1>2. CASE UNCHANGED <<tela, rede, largadas>>
  <2>1. \A j : (InHand(j)' <=> InHand(j)) /\ (Backed(j)' <=> Backed(j))
    BY <1>1, <1>2 DEF InHand, Backed
  <2>2. ConfirmBacked'
    BY <1>1, <1>2, <2>1 DEF Once, ConfirmBacked
  <2> QED BY <1>1, <1>2, <2>1, <2>2, OnTheScreen DEF Once
<1>3. CASE No("adquirente") /\ tela' = Parada /\ Larga(tela.intent) /\ UNCHANGED rede
  <2>1. tela.step = "adquirente" /\ tela.step \in InPayment
    BY <1>3 DEF No, InPayment
  <2> QED BY <1>1, <1>3, <2>1, ParadaIs, ChargeInView, HandsFree DEF InPayment
<1>4. CASE /\ No("adquirente") /\ i \in cobrados /\ tela' = Vai("confirmando")
           /\ rede' = [rede EXCEPT !["confirm"] =
                           [Livre EXCEPT !.fase = "ida", !.intent = tela.intent]]
           /\ UNCHANGED largadas
  <2>1. tela.step \in InPayment /\ tela'.step \in InPayment /\ tela'.intent = tela.intent
        /\ tela'.alvo = tela.alvo
    BY <1>4, OnMaquininha, VaiIs DEF No, InPayment
  <2>2. rede'["confirm"].intent = tela.intent /\ rede'["charge"] = rede["charge"]
    BY <1>1, <1>4, OnMaquininha DEF Livre
  <2>3. \A j : InHand(j)' <=> InHand(j)
    BY <2>1, <2>2 DEF InHand
  <2>4. tela.intent \in Intents /\ Open(tela.intent)
    BY <1>1, <2>1, ChargeInView DEF Once, Open
  <2>5. i \in largadas \/ i = tela.intent
    BY <1>1, <2>4 DEF Once, Open
  <2>6. ConfirmBacked'
    BY <1>1, <1>4, <2>2, <2>5 DEF Backed, ConfirmBacked
  <2>7. rede'["charge"].fase # "ida"
    BY <2>1, <2>2, ChargeInView
  <2> QED BY <1>1, <1>4, <2>1, <2>2, <2>3, <2>6, <2>7, OnTheScreen DEF Once
<1> QED BY <1>2, <1>3, <1>4 DEF MaqRetorno, Aprovou

\* The screen says "Pago!": the same charge, whose request is answered.
LEMMA GoesToPaid ==
    ASSUME Screens, ChargedOnce, E("maquininha"), UNCHANGED <<banco, emCurso, largadas>>,
           tela.step \in InPayment, tela' = Vai("pago") \/ tela' = tela,
           NEW o \in {"confirm", "poll"}, Solta(o)
    PROVE  ChargedOnce'
<1>1. rede'[o].fase = "livre" /\ Others(o) /\ {"charge", "confirm", "poll"} \subseteq Ops
  BY Frees DEF Ops, Screens, ScreenInv
<1>2. /\ rede'["charge"] = rede["charge"]
      /\ rede'["confirm"].fase = "livre" \/ rede'["confirm"] = rede["confirm"]
  BY <1>1 DEF Others
<1>3. tela'.step \in InPayment /\ tela'.intent = tela.intent /\ tela'.alvo = tela.alvo
  BY OnMaquininha, VaiIs DEF InPayment
<1>4. Once /\ UNCHANGED cobrados
  BY DEF ChargedOnce, banco
<1>5. \A j : (InHand(j)' <=> InHand(j)) /\ (Backed(j)' <=> Backed(j))
  BY <1>2, <1>3, <1>4 DEF InHand, Backed
<1>6. ConfirmBacked'
  BY <1>2, <1>4, <1>5 DEF Once, ConfirmBacked
<1> QED BY <1>2, <1>3, <1>4, <1>5, <1>6, OnTheScreen DEF Once

\* Errors, and what a closed screen no longer waits for.
LEMMA MaqFails ==
    ASSUME Screens, ChargedOnce, E("maquininha"), NEW o \in {"charge", "confirm"}, MaqErro(o)
    PROVE  ChargedOnce'
<1>1. /\ UNCHANGED <<banco, emCurso>> /\ tela' = Parada /\ tela.step # "fechada" /\ Solta(o)
      /\ (rede[o].fase # "livre" \/ (o = "confirm" /\ tela.step = "confirmando")) /\ o \in Ops
      /\ {"charge", "confirm"} \subseteq Ops
  BY DEF MaqErro, No, Na, E, Ops
<1>2. rede'[o].fase = "livre" /\ \A q \in {"charge", "confirm"} \ {o} : rede'[q] = rede[q]
  BY <1>1, Frees DEF Screens, ScreenInv, Others
<1>3. tela'.step \notin InPayment /\ tela'.alvo = tela.alvo
  BY <1>1, ParadaIs DEF InPayment
<1>4. CASE o = "charge"
  <2> DEFINE c == rede["charge"].intent
  <2>1. /\ tela.step = "form" /\ Larga(c) /\ c \in Intents \cup {None}
        /\ rede["charge"].fase \in {"ida", "volta"}
    BY <1>1, <1>4, OnMaquininha DEF MaqErro, Mensagem
  <2>2. c # None => intents[c].status # "none"
    BY <1>1, <2>1 DEF ChargedOnce, Once, Screens, ScreenInv, AllGood, Good
  <2>3. \A j \in Intents : InHand(j) => j = c
    BY <2>1 DEF InHand, InPayment
  <2> QED BY <1>1, <1>2, <1>3, <1>4, <2>1, <2>2, <2>3, HandsFree
<1>5. CASE o = "confirm"
  <2>1. tela.step = "confirmando" /\ tela.step \in InPayment /\ Larga(tela.intent)
    BY <1>1, <1>5, OnMaquininha DEF MaqErro, InPayment
  <2> QED BY <1>1, <1>2, <1>3, <1>5, <2>1, ChargeInView, HandsFree
<1> QED BY <1>4, <1>5

LEMMA MaqLoses ==
    ASSUME Screens, ChargedOnce, E("maquininha"), NEW o \in Ops, MaqPerde(o) PROVE ChargedOnce'
<1> DEFINE c == rede[o].intent
<1>1. /\ UNCHANGED <<banco, tela, emCurso>> /\ tela.step = "fechada" /\ Solta(o) /\ Larga(c)
      /\ rede[o].fase # "livre" /\ {"charge", "confirm"} \subseteq Ops
  BY DEF MaqPerde, Perde, No, Na, Ops
<1>2. rede'[o].fase = "livre" /\ Others(o)
  BY <1>1, Frees DEF Screens, ScreenInv
<1>3. \A q \in {"charge", "confirm"} : rede'[q].fase = "livre" \/ rede'[q] = rede[q]
  BY <1>1, <1>2 DEF Others
<1>4. o \in {"charge", "confirm", "poll"} /\ c \in Intents \cup {None}
      /\ rede[o].fase \in {"ida", "volta"}
  BY <1>1, OnMaquininha DEF Mensagem
<1>5. Once
  BY DEF ChargedOnce
<1>6. c # None => intents[c].status # "none"
  BY <1>1, <1>4, <1>5 DEF Once, Screens, ScreenInv, AllGood, Good
<1>7. \A j : InHand(j) <=> rede["charge"].fase = "volta" /\ j = rede["charge"].intent
  BY <1>1 DEF InHand, InPayment
<1>8. CASE o = "charge"
  <2>1. \A j : InHand(j) => j = c
    BY <1>7, <1>8
  <2> QED BY <1>1, <1>2, <1>3, <1>4, <1>6, <1>8, <2>1, HandsFree DEF InPayment
<1>9. CASE o # "charge" /\ rede["charge"].fase = "livre"
  <2>1. \A j : ~InHand(j)
    BY <1>7, <1>9
  <2>2. rede'["charge"].fase = "livre"
    BY <1>3, <1>9
  <2> QED BY <1>1, <1>3, <1>4, <1>6, <2>1, <2>2, HandsFree DEF InPayment
<1> QED BY <1>1, <1>4, <1>8, <1>9, OnMaquininha

\* The poll found the charge approved, or gave it up, or goes on.
LEMMA MaqPolls ==
    ASSUME Screens, ChargedOnce, E("maquininha"), MaqPoll \/ MaqPollErro PROVE ChargedOnce'
<1>1. /\ UNCHANGED <<banco, emCurso>> /\ tela.step = "remoto" /\ tela.step \in InPayment
      /\ Solta("poll") /\ {"charge", "confirm", "poll"} \subseteq Ops
  BY DEF MaqPoll, MaqPollErro, No, Recebe, Ops, InPayment
<1>2. \/ (tela' = tela \/ tela' = Vai("pago")) /\ UNCHANGED largadas
      \/ tela' = Parada /\ Larga(tela.intent)
  BY DEF MaqPoll, MaqPollErro, Recebe, Esgota
<1>3. CASE tela' = Parada /\ Larga(tela.intent)
  <2>1. rede'["charge"].fase = "livre" /\ rede'["confirm"] = rede["confirm"]
    BY <1>1, ChargeInView, Frees DEF Screens, ScreenInv, Others
  <2> QED BY <1>1, <1>3, <2>1, ParadaIs, ChargeInView, HandsFree DEF InPayment
<1> QED BY <1>1, <1>2, <1>3, GoesToPaid

LEMMA MaqPaid == ASSUME Screens, ChargedOnce, E("maquininha"), MaqPago PROVE ChargedOnce'
<1>1. /\ UNCHANGED <<banco, emCurso, largadas>> /\ tela.step \in InPayment /\ tela' = Vai("pago")
      /\ Solta("confirm")
  BY DEF MaqPago, No, Recebe, maqVars, InPayment
<1> QED BY <1>1, GoesToPaid

LEMMA MaqCloses == ASSUME Screens, ChargedOnce, E("maquininha"), MaqFecha PROVE ChargedOnce'
<1>1. /\ UNCHANGED <<banco, rede, emCurso>> /\ tela' = [SemCobranca EXCEPT !.step = "fechada"]
      /\ IF tela.step = "pago" THEN UNCHANGED largadas ELSE Larga(tela.intent)
      /\ tela \in Tela /\ Once /\ UNCHANGED cobrados
  BY OnMaquininha DEF MaqFecha, No, E, ChargedOnce, banco
<1>2. tela'.step \notin InPayment /\ tela'.alvo = tela.alvo
  BY <1>1, SemStepIs DEF InPayment
<1>3. CASE tela.step \in InPayment /\ tela.step # "pago"
  BY <1>1, <1>2, <1>3, ChargeInView, HandsFree
<1>4. CASE tela.step = "pago"
  <2>1. tela.step \in InPayment /\ intents[tela.intent].status = "approved"
    BY <1>4 DEF InPayment, Screens, ScreenInv, Shows, E
  <2>2. largadas' = largadas /\ Larga(None)
    BY <1>1, <1>4 DEF Larga
  <2> QED BY <1>1, <1>2, <2>1, <2>2, ChargeInView, HandsFree
<1>5. CASE tela.step \notin InPayment
  <2>1. tela.intent = None
    BY <1>5, OnMaquininha
  <2>2. largadas' = largadas
    BY <1>1, <1>5, <2>1 DEF Larga, InPayment
  <2>3. \A j : (InHand(j)' <=> InHand(j)) /\ (Backed(j)' <=> Backed(j))
    BY <1>1, <1>2, <1>5, <2>2 DEF InHand, Backed
  <2>4. ConfirmBacked'
    BY <1>1, <2>3 DEF Once, ConfirmBacked
  <2> QED BY <1>1, <1>2, <2>2, <2>3, <2>4, OnTheScreen DEF Once
<1> QED BY <1>3, <1>4, <1>5

LEMMA MaqReopens == ASSUME Screens, ChargedOnce, E("maquininha"), MaqAbre PROVE ChargedOnce'
<1>1. /\ UNCHANGED <<banco, rede, emCurso, largadas>> /\ tela' = Vai("form")
      /\ tela.step = "fechada" /\ Once /\ UNCHANGED cobrados
  BY DEF MaqAbre, Mostra, No, maqVars, ChargedOnce, banco
<1>2. tela'.step = "form" /\ tela'.alvo = tela.alvo
  BY <1>1, OnMaquininha, VaiIs
<1>3. \A j : (InHand(j)' <=> InHand(j)) /\ (Backed(j)' <=> Backed(j))
  BY <1>1, <1>2 DEF InHand, Backed, InPayment
<1>4. ConfirmBacked'
  BY <1>1, <1>3 DEF Once, ConfirmBacked
<1> QED BY <1>1, <1>2, <1>3, <1>4, OnTheScreen DEF Once

LEMMA ChargedOnceKept == ASSUME Screens, ChargedOnce, Next PROVE ChargedOnce'
<1>1. CASE TelasNext
  <2>1. tela.tipo # "maquininha" /\ tela'.tipo = tela.tipo
    BY <1>1, TipoStays DEF TelasNext, E
  <2> QED BY <2>1 DEF ChargedOnce, E
<1>2. CASE MaqNext
  <2>1. E("maquininha")
    BY <1>2 DEF MaqNext
  <2>2. CASE MaqPaga \/ MaqDoPayment \/ MaqPago \/ MaqPoll \/ MaqPollErro
    BY <2>1, <2>2, MaqAsks, MaqOpens, MaqPaid, MaqPolls
  <2>3. CASE MaqFecha \/ MaqAbre
    BY <2>1, <2>3, MaqCloses, MaqReopens
  <2>4. CASE \/ \E o \in {"charge", "confirm"} : MaqErro(o)
             \/ \E o \in Ops : MaqPerde(o)
    BY <2>1, <2>4, MaqFails, MaqLoses
  <2>5. CASE \E i \in Intents : MaqServeCharge(i) \/ MaqRetorno(i)
    BY <2>1, <2>5, MaqCharges, MaqReturns
  <2>6. CASE (ServeOutros \/ PedePoll) /\ UNCHANGED maqVars
    BY <2>1, <2>6, MaqServes, MaqConfirms, MaqAsks
  <2>7. CASE (Outros /\ UNCHANGED maqVars) \/ \E i \in Intents : MaqClientePaga(i)
    BY <2>1, <2>7, MaqAround
  <2> QED BY <1>2, <2>2, <2>3, <2>4, <2>5, <2>6, <2>7 DEF MaqNext
<1> QED BY <1>1, <1>2 DEF Next
-----------------------------------------------------------------------------
(* The theorems *)

LEMMA MaqTypesKept == ASSUME Screens, MaqTypes, Next PROVE MaqTypes'
<1>1. tela \in Tela /\ rede \in [Ops -> Mensagem] /\ "charge" \in Ops
  BY DEF Screens, ScreenInv, TelaTypeOK, Ops
<1>2. tela.intent \in Intents \cup {None} /\ \A o \in Ops : rede[o].intent \in Intents \cup {None}
  BY <1>1 DEF Tela, Mensagem
<1>3. ASSUME NEW i \in Intents \cup {None}, Larga(i) PROVE largadas' \in SUBSET Intents
  BY <1>3 DEF Larga, MaqTypes
<1>4. CASE UNCHANGED maqVars
  BY <1>4 DEF MaqTypes, maqVars
<1>5. CASE MaqDoPayment
  <2>1. rede["charge"].intent \in Intents
    BY <1>5 DEF MaqDoPayment, Recebe, Na, Screens, ScreenInv, AllGood, Good, Ops
  <2>2. largadas' \in SUBSET Intents
    BY <1>3, <1>5, <2>1 DEF MaqDoPayment, MaqTypes
  <2>3. UNCHANGED noTerminal
    BY <1>5 DEF MaqDoPayment
  <2>4. /\ pendente' \in Intents \cup {None} /\ emCurso' \in SUBSET Intents
        /\ consultas' \in 0..(MaxPolls - 1)
    BY <1>5, <2>1, MaquininhaAssumption DEF MaqDoPayment, MaqTypes
  <2> QED BY <2>2, <2>3, <2>4 DEF MaqTypes
<1>6. CASE \E i \in Intents : MaqServeCharge(i)
  BY <1>6 DEF MaqServeCharge, MaqTypes
<1>7. CASE \E i \in Intents : MaqRetorno(i)
  <2>1. largadas' \in SUBSET Intents
    BY <1>2, <1>3, <1>7 DEF MaqRetorno, MaqTypes
  <2> QED BY <1>7, <2>1 DEF MaqRetorno, MaqTypes
<1>8. CASE (\E o \in {"charge", "confirm"} : MaqErro(o)) \/ \E o \in Ops : MaqPerde(o)
  <2>1. largadas' \in SUBSET Intents
    BY <1>1, <1>2, <1>3, <1>8 DEF MaqErro, MaqPerde
  <2> QED BY <1>8, <2>1 DEF MaqErro, MaqPerde, MaqTypes
<1>9. CASE MaqPoll \/ MaqPollErro \/ MaqFecha
  <2>1. UNCHANGED <<emCurso, noTerminal>> /\ pendente' \in {pendente, None}
    BY <1>9 DEF MaqPoll, MaqPollErro, MaqFecha
  <2>2. largadas' \in SUBSET Intents
    <3>1. UNCHANGED largadas \/ Larga(tela.intent)
      BY <1>9 DEF MaqPoll, MaqPollErro, MaqFecha
    <3> QED BY <1>2, <1>3, <3>1 DEF MaqTypes
  <2>3. consultas' \in 0..(MaxPolls - 1)
    BY <1>9, MaquininhaAssumption DEF MaqPoll, MaqPollErro, MaqFecha, MaqTypes
  <2> QED BY <2>1, <2>2, <2>3 DEF MaqTypes
<1> QED BY <1>4, <1>5, <1>6, <1>7, <1>8, <1>9
        DEF Next, MaqNext, MaqPaga, MaqPago, MaqAbre, MaqClientePaga, maqVars

MaquininhaInv == Screens /\ ChargedOnce /\ MaqTypes

LEMMA MaquininhaInit0 == ASSUME MaquininhaInit PROVE MaquininhaInv
<1>1. PICK t \in Tipos, a \in Alvos :
          tela = [tipo |-> t, alvo |-> IF t = "pos" THEN None ELSE a, paga |-> FALSE,
                  intent |-> None, status |-> "none", step |-> "form"]
  BY DEF MaquininhaInit, TelaInit
<1>2. /\ tela \in Tela /\ tela.paga = FALSE /\ tela.intent = None /\ tela.step = "form"
      /\ tela.tipo # "pos" => tela.alvo \in Alvos
  BY <1>1 DEF Tela, Status
<1>3. /\ intents \in [Intents -> IntentRow] /\ \A i \in Intents : intents[i].status = "none"
      /\ cobrados = {} /\ pagas = {} /\ creditos = {} /\ mexeu = FALSE
      /\ pendente = None /\ emCurso = {} /\ consultas = 0 /\ noTerminal = {} /\ largadas = {}
  BY DEF MaquininhaInit, TelaInit, IntentRow, Status
<1>4. rede \in [Ops -> Mensagem] /\ \A o \in Ops : rede[o].fase = "livre"
  BY DEF MaquininhaInit, TelaInit, Livre, Mensagem, Status
<1>5. TelaTypeOK /\ RowsOK /\ AllGood
  BY <1>2, <1>3, <1>4, FreeIsGood DEF TelaTypeOK, RowsOK, AllGood
<1>6. Shows(tela, intents, pagas)
  BY <1>2, <1>3 DEF Shows, InPayment
<1>7. InStep(tela, rede, mexeu)
  BY <1>3, <1>4 DEF InStep, Ops
<1>8. InView
  BY <1>2, <1>4 DEF InView, MsgsInView, MsgInView, ScreenInView, Alone, Ops
<1>9. ChargedOnce
  BY <1>3, <1>4 DEF ChargedOnce, Once, ConfirmBacked, Open, Ops
<1>10. MaqTypes
  BY <1>3, MaquininhaAssumption DEF MaqTypes
<1> QED BY <1>5, <1>6, <1>7, <1>8, <1>9, <1>10 DEF MaquininhaInv, Screens, ScreenInv

LEMMA MaquininhaStutters ==
    ASSUME MaquininhaInv, UNCHANGED allVars PROVE MaquininhaInv'
<1>1. UNCHANGED <<intents, cobrados, pagas, creditos, tela, rede, mexeu, pendente, emCurso,
                  consultas, noTerminal, largadas>>
  BY DEF allVars, telaVars, maqVars, banco
<1>2. Screens'
  BY <1>1, BancoStays, BancoKeeps DEF MaquininhaInv, banco
<1>3. ChargedOnce' /\ MaqTypes'
  BY <1>1 DEF MaquininhaInv, ChargedOnce, Once, ConfirmBacked, Open, InHand, Backed,
         MaqTypes, E
<1> QED BY <1>2, <1>3 DEF MaquininhaInv

THEOREM MaquininhaInvariant == Spec => []MaquininhaInv
<1>1. MaquininhaInit => MaquininhaInv
  BY MaquininhaInit0
<1>2. MaquininhaInv /\ [Next]_allVars => MaquininhaInv'
  <2>1. ASSUME MaquininhaInv, Next PROVE MaquininhaInv'
    <3>1. Screens'
      BY <2>1, TelasKeeps, MaqKeeps DEF MaquininhaInv, Next
    <3>2. ChargedOnce' /\ MaqTypes'
      BY <2>1, ChargedOnceKept, MaqTypesKept DEF MaquininhaInv
    <3> QED BY <3>1, <3>2 DEF MaquininhaInv
  <2> QED BY <2>1, MaquininhaStutters
<1> QED BY <1>1, <1>2, PTL DEF Spec

\* The screens, the messages in flight and the server's tables keep their types: the poll
\* counter of PayActivity stays below its bound.
THEOREM MaquininhaTypes == Spec => []MaquininhaTypeOK
<1>1. MaquininhaInv => MaquininhaTypeOK
  BY MaquininhaAssumption DEF MaquininhaInv, Screens, ScreenInv, MaqTypes, MaquininhaTypeOK
<1> QED BY <1>1, MaquininhaInvariant, PTL

\* A screen that says it is paid is right: the server has the comanda as paid, or the charge
\* as approved, however late the answers were and whatever the operator did meanwhile.
THEOREM PaidOnTheServer == Spec => []PagoNoServidor
<1>1. MaquininhaInv => PagoNoServidor
  BY DEF MaquininhaInv, Screens, ScreenInv, Shows, PagoNoServidor, E, No
<1> QED BY <1>1, MaquininhaInvariant, PTL

\* The charge in view is of the comanda in view, and a recharge that says it is done was
\* credited, until the operator goes on while something is pending.
THEOREM ScreenIsCoherent == Spec => []TelaCoerente
<1>1. MaquininhaInv => TelaCoerente
  BY DEF MaquininhaInv, Screens, InView, ScreenInView, TelaCoerente, E
<1> QED BY <1>1, MaquininhaInvariant, PTL

\* On the payment screen the customer pays one charge at most that the screen did not give
\* up, and a charge is approved only when it, or a given up one, was taken: whatever is late
\* or lost, and wherever the charge was left payable.
THEOREM ChargesOnce == Spec => []CobradoUmaVez
<1>1. ASSUME MaquininhaInv PROVE CobradoUmaVez
  <2> SUFFICES ASSUME E("maquininha")
               PROVE  /\ Cardinality(cobrados \ largadas) <= 1
                      /\ Aprovadas \ cobrados # {} => cobrados \cap largadas # {}
    BY DEF CobradoUmaVez
  <2>1. Once
    BY <1>1 DEF MaquininhaInv, ChargedOnce
  <2>2. cobrados \ largadas = {} \/ \E c : cobrados \ largadas = {c}
    BY <2>1 DEF Once, Open
  <2>3. Cardinality(cobrados \ largadas) \in {0, 1}
    BY <2>2, FS_EmptySet, FS_Singleton
  <2>4. Aprovadas \ cobrados # {} => cobrados \cap largadas # {}
    BY <2>1 DEF Once, Backed, Aprovadas
  <2> QED BY <2>3, <2>4
<1> QED BY <1>1, MaquininhaInvariant, PTL
=============================================================================
