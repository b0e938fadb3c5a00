------------------------------- MODULE Fiscal -------------------------------
(***************************************************************************)
(* NFC-e of paid orders: backend/src/fiscal/fiscal.service.ts with its     *)
(* provider, focus-nfe.provider.ts.  A company with a token is served by   *)
(* Focus NFe, which may authorize a document and lose the answer; without  *)
(* one the document is numbered by a sequence that lives in memory.  The   *)
(* token may be set or removed at any time, so either may serve.           *)
(*                                                                         *)
(* An emission is a slot of its own; the one that checkout asks for reads  *)
(* the order anew, so it is an emission that starts when the order is      *)
(* paid.                                                                   *)
(***************************************************************************)
EXTENDS Orders

CONSTANTS
    DocIds,      \* rows of nfce_documents; the id is the provider's ref
    Emissores    \* emissions and cancellations that may be in flight at once

ASSUME FiscalAssumption == None \notin DocIds

VARIABLES
    docs,        \* nfce_documents rows
    fisco,       \* documents the provider authorized (history)
    sequencia,   \* sequenceByTenant: the next local number
    emissao,     \* the requests in flight
    forcados,    \* orders emitted again with forcar_reemissao (history)
    emissaoDupla,\* orders with two emissions ever in flight at once (history)
    perdidas,    \* documents whose authorization the server never saved (history)
    reiniciou    \* the server started again after it numbered a document (history)

fiscalTables == <<docs, fisco, sequencia>>
fiscalHistory == <<forcados, emissaoDupla, perdidas, reiniciou>>
fiscalOwn == <<fiscalTables, emissao, fiscalHistory>>
fiscalVars == <<orderVars, fiscalOwn>>

NfceStatus == {"none", "pending", "authorized", "failed", "cancelled"}
DocRow == [order : OrderIds \cup {None}, status : NfceStatus, valor : Nat, numero : Nat]
Emissao == [pc : {"idle", "insere", "envia", "autoriza", "falha", "cancela"},
            order : OrderIds \cup {None}, valor : Nat, doc : DocIds \cup {None},
            lido : DocRow]

NoDoc == [order |-> None, status |-> "none", valor |-> 0, numero |-> 0]
SemEmissao == [pc |-> "idle", order |-> None, valor |-> 0, doc |-> None, lido |-> NoDoc]

FiscalTypeOK ==
    /\ docs \in [DocIds -> DocRow]
    /\ fisco \in SUBSET DocIds
    /\ sequencia \in Nat \ {0}
    /\ emissao \in [Emissores -> Emissao]
    /\ forcados \in SUBSET OrderIds
    /\ emissaoDupla \in SUBSET OrderIds
    /\ perdidas \in SUBSET DocIds
    /\ reiniciou \in BOOLEAN

FiscalInit ==
    /\ OrdersInit
    /\ docs = [d \in DocIds |-> NoDoc]
    /\ fisco = {}
    /\ sequencia = 1
    /\ emissao = [e \in Emissores |-> SemEmissao]
    /\ forcados = {}
    /\ emissaoDupla = {}
    /\ perdidas = {}
    /\ reiniciou = FALSE

Em(e, pc) == emissao[e].pc = pc
Vai(e, r) == emissao' = [emissao EXCEPT ![e] = r]

Autorizados(o) == {d \in DocIds : docs[d].order = o /\ docs[d].status = "authorized"}

Dupla ==
    {o \in OrderIds : \E e, f \in Emissores :
        e # f /\ emissao[e].order = o /\ emissao[f].order = o}
Registra == emissaoDupla' = emissaoDupla \cup Dupla'
-----------------------------------------------------------------------------
(* emit *)

SemOlharNotas(o, forcar) == TRUE    \* mutant: existing documents are not looked at
Emissivel(o, forcar) == forcar \/ Autorizados(o) = {}

EmitRead(e, o, forcar) ==
    /\ Em(e, "idle")
    /\ orders[o].status = "paid"
    /\ linhas[o] > 0
    /\ Emissivel(o, forcar)
    /\ Vai(e, [SemEmissao EXCEPT !.pc = "insere", !.order = o, !.valor = orders[o].total])
    /\ forcados' = IF forcar THEN forcados \cup {o} ELSE forcados
    /\ UNCHANGED <<fiscalTables, perdidas, reiniciou>>
    /\ Registra

EmitInsert(e, d) ==
    LET row == [NoDoc EXCEPT !.order = emissao[e].order, !.status = "pending",
                             !.valor = emissao[e].valor]
    IN  /\ Em(e, "insere")
        /\ docs[d] = NoDoc
        /\ docs' = [docs EXCEPT ![d] = row]
        /\ Vai(e, [emissao[e] EXCEPT !.pc = "envia", !.doc = d, !.lido = row])
        /\ UNCHANGED <<fisco, sequencia, forcados, perdidas, reiniciou>>
        /\ Registra

\* emitViaFocus: authorized, refused, or authorized with the answer lost.
EmitViaFocus(e, autorizado, respondido) ==
    LET d == emissao[e].doc
    IN  /\ Em(e, "envia")
        /\ fisco' = IF autorizado THEN fisco \cup {d} ELSE fisco
        /\ perdidas' = IF autorizado /\ ~respondido THEN perdidas \cup {d} ELSE perdidas
        /\ Vai(e, [emissao[e] EXCEPT
                      !.pc = IF autorizado /\ respondido THEN "autoriza" ELSE "falha"])
        /\ UNCHANGED <<docs, sequencia, forcados, reiniciou>>
        /\ Registra

SemAvancar(n) == n    \* mutant: the sequence is read and not advanced
Avanca(n) == n + 1

\* nextNumber
EmitLocal(e) ==
    /\ Em(e, "envia")
    /\ Vai(e, [emissao[e] EXCEPT !.pc = "autoriza", !.lido.numero = sequencia])
    /\ sequencia' = Avanca(sequencia)
    /\ fisco' = fisco \cup {emissao[e].doc}
    /\ UNCHANGED <<docs, forcados, perdidas, reiniciou>>
    /\ Registra

EmitSave(e) ==
    LET q == emissao[e]
    IN  /\ q.pc \in {"autoriza", "falha"}
        /\ docs' = [docs EXCEPT ![q.doc] =
             [q.lido EXCEPT !.status = IF q.pc = "falha" THEN "failed" ELSE "authorized"]]
        /\ Vai(e, SemEmissao)
        /\ UNCHANGED <<fisco, sequencia, forcados, perdidas, reiniciou>>
        /\ Registra
-----------------------------------------------------------------------------
(* cancel: the row alone; the provider is not told *)

CancelRead(e, d) ==
    /\ Em(e, "idle")
    /\ docs[d].status = "authorized"
    /\ Vai(e, [SemEmissao EXCEPT !.pc = "cancela", !.doc = d, !.lido = docs[d]])
    /\ UNCHANGED <<fiscalTables, forcados, perdidas, reiniciou>>
    /\ Registra

CancelSave(e) ==
    /\ Em(e, "cancela")
    /\ docs' = [docs EXCEPT ![emissao[e].doc] =
                  [emissao[e].lido EXCEPT !.status = "cancelled"]]
    /\ Vai(e, SemEmissao)
    /\ UNCHANGED <<fisco, sequencia, forcados, perdidas, reiniciou>>
    /\ Registra

NaoSalvas(es) == {emissao[e].doc : e \in {f \in es : Em(f, "autoriza")}}

\* A save that throws.
FiscalDesiste(e) ==
    /\ ~Em(e, "idle")
    /\ Vai(e, SemEmissao)
    /\ perdidas' = perdidas \cup NaoSalvas({e})
    /\ UNCHANGED <<fiscalTables, forcados, reiniciou>>
    /\ Registra

\* The server stops and starts: requests end, the sequence begins again.
Reinicia ==
    /\ req' = [p \in Requests |-> Idle]
    /\ emissao' = [e \in Emissores |-> SemEmissao]
    /\ sequencia' = 1
    /\ reiniciou' = (reiniciou \/ sequencia > 1)
    /\ perdidas' = perdidas \cup NaoSalvas(Emissores)
    /\ UNCHANGED <<orderTables, docs, fisco, forcados>>
    /\ Historia({req[p].order : p \in {q \in Requests : Incompleto(q)}})
    /\ Registra

FiscalOwnNext ==
    \E e \in Emissores :
        \/ \E o \in OrderIds, forcar \in BOOLEAN : EmitRead(e, o, forcar)
        \/ \E d \in DocIds : EmitInsert(e, d) \/ CancelRead(e, d)
        \/ \E autorizado, respondido \in BOOLEAN :
              EmitViaFocus(e, autorizado, respondido)
        \/ EmitLocal(e) \/ EmitSave(e) \/ CancelSave(e) \/ FiscalDesiste(e)

FiscalNext ==
    \/ OrdersOwnNext /\ UNCHANGED fiscalOwn
    \/ FiscalOwnNext /\ UNCHANGED orderVars
    \/ Reinicia

FiscalSpec == FiscalInit /\ [][FiscalNext]_fiscalVars
-----------------------------------------------------------------------------
(* Properties *)

\* "Ja existe NFC-e autorizada para este pedido": a sale has one document in force,
\* and for what was sold, unless a re-emission was forced, two emissions overlapped,
\* or the order itself was disturbed; and what the provider authorized is known
\* here, unless the answer or its save was lost.
UmaNotaPorPedido ==
    /\ \A o \in OrderIds \ (forcados \cup emissaoDupla) :
          /\ Cardinality(Autorizados(o)) <= 1
          /\ o \notin perturbados \cup demo =>
               \A d \in Autorizados(o) : docs[d].valor = debitado[o]
    /\ \A d \in fisco \ perdidas :
          \/ docs[d].status \in {"authorized", "cancelled"}
          \/ \E e \in Emissores : Em(e, "autoriza") /\ emissao[e].doc = d

\* Local numbers are given once, as long as the server does not start again.
NumeroUnico ==
    ~reiniciou =>
        \A c, d \in DocIds :
            c # d /\ docs[c].numero > 0 => docs[c].numero # docs[d].numero
=============================================================================
