--------------------------- MODULE AccountsProofs ---------------------------
(***************************************************************************)
(* Theorems about Tenancy and Pdv, for every number of requests, rows,     *)
(* invoices and sessions and for every plan, and about Session, for every  *)
(* number of users, tabs, tokens and calls.                                *)
(***************************************************************************)
EXTENDS Session, Pdv, FiniteSetTheorems, TLAPS
-----------------------------------------------------------------------------
(* The company *)

\* What a request holds, by its program counter.
SoundPedido ==
    {q \in Pedido :
        /\ q.pc \notin {"conta", "insere", "edita"} => q.linha = Nulo
        /\ q.pc \in {"conta", "insere"} =>
             /\ q.tipo \in Recursos
             /\ q.linha # Nulo => q.tipo = "usuarios"
        /\ q.pc = "edita" => q.linha \in Linhas /\ q.ativo \in {"ativa", "inativa"}
        /\ q.pc = "grava" => q.lido.status # "none" /\ q.status \in {Nulo, q.lido.status}
        /\ q.pc \in {"paga", "pagaTenant"} => q.fatura \in Faturas}

TenancyTypeInv == TenancyTypeOK /\ pedido \in [Pedidos -> SoundPedido]

\* Before the company there is nothing, and it stays once it is there.
Nascida ==
    ~Existe => /\ \A k \in Recursos, r \in Linhas : recurso[k][r] = "none"
               /\ \A i \in Faturas : fatura[i] = "none"
               /\ \A p \in Pedidos : Em(p, "idle")

\* Two requests that create rows of one kind, change one user or save the company
\* at once are in the history.
Anotados ==
    \A p, q \in Pedidos : p # q =>
        /\ \A k \in Recursos : Criando(p, k) /\ Criando(q, k) => k \in juntos
        /\ MesmoUsuario(p, q) => "usuarios" \in juntos
        /\ Em(p, "grava") /\ Em(q, "grava") => "tenant" \in juntos

\* A request that will save a user as active found it active, and nobody changed it.
EditaAtivo ==
    "usuarios" \notin juntos =>
        \A p \in Pedidos : Em(p, "edita") /\ pedido[p].ativo = "ativa" =>
            recurso["usuarios"][pedido[p].linha] = "ativa"

\* While limits only rise: what a request read of them is no more than they are, one
\* that counted has room for its row, and a new company has no user yet.
ComLugar ==
    ~baixou =>
        /\ \A k \in Recursos \ juntos : Existe => Uso(k) <= tenant.max[k]
        /\ \A p \in Pedidos, k \in Recursos : Em(p, "conta") \/ Em(p, "insere") =>
             pedido[p].lido.max[k] <= tenant.max[k]
        /\ \A p \in Pedidos : Em(p, "insere") /\ pedido[p].tipo \notin juntos =>
             Uso(pedido[p].tipo) < tenant.max[pedido[p].tipo]
        /\ \A p \in Pedidos : Em(p, "admin") /\ "usuarios" \notin juntos =>
             Ativas("usuarios", recurso) = {}

TemPaga == \E i \in Faturas : fatura[i] = "paid"

\* The one request that has the company to save saves what it is asked, or the status
\* that the company still has, or the end that its trial came to.
SalvaComando ==
    /\ \A p \in Pedidos : Em(p, "pagaTenant") => fatura[pedido[p].fatura] = "paid"
    /\ "tenant" \notin juntos =>
         \A p \in Pedidos : Em(p, "grava") /\ pedido[p].status = Nulo =>
             \/ pedido[p].lido.status = tenant.status
             \/ /\ tenant.status = "trial"
                /\ \/ pedido[p].lido.status = "active" /\ TemPaga
                   \/ pedido[p].lido.status = "suspended" /\ trialVencido

TenancyInv ==
    TenancyTypeInv /\ Nascida /\ Anotados /\ EditaAtivo /\ ComLugar /\ SalvaComando
-----------------------------------------------------------------------------
LEMMA StoppedSound == Parado \in SoundPedido /\ Parado.pc = "idle" /\ Parado.linha = Nulo
<1>1. SemTenant \in TenantRow
  BY TenancyAssumption DEF SemTenant, TenantRow
<1> QED BY <1>1 DEF Parado, SoundPedido, Pedido

LEMMA LimitType ==
    ASSUME NEW row \in TenantRow, NEW k \in Recursos
    PROVE  row.max \in Planos /\ row.max[k] \in Nat \ {0}
BY TenancyAssumption DEF TenantRow

LEMMA UsoType ==
    ASSUME NEW k \in Recursos
    PROVE  IsFiniteSet(Ativas(k, recurso)) /\ Uso(k) \in Nat
<1>1. Ativas(k, recurso) \subseteq Linhas
  BY DEF Ativas
<1>2. IsFiniteSet(Ativas(k, recurso))
  BY <1>1, TenancyAssumption, FS_Subset
<1> QED BY <1>2, FS_CardinalityType DEF Uso

\* A row more is at most one more to count; other kinds count what they did.
LEMMA UsoMaisUm ==
    ASSUME TenancyTypeInv, NEW k \in Recursos, NEW r \in Linhas,
           recurso' = [recurso EXCEPT ![k][r] = "ativa"]
    PROVE  /\ Ativas(k, recurso)' = Ativas(k, recurso) \cup {r}
           /\ Uso(k)' <= Uso(k) + 1 /\ Uso(k)' \in Nat
           /\ recurso[k][r] = "ativa" => Uso(k)' = Uso(k)
           /\ \A j \in Recursos \ {k} : Ativas(j, recurso)' = Ativas(j, recurso) /\ Uso(j)' = Uso(j)
<1>t. recurso \in [Recursos -> [Linhas -> {"none", "ativa", "inativa"}]]
  BY DEF TenancyTypeInv, TenancyTypeOK
<1>1. Ativas(k, recurso)' = Ativas(k, recurso) \cup {r}
  BY <1>t DEF Ativas
<1>2. \A j \in Recursos \ {k} : Ativas(j, recurso)' = Ativas(j, recurso)
  BY <1>t DEF Ativas
<1>3. IsFiniteSet(Ativas(k, recurso)) /\ Uso(k) \in Nat
  BY UsoType
<1>4. r \in Ativas(k, recurso) => Ativas(k, recurso)' = Ativas(k, recurso)
  BY <1>1
<1>5. recurso[k][r] = "ativa" => r \in Ativas(k, recurso)
  BY DEF Ativas
<1>6. r \notin Ativas(k, recurso) => Uso(k)' = Uso(k) + 1
  BY <1>1, <1>3, FS_AddElement DEF Uso
<1>7. r \in Ativas(k, recurso) => Uso(k)' = Uso(k)
  BY <1>4 DEF Uso
<1>8. Uso(k)' <= Uso(k) + 1 /\ Uso(k)' \in Nat
  BY <1>3, <1>6, <1>7
<1>9. \A j \in Recursos \ {k} : Uso(j)' = Uso(j)
  BY <1>2 DEF Uso
<1> QED BY <1>1, <1>2, <1>5, <1>7, <1>8, <1>9

\* A row less is no more to count.
LEMMA UsoMenos ==
    ASSUME TenancyTypeInv, NEW k \in Recursos, NEW r \in Linhas,
           recurso' = [recurso EXCEPT ![k][r] = "inativa"]
    PROVE  /\ Ativas(k, recurso)' \subseteq Ativas(k, recurso)
           /\ Uso(k)' <= Uso(k) /\ Uso(k)' \in Nat
           /\ \A j \in Recursos \ {k} : Ativas(j, recurso)' = Ativas(j, recurso) /\ Uso(j)' = Uso(j)
<1>t. recurso \in [Recursos -> [Linhas -> {"none", "ativa", "inativa"}]]
  BY DEF TenancyTypeInv, TenancyTypeOK
<1>1. Ativas(k, recurso)' \subseteq Ativas(k, recurso)
  BY <1>t DEF Ativas
<1>2. \A j \in Recursos \ {k} : Ativas(j, recurso)' = Ativas(j, recurso)
  BY <1>t DEF Ativas
<1>3. IsFiniteSet(Ativas(k, recurso)) /\ Uso(k) \in Nat
  BY UsoType
<1>4. IsFiniteSet(Ativas(k, recurso)')
  BY <1>1, <1>3, FS_Subset
<1>5. Uso(k)' <= Uso(k) /\ Uso(k)' \in Nat
  BY <1>1, <1>3, <1>4, FS_Subset, FS_CardinalityType DEF Uso
<1> QED BY <1>1, <1>2, <1>5 DEF Uso

\* A save under way, or a limit that a save does not lower.
LEMMA HistoriaCresce ==
    ASSUME TenancyHistoria, tenant \in TenantRow, tenant' \in TenantRow, baixou \in BOOLEAN
    PROVE  /\ juntos \subseteq juntos' /\ Encontros' \subseteq juntos'
           /\ baixou' \in BOOLEAN /\ (baixou => baixou')
           /\ Existe /\ ~baixou' => \A k \in Recursos : tenant.max[k] <= tenant'.max[k]
<1>1. baixou' \in BOOLEAN /\ (baixou => baixou')
  BY DEF TenancyHistoria
<1>2. Existe /\ ~baixou' => ~Baixa
  BY Zenon DEF TenancyHistoria
<1>3. ~Baixa => \A k \in Recursos : tenant.max[k] <= tenant'.max[k]
  BY LimitType DEF Baixa
<1> QED BY <1>1, <1>2, <1>3 DEF TenancyHistoria

LEMMA TenancyStepType ==
    ASSUME TenancyTypeInv, NEW p \in Pedidos, NEW r \in SoundPedido, Segue(p, r),
           tenant' \in TenantRow, trialVencido' \in BOOLEAN,
           recurso' \in [Recursos -> [Linhas -> {"none", "ativa", "inativa"}]],
           fatura' \in [Faturas -> {"none", "pending", "paid"}], TenancyHistoria
    PROVE  /\ TenancyTypeInv' /\ Anotados'
           /\ juntos \subseteq juntos' /\ (baixou => baixou')
           /\ Existe /\ ~baixou' => \A k \in Recursos : tenant.max[k] <= tenant'.max[k]
           /\ pedido'[p] = r /\ \A q \in Pedidos : q # p => pedido'[q] = pedido[q]
<1>1. pedido' \in [Pedidos -> SoundPedido] /\ pedido' \in [Pedidos -> Pedido]
  BY DEF TenancyTypeInv, TenancyTypeOK, Segue, SoundPedido
<1>2. /\ juntos \subseteq juntos' /\ Encontros' \subseteq juntos'
      /\ baixou' \in BOOLEAN /\ (baixou => baixou')
      /\ Existe /\ ~baixou' => \A k \in Recursos : tenant.max[k] <= tenant'.max[k]
  BY HistoriaCresce DEF TenancyTypeInv, TenancyTypeOK
<1>3. juntos' \subseteq Recursos \cup {"tenant"}
  BY DEF TenancyHistoria, Encontros, TenancyTypeInv, TenancyTypeOK
<1>4. TenancyTypeInv'
  BY <1>1, <1>2, <1>3 DEF TenancyTypeInv, TenancyTypeOK
<1>5. Anotados'
  <2>1. ASSUME NEW q \in Pedidos, NEW s \in Pedidos, q # s, NEW k \in Recursos,
               Criando(q, k)', Criando(s, k)'
        PROVE  k \in juntos'
    BY <1>2, <2>1 DEF Encontros
  <2>2. ASSUME NEW q \in Pedidos, NEW s \in Pedidos, q # s, MesmoUsuario(q, s)'
        PROVE  "usuarios" \in juntos'
    BY <1>2, <2>2, TenancyAssumption DEF Encontros
  <2>3. ASSUME NEW q \in Pedidos, NEW s \in Pedidos, q # s, Em(q, "grava")', Em(s, "grava")'
        PROVE  "tenant" \in juntos'
    BY <1>2, <2>3 DEF Encontros
  <2> QED BY <2>1, <2>2, <2>3 DEF Anotados
<1>6. pedido'[p] = r /\ \A q \in Pedidos : q # p => pedido'[q] = pedido[q]
  BY DEF Segue, TenancyTypeInv, TenancyTypeOK
<1> QED BY <1>2, <1>4, <1>5, <1>6

\* A step that moves its own request alone keeps the invariant when what the request
\* goes on with is what the rows say.
LEMMA SlotStep ==
    ASSUME TenancyInv, Existe, TenancyHistoria,
           UNCHANGED <<tenant, trialVencido, recurso, fatura>>,
           NEW p \in Pedidos, NEW r \in SoundPedido, Segue(p, r), r.pc # "admin",
           r.pc = "edita" /\ r.ativo = "ativa" /\ "usuarios" \notin juntos' =>
               recurso["usuarios"][r.linha] = "ativa",
           ~baixou /\ r.pc \in {"conta", "insere"} =>
               \A k \in Recursos : r.lido.max[k] <= tenant.max[k],
           ~baixou /\ r.pc = "insere" => Uso(r.tipo) < tenant.max[r.tipo],
           r.pc = "pagaTenant" => fatura[r.fatura] = "paid",
           r.pc = "grava" /\ r.status = Nulo =>
             \/ r.lido.status = tenant.status
             \/ /\ tenant.status = "trial"
                /\ \/ r.lido.status = "active" /\ TemPaga
                   \/ r.lido.status = "suspended" /\ trialVencido
    PROVE  TenancyInv'
<1>1. /\ TenancyTypeInv' /\ Anotados'
      /\ juntos \subseteq juntos' /\ (baixou => baixou')
      /\ pedido'[p] = r /\ \A q \in Pedidos : q # p => pedido'[q] = pedido[q]
  BY TenancyStepType DEF TenancyInv, TenancyTypeInv, TenancyTypeOK
<1>2. Nascida'
  BY DEF Nascida, Existe
<1>3. EditaAtivo'
  BY <1>1 DEF EditaAtivo, TenancyInv, Em
<1>4. ComLugar'
  <2> SUFFICES ASSUME ~baixou' PROVE ComLugar'
    BY DEF ComLugar
  <2>0. ~baixou
    BY <1>1
  <2>u. \A k : Uso(k)' = Uso(k) /\ Ativas(k, recurso)' = Ativas(k, recurso)
    BY DEF Uso, Ativas
  <2>1. \A k \in Recursos \ juntos' : Existe' => Uso(k)' <= tenant'.max[k]
    BY <1>1, <2>0, <2>u DEF TenancyInv, ComLugar, Existe
  <2>2. \A q \in Pedidos, k \in Recursos : Em(q, "conta")' \/ Em(q, "insere")' =>
          pedido'[q].lido.max[k] <= tenant'.max[k]
    BY <1>1, <2>0 DEF TenancyInv, ComLugar, Em
  <2>3. \A q \in Pedidos : (Em(q, "insere") /\ pedido[q].tipo \notin juntos)' =>
          (Uso(pedido[q].tipo) < tenant.max[pedido[q].tipo])'
    BY <1>1, <2>0, <2>u DEF TenancyInv, ComLugar, Em
  <2>4. \A q \in Pedidos : Em(q, "admin")' /\ "usuarios" \notin juntos' =>
          Ativas("usuarios", recurso)' = {}
    BY <1>1, <2>0, <2>u DEF TenancyInv, ComLugar, Em
  <2> QED BY <2>1, <2>2, <2>3, <2>4 DEF ComLugar
<1>5. SalvaComando'
  BY <1>1 DEF SalvaComando, TenancyInv, Em, TemPaga
<1> QED BY <1>1, <1>2, <1>3, <1>4, <1>5 DEF TenancyInv
-----------------------------------------------------------------------------
(* The steps that move a request alone *)

\* A company whose rows are not empty, or that has a request, is there.
LEMMA Presente ==
    ASSUME TenancyInv
    PROVE  /\ \A p \in Pedidos : ~Em(p, "idle") => Existe
           /\ \A k \in Recursos, r \in Linhas : recurso[k][r] # "none" => Existe
           /\ \A i \in Faturas : fatura[i] # "none" => Existe
BY DEF TenancyInv, Nascida

LEMMA TenantTyped ==
    ASSUME TenancyInv, Existe
    PROVE  tenant \in TenantRow /\ tenant.status \in Status
BY DEF TenancyInv, TenancyTypeInv, TenancyTypeOK, TenantRow, Existe

LEMMA AlteraStep ==
    ASSUME TenancyInv, TenancyHistoria, NEW p \in Pedidos, NEW st \in Status \cup {Nulo},
           NEW m \in Planos \cup {tenant.max}, Altera(p, st, m)
    PROVE  TenancyInv'
<1> DEFINE lido == [status |-> IF st = Nulo THEN tenant.status ELSE st, max |-> m]
           r == [Parado EXCEPT !.pc = "grava", !.status = st, !.lido = lido]
<1>1. Existe /\ tenant \in TenantRow /\ tenant.status \in Status
  BY TenantTyped DEF Altera
<1>2. lido \in TenantRow /\ lido.status \in Status /\ (st = Nulo => lido.status = tenant.status)
      /\ (st # Nulo => lido.status = st)
  BY <1>1 DEF TenantRow
<1>3. /\ r \in SoundPedido /\ r.pc = "grava" /\ r.lido = lido /\ r.status = st
  <2>1. lido.status # "none"
    BY <1>2 DEF Status
  <2> HIDE DEF lido
  <2> QED BY <1>2, <2>1 DEF Parado, SoundPedido, Pedido
<1>4. Segue(p, r) /\ UNCHANGED <<tenant, trialVencido, recurso, fatura>>
  BY DEF Altera
<1> HIDE DEF r, lido
<1> QED BY <1>1, <1>2, <1>3, <1>4, SlotStep

LEMMA PagaLeStep ==
    ASSUME TenancyInv, TenancyHistoria, NEW p \in Pedidos, NEW i \in Faturas, PagaLe(p, i)
    PROVE  TenancyInv'
<1> DEFINE r == [Parado EXCEPT !.pc = "paga", !.fatura = i]
<1>1. r \in SoundPedido /\ r.pc = "paga"
  BY StoppedSound DEF Parado, SoundPedido, Pedido
<1>2. Existe
  BY Presente DEF PagaLe
<1>3. Segue(p, r) /\ UNCHANGED <<tenant, trialVencido, recurso, fatura>>
  BY DEF PagaLe
<1> HIDE DEF r
<1> QED BY <1>1, <1>2, <1>3, SlotStep

LEMMA PagaTenantStep ==
    ASSUME TenancyInv, TenancyHistoria, NEW p \in Pedidos, PagaTenant(p)
    PROVE  TenancyInv'
<1> DEFINE r == [Parado EXCEPT !.pc = "grava", !.lido = Pago(tenant)]
<1>1. Existe
  BY Presente DEF PagaTenant, Em
<1>2. /\ Pago(tenant) \in TenantRow /\ Pago(tenant).status \in Status
      /\ \/ Pago(tenant).status = tenant.status
         \/ tenant.status = "trial" /\ Pago(tenant).status = "active"
  BY <1>1, TenantTyped DEF Pago, TenantRow, Status
<1>3. r \in SoundPedido /\ r.pc = "grava" /\ r.lido = Pago(tenant)
  BY <1>2 DEF Parado, SoundPedido, Pedido, Status
<1>4. Segue(p, r) /\ UNCHANGED <<tenant, trialVencido, recurso, fatura>>
  BY DEF PagaTenant
<1>5. TemPaga
  <2>1. pedido[p].fatura \in Faturas /\ fatura[pedido[p].fatura] = "paid"
    BY DEF PagaTenant, TenancyInv, TenancyTypeInv, SoundPedido, SalvaComando, Em
  <2> QED BY <2>1 DEF TemPaga
<1> HIDE DEF r
<1> QED BY <1>1, <1>2, <1>3, <1>4, <1>5, SlotStep

LEMMA ExpiraStep ==
    ASSUME TenancyInv, TenancyHistoria, NEW p \in Pedidos, Expira(p)
    PROVE  TenancyInv'
<1> DEFINE lido == [tenant EXCEPT !.status = "suspended"]
           r == [Parado EXCEPT !.pc = "grava", !.lido = lido]
<1>1. Existe /\ tenant.status = "trial" /\ trialVencido
  BY DEF Expira, Existe
<1>2. lido \in TenantRow /\ lido.status = "suspended"
  BY <1>1, TenantTyped DEF TenantRow, Status
<1>3. r \in SoundPedido /\ r.pc = "grava" /\ r.lido = lido
  <2> HIDE DEF lido
  <2> QED BY <1>2 DEF Parado, SoundPedido, Pedido
<1>4. Segue(p, r) /\ UNCHANGED <<tenant, trialVencido, recurso, fatura>>
  BY DEF Expira
<1> HIDE DEF r, lido
<1> QED BY <1>1, <1>2, <1>3, <1>4, SlotStep

LEMMA CriaLeStep ==
    ASSUME TenancyInv, TenancyHistoria, NEW p \in Pedidos, NEW k \in Recursos, CriaLe(p, k)
    PROVE  TenancyInv'
<1> DEFINE r == [Parado EXCEPT !.pc = "conta", !.tipo = k, !.lido = tenant]
<1>1. Existe /\ tenant \in TenantRow
  BY TenantTyped DEF CriaLe
<1>2. r \in SoundPedido /\ r.pc = "conta" /\ r.lido = tenant
  BY <1>1 DEF Parado, SoundPedido, Pedido
<1>3. Segue(p, r) /\ UNCHANGED <<tenant, trialVencido, recurso, fatura>>
  BY DEF CriaLe
<1>4. \A j \in Recursos : r.lido.max[j] <= tenant.max[j]
  BY <1>1, <1>2, LimitType
<1> HIDE DEF r
<1> QED BY <1>1, <1>2, <1>3, <1>4, SlotStep

LEMMA EditaLeStep ==
    ASSUME TenancyInv, TenancyHistoria, NEW p \in Pedidos, NEW l \in Linhas,
           NEW ativo \in {"ativa", "inativa"}, EditaLe(p, l, ativo)
    PROVE  TenancyInv'
<1> DEFINE pc == IF ativo = "ativa" /\ recurso["usuarios"][l] = "inativa"
                 THEN "conta" ELSE "edita"
           r == [Parado EXCEPT !.pc = pc, !.tipo = "usuarios", !.linha = l,
                               !.lido = tenant, !.ativo = ativo]
<1>1. Existe /\ tenant \in TenantRow
  BY Presente, TenantTyped, TenancyAssumption DEF EditaLe
<1>2. /\ recurso["usuarios"][l] \in {"ativa", "inativa"}
      /\ pc \in {"conta", "edita"}
      /\ pc = "edita" /\ ativo = "ativa" => recurso["usuarios"][l] = "ativa"
  BY TenancyAssumption DEF EditaLe, TenancyInv, TenancyTypeInv, TenancyTypeOK
<1>3. Segue(p, r) /\ UNCHANGED <<tenant, trialVencido, recurso, fatura>>
  BY DEF EditaLe
<1>4. /\ r \in SoundPedido /\ r.pc = pc /\ r.lido = tenant /\ r.ativo = ativo
      /\ r.linha = l
  <2> HIDE DEF pc
  <2> QED BY <1>1, <1>2, TenancyAssumption DEF Parado, SoundPedido, Pedido
<1> HIDE DEF r, pc
<1>5. \A j \in Recursos : r.lido.max[j] <= tenant.max[j]
  BY <1>1, <1>4, LimitType
<1> QED BY <1>1, <1>2, <1>3, <1>4, <1>5, SlotStep

LEMMA CriaContaStep ==
    ASSUME TenancyInv, TenancyHistoria, NEW p \in Pedidos, CriaConta(p)
    PROVE  TenancyInv'
<1> DEFINE q == pedido[p]
           r == [q EXCEPT !.pc = "insere"]
<1>0. Em(p, "conta") /\ Cabe(q.tipo, q.lido) /\ Segue(p, r)
      /\ UNCHANGED <<tenant, trialVencido, recurso, fatura>>
  BY DEF CriaConta
<1>1. Existe
  BY <1>0, Presente DEF Em
<1>2. q \in SoundPedido /\ q.pc = "conta" /\ q.tipo \in Recursos /\ q.lido \in TenantRow
  BY <1>0 DEF Em, TenancyInv, TenancyTypeInv, SoundPedido, Pedido
<1>3. r \in SoundPedido /\ r.pc = "insere" /\ r.lido = q.lido /\ r.tipo = q.tipo
  BY <1>2 DEF SoundPedido, Pedido
<1>4. ~baixou => \A k \in Recursos : r.lido.max[k] <= tenant.max[k]
  BY <1>0, <1>3 DEF TenancyInv, ComLugar
<1>5. ~baixou => Uso(r.tipo) < tenant.max[r.tipo]
  <2>1. tenant \in TenantRow /\ tenant.max[q.tipo] \in Nat /\ q.lido.max[q.tipo] \in Nat
    BY <1>1, <1>2, TenantTyped, LimitType
  <2>2. Uso(q.tipo) \in Nat /\ Uso(q.tipo) < q.lido.max[q.tipo]
    BY <1>0, <1>2, UsoType DEF Cabe
  <2> HIDE DEF q, r
  <2> QED BY <1>2, <1>3, <1>4, <2>1, <2>2
<1> HIDE DEF r, q
<1> QED BY <1>0, <1>1, <1>3, <1>4, <1>5, SlotStep

LEMMA TenancyDesisteStep ==
    ASSUME TenancyInv, TenancyHistoria, NEW p \in Pedidos, Desiste(p)
    PROVE  TenancyInv'
<1>1. Existe
  BY Presente DEF Desiste
<1>2. Segue(p, Parado) /\ UNCHANGED <<tenant, trialVencido, recurso, fatura>>
  BY DEF Desiste, Encerra
<1> QED BY <1>1, <1>2, StoppedSound, SlotStep
-----------------------------------------------------------------------------
(* The steps that change the company or its rows *)

\* The new company has no row, so its admin will be its first user.
LEMMA ProvisionaStep ==
    ASSUME TenancyInv, TenancyHistoria, NEW p \in Pedidos, NEW m \in Planos,
           NEW comAdmin \in BOOLEAN, Provisiona(p, m, comAdmin)
    PROVE  TenancyInv'
<1> DEFINE admin == [Parado EXCEPT !.pc = "admin"]
<1>0. /\ ~Existe /\ tenant' = [status |-> "trial", max |-> m]
      /\ IF comAdmin THEN Segue(p, admin) ELSE Segue(p, Parado)
      /\ UNCHANGED <<trialVencido, recurso, fatura>>
  BY DEF Provisiona, Encerra
<1>a. admin \in SoundPedido /\ admin.pc = "admin"
  BY StoppedSound DEF Parado, SoundPedido, Pedido
<1> HIDE DEF admin
<1>r. PICK r \in {admin, Parado} : Segue(p, r)
  BY <1>0
<1>s. r \in SoundPedido /\ r.pc \in {"idle", "admin"}
  BY <1>a, StoppedSound
<1>t. tenant' \in TenantRow /\ tenant'.status = "trial"
  BY <1>0 DEF TenantRow, Status
<1>1. /\ TenancyTypeInv' /\ Anotados'
      /\ pedido'[p] = r /\ \A q \in Pedidos : q # p => pedido'[q] = pedido[q]
  BY <1>0, <1>r, <1>s, <1>t, TenancyStepType DEF TenancyInv, TenancyTypeInv, TenancyTypeOK
<1>2. \A q \in Pedidos : pedido'[q].pc \in {"idle", "admin"}
  BY <1>0, <1>1, <1>s DEF TenancyInv, Nascida, Em
<1>3. \A k \in Recursos : Ativas(k, recurso)' = {} /\ Uso(k)' = 0
  <2>1. \A k \in Recursos : Ativas(k, recurso)' = {}
    BY <1>0 DEF TenancyInv, Nascida, Ativas
  <2> QED BY <2>1, FS_EmptySet DEF Uso
<1>4. Nascida'
  BY <1>t DEF Nascida, Existe
<1>5. EditaAtivo' /\ SalvaComando'
  BY <1>2 DEF EditaAtivo, SalvaComando, Em
<1>6. ComLugar'
  <2>1. \A k \in Recursos : Uso(k)' <= tenant'.max[k]
    BY <1>3, <1>t, LimitType
  <2> QED BY <1>2, <1>3, <2>1, TenancyAssumption DEF ComLugar, Em
<1> QED BY <1>1, <1>4, <1>5, <1>6 DEF TenancyInv

\* A row of kind k becomes active by the hand of request p, which had counted a place
\* for it or is the first.
LEMMA NovaLinha ==
    ASSUME TenancyInv, TenancyHistoria, NEW p \in Pedidos, NEW k \in Recursos, NEW r \in Linhas,
           Criando(p, k), Segue(p, Parado), recurso' = [recurso EXCEPT ![k][r] = "ativa"],
           UNCHANGED <<tenant, trialVencido, fatura>>,
           ~baixou /\ k \notin juntos' => Uso(k) < tenant.max[k]
    PROVE  TenancyInv'
<1>0. Existe /\ tenant \in TenantRow
  BY Presente, TenantTyped DEF Criando, Em
<1>t. recurso' \in [Recursos -> [Linhas -> {"none", "ativa", "inativa"}]]
  BY DEF TenancyInv, TenancyTypeInv, TenancyTypeOK
<1>1. /\ TenancyTypeInv' /\ Anotados'
      /\ juntos \subseteq juntos' /\ (baixou => baixou')
      /\ pedido'[p] = Parado /\ \A q \in Pedidos : q # p => pedido'[q] = pedido[q]
  BY <1>t, StoppedSound, TenancyStepType DEF TenancyInv, TenancyTypeInv, TenancyTypeOK
<1>2. /\ Ativas(k, recurso)' = Ativas(k, recurso) \cup {r}
      /\ Uso(k)' <= Uso(k) + 1 /\ Uso(k)' \in Nat
      /\ \A j \in Recursos \ {k} : Ativas(j, recurso)' = Ativas(j, recurso) /\ Uso(j)' = Uso(j)
  BY UsoMaisUm DEF TenancyInv
<1>3. \A q \in Pedidos : q # p /\ Criando(q, k) => k \in juntos
  BY DEF TenancyInv, Anotados
<1>p. pedido'[p].pc = "idle"
  BY <1>1, StoppedSound
<1>4. Nascida'
  BY <1>0 DEF Nascida, Existe
<1>5. EditaAtivo'
  <2> SUFFICES ASSUME "usuarios" \notin juntos', NEW q \in Pedidos, Em(q, "edita")',
                      pedido'[q].ativo = "ativa"
               PROVE  recurso'["usuarios"][pedido'[q].linha] = "ativa"
    BY DEF EditaAtivo
  <2>1. q # p /\ pedido'[q] = pedido[q] /\ Em(q, "edita")
    BY <1>p, <1>1 DEF Em
  <2>2. recurso["usuarios"][pedido[q].linha] = "ativa" /\ pedido[q].linha \in Linhas
    BY <1>1, <2>1 DEF TenancyInv, EditaAtivo, TenancyTypeInv, SoundPedido, Em
  <2> QED BY <2>1, <2>2, TenancyAssumption DEF TenancyInv, TenancyTypeInv, TenancyTypeOK
<1>6. ComLugar'
  <2> SUFFICES ASSUME ~baixou' PROVE ComLugar'
    BY DEF ComLugar
  <2>0. ~baixou /\ Uso(k) \in Nat /\ tenant.max[k] \in Nat
    BY <1>0, <1>1, UsoType, LimitType
  <2>1. \A j \in Recursos \ juntos' : Existe' => Uso(j)' <= tenant'.max[j]
    <3> SUFFICES ASSUME NEW j \in Recursos, j \notin juntos' PROVE Uso(j)' <= tenant.max[j]
      OBVIOUS
    <3>1. CASE j = k
      BY <1>2, <2>0, <3>1
    <3>2. CASE j # k
      BY <1>0, <1>1, <1>2, <2>0, <3>2 DEF TenancyInv, ComLugar
    <3> QED BY <3>1, <3>2
  <2>2. \A q \in Pedidos, j \in Recursos : Em(q, "conta")' \/ Em(q, "insere")' =>
          pedido'[q].lido.max[j] <= tenant'.max[j]
    BY <1>1, <1>p, <2>0 DEF TenancyInv, ComLugar, Em
  <2>3. \A q \in Pedidos : (Em(q, "insere") /\ pedido[q].tipo \notin juntos)' =>
          (Uso(pedido[q].tipo) < tenant.max[pedido[q].tipo])'
    <3> SUFFICES ASSUME NEW q \in Pedidos, pedido'[q].pc = "insere",
                        pedido'[q].tipo \notin juntos'
                 PROVE  (Uso(pedido[q].tipo) < tenant.max[pedido[q].tipo])'
      BY DEF Em
    <3>1. q # p /\ pedido'[q] = pedido[q] /\ pedido[q].tipo \in Recursos /\ Em(q, "insere")
      BY <1>p, <1>1 DEF TenancyInv, TenancyTypeInv, SoundPedido, Em
    <3>2. pedido[q].tipo # k
      BY <1>1, <1>3, <3>1 DEF Criando, Em
    <3>3. Uso(pedido[q].tipo) < tenant.max[pedido[q].tipo]
      BY <1>1, <2>0, <3>1 DEF TenancyInv, ComLugar
    <3> DEFINE j == pedido[q].tipo
    <3>4. Uso(j)' = Uso(j)' /\ (Uso(pedido[q].tipo))' = Cardinality(Ativas(j, recurso)')
      BY <3>1 DEF Uso, Ativas
    <3>5. Cardinality(Ativas(j, recurso)') = Uso(j)
      BY <1>2, <3>1, <3>2 DEF Uso
    <3> QED BY <3>1, <3>3, <3>4, <3>5
  <2>4. \A q \in Pedidos : Em(q, "admin")' /\ "usuarios" \notin juntos' =>
          Ativas("usuarios", recurso)' = {}
    <3> SUFFICES ASSUME NEW q \in Pedidos, pedido'[q].pc = "admin", "usuarios" \notin juntos'
                 PROVE  Ativas("usuarios", recurso)' = {}
      BY DEF Em
    <3>1. q # p /\ Em(q, "admin")
      BY <1>p, <1>1 DEF Em
    <3>2. k # "usuarios"
      BY <1>1, <1>3, <3>1 DEF Criando, Em
    <3>3. Ativas("usuarios", recurso) = {}
      BY <1>1, <2>0, <3>1 DEF TenancyInv, ComLugar
    <3> QED BY <1>2, <3>2, <3>3, TenancyAssumption
  <2> QED BY <2>1, <2>2, <2>3, <2>4 DEF ComLugar
<1>7. SalvaComando'
  BY <1>1, <1>p DEF SalvaComando, TenancyInv, Em, TemPaga
<1> QED BY <1>1, <1>4, <1>5, <1>6, <1>7 DEF TenancyInv

LEMMA ProvisionaAdminStep ==
    ASSUME TenancyInv, TenancyHistoria, NEW p \in Pedidos, NEW r \in Linhas, ProvisionaAdmin(p, r)
    PROVE  TenancyInv'
<1>1. /\ Em(p, "admin") /\ Segue(p, Parado)
      /\ recurso' = [recurso EXCEPT !["usuarios"][r] = "ativa"]
      /\ UNCHANGED <<tenant, trialVencido, fatura>>
  BY DEF ProvisionaAdmin, Encerra
<1>2. Criando(p, "usuarios") /\ Existe /\ "usuarios" \in Recursos
  BY <1>1, Presente, TenancyAssumption DEF Criando, Em
<1>3. ASSUME ~baixou, "usuarios" \notin juntos' PROVE Uso("usuarios") < tenant.max["usuarios"]
  <2>1. "usuarios" \notin juntos
    BY <1>3 DEF TenancyHistoria
  <2>2. Ativas("usuarios", recurso) = {}
    BY <1>1, <1>3, <2>1 DEF TenancyInv, ComLugar
  <2>3. Uso("usuarios") = 0
    BY <2>2, FS_EmptySet DEF Uso
  <2>4. tenant.max["usuarios"] \in Nat \ {0}
    BY <1>2, TenantTyped, LimitType
  <2> QED BY <2>3, <2>4
<1> QED BY <1>1, <1>2, <1>3, NovaLinha

LEMMA CriaInsereStep ==
    ASSUME TenancyInv, TenancyHistoria, NEW p \in Pedidos, NEW r \in Linhas, CriaInsere(p, r)
    PROVE  TenancyInv'
<1> DEFINE k == pedido[p].tipo
<1>1. /\ Em(p, "insere") /\ Segue(p, Parado)
      /\ recurso' = [recurso EXCEPT ![k][r] = "ativa"]
      /\ UNCHANGED <<tenant, trialVencido, fatura>>
  BY DEF CriaInsere, Encerra
<1>2. k \in Recursos /\ Criando(p, k)
  BY <1>1 DEF TenancyInv, TenancyTypeInv, SoundPedido, Criando, Em
<1>3. ASSUME ~baixou, k \notin juntos' PROVE Uso(k) < tenant.max[k]
  BY <1>1, <1>3 DEF TenancyInv, ComLugar, TenancyHistoria
<1> HIDE DEF k
<1> QED BY <1>1, <1>2, <1>3, NovaLinha

LEMMA EditaStep ==
    ASSUME TenancyInv, TenancyHistoria, NEW p \in Pedidos, Edita(p)
    PROVE  TenancyInv'
<1> DEFINE u == "usuarios"
           l == pedido[p].linha
           ativo == pedido[p].ativo
<1>0. /\ Em(p, "edita") /\ Segue(p, Parado) /\ recurso' = [recurso EXCEPT ![u][l] = ativo]
      /\ UNCHANGED <<tenant, trialVencido, fatura>>
  BY DEF Edita, Encerra
<1>e. Existe /\ tenant \in TenantRow /\ u \in Recursos
  BY <1>0, Presente, TenantTyped, TenancyAssumption DEF Em
<1>l. l \in Linhas /\ ativo \in {"ativa", "inativa"} /\ l # Nulo
  BY <1>0, TenancyAssumption DEF TenancyInv, TenancyTypeInv, SoundPedido, Em
<1>m. u \notin juntos => (ativo = "ativa" => recurso[u][l] = "ativa")
  BY <1>0 DEF TenancyInv, EditaAtivo
<1>o. \A q \in Pedidos : q # p /\ pedido[q].linha = l => u \in juntos
  BY <1>l DEF TenancyInv, Anotados, MesmoUsuario
<1>t. recurso' \in [Recursos -> [Linhas -> {"none", "ativa", "inativa"}]]
  BY <1>0, <1>e, <1>l DEF TenancyInv, TenancyTypeInv, TenancyTypeOK
<1> HIDE DEF l, ativo, u
<1>1. /\ TenancyTypeInv' /\ Anotados'
      /\ juntos \subseteq juntos' /\ (baixou => baixou')
      /\ pedido'[p] = Parado /\ \A q \in Pedidos : q # p => pedido'[q] = pedido[q]
  BY <1>0, <1>t, StoppedSound, TenancyStepType DEF TenancyInv, TenancyTypeInv, TenancyTypeOK
<1>p. pedido'[p].pc = "idle"
  BY <1>1, StoppedSound
<1>2. /\ \A j \in Recursos \ {u} : Ativas(j, recurso)' = Ativas(j, recurso) /\ Uso(j)' = Uso(j)
      /\ u \notin juntos =>
           Ativas(u, recurso)' \subseteq Ativas(u, recurso) /\ Uso(u)' <= Uso(u)
      /\ Uso(u)' \in Nat
  <2>1. CASE ativo = "ativa"
    <3>1. /\ Ativas(u, recurso)' = Ativas(u, recurso) \cup {l} /\ Uso(u)' \in Nat
          /\ recurso[u][l] = "ativa" => Uso(u)' = Uso(u)
          /\ \A j \in Recursos \ {u} : Ativas(j, recurso)' = Ativas(j, recurso) /\ Uso(j)' = Uso(j)
      BY <1>0, <1>e, <1>l, <2>1, UsoMaisUm DEF TenancyInv
    <3>2. recurso[u][l] = "ativa" => l \in Ativas(u, recurso)
      BY <1>l DEF Ativas
    <3> QED BY <1>m, <2>1, <3>1, <3>2
  <2>2. CASE ativo = "inativa"
    BY <1>0, <1>e, <1>l, <2>2, UsoMenos DEF TenancyInv
  <2> QED BY <1>l, <2>1, <2>2
<1>4. Nascida'
  BY <1>e, <1>0 DEF Nascida, Existe
<1>5. EditaAtivo'
  <2> SUFFICES ASSUME u \notin juntos', NEW q \in Pedidos, Em(q, "edita")',
                      pedido'[q].ativo = "ativa"
               PROVE  recurso'[u][pedido'[q].linha] = "ativa"
    BY DEF EditaAtivo, u
  <2>1. q # p /\ pedido'[q] = pedido[q] /\ Em(q, "edita")
    BY <1>p, <1>1 DEF Em
  <2>2. recurso[u][pedido[q].linha] = "ativa" /\ pedido[q].linha \in Linhas
    BY <1>1, <2>1 DEF TenancyInv, EditaAtivo, TenancyTypeInv, SoundPedido, Em, u
  <2>3. pedido[q].linha # l
    BY <1>1, <1>o, <2>1
  <2> QED BY <1>0, <1>e, <1>l, <2>1, <2>2, <2>3 DEF TenancyInv, TenancyTypeInv, TenancyTypeOK
<1>6. ComLugar'
  <2> SUFFICES ASSUME ~baixou' PROVE ComLugar'
    BY DEF ComLugar
  <2>0. ~baixou /\ \A j \in Recursos : Uso(j) \in Nat /\ tenant.max[j] \in Nat
    BY <1>e, <1>1, UsoType, LimitType
  <2>m. \A j \in Recursos : j \notin juntos => Uso(j)' <= Uso(j) /\ Uso(j)' \in Nat
    BY <1>2, <2>0
  <2>1. \A j \in Recursos \ juntos' : Existe' => Uso(j)' <= tenant'.max[j]
    <3> SUFFICES ASSUME NEW j \in Recursos, j \notin juntos' PROVE Uso(j)' <= tenant.max[j]
      BY <1>0
    <3>1. Uso(j) <= tenant.max[j]
      BY <1>e, <1>1, <2>0 DEF TenancyInv, ComLugar
    <3> QED BY <1>1, <2>0, <2>m, <3>1
  <2>2. \A q \in Pedidos, j \in Recursos : Em(q, "conta")' \/ Em(q, "insere")' =>
          pedido'[q].lido.max[j] <= tenant'.max[j]
    BY <1>0, <1>1, <1>p, <2>0 DEF TenancyInv, ComLugar, Em
  <2>3. \A q \in Pedidos : (Em(q, "insere") /\ pedido[q].tipo \notin juntos)' =>
          (Uso(pedido[q].tipo) < tenant.max[pedido[q].tipo])'
    <3> SUFFICES ASSUME NEW q \in Pedidos, pedido'[q].pc = "insere",
                        pedido'[q].tipo \notin juntos'
                 PROVE  (Uso(pedido[q].tipo) < tenant.max[pedido[q].tipo])'
      BY DEF Em
    <3>1. q # p /\ pedido'[q] = pedido[q] /\ pedido[q].tipo \in Recursos /\ Em(q, "insere")
      BY <1>p, <1>1 DEF TenancyInv, TenancyTypeInv, SoundPedido, Em
    <3>3. pedido[q].tipo \notin juntos /\ Uso(pedido[q].tipo) < tenant.max[pedido[q].tipo]
      BY <1>1, <2>0, <3>1 DEF TenancyInv, ComLugar
    <3> DEFINE j == pedido[q].tipo
    <3>4. (Uso(pedido[q].tipo))' = Cardinality(Ativas(j, recurso)')
      BY <3>1 DEF Uso, Ativas
    <3>5. Cardinality(Ativas(j, recurso)') <= Uso(j) /\ Cardinality(Ativas(j, recurso)') \in Nat
      BY <2>m, <3>1, <3>3 DEF Uso
    <3>6. tenant'.max[pedido'[q].tipo] = tenant.max[j]
      BY <1>0, <3>1
    <3> HIDE DEF j
    <3>7. Uso(j) < tenant.max[j] /\ Uso(j) \in Nat /\ tenant.max[j] \in Nat
      BY <2>0, <3>1, <3>3 DEF j
    <3> QED BY <3>4, <3>5, <3>6, <3>7
  <2>4. \A q \in Pedidos : Em(q, "admin")' /\ u \notin juntos' => Ativas(u, recurso)' = {}
    <3> SUFFICES ASSUME NEW q \in Pedidos, pedido'[q].pc = "admin", u \notin juntos'
                 PROVE  Ativas(u, recurso)' = {}
      BY DEF Em
    <3>1. q # p /\ Em(q, "admin") /\ u \notin juntos
      BY <1>p, <1>1 DEF Em
    <3>3. Ativas(u, recurso) = {}
      BY <2>0, <3>1 DEF TenancyInv, ComLugar, u
    <3> QED BY <1>2, <3>1, <3>3
  <2> QED BY <2>1, <2>2, <2>3, <2>4 DEF ComLugar, u
<1>7. SalvaComando'
  BY <1>0, <1>1, <1>p DEF SalvaComando, TenancyInv, Em, TemPaga
<1> QED BY <1>1, <1>4, <1>5, <1>6, <1>7 DEF TenancyInv

\* The save of the company's row: a limit that it lowers is in the history.
LEMMA SalvaStep ==
    ASSUME TenancyInv, TenancyHistoria, NEW p \in Pedidos, Salva(p)
    PROVE  TenancyInv'
<1>0. /\ Em(p, "grava") /\ tenant' = pedido[p].lido /\ Segue(p, Parado)
      /\ UNCHANGED <<trialVencido, recurso, fatura>>
  BY DEF Salva, Encerra
<1>e. Existe /\ tenant \in TenantRow
  BY <1>0, Presente, TenantTyped DEF Em
<1>t. tenant' \in TenantRow /\ tenant'.status # "none"
  BY <1>0 DEF TenancyInv, TenancyTypeInv, SoundPedido, Pedido, Em
<1>1. /\ TenancyTypeInv' /\ Anotados'
      /\ juntos \subseteq juntos' /\ (baixou => baixou')
      /\ ~baixou' => \A k \in Recursos : tenant.max[k] <= tenant'.max[k]
      /\ pedido'[p] = Parado /\ \A q \in Pedidos : q # p => pedido'[q] = pedido[q]
  BY <1>0, <1>e, <1>t, StoppedSound, TenancyStepType
  DEF TenancyInv, TenancyTypeInv, TenancyTypeOK
<1>p. pedido'[p].pc = "idle"
  BY <1>1, StoppedSound
<1>4. Nascida' /\ Existe'
  BY <1>t DEF Nascida, Existe
<1>5. EditaAtivo'
  BY <1>0, <1>1, <1>p DEF EditaAtivo, TenancyInv, Em
<1>6. ComLugar'
  <2> SUFFICES ASSUME ~baixou' PROVE ComLugar'
    BY DEF ComLugar
  <2>0. ~baixou /\ \A k \in Recursos : /\ Uso(k) \in Nat /\ tenant.max[k] \in Nat
                                       /\ tenant'.max[k] \in Nat
                                       /\ tenant.max[k] <= tenant'.max[k]
    BY <1>e, <1>t, <1>1, UsoType, LimitType
  <2>u. \A k : Uso(k)' = Uso(k) /\ Ativas(k, recurso)' = Ativas(k, recurso)
    BY <1>0 DEF Uso, Ativas
  <2>1. \A k \in Recursos \ juntos' : Existe' => Uso(k)' <= tenant'.max[k]
    <3> SUFFICES ASSUME NEW k \in Recursos, k \notin juntos' PROVE Uso(k)' <= tenant'.max[k]
      OBVIOUS
    <3>1. Uso(k) <= tenant.max[k]
      BY <1>e, <1>1, <2>0 DEF TenancyInv, ComLugar
    <3> QED BY <2>0, <2>u, <3>1
  <2>2. \A q \in Pedidos, k \in Recursos : Em(q, "conta")' \/ Em(q, "insere")' =>
          pedido'[q].lido.max[k] <= tenant'.max[k]
    <3> SUFFICES ASSUME NEW q \in Pedidos, NEW k \in Recursos,
                        pedido'[q].pc \in {"conta", "insere"}
                 PROVE  pedido'[q].lido.max[k] <= tenant'.max[k]
      BY DEF Em
    <3>1. q # p /\ pedido'[q] = pedido[q]
      BY <1>p, <1>1
    <3>2. pedido[q].lido.max[k] <= tenant.max[k]
      BY <2>0, <3>1 DEF TenancyInv, ComLugar, Em
    <3>3. pedido[q].lido.max[k] \in Nat
      BY LimitType DEF TenancyInv, TenancyTypeInv, SoundPedido, Pedido
    <3> QED BY <2>0, <3>1, <3>2, <3>3
  <2>3. \A q \in Pedidos : (Em(q, "insere") /\ pedido[q].tipo \notin juntos)' =>
          (Uso(pedido[q].tipo) < tenant.max[pedido[q].tipo])'
    <3> SUFFICES ASSUME NEW q \in Pedidos, pedido'[q].pc = "insere",
                        pedido'[q].tipo \notin juntos'
                 PROVE  (Uso(pedido[q].tipo) < tenant.max[pedido[q].tipo])'
      BY DEF Em
    <3>1. q # p /\ pedido'[q] = pedido[q] /\ pedido[q].tipo \in Recursos /\ Em(q, "insere")
      BY <1>p, <1>1 DEF TenancyInv, TenancyTypeInv, SoundPedido, Em
    <3> DEFINE j == pedido[q].tipo
    <3>3. Uso(j) < tenant.max[j]
      BY <1>1, <2>0, <3>1 DEF TenancyInv, ComLugar
    <3>4. (Uso(pedido[q].tipo))' = Uso(j)
      BY <1>0, <3>1 DEF Uso, Ativas
    <3>5. (tenant.max[pedido[q].tipo])' = tenant'.max[j] /\ j \in Recursos
      BY <3>1
    <3> HIDE DEF j
    <3> QED BY <2>0, <3>3, <3>4, <3>5
  <2>4. \A q \in Pedidos : Em(q, "admin")' /\ "usuarios" \notin juntos' =>
          Ativas("usuarios", recurso)' = {}
    BY <1>1, <1>p, <2>0, <2>u DEF TenancyInv, ComLugar, Em
  <2> QED BY <2>1, <2>2, <2>3, <2>4 DEF ComLugar
<1>7. SalvaComando'
  <2>1. \A q \in Pedidos : Em(q, "pagaTenant")' => fatura'[pedido'[q].fatura] = "paid"
    BY <1>0, <1>1, <1>p DEF TenancyInv, SalvaComando, Em
  <2>2. "tenant" \notin juntos' => \A q \in Pedidos : ~Em(q, "grava")'
    <3> SUFFICES ASSUME "tenant" \notin juntos', NEW q \in Pedidos, pedido'[q].pc = "grava"
                 PROVE  FALSE
      BY DEF Em
    <3>1. q # p /\ Em(q, "grava")
      BY <1>p, <1>1 DEF Em
    <3> QED BY <1>0, <1>1, <3>1 DEF TenancyInv, Anotados
  <2> QED BY <2>1, <2>2 DEF SalvaComando
<1> QED BY <1>1, <1>4, <1>5, <1>6, <1>7 DEF TenancyInv

\* Steps that leave the company, its rows and what the requests read of them.
LEMMA InvoiceStep ==
    ASSUME TenancyInv, TenancyTypeInv', Anotados', juntos \subseteq juntos',
           baixou => baixou', UNCHANGED <<tenant, recurso>>, Existe,
           trialVencido => trialVencido',
           \A i \in Faturas : fatura[i] = "paid" => fatura'[i] = "paid",
           \A q \in Pedidos :
             \/ pedido'[q] = pedido[q]
             \/ pedido'[q].pc = "pagaTenant" /\ fatura'[pedido'[q].fatura] = "paid"
    PROVE  TenancyInv'
<1>1. Nascida'
  BY DEF Nascida, Existe
<1>2. EditaAtivo'
  BY DEF EditaAtivo, TenancyInv, Em
<1>3. ComLugar'
  <2> SUFFICES ASSUME ~baixou' PROVE ComLugar'
    BY DEF ComLugar
  <2>u. \A k : Uso(k)' = Uso(k) /\ Ativas(k, recurso)' = Ativas(k, recurso)
    BY DEF Uso, Ativas
  <2>1. \A k \in Recursos \ juntos' : Existe' => Uso(k)' <= tenant'.max[k]
    BY <2>u DEF TenancyInv, ComLugar
  <2>2. \A q \in Pedidos, k \in Recursos : Em(q, "conta")' \/ Em(q, "insere")' =>
          pedido'[q].lido.max[k] <= tenant'.max[k]
    BY DEF TenancyInv, ComLugar, Em
  <2>3. \A q \in Pedidos : (Em(q, "insere") /\ pedido[q].tipo \notin juntos)' =>
          (Uso(pedido[q].tipo) < tenant.max[pedido[q].tipo])'
    BY <2>u DEF TenancyInv, ComLugar, Em
  <2>4. \A q \in Pedidos : Em(q, "admin")' /\ "usuarios" \notin juntos' =>
          Ativas("usuarios", recurso)' = {}
    BY <2>u DEF TenancyInv, ComLugar, Em
  <2> QED BY <2>1, <2>2, <2>3, <2>4 DEF ComLugar
<1>4. SalvaComando'
  <2>1. TemPaga => TemPaga'
    BY DEF TemPaga
  <2>2. ASSUME NEW q \in Pedidos, Em(q, "pagaTenant")'
        PROVE  fatura'[pedido'[q].fatura] = "paid"
    <3>1. CASE pedido'[q] = pedido[q]
      BY <2>2, <3>1 DEF TenancyInv, TenancyTypeInv, SoundPedido, SalvaComando, Em
    <3> QED BY <3>1
  <2>3. ASSUME "tenant" \notin juntos', NEW q \in Pedidos, Em(q, "grava")',
               pedido'[q].status = Nulo
        PROVE  \/ pedido'[q].lido.status = tenant'.status
               \/ /\ tenant'.status = "trial"
                  /\ \/ pedido'[q].lido.status = "active" /\ TemPaga'
                     \/ pedido'[q].lido.status = "suspended" /\ trialVencido'
    BY <2>1, <2>3 DEF TenancyInv, SalvaComando, Em
  <2> QED BY <2>2, <2>3 DEF SalvaComando
<1> QED BY <1>1, <1>2, <1>3, <1>4 DEF TenancyInv

LEMMA PagaFaturaStep ==
    ASSUME TenancyInv, TenancyHistoria, NEW p \in Pedidos, PagaFatura(p)
    PROVE  TenancyInv'
<1> DEFINE q == pedido[p]
           r == [q EXCEPT !.pc = "pagaTenant"]
<1>0. /\ Em(p, "paga") /\ fatura' = [fatura EXCEPT ![q.fatura] = "paid"] /\ Segue(p, r)
      /\ UNCHANGED <<tenant, trialVencido, recurso>>
  BY DEF PagaFatura
<1>1. q \in SoundPedido /\ q.pc = "paga" /\ q.fatura \in Faturas
  BY <1>0 DEF TenancyInv, TenancyTypeInv, SoundPedido, Em
<1>2. r \in SoundPedido /\ r.pc = "pagaTenant" /\ r.fatura = q.fatura
  BY <1>1 DEF SoundPedido, Pedido
<1>e. Existe
  BY <1>0, Presente DEF Em
<1> HIDE DEF q, r
<1>3. /\ fatura' \in [Faturas -> {"none", "pending", "paid"}]
      /\ fatura'[q.fatura] = "paid"
      /\ \A i \in Faturas : fatura[i] = "paid" => fatura'[i] = "paid"
  BY <1>0, <1>1 DEF TenancyInv, TenancyTypeInv, TenancyTypeOK
<1>4. /\ TenancyTypeInv' /\ Anotados'
      /\ juntos \subseteq juntos' /\ (baixou => baixou')
      /\ pedido'[p] = r /\ \A s \in Pedidos : s # p => pedido'[s] = pedido[s]
  BY <1>0, <1>2, <1>3, TenancyStepType DEF TenancyInv, TenancyTypeInv, TenancyTypeOK
<1>5. \A s \in Pedidos :
        \/ pedido'[s] = pedido[s]
        \/ pedido'[s].pc = "pagaTenant" /\ fatura'[pedido'[s].fatura] = "paid"
  BY <1>2, <1>3, <1>4
<1> QED BY <1>0, <1>e, <1>3, <1>4, <1>5, InvoiceStep

\* Steps of no request.
LEMMA SemPedidoStep ==
    ASSUME TenancyInv, TenancyHistoria, (\E i \in Faturas : CriaFatura(i)) \/ VenceTrial
    PROVE  TenancyInv'
<1> DEFINE Quieto ==
           /\ UNCHANGED <<tenant, recurso, pedido>> /\ Existe
           /\ trialVencido => trialVencido'
           /\ trialVencido' \in BOOLEAN
           /\ fatura' \in [Faturas -> {"none", "pending", "paid"}]
           /\ \A i \in Faturas : fatura[i] = "paid" => fatura'[i] = "paid"
<1>1. Quieto
  <2>1. ASSUME NEW i \in Faturas, CriaFatura(i) PROVE Quieto
    BY <2>1 DEF CriaFatura, TenancyInv, TenancyTypeInv, TenancyTypeOK
  <2>2. CASE VenceTrial
    BY <2>2 DEF VenceTrial, TenancyInv, TenancyTypeInv, TenancyTypeOK
  <2> HIDE DEF Quieto
  <2> QED BY <2>1, <2>2
<1>2. /\ juntos \subseteq juntos' /\ juntos' \subseteq Recursos \cup {"tenant"}
      /\ baixou => baixou'
      /\ baixou' \in BOOLEAN
  <2>1. /\ juntos \subseteq juntos' /\ (baixou => baixou') /\ baixou' \in BOOLEAN
    BY <1>1, HistoriaCresce DEF TenancyInv, TenancyTypeInv, TenancyTypeOK
  <2>2. juntos' \subseteq Recursos \cup {"tenant"}
    BY DEF TenancyHistoria, Encontros, TenancyInv, TenancyTypeInv, TenancyTypeOK
  <2> QED BY <2>1, <2>2
<1>3. TenancyTypeInv'
  <2>1. /\ tenant' \in TenantRow /\ pedido' \in [Pedidos -> SoundPedido]
        /\ recurso' \in [Recursos -> [Linhas -> {"none", "ativa", "inativa"}]]
        /\ pedido' \in [Pedidos -> Pedido]
    BY <1>1 DEF TenancyInv, TenancyTypeInv, TenancyTypeOK
  <2> QED BY <1>1, <1>2, <2>1 DEF TenancyTypeInv, TenancyTypeOK
<1>4. Anotados'
  BY <1>1, <1>2 DEF TenancyInv, Anotados, Criando, MesmoUsuario, Em
<1> QED BY <1>1, <1>2, <1>3, <1>4, InvoiceStep

LEMMA TenancyInitInv == TenancyInit => TenancyInv
<1> SUFFICES ASSUME TenancyInit PROVE TenancyInv
  OBVIOUS
<1>1. SemTenant \in TenantRow /\ SemTenant.status = "none"
  BY TenancyAssumption DEF SemTenant, TenantRow
<1>2. \A p \in Pedidos : pedido[p] = Parado /\ pedido[p].pc = "idle" /\ pedido[p].linha = Nulo
  BY StoppedSound DEF TenancyInit
<1>3. TenancyTypeInv
  <2>1. Parado \in Pedido
    BY StoppedSound DEF SoundPedido
  <2>2. pedido \in [Pedidos -> Pedido] /\ pedido \in [Pedidos -> SoundPedido]
    BY <2>1, StoppedSound DEF TenancyInit
  <2>3. trialVencido \in BOOLEAN /\ baixou \in BOOLEAN
    BY Zenon DEF TenancyInit
  <2>4. /\ recurso \in [Recursos -> [Linhas -> {"none", "ativa", "inativa"}]]
        /\ fatura \in [Faturas -> {"none", "pending", "paid"}]
        /\ juntos \subseteq Recursos \cup {"tenant"} /\ tenant \in TenantRow
    BY <1>1 DEF TenancyInit
  <2> QED BY <2>2, <2>3, <2>4 DEF TenancyTypeInv, TenancyTypeOK
<1>4. Nascida
  BY <1>2 DEF Nascida, TenancyInit, Em
<1>5. Anotados /\ EditaAtivo /\ SalvaComando
  BY <1>2 DEF Anotados, EditaAtivo, SalvaComando, Criando, MesmoUsuario, Em
<1>6. ComLugar
  <2>1. ~Existe
    BY <1>1 DEF Existe, TenancyInit
  <2> QED BY <1>2, <2>1 DEF ComLugar, Em
<1> QED BY <1>3, <1>4, <1>5, <1>6 DEF TenancyInv

LEMMA TenancyNextInv == TenancyInv /\ [TenancyNext]_tenancyVars => TenancyInv'
<1> SUFFICES ASSUME TenancyInv, [TenancyNext]_tenancyVars PROVE TenancyInv'
  OBVIOUS
<1>1. CASE UNCHANGED tenancyVars
  BY <1>1 DEF tenancyVars, TenancyInv, TenancyTypeInv, TenancyTypeOK, Nascida, Anotados,
              EditaAtivo, ComLugar, SalvaComando, Existe, Em, Criando, MesmoUsuario, Uso,
              Ativas, TemPaga
<1>2. CASE TenancyHistoria /\ ((\E i \in Faturas : CriaFatura(i)) \/ VenceTrial)
  BY <1>2, SemPedidoStep
<1>3. ASSUME NEW p \in Pedidos, Atende(p), TenancyHistoria PROVE TenancyInv'
  BY <1>3, ProvisionaStep, ProvisionaAdminStep, AlteraStep, SalvaStep, PagaLeStep,
     PagaFaturaStep, PagaTenantStep, ExpiraStep, CriaLeStep, EditaLeStep, EditaStep,
     CriaContaStep, CriaInsereStep, TenancyDesisteStep
  DEF Atende
<1> QED BY <1>1, <1>2, <1>3 DEF TenancyNext
-----------------------------------------------------------------------------
LEMMA InvImpliesLimite == TenancyInv => DentroDoLimite
BY DEF TenancyInv, ComLugar, DentroDoLimite

\* A company has no more active users, events or terminals than its plan allows, for
\* any plans, rows and requests, unless two requests created one at once, two changed
\* the same user, or a limit was lowered.
THEOREM WithinThePlan == TenancySpec => []DentroDoLimite
<1>1. TenancySpec => []TenancyInv
  BY TenancyInitInv, TenancyNextInv, PTL DEF TenancySpec
<1> QED BY <1>1, InvImpliesLimite, PTL

\* What a step may do to the status of the company.
StatusMuda ==
    LET was == tenant.status
        is == tenant'.status
        mandado == \E p \in Pedidos : Em(p, "grava") /\ pedido[p].status = is
    IN  was # is /\ was # "none" /\ "tenant" \notin juntos' =>
           \/ mandado
           \/ was = "trial" /\ is = "suspended" /\ trialVencido
           \/ was = "trial" /\ is = "active" /\ \E i \in Faturas : fatura[i] = "paid"

LEMMA StepStatus ==
    ASSUME TenancyInv, [TenancyNext]_tenancyVars
    PROVE  StatusMuda
<1>1. ASSUME NEW p \in Pedidos, Salva(p), TenancyHistoria PROVE StatusMuda
  <2> SUFFICES ASSUME tenant.status # tenant'.status, "tenant" \notin juntos'
               PROVE  \/ \E q \in Pedidos : Em(q, "grava") /\ pedido[q].status = tenant'.status
                      \/ tenant.status = "trial" /\ tenant'.status = "suspended" /\ trialVencido
                      \/ /\ tenant.status = "trial" /\ tenant'.status = "active"
                         /\ \E i \in Faturas : fatura[i] = "paid"
    BY DEF StatusMuda
  <2>1. Em(p, "grava") /\ tenant' = pedido[p].lido /\ "tenant" \notin juntos
    BY <1>1 DEF Salva, TenancyHistoria
  <2>2. pedido[p].status \in {Nulo, tenant'.status}
    BY <2>1 DEF TenancyInv, TenancyTypeInv, SoundPedido, Em
  <2>3. CASE pedido[p].status = Nulo
    BY <2>1, <2>3 DEF TenancyInv, SalvaComando, TemPaga
  <2> QED BY <2>1, <2>2, <2>3
<1>2. CASE tenant' = tenant
  BY <1>2 DEF StatusMuda
<1>3. ASSUME NEW p \in Pedidos, NEW m \in Planos, NEW c \in BOOLEAN, Provisiona(p, m, c)
      PROVE  StatusMuda
  BY <1>3 DEF StatusMuda, Provisiona, Existe
<1>4. ASSUME NEW p \in Pedidos, Atende(p), TenancyHistoria PROVE StatusMuda
  BY <1>1, <1>2, <1>3, <1>4
  DEF Atende, ProvisionaAdmin, Altera, PagaLe, PagaFatura, PagaTenant, Expira, CriaLe,
      EditaLe, Edita, CriaConta, CriaInsere, Desiste
<1> QED BY <1>2, <1>4 DEF TenancyNext, CriaFatura, VenceTrial, tenancyVars

\* The status of a company changes only by a command, by the end of its trial or by
\* a payment within it, unless two requests had its row to save at once.
THEOREM StatusByCommand == TenancySpec => StatusPorComando
<1>1. TenancySpec => []TenancyInv
  BY TenancyInitInv, TenancyNextInv, PTL DEF TenancySpec
<1>2. TenancyInv /\ [TenancyNext]_tenancyVars => [StatusMuda]_tenancyVars
  BY StepStatus
<1> QED BY <1>1, <1>2, PTL DEF TenancySpec, StatusPorComando, StatusMuda
-----------------------------------------------------------------------------
(* Sessions of the terminals *)

SoundAcao ==
    {a \in [pc : {"idle", "abre", "insere", "fecha", "desliga"},
            pdv : Linhas \cup {Nulo}, sessao : Sessoes \cup {Nulo}] :
        IF a.pc = "idle" THEN a.pdv = Nulo
        ELSE a.pdv \in Linhas /\ (a.pc = "fecha" => a.sessao \in Sessoes)}

PdvTypeInv ==
    /\ PdvTypeOK
    /\ acao \in [Operadores -> SoundAcao]
    /\ \A s \in Sessoes : sessao[s].aberta => sessao[s].pdv \in Linhas
    /\ \A o \in Operadores : acao[o].pc = "fecha" => sessao[acao[o].sessao].pdv = acao[o].pdv

Separados ==
    \A o, q \in Operadores :
        o # q /\ acao[o].pdv = acao[q].pdv => acao[o].pdv \in {Nulo} \cup perturbados

\* A terminal that no request is at work on.
EmRepouso(t) ==
    /\ \A r, s \in Abertas(t) : r = s
    /\ t \in online <=> Abertas(t) # {}

\* A terminal between the writes of request a, which is alone with it.
NoMeio(t, a) ==
    CASE a.pc = "abre"    -> Abertas(t) = {} /\ t \notin online
      [] a.pc = "insere"  -> Abertas(t) = {} /\ t \in online
      [] a.pc = "fecha"   -> Abertas(t) = {a.sessao} /\ t \in online
      [] a.pc = "desliga" -> Abertas(t) = {} /\ t \in online
      [] OTHER            -> FALSE

Coerente(t) ==
    /\ (\A o \in Operadores : acao[o].pdv # t) => EmRepouso(t)
    /\ \A o \in Operadores : acao[o].pdv = t => NoMeio(t, acao[o])

PdvInv == PdvTypeInv /\ Separados /\ \A t \in Linhas \ perturbados : Coerente(t)
-----------------------------------------------------------------------------
\* A step of pdv.service moves its own request alone, and two on a terminal are noted.
LEMMA PdvStepType ==
    ASSUME PdvTypeInv, NEW o \in Operadores, NEW a \in SoundAcao, Vai(o, a),
           online' \subseteq Linhas,
           sessao' \in [Sessoes -> [pdv : Linhas \cup {Nulo}, aberta : BOOLEAN]],
           \A s \in Sessoes : sessao'[s].aberta => sessao'[s].pdv \in Linhas,
           \A s \in Sessoes : sessao[s].pdv # Nulo => sessao'[s].pdv = sessao[s].pdv,
           a.pc = "fecha" => sessao'[a.sessao].pdv = a.pdv,
           NEW parou \in SUBSET Linhas, Anota(parou)
    PROVE  /\ PdvTypeInv'
           /\ \A p, q \in Operadores : p # q /\ acao'[p].pdv = acao'[q].pdv =>
                acao'[p].pdv \in {Nulo} \cup perturbados'
           /\ perturbados \subseteq perturbados' /\ parou \subseteq perturbados'
           /\ acao'[o] = a /\ \A q \in Operadores : q # o => acao'[q] = acao[q]
<1>1. acao' \in [Operadores -> SoundAcao]
  BY DEF PdvTypeInv, Vai
<1>2. \A q \in Operadores : acao'[q].pdv \in Linhas \cup {Nulo}
  BY <1>1 DEF SoundAcao
<1>3. /\ perturbados \subseteq perturbados' /\ parou \subseteq perturbados'
      /\ perturbados' \subseteq Linhas
  BY DEF Anota, PdvTypeInv, PdvTypeOK
<1>6. acao'[o] = a /\ \A q \in Operadores : q # o => acao'[q] = acao[q]
  BY DEF Vai, PdvTypeInv
<1>4. PdvTypeInv'
  <2>1. acao' \in [Operadores -> [pc : {"idle", "abre", "insere", "fecha", "desliga"},
                                  pdv : Linhas \cup {Nulo}, sessao : Sessoes \cup {Nulo}]]
    BY <1>1 DEF SoundAcao
  <2>2. ASSUME NEW q \in Operadores, acao'[q].pc = "fecha"
        PROVE  sessao'[acao'[q].sessao].pdv = acao'[q].pdv
    <3>1. CASE q = o
      BY <1>6, <2>2, <3>1
    <3>2. CASE q # o
      <4>1. /\ acao'[q] = acao[q] /\ acao[q].sessao \in Sessoes /\ acao[q].pdv # Nulo
            /\ sessao[acao[q].sessao].pdv = acao[q].pdv
        BY <1>6, <2>2, <3>2, TenancyAssumption DEF PdvTypeInv, SoundAcao
      <4> QED BY <4>1
    <3> QED BY <3>1, <3>2
  <2> QED BY <1>1, <1>3, <2>1, <2>2 DEF PdvTypeInv, PdvTypeOK
<1>5. \A p, q \in Operadores : p # q /\ acao'[p].pdv = acao'[q].pdv =>
        acao'[p].pdv \in {Nulo} \cup perturbados'
  <2> SUFFICES ASSUME NEW p \in Operadores, NEW q \in Operadores, p # q,
                      acao'[p].pdv = acao'[q].pdv, acao'[p].pdv # Nulo
               PROVE  acao'[p].pdv \in perturbados'
    OBVIOUS
  <2>1. acao'[p].pdv \in Linhas
    BY <1>2
  <2> QED BY <2>1 DEF Anota
<1> QED BY <1>3, <1>4, <1>5, <1>6

\* A step of request o on terminal t keeps the invariant when it leaves t coherent.
LEMMA PdvStepInv ==
    ASSUME PdvInv, PdvTypeInv', NEW o \in Operadores, NEW t \in Linhas,
           \A p, q \in Operadores : p # q /\ acao'[p].pdv = acao'[q].pdv =>
             acao'[p].pdv \in {Nulo} \cup perturbados',
           perturbados \subseteq perturbados',
           \A q \in Operadores : q # o => acao'[q] = acao[q],
           acao[o].pdv \in {Nulo, t}, acao'[o].pdv \in {Nulo, t},
           t \in {acao[o].pdv, acao'[o].pdv},
           \A x \in Linhas \ {t} : /\ Abertas(x)' = Abertas(x)
                                   /\ (x \in online') = (x \in online),
           t \notin perturbados' =>
             IF acao'[o].pdv = t THEN NoMeio(t, acao[o])' ELSE EmRepouso(t)'
    PROVE  PdvInv'
<1>1. Separados'
  BY DEF Separados
<1>2. ASSUME NEW x \in Linhas \ perturbados' PROVE Coerente(x)'
  <2>1. Coerente(x) /\ x \notin perturbados /\ x # Nulo
    BY TenancyAssumption DEF PdvInv
  <2>2. CASE x # t
    <3>1. /\ Abertas(x)' = Abertas(x) /\ (x \in online') = (x \in online)
          /\ acao[o].pdv # x /\ acao'[o].pdv # x
      BY <2>1, <2>2
    <3>2. \A q \in Operadores : acao'[q].pdv = x => acao[q].pdv = x /\ acao'[q] = acao[q]
      BY <3>1
    <3>3. \A q \in Operadores : acao[q].pdv = x => acao'[q].pdv = x
      BY <3>1
    <3>4. EmRepouso(x) => EmRepouso(x)'
      BY <3>1 DEF EmRepouso
    <3>5. \A q \in Operadores : acao'[q].pdv = x /\ NoMeio(x, acao[q]) => NoMeio(x, acao[q])'
      <4> TAKE q \in Operadores
      <4> HAVE acao'[q].pdv = x /\ NoMeio(x, acao[q])
      <4>1. acao'[q] = acao[q]
        BY <3>2
      <4> QED BY <4>1, <3>1 DEF NoMeio
    <3> QED BY <2>1, <3>2, <3>3, <3>4, <3>5 DEF Coerente
  <2>3. CASE x = t
    <3>1. \A q \in Operadores : q # o => acao'[q].pdv # t
      <4> SUFFICES ASSUME NEW q \in Operadores, q # o, acao'[q].pdv = t PROVE FALSE
        OBVIOUS
      <4>1. acao[q].pdv = t
        OBVIOUS
      <4>2. acao[o].pdv # t
        BY <2>1, <2>3, <4>1 DEF PdvInv, Separados
      <4>3. acao'[o].pdv # t
        BY <1>2, <2>1, <2>3
      <4> QED BY <4>2, <4>3
    <3>2. CASE acao'[o].pdv = t
      BY <1>2, <2>3, <3>1, <3>2 DEF Coerente
    <3>3. CASE acao'[o].pdv # t
      BY <1>2, <2>3, <3>1, <3>3 DEF Coerente
    <3> QED BY <3>2, <3>3
  <2> QED BY <2>2, <2>3
<1> QED BY <1>1, <1>2 DEF PdvInv

\* What a terminal looks like that request o has, or that nobody has.
LEMMA PdvAqui ==
    ASSUME PdvInv, NEW o \in Operadores, acao[o].pc # "idle"
    PROVE  /\ acao[o] \in SoundAcao /\ acao[o].pdv \in Linhas
           /\ acao[o].pdv \notin perturbados => NoMeio(acao[o].pdv, acao[o])
BY DEF PdvInv, PdvTypeInv, SoundAcao, Coerente

LEMMA PdvLivre ==
    ASSUME PdvInv, NEW o \in Operadores, NEW t \in Linhas, acao[o].pc = "idle",
           acao'[o].pdv = t, perturbados \subseteq perturbados', t \notin perturbados',
           \A p, q \in Operadores : p # q /\ acao'[p].pdv = acao'[q].pdv =>
             acao'[p].pdv \in {Nulo} \cup perturbados',
           \A q \in Operadores : q # o => acao'[q] = acao[q]
    PROVE  EmRepouso(t)
<1>1. t \notin perturbados /\ t # Nulo /\ acao[o].pdv = Nulo
  BY TenancyAssumption DEF PdvInv, PdvTypeInv, SoundAcao
<1>2. \A q \in Operadores : acao[q].pdv # t
  <2> SUFFICES ASSUME NEW q \in Operadores, acao[q].pdv = t PROVE FALSE
    OBVIOUS
  <2>1. q # o /\ acao'[q].pdv = t
    BY <1>1
  <2> QED BY <1>1, <2>1
<1> QED BY <1>1, <1>2 DEF PdvInv, Coerente

LEMMA IdleAcao == SemAcao \in SoundAcao /\ SemAcao.pdv = Nulo /\ SemAcao.pc = "idle"
BY DEF SemAcao, SoundAcao

LEMMA OpenSessionStep ==
    ASSUME PdvInv, NEW o \in Operadores, NEW t \in Linhas, OpenSession(o, t)
    PROVE  PdvInv'
<1> DEFINE a == [pc |-> "abre", pdv |-> t, sessao |-> Nulo]
<1>0. /\ acao[o].pc = "idle" /\ Abertas(t) = {} /\ Vai(o, a) /\ Anota({})
      /\ UNCHANGED <<online, sessao>>
  BY DEF OpenSession, PodeAbrir
<1>a. a \in SoundAcao /\ a.pc = "abre" /\ a.pdv = t
  BY DEF SoundAcao
<1> HIDE DEF a
<1>1. /\ PdvTypeInv'
      /\ \A p, q \in Operadores : p # q /\ acao'[p].pdv = acao'[q].pdv =>
           acao'[p].pdv \in {Nulo} \cup perturbados'
      /\ perturbados \subseteq perturbados'
      /\ acao'[o] = a /\ \A q \in Operadores : q # o => acao'[q] = acao[q]
  BY <1>0, <1>a, PdvStepType DEF PdvInv, PdvTypeInv, PdvTypeOK
<1>2. acao[o].pdv = Nulo
  BY <1>0 DEF PdvInv, PdvTypeInv, SoundAcao
<1>3. \A x \in Linhas : Abertas(x)' = Abertas(x)
  BY <1>0 DEF Abertas
<1>4. ASSUME t \notin perturbados' PROVE NoMeio(t, acao[o])'
  <2>1. EmRepouso(t)
    BY <1>0, <1>a, <1>1, <1>4, PdvLivre
  <2> QED BY <1>0, <1>a, <1>1, <1>3, <2>1 DEF EmRepouso, NoMeio
<1> QED BY <1>0, <1>a, <1>1, <1>2, <1>3, <1>4, PdvStepInv

LEMMA CloseSessionStep ==
    ASSUME PdvInv, NEW o \in Operadores, NEW s \in Sessoes, CloseSession(o, s)
    PROVE  PdvInv'
<1>5. PICK t : sessao[s].pdv = t
  OBVIOUS
<1> DEFINE a == [pc |-> "fecha", pdv |-> t, sessao |-> s]
<1>0. /\ acao[o].pc = "idle" /\ sessao[s].aberta /\ Vai(o, a) /\ Anota({})
      /\ UNCHANGED <<online, sessao>>
  BY <1>5 DEF CloseSession
<1>t. t \in Linhas /\ s \in Abertas(t)
  BY <1>0, <1>5 DEF PdvInv, PdvTypeInv, Abertas
<1>a. a \in SoundAcao /\ a.pc = "fecha" /\ a.pdv = t /\ a.sessao = s
  BY <1>t DEF SoundAcao
<1>s. sessao'[s].pdv = t
  BY <1>0, <1>5
<1> HIDE DEF a
<1>1. /\ PdvTypeInv'
      /\ \A p, q \in Operadores : p # q /\ acao'[p].pdv = acao'[q].pdv =>
           acao'[p].pdv \in {Nulo} \cup perturbados'
      /\ perturbados \subseteq perturbados'
      /\ acao'[o] = a /\ \A q \in Operadores : q # o => acao'[q] = acao[q]
  BY <1>0, <1>a, <1>s, PdvStepType DEF PdvInv, PdvTypeInv, PdvTypeOK
<1>2. acao[o].pdv = Nulo
  BY <1>0 DEF PdvInv, PdvTypeInv, SoundAcao
<1>3. \A x \in Linhas : Abertas(x)' = Abertas(x)
  BY <1>0 DEF Abertas
<1>4. ASSUME t \notin perturbados' PROVE NoMeio(t, acao[o])'
  <2>1. EmRepouso(t)
    BY <1>0, <1>a, <1>t, <1>1, <1>4, PdvLivre
  <2>2. Abertas(t) = {s} /\ t \in online
    BY <1>t, <2>1 DEF EmRepouso
  <2>3. NoMeio(t, a)'
    BY <1>0, <1>a, <1>t, <1>3, <2>2 DEF NoMeio
  <2> QED BY <1>1, <2>3
<1> QED BY <1>0, <1>a, <1>t, <1>1, <1>2, <1>3, <1>4, PdvStepInv

LEMMA OpenTerminalStep ==
    ASSUME PdvInv, NEW o \in Operadores, OpenTerminal(o)
    PROVE  PdvInv'
<1>5. PICK t : acao[o].pdv = t
  OBVIOUS
<1> DEFINE a == [acao[o] EXCEPT !.pc = "insere"]
<1>0. /\ acao[o].pc = "abre" /\ online' = online \cup {t} /\ Vai(o, a) /\ Anota({})
      /\ UNCHANGED sessao
  BY <1>5 DEF OpenTerminal
<1>t. acao[o] \in SoundAcao /\ t \in Linhas /\ (t \notin perturbados => NoMeio(t, acao[o]))
  BY <1>0, <1>5, PdvAqui
<1>a. a \in SoundAcao /\ a.pc = "insere" /\ a.pdv = t
  BY <1>0, <1>5, <1>t DEF SoundAcao
<1> HIDE DEF a
<1>1. /\ PdvTypeInv'
      /\ \A p, q \in Operadores : p # q /\ acao'[p].pdv = acao'[q].pdv =>
           acao'[p].pdv \in {Nulo} \cup perturbados'
      /\ perturbados \subseteq perturbados'
      /\ acao'[o] = a /\ \A q \in Operadores : q # o => acao'[q] = acao[q]
  <2>1. online' \subseteq Linhas
    BY <1>0, <1>t DEF PdvInv, PdvTypeInv, PdvTypeOK
  <2> QED BY <1>0, <1>a, <2>1, PdvStepType DEF PdvInv, PdvTypeInv, PdvTypeOK
<1>3. \A x \in Linhas : Abertas(x)' = Abertas(x) /\ (x # t => (x \in online') = (x \in online))
  BY <1>0 DEF Abertas
<1>4. ASSUME t \notin perturbados' PROVE NoMeio(t, acao[o])'
  <2>1. Abertas(t) = {}
    BY <1>0, <1>t, <1>1, <1>4 DEF NoMeio
  <2>2. t \in online'
    BY <1>0
  <2> QED BY <1>a, <1>t, <1>1, <1>3, <2>1, <2>2 DEF NoMeio
<1> QED BY <1>a, <1>t, <1>1, <1>3, <1>4, <1>5, PdvStepInv

LEMMA OpenInsertStep ==
    ASSUME PdvInv, NEW o \in Operadores, NEW s \in Sessoes, OpenInsert(o, s)
    PROVE  PdvInv'
<1>5. PICK t : acao[o].pdv = t
  OBVIOUS
<1>0. /\ acao[o].pc = "insere" /\ sessao[s] = SemSessao /\ Vai(o, SemAcao) /\ Anota({})
      /\ sessao' = [sessao EXCEPT ![s] = [pdv |-> t, aberta |-> TRUE]] /\ UNCHANGED online
  BY <1>5 DEF OpenInsert
<1>t. t \in Linhas /\ (t \notin perturbados => NoMeio(t, acao[o]))
  BY <1>0, <1>5, PdvAqui
<1>s. /\ sessao \in [Sessoes -> [pdv : Linhas \cup {Nulo}, aberta : BOOLEAN]]
      /\ sessao' \in [Sessoes -> [pdv : Linhas \cup {Nulo}, aberta : BOOLEAN]]
      /\ sessao'[s].pdv = t /\ sessao'[s].aberta /\ ~sessao[s].aberta /\ sessao[s].pdv = Nulo
      /\ \A x \in Sessoes : x # s => sessao'[x] = sessao[x]
  BY <1>0, <1>t DEF PdvInv, PdvTypeInv, PdvTypeOK, SemSessao
<1>1. /\ PdvTypeInv'
      /\ \A p, q \in Operadores : p # q /\ acao'[p].pdv = acao'[q].pdv =>
           acao'[p].pdv \in {Nulo} \cup perturbados'
      /\ perturbados \subseteq perturbados'
      /\ acao'[o] = SemAcao /\ \A q \in Operadores : q # o => acao'[q] = acao[q]
  <2>1. /\ online' \subseteq Linhas
        /\ \A x \in Sessoes : sessao'[x].aberta => sessao'[x].pdv \in Linhas
    BY <1>0, <1>s, <1>t DEF PdvInv, PdvTypeInv, PdvTypeOK
  <2> QED BY <1>0, <1>s, <2>1, IdleAcao, PdvStepType DEF PdvInv
<1>3. \A x \in Linhas \ {t} : Abertas(x)' = Abertas(x)
  BY <1>s DEF Abertas
<1>4. ASSUME t \notin perturbados' PROVE EmRepouso(t)'
  <2>1. Abertas(t) = {} /\ t \in online
    BY <1>0, <1>t, <1>1, <1>4 DEF NoMeio
  <2>2. Abertas(t)' = {s}
    BY <1>s, <2>1 DEF Abertas
  <2> QED BY <1>0, <2>1, <2>2 DEF EmRepouso
<1>6. acao'[o].pdv = Nulo /\ t # Nulo
  BY <1>1, <1>t, IdleAcao, TenancyAssumption
<1> QED BY <1>0, <1>t, <1>1, <1>3, <1>4, <1>5, <1>6, PdvStepInv

LEMMA CloseSaveStep ==
    ASSUME PdvInv, NEW o \in Operadores, CloseSave(o)
    PROVE  PdvInv'
<1>5. PICK t, s : acao[o].pdv = t /\ acao[o].sessao = s
  OBVIOUS
<1> DEFINE a == [acao[o] EXCEPT !.pc = "desliga"]
<1>0. /\ acao[o].pc = "fecha" /\ sessao' = [sessao EXCEPT ![s].aberta = FALSE]
      /\ Vai(o, a) /\ Anota({}) /\ UNCHANGED online
  BY <1>5 DEF CloseSave
<1>t. acao[o] \in SoundAcao /\ t \in Linhas /\ (t \notin perturbados => NoMeio(t, acao[o]))
  BY <1>0, <1>5, PdvAqui
<1>a. a \in SoundAcao /\ a.pc = "desliga" /\ a.pdv = t /\ s \in Sessoes
  BY <1>0, <1>5, <1>t DEF SoundAcao
<1> HIDE DEF a
<1>s. /\ sessao' \in [Sessoes -> [pdv : Linhas \cup {Nulo}, aberta : BOOLEAN]]
      /\ ~sessao'[s].aberta /\ sessao'[s].pdv = sessao[s].pdv
      /\ \A x \in Sessoes : x # s => sessao'[x] = sessao[x]
  BY <1>0, <1>a DEF PdvInv, PdvTypeInv, PdvTypeOK
<1>1. /\ PdvTypeInv'
      /\ \A p, q \in Operadores : p # q /\ acao'[p].pdv = acao'[q].pdv =>
           acao'[p].pdv \in {Nulo} \cup perturbados'
      /\ perturbados \subseteq perturbados'
      /\ acao'[o] = a /\ \A q \in Operadores : q # o => acao'[q] = acao[q]
  <2>1. /\ online' \subseteq Linhas
        /\ \A x \in Sessoes : sessao'[x].aberta => sessao'[x].pdv \in Linhas
    BY <1>0, <1>s DEF PdvInv, PdvTypeInv, PdvTypeOK
  <2> QED BY <1>0, <1>s, <1>a, <2>1, PdvStepType DEF PdvInv
<1>2. /\ Abertas(t)' = Abertas(t) \ {s}
      /\ \A x \in Linhas \ {t} : Abertas(x)' = Abertas(x)
  <2>1. sessao[s].pdv = t
    BY <1>0, <1>5 DEF PdvInv, PdvTypeInv
  <2> QED BY <1>s, <1>a, <2>1 DEF Abertas
<1>4. ASSUME t \notin perturbados' PROVE NoMeio(t, acao[o])'
  <2>1. Abertas(t) = {s} /\ t \in online
    BY <1>0, <1>t, <1>1, <1>4, <1>5 DEF NoMeio
  <2>2. Abertas(t)' = {} /\ t \in online'
    BY <1>0, <1>2, <1>t, <2>1
  <2> QED BY <1>a, <1>1, <2>2 DEF NoMeio
<1> QED BY <1>0, <1>t, <1>a, <1>1, <1>2, <1>4, <1>5, PdvStepInv

LEMMA CloseTerminalStep ==
    ASSUME PdvInv, NEW o \in Operadores, CloseTerminal(o)
    PROVE  PdvInv'
<1>5. PICK t : acao[o].pdv = t
  OBVIOUS
<1>0. /\ acao[o].pc = "desliga" /\ online' = online \ {t} /\ Vai(o, SemAcao) /\ Anota({})
      /\ UNCHANGED sessao
  BY <1>5 DEF CloseTerminal
<1>t. t \in Linhas /\ (t \notin perturbados => NoMeio(t, acao[o]))
  BY <1>0, <1>5, PdvAqui
<1>1. /\ PdvTypeInv'
      /\ \A p, q \in Operadores : p # q /\ acao'[p].pdv = acao'[q].pdv =>
           acao'[p].pdv \in {Nulo} \cup perturbados'
      /\ perturbados \subseteq perturbados'
      /\ acao'[o] = SemAcao /\ \A q \in Operadores : q # o => acao'[q] = acao[q]
  <2>1. online' \subseteq Linhas
    BY <1>0 DEF PdvInv, PdvTypeInv, PdvTypeOK
  <2> QED BY <1>0, <2>1, IdleAcao, PdvStepType DEF PdvInv, PdvTypeInv, PdvTypeOK
<1>3. \A x \in Linhas : Abertas(x)' = Abertas(x) /\ (x # t => (x \in online') = (x \in online))
  BY <1>0 DEF Abertas
<1>4. ASSUME t \notin perturbados' PROVE EmRepouso(t)'
  <2>1. Abertas(t) = {}
    BY <1>0, <1>t, <1>1, <1>4 DEF NoMeio
  <2>2. t \notin online'
    BY <1>0
  <2> QED BY <1>3, <1>t, <2>1, <2>2 DEF EmRepouso
<1>6. acao'[o].pdv = Nulo /\ t # Nulo
  BY <1>1, <1>t, IdleAcao, TenancyAssumption
<1> QED BY <1>t, <1>1, <1>3, <1>4, <1>5, <1>6, PdvStepInv

\* A request that stops before its first write, or before the save of the session it
\* closes, leaves the terminal as it found it; between its two writes it is noted.
LEMMA PdvDesisteStep ==
    ASSUME PdvInv, NEW o \in Operadores, PdvDesiste(o)
    PROVE  PdvInv'
<1>5. PICK t : acao[o].pdv = t
  OBVIOUS
<1> DEFINE parou == IF acao[o].pc \in {"insere", "desliga"} THEN {t} ELSE {}
<1>0. /\ acao[o].pc # "idle" /\ Vai(o, SemAcao) /\ Anota(parou) /\ UNCHANGED <<online, sessao>>
  BY <1>5 DEF PdvDesiste
<1>t. acao[o] \in SoundAcao /\ t \in Linhas /\ (t \notin perturbados => NoMeio(t, acao[o]))
  BY <1>0, <1>5, PdvAqui
<1>p. parou \subseteq Linhas /\ (t \notin parou => acao[o].pc \in {"abre", "fecha"})
  BY <1>0, <1>5, <1>t DEF SoundAcao
<1> HIDE DEF parou
<1>1. /\ PdvTypeInv'
      /\ \A p, q \in Operadores : p # q /\ acao'[p].pdv = acao'[q].pdv =>
           acao'[p].pdv \in {Nulo} \cup perturbados'
      /\ perturbados \subseteq perturbados' /\ parou \subseteq perturbados'
      /\ acao'[o] = SemAcao /\ \A q \in Operadores : q # o => acao'[q] = acao[q]
  <2>1. online' \subseteq Linhas
    BY <1>0 DEF PdvInv, PdvTypeInv, PdvTypeOK
  <2> QED BY <1>0, <1>p, <2>1, IdleAcao, PdvStepType DEF PdvInv, PdvTypeInv, PdvTypeOK
<1>3. \A x \in Linhas : Abertas(x)' = Abertas(x)
  BY <1>0 DEF Abertas
<1>4. ASSUME t \notin perturbados' PROVE EmRepouso(t)'
  <2>1. NoMeio(t, acao[o]) /\ acao[o].pc \in {"abre", "fecha"}
    BY <1>p, <1>t, <1>1, <1>4
  <2>2. EmRepouso(t)
    BY <2>1 DEF NoMeio, EmRepouso
  <2> QED BY <1>0, <1>3, <1>t, <2>2 DEF EmRepouso
<1>6. acao'[o].pdv = Nulo /\ t # Nulo
  BY <1>1, <1>t, IdleAcao, TenancyAssumption
<1> QED BY <1>0, <1>t, <1>1, <1>3, <1>4, <1>5, <1>6, PdvStepInv

LEMMA PdvInitInv == PdvInit => TenancyInv /\ PdvInv
<1> SUFFICES ASSUME PdvInit PROVE TenancyInv /\ PdvInv
  OBVIOUS
<1>1. TenancyInv
  BY TenancyInitInv DEF PdvInit
<1>2. PdvTypeInv
  BY DEF PdvInit, PdvTypeInv, PdvTypeOK, SoundAcao, SemAcao, SemSessao
<1>3. Separados
  BY IdleAcao DEF PdvInit, Separados
<1>4. ASSUME NEW t \in Linhas PROVE Coerente(t)
  <2>1. t # Nulo
    BY TenancyAssumption
  <2>2. \A o \in Operadores : acao[o].pdv # t
    BY <2>1, IdleAcao DEF PdvInit
  <2>3. Abertas(t) = {} /\ t \notin online
    BY DEF PdvInit, Abertas, SemSessao
  <2> QED BY <2>2, <2>3 DEF Coerente, EmRepouso
<1> QED BY <1>1, <1>2, <1>3, <1>4 DEF PdvInv

LEMMA PdvOwnInv == PdvInv /\ PdvOwnNext => PdvInv'
BY OpenSessionStep, OpenTerminalStep, OpenInsertStep, CloseSessionStep, CloseSaveStep,
   CloseTerminalStep, PdvDesisteStep
DEF PdvOwnNext

LEMMA PdvNextInv ==
    TenancyInv /\ PdvInv /\ [PdvNext]_pdvVars => TenancyInv' /\ PdvInv'
<1> SUFFICES ASSUME TenancyInv, PdvInv, [PdvNext]_pdvVars PROVE TenancyInv' /\ PdvInv'
  OBVIOUS
<1>1. UNCHANGED pdvOwn => PdvInv'
  BY DEF pdvOwn, PdvInv, PdvTypeInv, PdvTypeOK, Separados, Coerente, EmRepouso, NoMeio, Abertas
<1> QED BY <1>1, TenancyNextInv, PdvOwnInv DEF PdvNext, pdvVars

LEMMA PdvAlways == PdvSpec => [](TenancyInv /\ PdvInv)
BY PdvInitInv, PdvNextInv, PTL DEF PdvSpec
-----------------------------------------------------------------------------
LEMMA InvImpliesOnline == PdvInv => OnlineTemSessao
<1> SUFFICES ASSUME PdvInv, NEW t \in Linhas \ perturbados
             PROVE  /\ Cardinality(Abertas(t)) <= 1
                    /\ (\A o \in Operadores : acao[o].pdv # t) =>
                         (t \in online <=> Abertas(t) # {})
  BY DEF OnlineTemSessao
<1>1. Coerente(t)
  BY DEF PdvInv
<1>2. Abertas(t) = {} \/ \E s : Abertas(t) = {s}
  <2>1. CASE \A o \in Operadores : acao[o].pdv # t
    <3>1. \A r, s \in Abertas(t) : r = s
      BY <1>1, <2>1 DEF Coerente, EmRepouso
    <3>2. CASE Abertas(t) # {}
      <4>1. PICK s \in Abertas(t) : TRUE
        BY <3>2
      <4> QED BY <3>1, <4>1
    <3> QED BY <3>2
  <2>2. ASSUME NEW o \in Operadores, acao[o].pdv = t
        PROVE  Abertas(t) = {} \/ \E s : Abertas(t) = {s}
    BY <1>1, <2>2 DEF Coerente, NoMeio
  <2> QED BY <2>1, <2>2
<1>3. Cardinality(Abertas(t)) <= 1
  <2>1. CASE Abertas(t) = {}
    BY <2>1, FS_EmptySet
  <2>2. ASSUME NEW s, Abertas(t) = {s} PROVE Cardinality(Abertas(t)) <= 1
    <3>1. Cardinality({s}) = 1
      BY FS_Singleton
    <3> QED BY <2>2, <3>1
  <2> QED BY <1>2, <2>1, <2>2
<1> QED BY <1>1, <1>3 DEF Coerente, EmRepouso

\* One session at most is open on a terminal, which is ONLINE exactly while one is, for
\* any terminals and requests, where requests neither overlapped nor stopped half way.
THEOREM OnlineHasSession == PdvSpec => []OnlineTemSessao
BY PdvAlways, InvImpliesOnline, PTL

\* The company beside its terminals keeps its limits and its status as well.
THEOREM CompanyUnderPdv == PdvSpec => []DentroDoLimite /\ StatusPorComando
<1>1. TenancyInv /\ [PdvNext]_pdvVars => [StatusMuda]_tenancyVars
  BY StepStatus DEF PdvNext, pdvVars
<1> QED BY <1>1, PdvAlways, InvImpliesLimite, PTL DEF PdvSpec, StatusPorComando, StatusMuda
-----------------------------------------------------------------------------
(* Sessions: rows, chains and who holds what *)

Born == {k \in Tokens : linha[k].st # "none"}

\* A token is of the user and of the chain of the login it goes back to.
Lineage ==
    \A k \in Tokens :
        IF k \in Born
        THEN LET r == linha[k].raiz
             IN  /\ linha[k].dono \in Users /\ linha[k].papel \in Roles
                 /\ r \in Born /\ linha[r].raiz = r /\ linha[r].dono = linha[k].dono
        ELSE linha[k].raiz = None

\* What each record may hold.
Stores == {s \in Store : s.token \in Born \cup {None}}
Entradas0 == {e \in Entrada : e.pc = "lido" => e.user \in Users /\ e.papel \in Roles}
Saidas == {s \in Saida : IF s.pc = "idle" THEN s.token = None ELSE s.token \in Born}
Chamadas0 ==
    {q \in Chamada :
        /\ q.pc # "idle" => q.aba \in Tabs
        /\ q.token \in Born \cup {None}
        /\ q.pc \in {"renova", "achou", "revogou"} => q.token \in Born
        /\ q.pc \in {"achou", "revogou"} => q.papel \in Roles}

\* The stored copy is what some tab shows.
Stored == guardado = Vazia \/ \E t \in Tabs : aba[t] = guardado

SessRows ==
    /\ conta \in [Users -> [ativo : BOOLEAN, papel : Roles]]
    /\ linha \in [Tokens -> Linha] /\ Lineage

SessHolds ==
    /\ pdvToken \in Born \cup {None} /\ guardado \in Stores
    /\ aba \in [Tabs -> Stores] /\ entra \in [Tabs -> Entradas0]
    /\ sai \in [Tabs -> Saidas] /\ chamada \in [Calls -> Chamadas0] /\ Stored

SessHistory ==
    /\ marcadas \in SUBSET Tokens /\ encerradas \in SUBSET Born /\ expulsas \in SUBSET Born
    /\ misturou \in BOOLEAN /\ alterados \in SUBSET Users

SessTypes == SessRows /\ SessHolds /\ SessHistory

\* Rows are issued and change their state; whose they are stays.
RowsGrow ==
    \A k \in Born :
        /\ k \in Born' /\ linha'[k].raiz = linha[k].raiz /\ linha'[k].dono = linha[k].dono
        /\ linha'[k].papel = linha[k].papel

LEMMA Issues ==
    ASSUME SessRows, NEW k \in Tokens, NEW u \in Users, NEW p \in Roles, NEW r \in Born \cup {k},
           Emite(k, u, p, r), r \in Born => linha[r].raiz = r /\ linha[r].dono = u,
           UNCHANGED conta
    PROVE  /\ SessRows' /\ RowsGrow /\ Born' = Born \cup {k} /\ k \notin Born
           /\ linha'[k].st = "live" /\ linha'[k].raiz = r /\ linha'[k].dono = u
           /\ linha'[k].papel = p
           /\ \A j \in Tokens \ {k} : linha'[j] = linha[j]
<1> DEFINE w == [st |-> "live", dono |-> u, papel |-> p, acesso |-> TRUE, raiz |-> r]
<1>1. /\ w \in Linha /\ w.st = "live" /\ w.dono = u /\ w.papel = p /\ w.raiz = r
  BY DEF Linha, Born
<1>2. linha' = [linha EXCEPT ![k] = w] /\ k \notin Born
  BY DEF Emite, Born
<1> HIDE DEF w
<1>3. /\ linha' \in [Tokens -> Linha] /\ linha'[k] = w
      /\ \A j \in Tokens \ {k} : linha'[j] = linha[j]
  BY <1>1, <1>2 DEF SessRows
<1>4. Born' = Born \cup {k}
  BY <1>1, <1>3 DEF Born
<1>5. RowsGrow
  BY <1>2, <1>3, <1>4 DEF RowsGrow, Born
<1>6. Lineage'
  <2> SUFFICES ASSUME NEW j \in Tokens
               PROVE  IF j \in Born'
                      THEN /\ linha'[j].dono \in Users /\ linha'[j].papel \in Roles
                           /\ linha'[j].raiz \in Born' /\ linha'[linha'[j].raiz].raiz = linha'[j].raiz
                           /\ linha'[linha'[j].raiz].dono = linha'[j].dono
                      ELSE linha'[j].raiz = None
    BY DEF Lineage
  <2>1. CASE j = k
    <3>1. CASE r = k
      BY <1>1, <1>3, <1>4, <2>1, <3>1
    <3>2. CASE r # k
      BY <1>1, <1>2, <1>3, <1>4, <2>1, <3>2 DEF Born
    <3> QED BY <3>1, <3>2
  <2>2. CASE j # k /\ j \in Born
    BY <1>2, <1>3, <1>4, <2>2 DEF SessRows, Lineage, Born
  <2>3. CASE j # k /\ j \notin Born
    BY <1>3, <1>4, <2>3 DEF SessRows, Lineage
  <2> QED BY <2>1, <2>2, <2>3
<1> QED BY <1>1, <1>2, <1>3, <1>4, <1>5, <1>6 DEF SessRows

\* A row's state or its access token changes.
LEMMA RowChanges ==
    ASSUME SessRows, NEW k \in Born, UNCHANGED conta,
           \/ \E st \in {"live", "revoked", "expired"} : linha' = [linha EXCEPT ![k].st = st]
           \/ \E v \in BOOLEAN : linha' = [linha EXCEPT ![k].acesso = v]
    PROVE  /\ SessRows' /\ RowsGrow /\ Born' = Born
           /\ \A j \in Tokens \ {k} : linha'[j] = linha[j]
<1>1. k \in Tokens /\ linha \in [Tokens -> Linha] /\ linha[k].st # "none"
  BY DEF SessRows, Born
<1>2. /\ linha' \in [Tokens -> Linha] /\ linha'[k].st # "none"
      /\ linha'[k].raiz = linha[k].raiz /\ linha'[k].dono = linha[k].dono
      /\ linha'[k].papel = linha[k].papel
      /\ \A j \in Tokens \ {k} : linha'[j] = linha[j]
  BY <1>1 DEF Linha
<1>3. \A j \in Tokens : /\ linha'[j].raiz = linha[j].raiz /\ linha'[j].dono = linha[j].dono
                        /\ linha'[j].papel = linha[j].papel
                        /\ (linha'[j].st = "none" <=> linha[j].st = "none")
  BY <1>1, <1>2
<1>4. Born' = Born
  BY <1>3 DEF Born
<1>5. RowsGrow
  BY <1>3, <1>4 DEF RowsGrow, Born
<1>6. Lineage'
  BY <1>3, <1>4 DEF SessRows, Lineage, Born
<1> QED BY <1>2, <1>4, <1>5, <1>6 DEF SessRows

LEMMA RowsStay ==
    ASSUME SessRows, UNCHANGED linha,
           conta' \in [Users -> [ativo : BOOLEAN, papel : Roles]]
    PROVE  SessRows' /\ RowsGrow /\ Born' = Born
BY DEF SessRows, RowsGrow, Born, Lineage
-----------------------------------------------------------------------------
(* Sessions: every step keeps the types *)

\* What the history says after a step that loses the answers of perdidas.
Marks(perdidas) ==
    /\ marcadas' \in SUBSET Tokens /\ marcadas \subseteq marcadas' /\ perdidas \subseteq marcadas'
    /\ Partilhadas' \subseteq marcadas' /\ Cruzadas' \subseteq marcadas'

LEMMA MarksGrow ==
    ASSUME SessHistory, NEW perdidas, perdidas \subseteq Tokens, Historia(perdidas)
    PROVE  Marks(perdidas)
<1>1. Partilhadas' \subseteq Tokens /\ Cruzadas' \subseteq Tokens
  BY DEF Partilhadas, Cruzadas
<1>2. marcadas' = marcadas \cup perdidas \cup Partilhadas' \cup Cruzadas' /\ marcadas \subseteq Tokens
  BY DEF Historia, SessHistory
<1> QED BY <1>1, <1>2 DEF Marks

LEMMA Roots ==
    ASSUME SessRows
    PROVE  /\ \A k \in Born : Cadeia(k) = {linha[k].raiz} /\ linha[k].raiz \in Born
                              /\ linha[k].dono \in Users /\ linha[k].papel \in Roles
           /\ \A k \in Born \cup {None} : Cadeia(k) \subseteq Born
           /\ Born \subseteq Tokens /\ None \notin Born
<1>1. Born \subseteq Tokens /\ None \notin Tokens
  BY SessionAssumption DEF Born
<1> QED BY <1>1 DEF SessRows, Lineage, Cadeia

\* What was held may still be held.
LEMMA StillHeld ==
    ASSUME Born \subseteq Born'
    PROVE  Stores \subseteq Stores' /\ Saidas \subseteq Saidas' /\ Chamadas0 \subseteq Chamadas0'
<1>1. Stores \subseteq Stores'
  BY DEF Stores
<1>2. Saidas \subseteq Saidas'
  BY DEF Saidas
<1>3. Chamadas0 \subseteq Chamadas0'
  BY DEF Chamadas0
<1> QED BY <1>1, <1>2, <1>3

LEMMA HoldsStay ==
    ASSUME SessHolds, Born \subseteq Born', UNCHANGED <<navegador, pedidos>>
    PROVE  SessHolds'
<1>1. Stores \subseteq Stores' /\ Saidas \subseteq Saidas' /\ Chamadas0 \subseteq Chamadas0'
  BY StillHeld
<1> QED BY <1>1 DEF SessHolds, navegador, pedidos, Stored, Entradas0

\* The store is written: memory, the stored copy and pdv_token.
LEMMA Writes ==
    ASSUME SessHolds, Born \subseteq Born', NEW t \in Tabs, NEW s \in Store,
           s.token \in Born' \cup {None}, Grava(t, s)
    PROVE  /\ aba' \in [Tabs -> Stores'] /\ guardado' \in Stores' /\ pdvToken' \in Born' \cup {None}
           /\ Stored' /\ aba'[t] = s /\ guardado' = s /\ pdvToken' = s.token
           /\ \A x \in Tabs \ {t} : aba'[x] = aba[x]
<1>1. Stores \subseteq Stores'
  BY StillHeld
<1>2. s \in Stores'
  BY DEF Stores
<1>3. aba \in [Tabs -> Stores] /\ aba' = [aba EXCEPT ![t] = s] /\ guardado' = s /\ pdvToken' = s.token
  BY DEF SessHolds, Grava
<1>4. aba' \in [Tabs -> Stores'] /\ aba'[t] = s /\ \A x \in Tabs \ {t} : aba'[x] = aba[x]
  BY <1>1, <1>2, <1>3
<1> QED BY <1>2, <1>3, <1>4 DEF Stored

LEMMA Blank ==
    /\ Vazia \in Store /\ Vazia.token = None /\ Vazia.user = None /\ Vazia.papel = None
    /\ SemEntrada \in Entradas0 /\ SemEntrada.pc = "idle"
    /\ SemSaida \in Saidas /\ SemSaida.pc = "idle" /\ SemSaida.token = None
    /\ Livre \in Chamadas0 /\ Livre.pc = "idle" /\ Livre.aba = None /\ Livre.token = None
    /\ ~Livre.ativo /\ ~Livre.repetida /\ Livre.papel = None
<1>1. Vazia \in Store /\ Vazia.token = None /\ Vazia.user = None /\ Vazia.papel = None
  BY DEF Vazia, Store
<1>2. SemEntrada \in Entradas0 /\ SemEntrada.pc = "idle"
  BY DEF SemEntrada, Entradas0, Entrada
<1>3. SemSaida \in Saidas /\ SemSaida.pc = "idle" /\ SemSaida.token = None
  BY DEF SemSaida, Saidas, Saida
<1>4. Livre \in Chamadas0 /\ Livre.pc = "idle" /\ Livre.aba = None /\ Livre.token = None
      /\ ~Livre.ativo /\ ~Livre.repetida /\ Livre.papel = None
  BY DEF Livre, Chamadas0, Chamada
<1> QED BY <1>1, <1>2, <1>3, <1>4

\* A tab is loaded anew: its requests are gone.
LEMMA Clears ==
    ASSUME SessHolds, Born \subseteq Born', NEW t \in Tabs,
           chamada' = SemChamadas(t), sai' = [sai EXCEPT ![t] = SemSaida],
           entra' = [entra EXCEPT ![t] = SemEntrada]
    PROVE  /\ entra' \in [Tabs -> Entradas0] /\ sai' \in [Tabs -> Saidas']
           /\ chamada' \in [Calls -> Chamadas0']
           /\ entra'[t].pc = "idle" /\ sai'[t] = SemSaida
           /\ \A x \in Tabs \ {t} : entra'[x] = entra[x] /\ sai'[x] = sai[x]
           /\ \A c \in Calls : IF chamada[c].aba = t THEN chamada'[c] = Livre
                               ELSE chamada'[c] = chamada[c]
<1>1. Saidas \subseteq Saidas' /\ Chamadas0 \subseteq Chamadas0'
  BY StillHeld
<1>2. \A c \in Calls : IF chamada[c].aba = t THEN chamada'[c] = Livre
                       ELSE chamada'[c] = chamada[c]
  BY DEF SemChamadas, DaAba
<1>3. chamada' \in [Calls -> Chamadas0']
  BY <1>1, <1>2, Blank DEF SessHolds, SemChamadas, DaAba
<1>4. /\ entra' \in [Tabs -> Entradas0] /\ entra'[t].pc = "idle"
      /\ \A x \in Tabs \ {t} : entra'[x] = entra[x]
  BY Blank DEF SessHolds
<1>5. /\ sai' \in [Tabs -> Saidas'] /\ sai'[t] = SemSaida
      /\ \A x \in Tabs \ {t} : sai'[x] = sai[x]
  BY <1>1, Blank DEF SessHolds
<1> QED BY <1>2, <1>3, <1>4, <1>5

LEMMA AccountsStay ==
    ASSUME SessRows, UNCHANGED servidor
    PROVE  SessRows' /\ RowsGrow /\ Born' = Born
<1>1. UNCHANGED linha /\ conta' \in [Users -> [ativo : BOOLEAN, papel : Roles]]
  BY DEF SessRows, servidor
<1> QED BY <1>1, RowsStay

LEMMA EntraLeTypes ==
    ASSUME SessTypes, NEW t \in Tabs, NEW u \in Users, EntraLe(t, u)
    PROVE  /\ SessTypes' /\ RowsGrow /\ Marks({})
           /\ entra'[t].user = u /\ entra'[t].papel = conta[u].papel
           /\ \A x \in Tabs \ {t} : entra'[x] = entra[x]
<1> DEFINE e == [pc |-> "lido", user |-> u, papel |-> conta[u].papel]
<1>1. conta[u].papel \in Roles
  BY DEF SessTypes, SessRows
<1>2. e \in Entradas0 /\ e.user = u /\ e.papel = conta[u].papel
  BY <1>1 DEF Entradas0, Entrada
<1>3. /\ UNCHANGED <<servidor, navegador, sai, chamada, encerradas, expulsas, misturou, alterados>>
      /\ entra' = [entra EXCEPT ![t] = e] /\ Historia({})
  BY DEF EntraLe
<1> HIDE DEF e
<1>4. SessRows' /\ RowsGrow /\ Born' = Born
  BY <1>3, AccountsStay DEF SessTypes
<1>5. entra' \in [Tabs -> Entradas0] /\ entra'[t] = e /\ \A x \in Tabs \ {t} : entra'[x] = entra[x]
  BY <1>2, <1>3 DEF SessTypes, SessHolds
<1>6. SessHolds'
  BY <1>3, <1>4, <1>5, StillHeld DEF SessTypes, SessHolds, navegador, Stored
<1>7. Marks({})
  BY <1>3, MarksGrow DEF SessTypes
<1> QED BY <1>2, <1>3, <1>4, <1>5, <1>6, <1>7 DEF SessTypes, SessHistory, Marks

LEMMA EntraFalhaTypes ==
    ASSUME SessTypes, NEW t \in Tabs, EntraFalha(t)
    PROVE  /\ SessTypes' /\ RowsGrow /\ Marks({}) /\ entra'[t].pc = "idle"
           /\ \A x \in Tabs \ {t} : entra'[x] = entra[x]
<1>1. /\ UNCHANGED <<servidor, navegador, sai, chamada, encerradas, expulsas, misturou, alterados>>
      /\ entra' = [entra EXCEPT ![t] = SemEntrada] /\ Historia({})
  BY DEF EntraFalha
<1>2. SessRows' /\ RowsGrow /\ Born' = Born
  BY <1>1, AccountsStay DEF SessTypes
<1>3. /\ entra' \in [Tabs -> Entradas0] /\ entra'[t] = SemEntrada
      /\ \A x \in Tabs \ {t} : entra'[x] = entra[x]
  BY <1>1, Blank DEF SessTypes, SessHolds
<1>4. SessHolds'
  BY <1>1, <1>2, <1>3, StillHeld DEF SessTypes, SessHolds, navegador, Stored
<1>5. Marks({})
  BY <1>1, MarksGrow DEF SessTypes
<1> QED BY <1>1, <1>2, <1>3, <1>4, <1>5, Blank DEF SessTypes, SessHistory, Marks

\* A login beside a refresh of its tab: the refresh will write over it.
Aparte(t, k) == IF \E c \in DaAba(t) : Renovando(c) THEN {k} ELSE {}

LEMMA EntraEmiteTypes ==
    ASSUME SessTypes, NEW t \in Tabs, NEW k \in Tokens, EntraEmite(t, k)
    PROVE  /\ SessTypes' /\ RowsGrow /\ Born' = Born \cup {k} /\ k \notin Born
           /\ Marks(Aparte(t, k))
           /\ linha'[k].st = "live" /\ linha'[k].raiz = k /\ linha'[k].dono = entra[t].user
           /\ linha'[k].papel = entra[t].papel
           /\ \A j \in Tokens \ {k} : linha'[j] = linha[j]
           /\ aba'[t].token = k /\ aba'[t].user = entra[t].user /\ aba'[t].papel = entra[t].papel
           /\ guardado' = aba'[t] /\ pdvToken' = k
           /\ \A x \in Tabs \ {t} : aba'[x] = aba[x]
           /\ entra'[t].pc = "idle" /\ \A x \in Tabs \ {t} : entra'[x] = entra[x]
           /\ entra[t].user \in Users /\ entra[t].papel \in Roles
<1> DEFINE u == entra[t].user
           p == entra[t].papel
           s == [token |-> k, user |-> u, papel |-> p]
           P == Aparte(t, k)
<1>1. u \in Users /\ p \in Roles
  BY DEF SessTypes, SessHolds, Entradas0, EntraEmite
<1>2. s \in Store /\ s.token = k /\ s.user = u /\ s.papel = p
  BY <1>1 DEF Store
<1>3. /\ Emite(k, u, p, k) /\ Grava(t, s) /\ entra' = [entra EXCEPT ![t] = SemEntrada]
      /\ UNCHANGED <<conta, sai, chamada, encerradas, expulsas, alterados>> /\ Historia(P)
      /\ misturou' = (misturou \/ OutroUsuario(t, u))
  BY DEF EntraEmite, SetAuth, Aparte
<1>4. misturou' \in BOOLEAN
  BY <1>3 DEF SessTypes, SessHistory
<1>5. P \subseteq Tokens
  BY DEF Aparte
<1> HIDE DEF s, P
<1>6. k \notin Born
  BY <1>3 DEF Emite, Born
<1>7. /\ SessRows' /\ RowsGrow /\ Born' = Born \cup {k}
      /\ linha'[k].st = "live" /\ linha'[k].raiz = k /\ linha'[k].dono = u
      /\ linha'[k].papel = p
      /\ \A j \in Tokens \ {k} : linha'[j] = linha[j]
  <2>1. k \in Born => linha[k].raiz = k /\ linha[k].dono = u
    BY <1>6
  <2> HIDE DEF u, p
  <2> QED BY <1>1, <1>3, <2>1, Issues DEF SessTypes
<1>8. /\ aba' \in [Tabs -> Stores'] /\ guardado' \in Stores' /\ pdvToken' \in Born' \cup {None}
      /\ Stored' /\ aba'[t] = s /\ guardado' = s /\ pdvToken' = s.token
      /\ \A x \in Tabs \ {t} : aba'[x] = aba[x]
  BY <1>2, <1>3, <1>7, Writes DEF SessTypes
<1>9. /\ entra' \in [Tabs -> Entradas0] /\ entra'[t] = SemEntrada
      /\ \A x \in Tabs \ {t} : entra'[x] = entra[x]
  BY <1>3, Blank DEF SessTypes, SessHolds
<1>10. SessHolds'
  BY <1>3, <1>7, <1>8, <1>9, StillHeld DEF SessTypes, SessHolds, Entradas0
<1>11. Marks(P)
  BY <1>3, <1>5, MarksGrow DEF SessTypes
<1>12. SessHistory'
  BY <1>3, <1>4, <1>7, <1>11 DEF SessTypes, SessHistory, Marks
<1> QED BY <1>1, <1>2, <1>6, <1>7, <1>8, <1>9, <1>10, <1>11, <1>12, Blank DEF SessTypes, P

LEMMA ChamaTypes ==
    ASSUME SessTypes, NEW c \in Calls, NEW t \in Tabs, Chama(c, t)
    PROVE  /\ SessTypes' /\ RowsGrow /\ Marks({}) /\ chamada[c].pc = "idle"
           /\ chamada'[c].pc = "enviada" /\ \A d \in Calls \ {c} : chamada'[d] = chamada[d]
<1> DEFINE q == [Livre EXCEPT !.pc = "enviada", !.aba = t, !.token = pdvToken]
<1>1. pdvToken \in Born \cup {None} /\ Born \subseteq Tokens
  BY DEF SessTypes, SessHolds, Born
<1>2. q \in Chamadas0 /\ q.pc = "enviada"
  BY <1>1 DEF Chamadas0, Chamada, Livre
<1>3. /\ UNCHANGED <<servidor, navegador, entra, sai, encerradas, expulsas, misturou, alterados>>
      /\ chamada' = [chamada EXCEPT ![c] = q] /\ Historia({}) /\ chamada[c].pc = "idle"
  BY DEF Chama
<1> HIDE DEF q
<1>4. SessRows' /\ RowsGrow /\ Born' = Born
  BY <1>3, AccountsStay DEF SessTypes
<1>5. /\ chamada' \in [Calls -> Chamadas0] /\ chamada'[c] = q
      /\ \A d \in Calls \ {c} : chamada'[d] = chamada[d]
  BY <1>2, <1>3 DEF SessTypes, SessHolds
<1>6. SessHolds'
  BY <1>3, <1>4, <1>5, StillHeld DEF SessTypes, SessHolds, navegador, Stored, Entradas0
<1>7. Marks({})
  BY <1>3, MarksGrow DEF SessTypes
<1> QED BY <1>2, <1>3, <1>4, <1>5, <1>6, <1>7 DEF SessTypes, SessHistory, Marks

\* The call after its answer: ended, waiting, or refreshing with the tab's token.
Answered(q, v) ==
    \/ v = Livre
    \/ v.pc = "espera"
    \/ /\ v.pc = "renova" /\ v.aba = q.aba /\ v.token = aba[q.aba].token
       /\ v.token # None /\ ~EmVoo(q.aba)

LEMMA RespondeTypes ==
    ASSUME SessTypes, NEW c \in Calls, Responde(c)
    PROVE  /\ SessTypes' /\ RowsGrow /\ Marks({}) /\ chamada[c].pc = "enviada"
           /\ chamada[c].aba \in Tabs /\ Answered(chamada[c], chamada'[c])
           /\ \A d \in Calls \ {c} : chamada'[d] = chamada[d]
<1> DEFINE q == chamada[c]
           k == aba[q.aba].token
           v == IF (q.token # None /\ linha[q.token].acesso) \/ q.repetida \/ k = None THEN Livre
                ELSE IF EmVoo(q.aba) THEN [q EXCEPT !.pc = "espera"]
                ELSE [q EXCEPT !.pc = "renova", !.token = k]
<1>1. /\ UNCHANGED <<servidor, navegador, entra, sai, encerradas, expulsas, misturou, alterados>>
      /\ chamada' = [chamada EXCEPT ![c] = v] /\ Historia({}) /\ q.pc = "enviada"
  BY DEF Responde
<1>2. q \in Chamadas0 /\ q \in Chamada /\ q.aba \in Tabs
  BY <1>1 DEF SessTypes, SessHolds, Chamadas0
<1>3. k \in Born \cup {None} /\ Born \subseteq Tokens
  BY <1>2 DEF SessTypes, SessHolds, Stores, Born
<1>4. v \in Chamadas0 /\ Answered(q, v)
  <2>1. CASE v = Livre
    BY <2>1, Blank DEF Answered
  <2>2. CASE v # Livre /\ EmVoo(q.aba)
    <3>1. v = [q EXCEPT !.pc = "espera"]
      BY <2>2
    <3>2. v \in Chamadas0 /\ v.pc = "espera"
      BY <1>2, <3>1 DEF Chamadas0, Chamada
    <3> QED BY <3>2 DEF Answered
  <2>3. CASE v # Livre /\ ~EmVoo(q.aba)
    <3>1. v = [q EXCEPT !.pc = "renova", !.token = k] /\ k # None
      BY <2>3
    <3>2. v \in Chamadas0 /\ v.pc = "renova" /\ v.aba = q.aba /\ v.token = k
      BY <1>2, <1>3, <3>1 DEF Chamadas0, Chamada
    <3> QED BY <2>3, <3>1, <3>2 DEF Answered
  <2> QED BY <2>1, <2>2, <2>3
<1> HIDE DEF v
<1>5. SessRows' /\ RowsGrow /\ Born' = Born
  BY <1>1, AccountsStay DEF SessTypes
<1>6. /\ chamada' \in [Calls -> Chamadas0] /\ chamada'[c] = v
      /\ \A d \in Calls \ {c} : chamada'[d] = chamada[d]
  BY <1>1, <1>4 DEF SessTypes, SessHolds
<1>7. SessHolds'
  BY <1>1, <1>5, <1>6, StillHeld DEF SessTypes, SessHolds, navegador, Stored, Entradas0
<1>8. Marks({})
  BY <1>1, MarksGrow DEF SessTypes
<1> QED BY <1>1, <1>2, <1>4, <1>5, <1>6, <1>7, <1>8 DEF SessTypes, SessHistory, Marks

LEMMA RenovaAchaTypes ==
    ASSUME SessTypes, NEW c \in Calls, RenovaAcha(c)
    PROVE  /\ SessTypes' /\ RowsGrow /\ Marks({}) /\ chamada[c].pc = "renova" /\ chamada'[c].pc = "achou"
           /\ chamada[c].token \in Born /\ (Viva(chamada[c].token) \/ ~Trocavel(chamada[c].token))
           /\ chamada'[c].token = chamada[c].token /\ chamada'[c].aba = chamada[c].aba
           /\ chamada'[c].ativo = conta[linha[chamada[c].token].dono].ativo
           /\ chamada'[c].papel = conta[linha[chamada[c].token].dono].papel
           /\ \A d \in Calls \ {c} : chamada'[d] = chamada[d]
<1> DEFINE q == chamada[c]
           u == conta[linha[q.token].dono]
           v == [q EXCEPT !.pc = "achou", !.ativo = u.ativo, !.papel = u.papel]
<1>1. q \in Chamadas0 /\ q \in Chamada /\ q.pc = "renova" /\ q.token \in Born /\ q.aba \in Tabs
  BY DEF SessTypes, SessHolds, Chamadas0, RenovaAcha
<1>2. u.ativo \in BOOLEAN /\ u.papel \in Roles
  BY <1>1, Roots DEF SessTypes, SessRows
<1>3. /\ UNCHANGED <<servidor, navegador, entra, sai, encerradas, expulsas, misturou, alterados>>
      /\ chamada' = [chamada EXCEPT ![c] = v] /\ Historia({})
  BY DEF RenovaAcha
<1>4. /\ v \in Chamadas0 /\ v.pc = "achou" /\ v.token = q.token /\ v.aba = q.aba
      /\ v.papel = u.papel
  BY <1>1, <1>2 DEF Chamadas0, Chamada
<1>5. v.ativo = u.ativo
  BY <1>1 DEF Chamada
<1> HIDE DEF v
<1>6. SessRows' /\ RowsGrow /\ Born' = Born
  BY <1>3, AccountsStay DEF SessTypes
<1>7. /\ chamada' \in [Calls -> Chamadas0] /\ chamada'[c] = v
      /\ \A d \in Calls \ {c} : chamada'[d] = chamada[d]
  BY <1>3, <1>4 DEF SessTypes, SessHolds
<1>8. SessHolds'
  BY <1>3, <1>6, <1>7, StillHeld DEF SessTypes, SessHolds, navegador, Stored, Entradas0
<1>9. Marks({})
  BY <1>3, MarksGrow DEF SessTypes
<1>10. SessHistory'
  BY <1>3, <1>6, <1>9 DEF SessTypes, SessHistory, Marks
<1> QED BY <1>1, <1>4, <1>5, <1>6, <1>7, <1>8, <1>9, <1>10 DEF SessTypes, Trocavel

LEMMA RenovaRevogaTypes ==
    ASSUME SessTypes, NEW c \in Calls, RenovaRevoga(c)
    PROVE  /\ SessTypes' /\ RowsGrow /\ Born' = Born /\ Marks({})
           /\ chamada[c].pc = "achou" /\ chamada'[c].pc = "revogou" /\ chamada[c].token \in Born
           /\ chamada'[c].token = chamada[c].token /\ chamada'[c].aba = chamada[c].aba
           /\ chamada'[c].ativo = chamada[c].ativo /\ chamada'[c].papel = chamada[c].papel
           /\ \A d \in Calls \ {c} : chamada'[d] = chamada[d]
           /\ linha'[chamada[c].token].st = "revoked"
           /\ \A j \in Tokens \ {chamada[c].token} : linha'[j] = linha[j]
<1> DEFINE q == chamada[c]
           v == [q EXCEPT !.pc = "revogou"]
<1>1. q \in Chamadas0 /\ q \in Chamada /\ q.pc = "achou" /\ q.token \in Born /\ q.papel \in Roles
  BY DEF SessTypes, SessHolds, Chamadas0, RenovaRevoga
<1>2. /\ UNCHANGED <<conta, navegador, entra, sai, encerradas, expulsas, misturou, alterados>>
      /\ chamada' = [chamada EXCEPT ![c] = v] /\ Historia({})
      /\ linha' = [linha EXCEPT ![q.token].st = "revoked"]
  BY DEF RenovaRevoga
<1>3. /\ v \in Chamadas0 /\ v.pc = "revogou" /\ v.token = q.token /\ v.aba = q.aba
      /\ v.papel = q.papel
  BY <1>1 DEF Chamadas0, Chamada
<1>4. v.ativo = q.ativo
  BY <1>1 DEF Chamada
<1> HIDE DEF v
<1>5. /\ SessRows' /\ RowsGrow /\ Born' = Born
      /\ \A j \in Tokens \ {q.token} : linha'[j] = linha[j]
  BY <1>1, <1>2, RowChanges DEF SessTypes
<1>6. linha'[q.token].st = "revoked"
  BY <1>1, <1>2 DEF SessTypes, SessRows, Born, Linha
<1>7. /\ chamada' \in [Calls -> Chamadas0] /\ chamada'[c] = v
      /\ \A d \in Calls \ {c} : chamada'[d] = chamada[d]
  BY <1>2, <1>3 DEF SessTypes, SessHolds
<1>8. SessHolds'
  BY <1>2, <1>5, <1>7, StillHeld DEF SessTypes, SessHolds, navegador, Stored, Entradas0
<1>9. Marks({})
  BY <1>2, MarksGrow DEF SessTypes
<1>10. SessHistory'
  BY <1>2, <1>5, <1>9 DEF SessTypes, SessHistory, Marks
<1> QED BY <1>1, <1>3, <1>4, <1>5, <1>6, <1>7, <1>8, <1>9, <1>10 DEF SessTypes

\* The row a rotation issues: of the same user and chain.
Rotated(c, k) ==
    LET q == chamada[c]
    IN  /\ Born' = Born \cup {k} /\ k \notin Born /\ q.token \in Born
        /\ linha'[k].st = "live" /\ linha'[k].raiz = linha[q.token].raiz
        /\ linha'[k].dono = linha[q.token].dono /\ linha'[k].papel = q.papel
        /\ \A j \in Tokens \ {k} : linha'[j] = linha[j]

LEMMA Rotates ==
    ASSUME SessTypes, NEW c \in Calls, NEW k \in Tokens, chamada[c].pc = "revogou",
           Emite(k, linha[chamada[c].token].dono, chamada[c].papel, linha[chamada[c].token].raiz),
           UNCHANGED conta
    PROVE  SessRows' /\ RowsGrow /\ Rotated(c, k) /\ chamada[c].aba \in Tabs
<1> DEFINE q == chamada[c]
           u == linha[q.token].dono
           r == linha[q.token].raiz
<1>1. q.token \in Born /\ q.papel \in Roles /\ q.aba \in Tabs
  BY DEF SessTypes, SessHolds, Chamadas0
<1>2. u \in Users /\ r \in Born /\ linha[r].raiz = r /\ linha[r].dono = u
  BY <1>1 DEF SessTypes, SessRows, Lineage, Born
<1>3. Emite(k, u, q.papel, r)
  OBVIOUS
<1>4. k \notin Born
  BY <1>3 DEF Emite, Born
<1> HIDE DEF u, r
<1>5. /\ SessRows' /\ RowsGrow /\ Born' = Born \cup {k}
      /\ linha'[k].st = "live" /\ linha'[k].raiz = r /\ linha'[k].dono = u
      /\ linha'[k].papel = q.papel
      /\ \A j \in Tokens \ {k} : linha'[j] = linha[j]
  BY <1>1, <1>2, <1>3, Issues DEF SessTypes
<1> QED BY <1>1, <1>4, <1>5 DEF Rotated, u, r

LEMMA RenovaEmiteTypes ==
    ASSUME SessTypes, NEW c \in Calls, NEW k \in Tokens, RenovaEmite(c, k)
    PROVE  LET t == chamada[c].aba
           IN  /\ SessTypes' /\ RowsGrow /\ Marks({}) /\ Rotated(c, k)
               /\ chamada[c].pc = "revogou" /\ t \in Tabs /\ chamada[c].ativo
               /\ aba'[t].token = k /\ aba'[t].user = aba[t].user /\ aba'[t].papel = aba[t].papel
               /\ guardado' = aba'[t] /\ pdvToken' = k
               /\ \A x \in Tabs \ {t} : aba'[x] = aba[x]
               /\ chamada'[c].pc = "enviada"
               /\ \A d \in Calls : chamada'[d].pc = "enviada" \/ chamada'[d] = chamada[d]
               /\ \A d \in Calls \ {c} : chamada[d].pc = "espera" \/ chamada'[d] = chamada[d]
<1> DEFINE q == chamada[c]
           t == q.aba
           v == [Livre EXCEPT !.pc = "enviada", !.aba = t, !.token = k, !.repetida = TRUE]
           s == [aba[t] EXCEPT !.token = k]
<1>1. /\ Emite(k, linha[q.token].dono, q.papel, linha[q.token].raiz) /\ Grava(t, s)
      /\ chamada' = [d \in Calls |->
             IF d = c \/ (d \in DaAba(t) /\ chamada[d].pc = "espera") THEN v ELSE chamada[d]]
      /\ UNCHANGED <<conta, entra, sai, encerradas, expulsas, misturou, alterados>> /\ Historia({})
      /\ q.pc = "revogou"
  BY DEF RenovaEmite
<1>2. q.ativo
  BY DEF RenovaEmite
<1>3. SessRows' /\ RowsGrow /\ Rotated(c, k) /\ t \in Tabs
  BY <1>1, Rotates
<1>4. Born \subseteq Born' /\ k \in Born'
  BY <1>3 DEF Rotated
<1>5. s \in Store /\ s.token = k /\ s.user = aba[t].user /\ s.papel = aba[t].papel
  BY <1>3 DEF SessTypes, SessHolds, Stores, Store
<1>6. v \in Chamadas0' /\ v.pc = "enviada"
  BY <1>3, <1>4 DEF Chamadas0, Chamada, Livre
<1> HIDE DEF s, v
<1>7. /\ aba' \in [Tabs -> Stores'] /\ guardado' \in Stores' /\ pdvToken' \in Born' \cup {None}
      /\ Stored' /\ aba'[t] = s /\ guardado' = s /\ pdvToken' = s.token
      /\ \A x \in Tabs \ {t} : aba'[x] = aba[x]
  BY <1>1, <1>3, <1>4, <1>5, Writes DEF SessTypes
<1>8. /\ chamada' \in [Calls -> Chamadas0'] /\ chamada'[c] = v
      /\ \A d \in Calls : chamada'[d].pc = "enviada" \/ chamada'[d] = chamada[d]
      /\ \A d \in Calls \ {c} : chamada[d].pc = "espera" \/ chamada'[d] = chamada[d]
  <2>1. Chamadas0 \subseteq Chamadas0'
    BY <1>4, StillHeld
  <2> QED BY <1>1, <1>6, <2>1 DEF SessTypes, SessHolds
<1>9. SessHolds'
  BY <1>1, <1>4, <1>7, <1>8, StillHeld DEF SessTypes, SessHolds, Entradas0
<1>10. Marks({})
  BY <1>1, MarksGrow DEF SessTypes
<1>11. SessHistory'
  BY <1>1, <1>4, <1>10 DEF SessTypes, SessHistory, Marks
<1> QED BY <1>1, <1>2, <1>3, <1>5, <1>6, <1>7, <1>8, <1>9, <1>10, <1>11 DEF SessTypes

\* Tab t is loaded anew after its store was emptied.
Restarted(t) ==
    /\ entra'[t].pc = "idle" /\ sai'[t] = SemSaida
    /\ \A x \in Tabs \ {t} : entra'[x] = entra[x] /\ sai'[x] = sai[x] /\ aba'[x] = aba[x]
    /\ \A c \in Calls : IF chamada[c].aba = t THEN chamada'[c] = Livre
                        ELSE chamada'[c] = chamada[c]
Emptied(t) == aba'[t] = Vazia /\ guardado' = Vazia /\ pdvToken' = None

LEMMA Restarts ==
    ASSUME SessTypes, SessRows', Born \subseteq Born', NEW t \in Tabs, Grava(t, Vazia),
           chamada' = SemChamadas(t), sai' = [sai EXCEPT ![t] = SemSaida],
           entra' = [entra EXCEPT ![t] = SemEntrada]
    PROVE  SessHolds' /\ Restarted(t) /\ Emptied(t)
<1>1. /\ aba' \in [Tabs -> Stores'] /\ guardado' \in Stores' /\ pdvToken' \in Born' \cup {None}
      /\ Stored' /\ aba'[t] = Vazia /\ guardado' = Vazia /\ pdvToken' = Vazia.token
      /\ \A x \in Tabs \ {t} : aba'[x] = aba[x]
  BY Blank, Writes DEF SessTypes
<1>2. /\ entra' \in [Tabs -> Entradas0] /\ sai' \in [Tabs -> Saidas']
      /\ chamada' \in [Calls -> Chamadas0']
      /\ entra'[t].pc = "idle" /\ sai'[t] = SemSaida
      /\ \A x \in Tabs \ {t} : entra'[x] = entra[x] /\ sai'[x] = sai[x]
      /\ \A c \in Calls : IF chamada[c].aba = t THEN chamada'[c] = Livre
                          ELSE chamada'[c] = chamada[c]
  BY Clears DEF SessTypes
<1> QED BY <1>1, <1>2, Blank DEF SessHolds, Restarted, Emptied, Entradas0

LEMMA LostChains ==
    ASSUME SessTypes, NEW t \in Tabs
    PROVE  Perdidas(t) \subseteq Born /\ Cadeia(sai[t].token) \subseteq Born
<1>1. /\ sai[t].token \in Born \cup {None}
      /\ \A d \in Calls : chamada[d].token \in Born \cup {None}
  BY DEF SessTypes, SessHolds, Saidas, Chamadas0
<1>2. Cadeia(sai[t].token) \subseteq Born /\ \A d \in Calls : Cadeia(chamada[d].token) \subseteq Born
  BY <1>1, Roots DEF SessTypes
<1>3. ASSUME NEW x \in Perdidas(t), x \notin Cadeia(sai[t].token)
      PROVE  \E d \in Calls : x \in Cadeia(chamada[d].token)
  <2> DEFINE D == {d \in DaAba(t) : Renovando(d)}
             F(d) == Cadeia(chamada[d].token)
  <2>1. D \subseteq Calls
    BY DEF DaAba
  <2>2. x \in UNION {F(d) : d \in D}
    BY <1>3 DEF Perdidas
  <2> HIDE DEF D, F
  <2>3. \E d \in D : x \in F(d)
    BY <2>2
  <2> QED BY <2>1, <2>3 DEF F
<1> QED BY <1>2, <1>3

LEMMA LostOne ==
    ASSUME NEW t \in Tabs, NEW c \in Calls, chamada[c].aba = t, Renovando(c)
    PROVE  Cadeia(chamada[c].token) \subseteq Perdidas(t)
<1> DEFINE D == {d \in DaAba(t) : Renovando(d)}
           F(d) == Cadeia(chamada[d].token)
<1>1. c \in D /\ Cadeia(chamada[c].token) = F(c)
  BY DEF DaAba
<1>2. UNION {F(d) : d \in D} \subseteq Perdidas(t)
  BY DEF Perdidas
<1> HIDE DEF D, F
<1>3. F(c) \subseteq UNION {F(d) : d \in D}
  BY <1>1
<1> QED BY <1>1, <1>2, <1>3

LEMMA RenovaFalhaTypes ==
    ASSUME SessTypes, NEW c \in Calls, RenovaFalha(c)
    PROVE  LET t == chamada[c].aba
               k == chamada[c].token
           IN  /\ SessTypes' /\ RowsGrow /\ Renovando(c) /\ t \in Tabs /\ k \in Born
               /\ Restarted(t) /\ Emptied(t)
               /\ Marks(Cadeia(sai[t].token)
                        \cup (IF Recusada(c) THEN {} ELSE Cadeia(k) \cup Cadeia(aba[t].token)))
               /\ expulsas' = expulsas \cup Cadeia(aba[t].token)
<1> DEFINE t == chamada[c].aba
           k == chamada[c].token
           P == Cadeia(sai[t].token)
                \cup (IF Recusada(c) THEN {} ELSE Cadeia(k) \cup Cadeia(aba[t].token))
<1>1. /\ Renovando(c) /\ Grava(t, Vazia) /\ chamada' = SemChamadas(t)
      /\ sai' = [sai EXCEPT ![t] = SemSaida] /\ entra' = [entra EXCEPT ![t] = SemEntrada]
      /\ expulsas' = expulsas \cup Cadeia(aba[t].token)
      /\ UNCHANGED <<servidor, encerradas, misturou, alterados>> /\ Historia(P)
  BY DEF RenovaFalha
<1>2. t \in Tabs /\ k \in Born
  BY <1>1 DEF SessTypes, SessHolds, Chamadas0, Renovando
<1>3. /\ Cadeia(sai[t].token) \subseteq Born /\ Cadeia(aba[t].token) \subseteq Born
      /\ Cadeia(k) \subseteq Born /\ Born \subseteq Tokens
  <2>1. sai[t].token \in Born \cup {None} /\ aba[t].token \in Born \cup {None}
    BY <1>2 DEF SessTypes, SessHolds, Stores, Saidas
  <2> QED BY <1>2, <2>1, Roots DEF SessTypes
<1>4. P \subseteq Tokens
  BY <1>3
<1> HIDE DEF P
<1>5. Marks(P)
  BY <1>1, <1>4, MarksGrow DEF SessTypes
<1>6. SessRows' /\ RowsGrow /\ Born' = Born
  BY <1>1, AccountsStay DEF SessTypes
<1>7. SessHolds' /\ Restarted(t) /\ Emptied(t)
  BY <1>1, <1>2, <1>6, Restarts
<1>8. SessHistory'
  BY <1>1, <1>3, <1>5, <1>6 DEF SessTypes, SessHistory, Marks
<1> QED BY <1>1, <1>2, <1>5, <1>6, <1>7, <1>8 DEF SessTypes, P

LEMMA RenovaPerdeTypes ==
    ASSUME SessTypes, NEW c \in Calls, NEW k \in Tokens, RenovaPerde(c, k)
    PROVE  LET t == chamada[c].aba
           IN  /\ SessTypes' /\ RowsGrow /\ Rotated(c, k) /\ chamada[c].pc = "revogou" /\ t \in Tabs
               /\ chamada[c].ativo /\ Restarted(t) /\ Emptied(t)
               /\ Marks(Perdidas(t) \cup Cadeia(aba[t].token))
               /\ expulsas' = expulsas \cup Cadeia(aba[t].token)
<1> DEFINE q == chamada[c]
           t == q.aba
           P == Perdidas(t) \cup Cadeia(aba[t].token)
<1>1. /\ Emite(k, linha[q.token].dono, q.papel, linha[q.token].raiz)
      /\ Grava(t, Vazia) /\ chamada' = SemChamadas(t)
      /\ sai' = [sai EXCEPT ![t] = SemSaida] /\ entra' = [entra EXCEPT ![t] = SemEntrada]
      /\ expulsas' = expulsas \cup Cadeia(aba[t].token)
      /\ UNCHANGED <<conta, encerradas, misturou, alterados>> /\ Historia(P)
      /\ q.pc = "revogou"
  BY DEF RenovaPerde
<1>2. q.ativo
  BY DEF RenovaPerde
<1>3. SessRows' /\ RowsGrow /\ Rotated(c, k) /\ t \in Tabs
  BY <1>1, Rotates
<1>4. /\ Perdidas(t) \subseteq Born /\ Cadeia(aba[t].token) \subseteq Born
      /\ Born \subseteq Tokens /\ Born \subseteq Born'
  <2>1. sai[t].token \in Born \cup {None} /\ aba[t].token \in Born \cup {None}
    BY <1>3 DEF SessTypes, SessHolds, Stores, Saidas
  <2> QED BY <1>3, <2>1, LostChains, Roots DEF SessTypes, Rotated
<1>5. P \subseteq Tokens
  BY <1>4
<1> HIDE DEF P
<1>6. Marks(P)
  BY <1>1, <1>5, MarksGrow DEF SessTypes
<1>7. SessHolds' /\ Restarted(t) /\ Emptied(t)
  BY <1>1, <1>3, <1>4, Restarts
<1>8. SessHistory'
  BY <1>1, <1>4, <1>6 DEF SessTypes, SessHistory, Marks
<1> QED BY <1>1, <1>2, <1>3, <1>6, <1>7, <1>8 DEF SessTypes, P

LEMMA SaiTypes ==
    ASSUME SessTypes, NEW t \in Tabs, Sai(t)
    PROVE  /\ SessTypes' /\ RowsGrow /\ Marks({}) /\ aba[t].token # None
           /\ sai'[t].pc = "enviado" /\ sai'[t].token = aba[t].token
           /\ \A x \in Tabs \ {t} : sai'[x] = sai[x]
<1> DEFINE s == [pc |-> "enviado", token |-> aba[t].token]
<1>1. /\ UNCHANGED <<servidor, navegador, entra, chamada, encerradas, expulsas, misturou, alterados>>
      /\ sai' = [sai EXCEPT ![t] = s] /\ Historia({}) /\ aba[t].token # None
  BY DEF Sai, ComTela
<1>2. aba[t].token \in Born /\ Born \subseteq Tokens
  BY <1>1 DEF SessTypes, SessHolds, Stores, Born
<1>3. s \in Saidas /\ s.pc = "enviado" /\ s.token = aba[t].token
  BY <1>2 DEF Saidas, Saida
<1> HIDE DEF s
<1>4. SessRows' /\ RowsGrow /\ Born' = Born
  BY <1>1, AccountsStay DEF SessTypes
<1>5. sai' \in [Tabs -> Saidas] /\ sai'[t] = s /\ \A x \in Tabs \ {t} : sai'[x] = sai[x]
  BY <1>1, <1>3 DEF SessTypes, SessHolds
<1>6. SessHolds'
  BY <1>1, <1>4, <1>5, StillHeld DEF SessTypes, SessHolds, navegador, Stored, Entradas0
<1>7. Marks({})
  BY <1>1, MarksGrow DEF SessTypes
<1>8. SessHistory'
  BY <1>1, <1>4, <1>7 DEF SessTypes, SessHistory, Marks
<1> QED BY <1>1, <1>3, <1>4, <1>5, <1>6, <1>7, <1>8 DEF SessTypes

LEMMA SaiServidorTypes ==
    ASSUME SessTypes, NEW t \in Tabs, SaiServidor(t)
    PROVE  /\ SessTypes' /\ RowsGrow /\ Born' = Born /\ Marks({})
           /\ sai[t].pc = "enviado" /\ sai[t].token \in Born /\ sai'[t].pc = "feito"
           /\ sai'[t].token = sai[t].token /\ \A x \in Tabs \ {t} : sai'[x] = sai[x]
           /\ linha'[sai[t].token].st = (IF Viva(sai[t].token) THEN "revoked" ELSE linha[sai[t].token].st)
           /\ \A j \in Tokens \ {sai[t].token} : linha'[j] = linha[j]
           /\ encerradas' = encerradas \cup {linha[sai[t].token].raiz}
<1> DEFINE k == sai[t].token
           s == [sai[t] EXCEPT !.pc = "feito"]
           st == IF Viva(k) THEN "revoked" ELSE linha[k].st
<1>1. /\ UNCHANGED <<conta, navegador, entra, chamada, expulsas, misturou, alterados>>
      /\ sai' = [sai EXCEPT ![t] = s] /\ Historia({}) /\ sai[t].pc = "enviado"
      /\ encerradas' = encerradas \cup Cadeia(k)
      /\ linha' = [linha EXCEPT ![k].st = IF Viva(k) THEN "revoked" ELSE @]
  BY DEF SaiServidor
<1>2. sai[t] \in Saida /\ k \in Born /\ Born \subseteq Tokens
  BY <1>1 DEF SessTypes, SessHolds, Saidas, Born
<1>3. s \in Saidas /\ s.pc = "feito" /\ s.token = k
  BY <1>2 DEF Saidas, Saida
<1>4. linha' = [linha EXCEPT ![k].st = st] /\ st \in {"live", "revoked", "expired"}
  <2>1. linha[k] \in Linha /\ linha[k].st # "none"
    BY <1>2 DEF SessTypes, SessRows, Born
  <2>2. st \in {"live", "revoked", "expired"}
    BY <2>1 DEF Linha
  <2>3. linha' = [linha EXCEPT ![k].st = st]
    BY <1>1, <1>2 DEF SessTypes, SessRows
  <2> QED BY <2>2, <2>3
<1> HIDE DEF s, st
<1>5. /\ SessRows' /\ RowsGrow /\ Born' = Born
      /\ \A j \in Tokens \ {k} : linha'[j] = linha[j]
  BY <1>1, <1>2, <1>4, RowChanges DEF SessTypes
<1>6. linha'[k].st = st
  BY <1>2, <1>4 DEF SessTypes, SessRows, Linha
<1>7. sai' \in [Tabs -> Saidas] /\ sai'[t] = s /\ \A x \in Tabs \ {t} : sai'[x] = sai[x]
  BY <1>1, <1>3 DEF SessTypes, SessHolds
<1>8. SessHolds'
  BY <1>1, <1>5, <1>7, StillHeld DEF SessTypes, SessHolds, navegador, Stored, Entradas0
<1>9. Marks({})
  BY <1>1, MarksGrow DEF SessTypes
<1>10. Cadeia(k) = {linha[k].raiz} /\ linha[k].raiz \in Born
  BY <1>2, Roots DEF SessTypes
<1>11. SessHistory'
  BY <1>1, <1>5, <1>9, <1>10 DEF SessTypes, SessHistory, Marks
<1> QED BY <1>1, <1>2, <1>3, <1>5, <1>6, <1>7, <1>8, <1>9, <1>10, <1>11 DEF SessTypes, st

LEMMA SaiLimpaTypes ==
    ASSUME SessTypes, NEW t \in Tabs, SaiLimpa(t)
    PROVE  /\ SessTypes' /\ RowsGrow /\ Emptied(t) /\ sai'[t] = SemSaida
           /\ Marks(IF sai[t].pc = "feito" THEN {} ELSE Cadeia(sai[t].token))
           /\ \A x \in Tabs \ {t} : sai'[x] = sai[x] /\ aba'[x] = aba[x]
<1> DEFINE P == IF sai[t].pc = "feito" THEN {} ELSE Cadeia(sai[t].token)
<1>1. /\ UNCHANGED <<servidor, entra, chamada, encerradas, expulsas, misturou, alterados>>
      /\ Grava(t, Vazia) /\ sai' = [sai EXCEPT ![t] = SemSaida] /\ Historia(P)
  BY DEF SaiLimpa
<1>2. P \subseteq Tokens
  <2>1. sai[t].token \in Born \cup {None}
    BY DEF SessTypes, SessHolds, Saidas
  <2> QED BY <2>1, Roots DEF SessTypes
<1> HIDE DEF P
<1>3. SessRows' /\ RowsGrow /\ Born' = Born
  BY <1>1, AccountsStay DEF SessTypes
<1>4. /\ aba' \in [Tabs -> Stores'] /\ guardado' \in Stores' /\ pdvToken' \in Born' \cup {None}
      /\ Stored' /\ aba'[t] = Vazia /\ guardado' = Vazia /\ pdvToken' = Vazia.token
      /\ \A x \in Tabs \ {t} : aba'[x] = aba[x]
  BY <1>1, <1>3, Blank, Writes DEF SessTypes
<1>5. sai' \in [Tabs -> Saidas] /\ sai'[t] = SemSaida /\ \A x \in Tabs \ {t} : sai'[x] = sai[x]
  BY <1>1, Blank DEF SessTypes, SessHolds
<1>6. SessHolds'
  BY <1>1, <1>3, <1>4, <1>5, StillHeld DEF SessTypes, SessHolds, Entradas0
<1>7. Marks(P)
  BY <1>1, <1>2, MarksGrow DEF SessTypes
<1>8. SessHistory'
  BY <1>1, <1>3, <1>7 DEF SessTypes, SessHistory, Marks
<1> QED BY <1>3, <1>4, <1>5, <1>6, <1>7, <1>8, Blank DEF SessTypes, Emptied, P

LEMMA AbreAbaTypes ==
    ASSUME SessTypes, NEW t \in Tabs, AbreAba(t)
    PROVE  /\ SessTypes' /\ RowsGrow /\ Restarted(t) /\ aba'[t] = guardado /\ Marks(Perdidas(t))
<1>1. /\ aba' = [aba EXCEPT ![t] = guardado] /\ chamada' = SemChamadas(t)
      /\ sai' = [sai EXCEPT ![t] = SemSaida] /\ entra' = [entra EXCEPT ![t] = SemEntrada]
      /\ UNCHANGED <<servidor, pdvToken, guardado, encerradas, expulsas, misturou, alterados>>
      /\ Historia(Perdidas(t))
  BY DEF AbreAba
<1>2. Perdidas(t) \subseteq Born /\ Born \subseteq Tokens
  BY LostChains, Roots DEF SessTypes
<1>3. SessRows' /\ RowsGrow /\ Born' = Born
  BY <1>1, AccountsStay DEF SessTypes
<1>4. /\ entra' \in [Tabs -> Entradas0] /\ sai' \in [Tabs -> Saidas']
      /\ chamada' \in [Calls -> Chamadas0']
      /\ entra'[t].pc = "idle" /\ sai'[t] = SemSaida
      /\ \A x \in Tabs \ {t} : entra'[x] = entra[x] /\ sai'[x] = sai[x]
      /\ \A c \in Calls : IF chamada[c].aba = t THEN chamada'[c] = Livre
                          ELSE chamada'[c] = chamada[c]
  BY <1>1, <1>3, Clears DEF SessTypes
<1>5. /\ aba' \in [Tabs -> Stores] /\ aba'[t] = guardado
      /\ \A x \in Tabs \ {t} : aba'[x] = aba[x]
  BY <1>1 DEF SessTypes, SessHolds
<1>6. SessHolds'
  BY <1>1, <1>3, <1>4, <1>5, StillHeld DEF SessTypes, SessHolds, Stored, Entradas0
<1>7. Marks(Perdidas(t))
  BY <1>1, <1>2, MarksGrow DEF SessTypes
<1>8. SessHistory'
  BY <1>1, <1>3, <1>7 DEF SessTypes, SessHistory, Marks
<1> QED BY <1>3, <1>4, <1>5, <1>6, <1>7, <1>8 DEF SessTypes, Restarted

LEMMA GravaEventoTypes ==
    ASSUME SessTypes, NEW t \in Tabs, GravaEvento(t)
    PROVE  SessTypes' /\ RowsGrow /\ Marks({}) /\ Born' = Born
<1>1. /\ guardado' = aba[t] /\ Historia({})
      /\ UNCHANGED <<servidor, pdvToken, aba, pedidos, encerradas, expulsas, misturou, alterados>>
  BY DEF GravaEvento
<1>2. SessRows' /\ RowsGrow /\ Born' = Born
  BY <1>1, AccountsStay DEF SessTypes
<1>3. SessHolds'
  BY <1>1, <1>2, StillHeld DEF SessTypes, SessHolds, Stored, Entradas0, pedidos
<1>4. Marks({})
  BY <1>1, MarksGrow DEF SessTypes
<1>5. SessHistory'
  BY <1>1, <1>2, <1>4 DEF SessTypes, SessHistory, Marks
<1> QED BY <1>2, <1>3, <1>4, <1>5 DEF SessTypes

LEMMA VenceAcessoTypes ==
    ASSUME SessTypes, NEW k \in Tokens, VenceAcesso(k)
    PROVE  /\ SessTypes' /\ RowsGrow /\ Marks({}) /\ Born' = Born
           /\ \A j \in Tokens : linha'[j].st = linha[j].st
<1>1. /\ linha' = [linha EXCEPT ![k].acesso = FALSE] /\ linha[k].acesso
      /\ UNCHANGED <<conta, navegador, pedidos, encerradas, expulsas, misturou, alterados>>
      /\ Historia({})
  BY DEF VenceAcesso
<1>2. /\ conta' \in [Users -> [ativo : BOOLEAN, papel : Roles]] /\ linha' \in [Tokens -> Linha]
      /\ \A j \in Tokens : /\ linha'[j].raiz = linha[j].raiz /\ linha'[j].dono = linha[j].dono
                           /\ linha'[j].papel = linha[j].papel /\ linha'[j].st = linha[j].st
  BY <1>1 DEF SessTypes, SessRows, Linha
<1>3. Born' = Born
  BY <1>2 DEF Born
<1>4. Lineage'
  BY <1>2, <1>3 DEF SessTypes, SessRows, Lineage, Born
<1>5. RowsGrow
  BY <1>2, <1>3 DEF RowsGrow, Born
<1>6. SessHolds'
  BY <1>1, <1>3, HoldsStay DEF SessTypes
<1>7. Marks({})
  BY <1>1, MarksGrow DEF SessTypes
<1>8. SessHistory'
  BY <1>1, <1>3, <1>7 DEF SessTypes, SessHistory, Marks
<1> QED BY <1>2, <1>3, <1>4, <1>5, <1>6, <1>7, <1>8 DEF SessTypes, SessRows

LEMMA VenceRefreshTypes ==
    ASSUME SessTypes, NEW k \in Tokens, VenceRefresh(k)
    PROVE  /\ SessTypes' /\ RowsGrow /\ Marks({}) /\ Born' = Born /\ Viva(k)
           /\ linha'[k].st = "expired" /\ \A j \in Tokens \ {k} : linha'[j] = linha[j]
<1>1. /\ linha' = [linha EXCEPT ![k].st = "expired"] /\ Viva(k)
      /\ UNCHANGED <<conta, navegador, pedidos, encerradas, expulsas, misturou, alterados>>
      /\ Historia({})
  BY DEF VenceRefresh
<1>2. k \in Born
  BY <1>1 DEF Viva, Born
<1>3. SessRows' /\ RowsGrow /\ Born' = Born /\ \A j \in Tokens \ {k} : linha'[j] = linha[j]
  BY <1>1, <1>2, RowChanges DEF SessTypes
<1>4. linha'[k].st = "expired"
  BY <1>1 DEF SessTypes, SessRows, Linha
<1>5. SessHolds'
  BY <1>1, <1>3, HoldsStay DEF SessTypes
<1>6. Marks({})
  BY <1>1, MarksGrow DEF SessTypes
<1>7. SessHistory'
  BY <1>1, <1>3, <1>6 DEF SessTypes, SessHistory, Marks
<1> QED BY <1>1, <1>3, <1>4, <1>5, <1>6, <1>7 DEF SessTypes

LEMMA AtualizaContaTypes ==
    ASSUME SessTypes, NEW u \in Users, NEW v \in BOOLEAN, NEW p \in Papeis, AtualizaConta(u, v, p)
    PROVE  /\ SessTypes' /\ RowsGrow /\ Marks({}) /\ alterados' = alterados \cup {u}
           /\ \A x \in Users \ {u} : conta'[x] = conta[x]
<1> DEFINE w == [ativo |-> v, papel |-> p]
<1>1. w \in [ativo : BOOLEAN, papel : Roles]
  BY SessionAssumption
<1>2. /\ conta' = [conta EXCEPT ![u] = w] /\ alterados' = alterados \cup {u}
      /\ UNCHANGED <<linha, navegador, pedidos, encerradas, expulsas, misturou>> /\ Historia({})
  BY DEF AtualizaConta
<1> HIDE DEF w
<1>3. /\ conta' \in [Users -> [ativo : BOOLEAN, papel : Roles]]
      /\ \A x \in Users \ {u} : conta'[x] = conta[x]
  BY <1>1, <1>2 DEF SessTypes, SessRows
<1>4. SessRows' /\ RowsGrow /\ Born' = Born
  BY <1>2, <1>3, RowsStay DEF SessTypes
<1>5. SessHolds'
  BY <1>2, <1>4, HoldsStay DEF SessTypes
<1>6. Marks({})
  BY <1>2, MarksGrow DEF SessTypes
<1>7. SessHistory'
  BY <1>2, <1>4, <1>6 DEF SessTypes, SessHistory, Marks
<1> QED BY <1>2, <1>3, <1>4, <1>5, <1>6, <1>7 DEF SessTypes
-----------------------------------------------------------------------------
(* Sessions: who acts, and as what *)

\* Tokens that requests are or will be made with.
InPlay ==
    {k \in Born :
        \/ k = pdvToken \/ k = guardado.token
        \/ \E t \in Tabs : aba[t].token = k
        \/ \E c \in Calls : Renovando(c) /\ chamada[c].token = k}

\* A store shows the owner of its token.
ShowsOwner(s) == s.user # None => s.token \in Born /\ linha[s.token].dono = s.user

OneOwner ==
    ~misturou =>
        /\ \A k, l \in InPlay : linha[k].dono = linha[l].dono
        /\ ShowsOwner(guardado) /\ \A t \in Tabs : ShowsOwner(aba[t])

RoleOf(u, p) == u \in alterados \/ p = conta[u].papel
ShowsRole(s) == s.user # None => RoleOf(s.user, s.papel)

\* Until an account is changed, rows, stores and requests have its role.
OneRole ==
    /\ \A u \in Users \ alterados : conta[u].ativo
    /\ \A k \in Born : RoleOf(linha[k].dono, linha[k].papel)
    /\ \A t \in Tabs : entra[t].pc = "lido" => RoleOf(entra[t].user, entra[t].papel)
    /\ \A c \in Calls : NoServidor(c) =>
          /\ RoleOf(linha[chamada[c].token].dono, chamada[c].papel)
          /\ linha[chamada[c].token].dono \in alterados \/ chamada[c].ativo
    /\ ShowsRole(guardado) /\ \A t \in Tabs : ShowsRole(aba[t])

SessWho == OneOwner /\ OneRole

AccountsGrow ==
    alterados \subseteq alterados' /\ \A u \in Users \ alterados' : conta'[u] = conta[u]

\* Stores are read, emptied, or keep whom they show.
StoresMove ==
    /\ guardado' = guardado \/ guardado' = Vazia \/ \E t \in Tabs : guardado' = aba'[t]
    /\ \A t \in Tabs : \/ aba'[t] = aba[t] \/ aba'[t] = guardado \/ aba'[t] = Vazia

\* Requests end, or are as they were.
CallsMove ==
    \A c \in Calls :
        /\ Renovando(c)' => \/ Renovando(c) /\ chamada'[c].token = chamada[c].token
                            \/ \E t \in Tabs : chamada'[c].token = aba[t].token
        /\ NoServidor(c)' => /\ NoServidor(c) /\ chamada'[c].token = chamada[c].token
                             /\ chamada'[c].papel = chamada[c].papel
                             /\ chamada'[c].ativo = chamada[c].ativo
EntriesMove == \A t \in Tabs : entra'[t].pc = "lido" => entra'[t] = entra[t]

LEMMA OwnerKept ==
    ASSUME SessTypes, SessTypes', OneOwner, RowsGrow, misturou' = misturou, StoresMove,
           pdvToken' \in {pdvToken, None},
           \A c \in Calls : Renovando(c)' =>
               \/ Renovando(c) /\ chamada'[c].token = chamada[c].token
               \/ \E t \in Tabs : chamada'[c].token = aba[t].token
    PROVE  OneOwner'
<1> SUFFICES ASSUME ~misturou
             PROVE  /\ \A k, l \in InPlay' : linha'[k].dono = linha'[l].dono
                    /\ ShowsOwner(guardado)' /\ \A t \in Tabs : ShowsOwner(aba[t])'
  BY DEF OneOwner
<1>1. /\ \A k, l \in InPlay : linha[k].dono = linha[l].dono
      /\ ShowsOwner(guardado) /\ \A t \in Tabs : ShowsOwner(aba[t])
  BY DEF OneOwner
<1>2. /\ aba \in [Tabs -> Stores] /\ guardado \in Stores /\ pdvToken \in Born \cup {None}
      /\ \A c \in Calls : Renovando(c) => chamada[c].token \in Born
      /\ Born \subseteq Tokens /\ Born \subseteq Born' /\ None \notin Tokens
  <2>1. \A c \in Calls : Renovando(c) => chamada[c].token \in Born
    BY DEF SessTypes, SessHolds, Chamadas0, Renovando
  <2> QED BY <2>1, SessionAssumption DEF SessTypes, SessHolds, Born, RowsGrow
<1>3. /\ None \notin Born' /\ aba' \in [Tabs -> Stores'] /\ guardado' \in Stores'
  BY SessionAssumption DEF SessTypes, SessHolds, Born
<1>4. \A t \in Tabs : aba'[t].token \in InPlay \cup {None}
  BY <1>2, Blank DEF StoresMove, InPlay, Stores
<1>5. guardado'.token \in InPlay \cup {None}
  BY <1>2, <1>4, Blank DEF StoresMove, InPlay, Stores
<1>6. ASSUME NEW k \in InPlay'
      PROVE  k \in InPlay
  <2>1. k \in Born' /\ k # None
    BY <1>3 DEF InPlay
  <2>2. CASE k = pdvToken'
    BY <1>2, <2>1, <2>2 DEF InPlay
  <2>3. CASE k = guardado'.token
    BY <1>5, <2>1, <2>3
  <2>4. CASE \E t \in Tabs : aba'[t].token = k
    BY <1>4, <2>1, <2>4
  <2>5. CASE \E c \in Calls : Renovando(c)' /\ chamada'[c].token = k
    <3>1. PICK c \in Calls : Renovando(c)' /\ chamada'[c].token = k
      BY <2>5
    <3>2. CASE Renovando(c) /\ chamada'[c].token = chamada[c].token
      BY <1>2, <3>1, <3>2 DEF InPlay
    <3>3. CASE \E t \in Tabs : chamada'[c].token = aba[t].token
      BY <1>2, <2>1, <3>1, <3>3 DEF InPlay, Stores
    <3> QED BY <3>1, <3>2, <3>3
  <2> QED BY <2>2, <2>3, <2>4, <2>5 DEF InPlay
<1>7. InPlay \subseteq Born /\ \A k \in Born : linha'[k].dono = linha[k].dono
  BY DEF InPlay, RowsGrow
<1>8. \A k, l \in InPlay' : linha'[k].dono = linha'[l].dono
  BY <1>1, <1>6, <1>7
<1>9. ASSUME NEW s, ShowsOwner(s)
      PROVE  s.user # None => s.token \in Born' /\ linha'[s.token].dono = s.user
  BY <1>2, <1>7, <1>9 DEF ShowsOwner
<1>10. \A t \in Tabs : aba'[t].user # None =>
          aba'[t].token \in Born' /\ linha'[aba'[t].token].dono = aba'[t].user
  <2> SUFFICES ASSUME NEW t \in Tabs
               PROVE  aba'[t].user # None =>
                        aba'[t].token \in Born' /\ linha'[aba'[t].token].dono = aba'[t].user
    OBVIOUS
  <2>1. CASE aba'[t] = aba[t]
    BY <1>1, <1>9, <2>1
  <2>2. CASE aba'[t] = guardado
    BY <1>1, <1>9, <2>2
  <2>3. CASE aba'[t] = Vazia
    BY <2>3, Blank
  <2> QED BY <2>1, <2>2, <2>3 DEF StoresMove
<1>11. guardado'.user # None =>
          guardado'.token \in Born' /\ linha'[guardado'.token].dono = guardado'.user
  <2>1. CASE guardado' = guardado
    BY <1>1, <1>9, <2>1
  <2>2. CASE guardado' = Vazia
    BY <2>2, Blank
  <2>3. CASE \E t \in Tabs : guardado' = aba'[t]
    BY <1>10, <2>3
  <2> QED BY <2>1, <2>2, <2>3 DEF StoresMove
<1> QED BY <1>8, <1>10, <1>11 DEF ShowsOwner

LEMMA RoleStays ==
    ASSUME AccountsGrow, NEW u \in Users, NEW p, RoleOf(u, p)
    PROVE  u \in alterados' \/ p = conta'[u].papel
BY DEF AccountsGrow, RoleOf

LEMMA RoleKept ==
    ASSUME SessTypes, SessTypes', OneRole, RowsGrow, AccountsGrow,
           guardado' = guardado \/ guardado' = Vazia \/ \E t \in Tabs : guardado' = aba'[t],
           \A t \in Tabs :
               \/ aba'[t].user = aba[t].user /\ aba'[t].papel = aba[t].papel
               \/ aba'[t] = guardado \/ aba'[t] = Vazia \/ ShowsRole(aba[t])',
           \A k \in Born' \ Born : RoleOf(linha[k].dono, linha[k].papel)',
           \A t \in Tabs : entra'[t].pc = "lido" =>
               entra'[t] = entra[t] \/ RoleOf(entra[t].user, entra[t].papel)',
           \A c \in Calls : NoServidor(c)' =>
               \/ /\ NoServidor(c) /\ chamada'[c].token = chamada[c].token
                  /\ chamada'[c].papel = chamada[c].papel
                  /\ chamada'[c].ativo = chamada[c].ativo
               \/ /\ RoleOf(linha[chamada[c].token].dono, chamada[c].papel)'
                  /\ (linha[chamada[c].token].dono \in alterados \/ chamada[c].ativo)'
    PROVE  OneRole'
<1>1. \A u \in Users \ alterados' : conta'[u].ativo
  BY DEF AccountsGrow, OneRole
<1>2. \A k \in Born' : RoleOf(linha[k].dono, linha[k].papel)'
  <2> SUFFICES ASSUME NEW k \in Born PROVE RoleOf(linha[k].dono, linha[k].papel)'
    OBVIOUS
  <2>1. linha[k].dono \in Users /\ RoleOf(linha[k].dono, linha[k].papel)
    BY Roots DEF OneRole, SessTypes
  <2>2. linha'[k].dono = linha[k].dono /\ linha'[k].papel = linha[k].papel
    BY DEF RowsGrow
  <2> QED BY <2>1, <2>2, RoleStays DEF RoleOf
<1>3. \A t \in Tabs : entra'[t].pc = "lido" => RoleOf(entra[t].user, entra[t].papel)'
  <2> SUFFICES ASSUME NEW t \in Tabs, entra'[t].pc = "lido", entra'[t] = entra[t]
               PROVE  RoleOf(entra[t].user, entra[t].papel)'
    OBVIOUS
  <2>1. entra[t].user \in Users /\ RoleOf(entra[t].user, entra[t].papel)
    BY DEF OneRole, SessTypes, SessHolds, Entradas0
  <2> QED BY <2>1, RoleStays DEF RoleOf
<1>4. \A c \in Calls : NoServidor(c)' =>
          /\ RoleOf(linha[chamada[c].token].dono, chamada[c].papel)'
          /\ (linha[chamada[c].token].dono \in alterados \/ chamada[c].ativo)'
  <2> SUFFICES ASSUME NEW c \in Calls, NoServidor(c)', NoServidor(c),
                      chamada'[c].token = chamada[c].token, chamada'[c].papel = chamada[c].papel,
                      chamada'[c].ativo = chamada[c].ativo
               PROVE  /\ RoleOf(linha[chamada[c].token].dono, chamada[c].papel)'
                      /\ (linha[chamada[c].token].dono \in alterados \/ chamada[c].ativo)'
    OBVIOUS
  <2> DEFINE k == chamada[c].token
  <2>1. k \in Born
    BY DEF SessTypes, SessHolds, Chamadas0, NoServidor
  <2>2. /\ linha'[k].dono = linha[k].dono /\ linha[k].dono \in Users
    BY <2>1, Roots DEF RowsGrow, SessTypes
  <2>3. RoleOf(linha[k].dono, chamada[c].papel) /\ (linha[k].dono \in alterados \/ chamada[c].ativo)
    BY DEF OneRole
  <2>4. RoleOf(linha[k].dono, chamada[c].papel)'
    <3>1. linha[k].dono \in alterados' \/ chamada[c].papel = conta'[linha[k].dono].papel
      BY <2>2, <2>3, RoleStays
    <3> QED BY <2>2, <3>1 DEF RoleOf
  <2>5. (linha[k].dono \in alterados \/ chamada[c].ativo)'
    BY <2>2, <2>3 DEF AccountsGrow
  <2> QED BY <2>4, <2>5
<1>5. ASSUME NEW s \in Store, ShowsRole(s)
      PROVE  s.user # None => s.user \in alterados' \/ s.papel = conta'[s.user].papel
  BY <1>5, RoleStays DEF ShowsRole, Store
<1>6. \A t \in Tabs : ShowsRole(aba[t])'
  <2> SUFFICES ASSUME NEW t \in Tabs
               PROVE  aba'[t].user # None =>
                        aba'[t].user \in alterados' \/ aba'[t].papel = conta'[aba'[t].user].papel
    BY DEF ShowsRole, RoleOf
  <2>1. aba[t] \in Store /\ guardado \in Store /\ ShowsRole(aba[t]) /\ ShowsRole(guardado)
    BY DEF SessTypes, SessHolds, Stores, OneRole
  <2>2. CASE aba'[t].user = aba[t].user /\ aba'[t].papel = aba[t].papel
    BY <1>5, <2>1, <2>2
  <2>3. CASE aba'[t] = guardado
    BY <1>5, <2>1, <2>3
  <2>4. CASE aba'[t] = Vazia
    BY <2>4, Blank
  <2>5. CASE ShowsRole(aba[t])'
    BY <2>5 DEF ShowsRole, RoleOf
  <2> QED BY <2>2, <2>3, <2>4, <2>5
<1>7. ShowsRole(guardado)'
  <2>1. guardado \in Store /\ ShowsRole(guardado)
    BY DEF SessTypes, SessHolds, Stores, OneRole
  <2>2. CASE guardado' = guardado
    BY <1>5, <2>1, <2>2 DEF ShowsRole, RoleOf
  <2>3. CASE guardado' = Vazia
    BY <2>3, Blank DEF ShowsRole
  <2>4. CASE \E t \in Tabs : guardado' = aba'[t]
    BY <1>6, <2>4 DEF ShowsRole, RoleOf
  <2> QED BY <2>2, <2>3, <2>4
<1> QED BY <1>1, <1>2, <1>3, <1>4, <1>6, <1>7 DEF OneRole

LEMMA WhoKept ==
    ASSUME SessTypes, SessTypes', SessWho, RowsGrow, AccountsGrow, misturou' = misturou, StoresMove,
           pdvToken' \in {pdvToken, None}, CallsMove, EntriesMove,
           \A k \in Born' \ Born : RoleOf(linha[k].dono, linha[k].papel)'
    PROVE  SessWho'
<1>1. \A c \in Calls : Renovando(c)' =>
          \/ Renovando(c) /\ chamada'[c].token = chamada[c].token
          \/ \E t \in Tabs : chamada'[c].token = aba[t].token
  BY DEF CallsMove
<1>2. OneOwner'
  BY <1>1, OwnerKept DEF SessWho
<1>3. \A t \in Tabs :
          \/ aba'[t].user = aba[t].user /\ aba'[t].papel = aba[t].papel
          \/ aba'[t] = guardado \/ aba'[t] = Vazia \/ ShowsRole(aba[t])'
  BY DEF StoresMove
<1>4. guardado' = guardado \/ guardado' = Vazia \/ \E t \in Tabs : guardado' = aba'[t]
  BY DEF StoresMove
<1>5. \A t \in Tabs : entra'[t].pc = "lido" =>
          entra'[t] = entra[t] \/ RoleOf(entra[t].user, entra[t].papel)'
  BY DEF EntriesMove
<1>6. \A c \in Calls : NoServidor(c)' =>
          \/ /\ NoServidor(c) /\ chamada'[c].token = chamada[c].token
             /\ chamada'[c].papel = chamada[c].papel /\ chamada'[c].ativo = chamada[c].ativo
          \/ /\ RoleOf(linha[chamada[c].token].dono, chamada[c].papel)'
             /\ (linha[chamada[c].token].dono \in alterados \/ chamada[c].ativo)'
  BY DEF CallsMove
<1>7. OneRole'
  BY <1>3, <1>4, <1>5, <1>6, RoleKept DEF SessWho
<1> QED BY <1>2, <1>7 DEF SessWho

\* Steps that leave the browser's stores alone.
LEMMA CallsHold ==
    ASSUME UNCHANGED chamada
    PROVE  CallsMove
BY DEF CallsMove, Renovando, NoServidor

LEMMA WhoBeside ==
    ASSUME SessTypes, SessTypes', SessWho, RowsGrow, Born' = Born, AccountsGrow,
           UNCHANGED <<navegador, misturou>>, CallsMove, EntriesMove
    PROVE  SessWho'
<1>1. StoresMove /\ pdvToken' \in {pdvToken, None} /\ misturou' = misturou
  BY DEF StoresMove, navegador
<1> QED BY <1>1, WhoKept

\* A tab's store is emptied, or read from the stored copy; its requests end.
LEMMA WhoRestarts ==
    ASSUME SessTypes, SessTypes', SessWho, RowsGrow, UNCHANGED <<conta, misturou, alterados>>,
           NEW t \in Tabs, Restarted(t),
           \/ Emptied(t)
           \/ aba'[t] = guardado /\ UNCHANGED <<guardado, pdvToken>>,
           \A k \in Born' \ Born : RoleOf(linha[k].dono, linha[k].papel)'
    PROVE  SessWho'
<1>1. StoresMove /\ pdvToken' \in {pdvToken, None}
  BY DEF Restarted, Emptied, StoresMove
<1>2. ASSUME NEW c \in Calls
      PROVE  chamada'[c].pc = "idle" \/ chamada'[c] = chamada[c]
  BY Blank DEF Restarted
<1>3. CallsMove
  BY <1>2 DEF CallsMove, Renovando, NoServidor
<1>4. EntriesMove
  BY DEF EntriesMove, Restarted
<1>5. AccountsGrow /\ misturou' = misturou
  BY DEF AccountsGrow
<1> QED BY <1>1, <1>3, <1>4, <1>5, WhoKept

LEMMA EntraLeWho ==
    ASSUME SessTypes, SessWho, NEW t \in Tabs, NEW u \in Users, EntraLe(t, u)
    PROVE  SessWho'
<1>1. /\ SessTypes' /\ RowsGrow /\ entra'[t].user = u /\ entra'[t].papel = conta[u].papel
      /\ \A x \in Tabs \ {t} : entra'[x] = entra[x]
  BY EntraLeTypes
<1>2. UNCHANGED <<servidor, navegador, chamada, misturou, alterados>>
  BY DEF EntraLe
<1>3. Born' = Born /\ AccountsGrow /\ StoresMove /\ CallsMove /\ misturou' = misturou
      /\ pdvToken' \in {pdvToken, None} /\ UNCHANGED conta
  BY <1>2, CallsHold DEF servidor, navegador, Born, AccountsGrow, StoresMove
<1>4. OneOwner'
  BY <1>1, <1>3, OwnerKept DEF SessWho, CallsMove
<1>5. \A x \in Tabs : entra'[x].pc = "lido" =>
          entra'[x] = entra[x] \/ RoleOf(entra[x].user, entra[x].papel)'
  BY <1>1, <1>3 DEF RoleOf
<1>6. OneRole'
  <2>1. \A x \in Tabs :
            \/ aba'[x].user = aba[x].user /\ aba'[x].papel = aba[x].papel
            \/ aba'[x] = guardado \/ aba'[x] = Vazia \/ ShowsRole(aba[x])'
    BY <1>3 DEF StoresMove
  <2>2. guardado' = guardado \/ guardado' = Vazia \/ \E x \in Tabs : guardado' = aba'[x]
    BY <1>3 DEF StoresMove
  <2>3. \A c \in Calls : NoServidor(c)' =>
          \/ /\ NoServidor(c) /\ chamada'[c].token = chamada[c].token
             /\ chamada'[c].papel = chamada[c].papel /\ chamada'[c].ativo = chamada[c].ativo
          \/ /\ RoleOf(linha[chamada[c].token].dono, chamada[c].papel)'
             /\ (linha[chamada[c].token].dono \in alterados \/ chamada[c].ativo)'
    BY <1>3 DEF CallsMove
  <2> QED BY <1>1, <1>3, <1>5, <2>1, <2>2, <2>3, RoleKept DEF SessWho
<1> QED BY <1>4, <1>6 DEF SessWho

LEMMA RenovaAchaWho ==
    ASSUME SessTypes, SessWho, NEW c \in Calls, RenovaAcha(c)
    PROVE  SessWho'
<1> DEFINE k == chamada[c].token
           u == linha[k].dono
<1>1. /\ SessTypes' /\ RowsGrow /\ chamada[c].pc = "renova" /\ k \in Born
      /\ chamada'[c].token = k /\ chamada'[c].ativo = conta[u].ativo
      /\ chamada'[c].papel = conta[u].papel
      /\ \A d \in Calls \ {c} : chamada'[d] = chamada[d]
  BY RenovaAchaTypes
<1>2. UNCHANGED <<servidor, navegador, entra, misturou, alterados>>
  BY DEF RenovaAcha
<1>3. /\ Born' = Born /\ AccountsGrow /\ StoresMove /\ misturou' = misturou /\ EntriesMove
      /\ pdvToken' \in {pdvToken, None} /\ UNCHANGED <<conta, linha>>
  BY <1>2 DEF servidor, navegador, Born, AccountsGrow, StoresMove, EntriesMove
<1>4. \A d \in Calls : Renovando(d)' => Renovando(d) /\ chamada'[d].token = chamada[d].token
  BY <1>1 DEF Renovando
<1>5. OneOwner'
  BY <1>1, <1>3, <1>4, OwnerKept DEF SessWho
<1>6. \A d \in Calls : NoServidor(d)' =>
          \/ /\ NoServidor(d) /\ chamada'[d].token = chamada[d].token
             /\ chamada'[d].papel = chamada[d].papel /\ chamada'[d].ativo = chamada[d].ativo
          \/ /\ RoleOf(linha[chamada[d].token].dono, chamada[d].papel)'
             /\ (linha[chamada[d].token].dono \in alterados \/ chamada[d].ativo)'
  <2>1. u \in Users
    BY <1>1, Roots DEF SessTypes
  <2>2. RoleOf(linha[chamada[c].token].dono, chamada[c].papel)'
    BY <1>1, <1>3, <2>1 DEF RoleOf
  <2>3. (linha[chamada[c].token].dono \in alterados \/ chamada[c].ativo)'
    <3>1. u \in alterados \/ conta[u].ativo
      BY <2>1 DEF SessWho, OneRole
    <3> QED BY <1>1, <1>2, <1>3, <3>1
  <2>4. \A d \in Calls \ {c} : NoServidor(d)' => NoServidor(d)
    BY <1>1 DEF NoServidor
  <2> QED BY <1>1, <2>2, <2>3, <2>4
<1>7. OneRole'
  <2>1. \A x \in Tabs :
            \/ aba'[x].user = aba[x].user /\ aba'[x].papel = aba[x].papel
            \/ aba'[x] = guardado \/ aba'[x] = Vazia \/ ShowsRole(aba[x])'
    BY <1>3 DEF StoresMove
  <2>2. guardado' = guardado \/ guardado' = Vazia \/ \E x \in Tabs : guardado' = aba'[x]
    BY <1>3 DEF StoresMove
  <2> QED BY <1>1, <1>3, <1>6, <2>1, <2>2, RoleKept DEF SessWho, EntriesMove
<1> QED BY <1>5, <1>7 DEF SessWho

LEMMA RenovaEmiteWho ==
    ASSUME SessTypes, SessWho, NEW c \in Calls, NEW k \in Tokens, RenovaEmite(c, k)
    PROVE  SessWho'
<1> DEFINE t == chamada[c].aba
           q == chamada[c].token
<1>1. /\ SessTypes' /\ RowsGrow /\ Rotated(c, k) /\ chamada[c].pc = "revogou" /\ t \in Tabs
      /\ aba'[t].token = k /\ aba'[t].user = aba[t].user /\ aba'[t].papel = aba[t].papel
      /\ guardado' = aba'[t] /\ pdvToken' = k
      /\ \A x \in Tabs \ {t} : aba'[x] = aba[x]
      /\ \A d \in Calls : chamada'[d].pc = "enviada" \/ chamada'[d] = chamada[d]
  BY RenovaEmiteTypes
<1>2. UNCHANGED <<conta, entra, misturou, alterados>>
  BY DEF RenovaEmite
<1>3. /\ q \in Born /\ q \in InPlay /\ k \in Born' /\ Born \subseteq Born' /\ None \notin Born'
      /\ linha'[k].dono = linha[q].dono /\ linha'[k].papel = chamada[c].papel
      /\ Born' = Born \cup {k}
  BY <1>1, SessionAssumption DEF Rotated, InPlay, Renovando, Born
<1>4. OneOwner'
  <2> SUFFICES ASSUME ~misturou
               PROVE  /\ \A j, l \in InPlay' : linha'[j].dono = linha'[l].dono
                      /\ ShowsOwner(guardado)' /\ \A x \in Tabs : ShowsOwner(aba[x])'
    BY <1>2 DEF OneOwner
  <2>1. /\ \A j, l \in InPlay : linha[j].dono = linha[l].dono
        /\ ShowsOwner(guardado) /\ \A x \in Tabs : ShowsOwner(aba[x])
    BY DEF SessWho, OneOwner
  <2>2. \A x \in Tabs : aba[x].token \in InPlay \cup {None}
    BY DEF InPlay, SessTypes, SessHolds, Stores
  <2>3. \A x \in Tabs : aba'[x].token \in InPlay \cup {None, k}
    BY <1>1, <2>2
  <2>4. ASSUME NEW j \in InPlay', j # k
        PROVE  j \in InPlay
    <3>1. j \in Born' /\ j # None
      BY <1>3 DEF InPlay
    <3>2. CASE j = pdvToken' \/ j = guardado'.token
      BY <1>1, <2>4, <3>2
    <3>3. CASE \E x \in Tabs : aba'[x].token = j
      BY <2>3, <2>4, <3>1, <3>3
    <3>4. CASE \E d \in Calls : Renovando(d)' /\ chamada'[d].token = j
      <4>1. PICK d \in Calls : Renovando(d)' /\ chamada'[d].token = j
        BY <3>4
      <4>2. Renovando(d) /\ chamada[d].token = j
        BY <1>1, <4>1 DEF Renovando
      <4>3. j \in Born
        BY <4>2 DEF SessTypes, SessHolds, Chamadas0, Renovando
      <4> QED BY <4>2, <4>3 DEF InPlay
    <3> QED BY <3>2, <3>3, <3>4 DEF InPlay
  <2>5. InPlay \subseteq Born /\ \A j \in Born : linha'[j].dono = linha[j].dono
    BY <1>1 DEF InPlay, RowsGrow
  <2>6. \A j \in InPlay' : linha'[j].dono = linha[q].dono
    BY <1>3, <2>1, <2>4, <2>5
  <2>7. ASSUME NEW x \in Tabs
        PROVE  ShowsOwner(aba[x])'
    <3>1. CASE x = t
      <4>1. aba[t].user # None => linha[q].dono = aba[t].user
        <5>1. aba[t].user # None => aba[t].token \in Born /\ linha[aba[t].token].dono = aba[t].user
          BY <1>1, <2>1 DEF ShowsOwner
        <5>2. aba[t].token \in Born => aba[t].token \in InPlay
          BY <1>1 DEF InPlay
        <5> QED BY <1>3, <2>1, <5>1, <5>2
      <4> QED BY <1>1, <1>3, <3>1, <4>1 DEF ShowsOwner
    <3>2. CASE x # t
      BY <1>1, <1>3, <2>1, <2>5, <3>2 DEF ShowsOwner
    <3> QED BY <3>1, <3>2
  <2>8. ShowsOwner(guardado)'
    BY <1>1, <2>7 DEF ShowsOwner
  <2> QED BY <2>6, <2>7, <2>8
<1>5. OneRole'
  <2>1. \A x \in Tabs :
            \/ aba'[x].user = aba[x].user /\ aba'[x].papel = aba[x].papel
            \/ aba'[x] = guardado \/ aba'[x] = Vazia \/ ShowsRole(aba[x])'
    BY <1>1
  <2>2. guardado' = guardado \/ guardado' = Vazia \/ \E x \in Tabs : guardado' = aba'[x]
    BY <1>1
  <2>3. \A d \in Calls : NoServidor(d)' =>
          \/ /\ NoServidor(d) /\ chamada'[d].token = chamada[d].token
             /\ chamada'[d].papel = chamada[d].papel /\ chamada'[d].ativo = chamada[d].ativo
          \/ /\ RoleOf(linha[chamada[d].token].dono, chamada[d].papel)'
             /\ (linha[chamada[d].token].dono \in alterados \/ chamada[d].ativo)'
    BY <1>1 DEF NoServidor
  <2>4. \A j \in Born' \ Born : RoleOf(linha[j].dono, linha[j].papel)'
    <3>1. RoleOf(linha[q].dono, chamada[c].papel)
      BY <1>1 DEF SessWho, OneRole, NoServidor
    <3>2. RoleOf(linha[k].dono, linha[k].papel)'
      BY <1>2, <1>3, <3>1 DEF RoleOf
    <3> QED BY <1>3, <3>2
  <2>5. AccountsGrow /\ \A x \in Tabs : entra'[x].pc = "lido" =>
            entra'[x] = entra[x] \/ RoleOf(entra[x].user, entra[x].papel)'
    BY <1>2 DEF AccountsGrow
  <2> QED BY <1>1, <2>1, <2>2, <2>3, <2>4, <2>5, RoleKept DEF SessWho
<1> QED BY <1>4, <1>5 DEF SessWho

LEMMA EntraEmiteWho ==
    ASSUME SessTypes, SessWho, NEW t \in Tabs, NEW k \in Tokens, EntraEmite(t, k)
    PROVE  SessWho'
<1> DEFINE u == entra[t].user
<1>1. /\ SessTypes' /\ RowsGrow /\ Born' = Born \cup {k} /\ k \notin Born
      /\ linha'[k].dono = u /\ linha'[k].papel = entra[t].papel
      /\ aba'[t].token = k /\ aba'[t].user = u /\ aba'[t].papel = entra[t].papel
      /\ guardado' = aba'[t] /\ pdvToken' = k
      /\ \A x \in Tabs \ {t} : aba'[x] = aba[x]
      /\ entra'[t].pc = "idle" /\ \A x \in Tabs \ {t} : entra'[x] = entra[x]
      /\ u \in Users
  BY EntraEmiteTypes
<1>2. UNCHANGED <<conta, chamada, alterados>>
  BY DEF EntraEmite
<1>3. entra[t].pc = "lido" /\ misturou' = (misturou \/ OutroUsuario(t, u))
  BY DEF EntraEmite
<1>4. OneOwner'
  <2> SUFFICES ASSUME ~misturou'
               PROVE  /\ \A j, l \in InPlay' : linha'[j].dono = linha'[l].dono
                      /\ ShowsOwner(guardado)' /\ \A x \in Tabs : ShowsOwner(aba[x])'
    BY DEF OneOwner
  <2>1. /\ ~misturou
        /\ \A s \in Tabs \ {t} : aba[s].token # None => linha[aba[s].token].dono = u
        /\ \A c \in Calls : Renovando(c) => linha[chamada[c].token].dono = u
    <3>1. ~misturou /\ ~OutroUsuario(t, u)
      BY <1>3
    <3> HIDE DEF u
    <3> QED BY <3>1 DEF OutroUsuario
  <2>2. \A x \in Tabs : ShowsOwner(aba[x])
    BY <2>1 DEF SessWho, OneOwner
  <2>3. None \notin Born' /\ \A j \in Born : linha'[j].dono = linha[j].dono
    BY <1>1, SessionAssumption DEF RowsGrow, Born
  <2>4. \A x \in Tabs \ {t} : aba'[x].token \in Born \cup {None} /\ aba'[x].token = aba[x].token
    BY <1>1 DEF SessTypes, SessHolds, Stores
  <2>5. ASSUME NEW j \in InPlay'
        PROVE  linha'[j].dono = u
    <3>1. j \in Born' /\ j # None
      BY <2>3 DEF InPlay
    <3>2. CASE j = k
      BY <1>1, <3>2
    <3>3. CASE j # k /\ \E x \in Tabs : aba'[x].token = j
      BY <1>1, <2>1, <2>3, <2>4, <3>1, <3>3
    <3>4. CASE \E c \in Calls : Renovando(c)' /\ chamada'[c].token = j
      <4>1. PICK c \in Calls : Renovando(c) /\ chamada[c].token = j
        BY <1>2, <3>4 DEF Renovando
      <4>2. j \in Born
        BY <4>1 DEF SessTypes, SessHolds, Chamadas0, Renovando
      <4> QED BY <2>1, <2>3, <4>1, <4>2
    <3>5. CASE j # k /\ (j = pdvToken' \/ j = guardado'.token)
      BY <1>1, <3>5
    <3> QED BY <3>2, <3>3, <3>4, <3>5 DEF InPlay
  <2>6. ASSUME NEW x \in Tabs
        PROVE  ShowsOwner(aba[x])'
    <3>1. CASE x = t
      BY <1>1, <3>1 DEF ShowsOwner
    <3>2. CASE x # t
      BY <1>1, <2>2, <2>3, <3>2 DEF ShowsOwner
    <3> QED BY <3>1, <3>2
  <2>7. ShowsOwner(guardado)'
    BY <1>1, <2>6 DEF ShowsOwner
  <2> QED BY <2>5, <2>6, <2>7
<1>5. OneRole'
  <2>1. u \in alterados \/ entra[t].papel = conta[u].papel
    BY <1>3 DEF SessWho, OneRole, RoleOf
  <2>2. RoleOf(linha[k].dono, linha[k].papel)'
    BY <1>1, <1>2, <2>1 DEF RoleOf
  <2>3. ShowsRole(aba[t])'
    BY <1>1, <1>2, <2>1 DEF ShowsRole, RoleOf
  <2>4. \A x \in Tabs :
          \/ aba'[x].user = aba[x].user /\ aba'[x].papel = aba[x].papel
          \/ aba'[x] = guardado \/ aba'[x] = Vazia \/ ShowsRole(aba[x])'
    BY <1>1, <2>3
  <2>5. guardado' = guardado \/ guardado' = Vazia \/ \E x \in Tabs : guardado' = aba'[x]
    BY <1>1
  <2>6. \A d \in Calls : NoServidor(d)' =>
          \/ /\ NoServidor(d) /\ chamada'[d].token = chamada[d].token
             /\ chamada'[d].papel = chamada[d].papel /\ chamada'[d].ativo = chamada[d].ativo
          \/ /\ RoleOf(linha[chamada[d].token].dono, chamada[d].papel)'
             /\ (linha[chamada[d].token].dono \in alterados \/ chamada[d].ativo)'
    BY <1>2 DEF NoServidor
  <2>7. AccountsGrow /\ \A x \in Tabs : entra'[x].pc = "lido" =>
          entra'[x] = entra[x] \/ RoleOf(entra[x].user, entra[x].papel)'
    BY <1>1, <1>2 DEF AccountsGrow
  <2>8. \A j \in Born' \ Born : RoleOf(linha[j].dono, linha[j].papel)'
    BY <1>1, <2>2
  <2> QED BY <1>1, <2>4, <2>5, <2>6, <2>7, <2>8, RoleKept DEF SessWho
<1> QED BY <1>4, <1>5 DEF SessWho

LEMMA WhoNext ==
    ASSUME SessTypes, SessWho, SessionNext
    PROVE  SessTypes' /\ RowsGrow /\ SessWho'
<1>1. ASSUME NEW t \in Tabs, NEW u \in Users, EntraLe(t, u) PROVE SessTypes' /\ RowsGrow /\ SessWho'
  BY <1>1, EntraLeTypes, EntraLeWho
<1>2. ASSUME NEW t \in Tabs, EntraFalha(t) PROVE SessTypes' /\ RowsGrow /\ SessWho'
  <2>1. /\ SessTypes' /\ RowsGrow /\ entra'[t].pc = "idle"
        /\ \A x \in Tabs \ {t} : entra'[x] = entra[x]
    BY <1>2, EntraFalhaTypes
  <2>2. UNCHANGED <<servidor, navegador, chamada, misturou, alterados>>
    BY <1>2 DEF EntraFalha
  <2>3. AccountsGrow /\ CallsMove /\ EntriesMove /\ Born' = Born
    BY <2>1, <2>2, CallsHold DEF AccountsGrow, EntriesMove, Born, servidor
  <2> QED BY <2>1, <2>2, <2>3, WhoBeside
<1>3. ASSUME NEW t \in Tabs, NEW k \in Tokens, EntraEmite(t, k)
      PROVE  SessTypes' /\ RowsGrow /\ SessWho'
  BY <1>3, EntraEmiteTypes, EntraEmiteWho
<1>4. ASSUME NEW t \in Tabs, NEW c \in Calls, Chama(c, t) PROVE SessTypes' /\ RowsGrow /\ SessWho'
  <2>1. /\ SessTypes' /\ RowsGrow /\ chamada'[c].pc = "enviada"
        /\ \A d \in Calls \ {c} : chamada'[d] = chamada[d]
    BY <1>4, ChamaTypes
  <2>2. UNCHANGED <<servidor, navegador, entra, misturou, alterados>>
    BY <1>4 DEF Chama
  <2>3. AccountsGrow /\ EntriesMove /\ Born' = Born
    BY <2>2 DEF AccountsGrow, EntriesMove, Born, servidor
  <2>4. CallsMove
    BY <2>1 DEF CallsMove, Renovando, NoServidor
  <2> QED BY <2>1, <2>2, <2>3, <2>4, WhoBeside
<1>5. ASSUME NEW t \in Tabs, Sai(t) \/ SaiServidor(t) PROVE SessTypes' /\ RowsGrow /\ SessWho'
  <2>1. SessTypes' /\ RowsGrow
    BY <1>5, SaiTypes, SaiServidorTypes
  <2>2. UNCHANGED <<conta, navegador, entra, chamada, misturou, alterados>>
    BY <1>5 DEF Sai, SaiServidor, servidor
  <2>3. Born' = Born
    <3>1. CASE Sai(t)
      BY <3>1 DEF Sai, servidor, Born
    <3>2. CASE SaiServidor(t)
      BY <3>2, SaiServidorTypes
    <3> QED BY <1>5, <3>1, <3>2
  <2>4. AccountsGrow /\ CallsMove /\ EntriesMove
    BY <2>2, CallsHold DEF AccountsGrow, EntriesMove
  <2> QED BY <2>1, <2>2, <2>3, <2>4, WhoBeside
<1>6. ASSUME NEW t \in Tabs, SaiLimpa(t) PROVE SessTypes' /\ RowsGrow /\ SessWho'
  <2>1. SessTypes' /\ RowsGrow /\ Emptied(t) /\ \A x \in Tabs \ {t} : aba'[x] = aba[x]
    BY <1>6, SaiLimpaTypes
  <2>2. UNCHANGED <<servidor, entra, chamada, misturou, alterados>>
    BY <1>6 DEF SaiLimpa
  <2>3. AccountsGrow /\ CallsMove /\ EntriesMove /\ Born' = Born /\ misturou' = misturou
    BY <2>2, CallsHold DEF AccountsGrow, EntriesMove, Born, servidor
  <2>4. StoresMove /\ pdvToken' \in {pdvToken, None}
    BY <2>1 DEF Emptied, StoresMove
  <2> QED BY <2>1, <2>3, <2>4, WhoKept
<1>7. ASSUME NEW t \in Tabs, AbreAba(t) PROVE SessTypes' /\ RowsGrow /\ SessWho'
  <2>1. SessTypes' /\ RowsGrow /\ Restarted(t) /\ aba'[t] = guardado
    BY <1>7, AbreAbaTypes
  <2>2. UNCHANGED <<conta, linha, pdvToken, guardado, misturou, alterados>> /\ Born' = Born
    BY <1>7 DEF AbreAba, servidor, Born
  <2> QED BY <2>1, <2>2, WhoRestarts
<1>8. ASSUME NEW c \in Calls, Responde(c) PROVE SessTypes' /\ RowsGrow /\ SessWho'
  <2>1. /\ SessTypes' /\ RowsGrow /\ chamada[c].aba \in Tabs /\ Answered(chamada[c], chamada'[c])
        /\ \A d \in Calls \ {c} : chamada'[d] = chamada[d]
    BY <1>8, RespondeTypes
  <2>2. UNCHANGED <<servidor, navegador, entra, misturou, alterados>>
    BY <1>8 DEF Responde
  <2>3. AccountsGrow /\ EntriesMove /\ Born' = Born
    BY <2>2 DEF AccountsGrow, EntriesMove, Born, servidor
  <2>4. CallsMove
    BY <2>1, Blank DEF CallsMove, Renovando, NoServidor, Answered
  <2> QED BY <2>1, <2>2, <2>3, <2>4, WhoBeside
<1>9. ASSUME NEW c \in Calls, RenovaAcha(c) PROVE SessTypes' /\ RowsGrow /\ SessWho'
  BY <1>9, RenovaAchaTypes, RenovaAchaWho
<1>10. ASSUME NEW c \in Calls, RenovaRevoga(c) PROVE SessTypes' /\ RowsGrow /\ SessWho'
  <2>1. /\ SessTypes' /\ RowsGrow /\ Born' = Born /\ chamada[c].pc = "achou"
        /\ chamada'[c].token = chamada[c].token
        /\ chamada'[c].ativo = chamada[c].ativo /\ chamada'[c].papel = chamada[c].papel
        /\ \A d \in Calls \ {c} : chamada'[d] = chamada[d]
    BY <1>10, RenovaRevogaTypes
  <2>2. UNCHANGED <<conta, navegador, entra, misturou, alterados>>
    BY <1>10 DEF RenovaRevoga
  <2>3. AccountsGrow /\ EntriesMove
    BY <2>2 DEF AccountsGrow, EntriesMove
  <2>4. CallsMove
    BY <2>1 DEF CallsMove, Renovando, NoServidor
  <2> QED BY <2>1, <2>2, <2>3, <2>4, WhoBeside
<1>11. ASSUME NEW c \in Calls, NEW k \in Tokens, RenovaEmite(c, k)
       PROVE  SessTypes' /\ RowsGrow /\ SessWho'
  BY <1>11, RenovaEmiteTypes, RenovaEmiteWho
<1>12. ASSUME NEW c \in Calls, NEW k \in Tokens, RenovaPerde(c, k)
       PROVE  SessTypes' /\ RowsGrow /\ SessWho'
  <2> DEFINE t == chamada[c].aba
  <2>1. /\ SessTypes' /\ RowsGrow /\ Rotated(c, k) /\ chamada[c].pc = "revogou" /\ t \in Tabs
        /\ Restarted(t) /\ Emptied(t)
    BY <1>12, RenovaPerdeTypes
  <2>2. UNCHANGED <<conta, misturou, alterados>>
    BY <1>12 DEF RenovaPerde
  <2>3. RoleOf(linha[chamada[c].token].dono, chamada[c].papel)
    BY <2>1 DEF SessWho, OneRole, NoServidor
  <2>4. \A j \in Born' \ Born : RoleOf(linha[j].dono, linha[j].papel)'
    BY <2>1, <2>2, <2>3 DEF Rotated, RoleOf
  <2> QED BY <2>1, <2>2, <2>4, WhoRestarts
<1>13. ASSUME NEW c \in Calls, RenovaFalha(c) PROVE SessTypes' /\ RowsGrow /\ SessWho'
  <2> DEFINE t == chamada[c].aba
  <2>1. SessTypes' /\ RowsGrow /\ t \in Tabs /\ Restarted(t) /\ Emptied(t)
    BY <1>13, RenovaFalhaTypes
  <2>2. UNCHANGED <<conta, linha, misturou, alterados>> /\ Born' = Born
    BY <1>13 DEF RenovaFalha, servidor, Born
  <2> QED BY <2>1, <2>2, WhoRestarts
<1>14. ASSUME NEW k \in Tokens, VenceAcesso(k) \/ VenceRefresh(k)
       PROVE  SessTypes' /\ RowsGrow /\ SessWho'
  <2>1. SessTypes' /\ RowsGrow /\ Born' = Born
    BY <1>14, VenceAcessoTypes, VenceRefreshTypes
  <2>2. UNCHANGED <<conta, navegador, entra, chamada, misturou, alterados>>
    BY <1>14 DEF VenceAcesso, VenceRefresh, pedidos
  <2>3. AccountsGrow /\ CallsMove /\ EntriesMove
    BY <2>2, CallsHold DEF AccountsGrow, EntriesMove
  <2> QED BY <2>1, <2>2, <2>3, WhoBeside
<1>15. ASSUME NEW u \in Users, NEW v \in BOOLEAN, NEW p \in Papeis, AtualizaConta(u, v, p)
       PROVE  SessTypes' /\ RowsGrow /\ SessWho'
  <2>1. /\ SessTypes' /\ RowsGrow /\ alterados' = alterados \cup {u}
        /\ \A x \in Users \ {u} : conta'[x] = conta[x]
    BY <1>15, AtualizaContaTypes
  <2>2. UNCHANGED <<linha, navegador, entra, chamada, misturou>>
    BY <1>15 DEF AtualizaConta, pedidos
  <2>3. AccountsGrow /\ CallsMove /\ EntriesMove /\ Born' = Born
    BY <2>1, <2>2, CallsHold DEF AccountsGrow, EntriesMove, Born
  <2> QED BY <2>1, <2>2, <2>3, WhoBeside
<1>20. ASSUME NEW t \in Tabs, GravaEvento(t) PROVE SessTypes' /\ RowsGrow /\ SessWho'
  <2>1. SessTypes' /\ RowsGrow /\ Born' = Born
    BY <1>20, GravaEventoTypes
  <2>2. UNCHANGED <<conta, pdvToken, aba, entra, chamada, misturou, alterados>>
    BY <1>20 DEF GravaEvento, servidor, pedidos
  <2>3. AccountsGrow /\ CallsMove /\ EntriesMove
    BY <2>2, CallsHold DEF AccountsGrow, EntriesMove
  <2>4. StoresMove /\ pdvToken' \in {pdvToken, None}
    BY <1>20, <2>2 DEF GravaEvento, StoresMove
  <2> QED BY <2>1, <2>2, <2>3, <2>4, WhoKept
<1>16. CASE \E t \in Tabs : DaTab(t)
  BY <1>1, <1>2, <1>3, <1>4, <1>5, <1>6, <1>7, <1>16, <1>20 DEF DaTab
<1>17. CASE \E c \in Calls : DaChamada(c)
  BY <1>8, <1>9, <1>10, <1>11, <1>12, <1>13, <1>17 DEF DaChamada
<1>18. CASE DoMundo
  BY <1>14, <1>15, <1>18 DEF DoMundo
<1> QED BY <1>16, <1>17, <1>18 DEF SessionNext
-----------------------------------------------------------------------------
(* Sessions: one place to sign in from *)

Raiz(k) == linha[k].raiz
Renovadas == {c \in Calls : Renovando(c)}
NasMaos == {c \in Calls : NoServidor(c)}
ComToken == {t \in Tabs : aba[t].token \in Born}
Fechadas == encerradas \cup expulsas

\* The tab of a refresh alone has its chain, and the token being exchanged.
Own(c) ==
    Raiz(chamada[c].token) \notin marcadas =>
        \A t \in ComToken : Raiz(aba[t].token) = Raiz(chamada[c].token) =>
            t = chamada[c].aba /\ aba[t].token = chamada[c].token

\* A chain has one token that can be exchanged, which who has the chain has; none when
\* it was rotated on the server, or ended.
Alive(k) ==
    Raiz(k) \notin marcadas =>
        /\ \A l \in Born : Viva(l) /\ Raiz(l) = Raiz(k) => l = k
        /\ \A c \in NasMaos : Raiz(chamada[c].token) = Raiz(k) =>
              chamada[c].pc = "achou" /\ chamada[c].token = k
        /\ \A t \in ComToken : Raiz(aba[t].token) = Raiz(k) => aba[t].token = k
        /\ \A t \in Tabs : sai[t].pc = "enviado" /\ Raiz(sai[t].token) = Raiz(k) =>
              sai[t].token = k
        /\ Raiz(k) \notin Fechadas

NotShared ==
    \A s, t \in ComToken : Raiz(aba[s].token) = Raiz(aba[t].token) =>
        s = t \/ Raiz(aba[t].token) \in marcadas
NotCrossed ==
    \A c \in NasMaos, t \in Tabs :
        sai[t].pc = "enviado" /\ Raiz(sai[t].token) = Raiz(chamada[c].token) =>
            Raiz(sai[t].token) \in marcadas
OneFlight == \A c, d \in Renovadas : chamada[c].aba = chamada[d].aba => c = d
OneCall ==
    \A c, d \in Renovadas : Raiz(chamada[c].token) = Raiz(chamada[d].token) =>
        c = d \/ Raiz(chamada[c].token) \in marcadas
\* What a tab holds while it refreshes is what it refreshes.
Kin ==
    \A c \in Renovadas : chamada[c].aba \in ComToken =>
        LET r == Raiz(aba[chamada[c].aba].token)
        IN  r \in marcadas \/ r = Raiz(chamada[c].token)
NotEnded == \A c \in NasMaos : Raiz(chamada[c].token) \in Fechadas => Raiz(chamada[c].token) \in marcadas

SessChains ==
    /\ NotShared /\ NotCrossed /\ OneFlight /\ OneCall /\ Kin /\ NotEnded
    /\ \A c \in Renovadas : Own(c)
    /\ \A k \in Born : Viva(k) => Alive(k)

\* The history notices chains that are shared, and logouts met by a refresh.
LEMMA Noticed ==
    SessTypes /\ Partilhadas \subseteq marcadas /\ Cruzadas \subseteq marcadas
        => NotShared /\ NotCrossed
<1> SUFFICES ASSUME SessTypes, Partilhadas \subseteq marcadas, Cruzadas \subseteq marcadas
             PROVE  NotShared /\ NotCrossed
  OBVIOUS
<1>1. \A k \in Born : Cadeia(k) = {Raiz(k)} /\ Raiz(k) \in Tokens
  BY Roots DEF SessTypes, Raiz
<1>2. ASSUME NEW s \in ComToken, NEW t \in ComToken, Raiz(aba[s].token) = Raiz(aba[t].token), s # t
      PROVE  Raiz(aba[t].token) \in Partilhadas
  BY <1>1, <1>2 DEF Partilhadas, ComToken
<1>3. ASSUME NEW c \in NasMaos, NEW t \in Tabs, sai[t].pc = "enviado",
             Raiz(sai[t].token) = Raiz(chamada[c].token)
      PROVE  Raiz(sai[t].token) \in Cruzadas
  <2>1. sai[t].token \in Born /\ chamada[c].token \in Born
    BY <1>3 DEF SessTypes, SessHolds, Saidas, Chamadas0, NasMaos, NoServidor
  <2> QED BY <1>1, <1>3, <2>1 DEF Cruzadas, NasMaos
<1> QED BY <1>2, <1>3 DEF NotShared, NotCrossed

LEMMA NoticedNext ==
    (SessTypes /\ Partilhadas \subseteq marcadas /\ Cruzadas \subseteq marcadas
        => NotShared /\ NotCrossed)'
BY Noticed, PTL

LEMMA ChainsNoticed ==
    ASSUME SessTypes', NEW P, Marks(P)
    PROVE  NotShared' /\ NotCrossed'
BY NoticedNext DEF Marks

\* Who was refreshing still is, at the same point; what tabs hold, a tab held and still does.
SameCalls ==
    \A c \in Renovadas' :
        /\ c \in Renovadas /\ chamada'[c].pc = chamada[c].pc
        /\ chamada'[c].token = chamada[c].token /\ chamada'[c].aba = chamada[c].aba
SameTokens ==
    \A t \in Tabs :
        \/ aba'[t].token = None
        \/ \E s \in Tabs : aba'[t].token = aba[s].token /\ aba'[s].token = aba[s].token
SameLogouts ==
    \A t \in Tabs : sai'[t].pc = "enviado" =>
        \/ sai[t].pc = "enviado" /\ sai'[t].token = sai[t].token
        \/ \E s \in ComToken : sai'[t].token = aba[s].token
NoneRevives ==
    \A k \in Born' : Viva(k)' /\ Raiz(k)' \notin marcadas' => k \in Born /\ Viva(k)
\* A chain that ends now has nothing alive.
EndsDead ==
    \A r \in Fechadas' \ Fechadas : r \notin marcadas' =>
        /\ \A k \in Born' : Viva(k)' => Raiz(k)' # r
        /\ \A c \in NasMaos' : Raiz(chamada[c].token)' # r

LEMMA InTypes ==
    ASSUME SessTypes
    PROVE  /\ \A c \in Renovadas : chamada[c].token \in Born /\ chamada[c].aba \in Tabs
           /\ NasMaos \subseteq Renovadas /\ Renovadas \subseteq Calls /\ ComToken \subseteq Tabs
           /\ \A t \in Tabs : sai[t].pc # "idle" => sai[t].token \in Born
           /\ \A t \in Tabs : aba[t].token \in Born \cup {None}
           /\ \A k \in Born : Raiz(k) \in Born
           /\ None \notin Born /\ Born \subseteq Tokens
           /\ Fechadas \subseteq Born
<1>1. \A c \in Renovadas : chamada[c].token \in Born /\ chamada[c].aba \in Tabs
  BY DEF SessTypes, SessHolds, Chamadas0, Renovadas, Renovando
<1>2. NasMaos \subseteq Renovadas /\ Renovadas \subseteq Calls /\ ComToken \subseteq Tabs
  BY DEF NasMaos, Renovadas, ComToken, NoServidor, Renovando
<1>3. /\ \A t \in Tabs : sai[t].pc # "idle" => sai[t].token \in Born
      /\ \A t \in Tabs : aba[t].token \in Born \cup {None}
  BY DEF SessTypes, SessHolds, Saidas, Stores
<1>4. (\A k \in Born : Raiz(k) \in Born) /\ None \notin Born /\ Born \subseteq Tokens
  BY Roots DEF SessTypes, Raiz
<1>5. Fechadas \subseteq Born
  BY DEF Fechadas, SessTypes, SessHistory
<1> QED BY <1>1, <1>2, <1>3, <1>4, <1>5

LEMMA ChainsCalm ==
    ASSUME SessTypes, SessTypes', SessChains, RowsGrow, NEW P, Marks(P),
           SameCalls, SameTokens, SameLogouts, NoneRevives, EndsDead
    PROVE  SessChains'
<1>1. /\ marcadas \subseteq marcadas' /\ None \notin Born' /\ Born \subseteq Born'
      /\ \A k \in Born : Raiz(k)' = Raiz(k)
  BY SessionAssumption DEF Marks, RowsGrow, Raiz, Born
<1>2. NotShared' /\ NotCrossed'
  BY ChainsNoticed
<1>3. ASSUME NEW t \in ComToken'
      PROVE  /\ t \in Tabs
             /\ \E s \in ComToken : /\ aba'[t].token = aba[s].token /\ s \in ComToken'
                                    /\ aba'[s].token = aba[s].token
  BY <1>1, InTypes DEF ComToken, SameTokens
<1>4. NasMaos' \subseteq Renovadas' /\ \A c \in NasMaos' : c \in NasMaos
  BY DEF NasMaos, Renovadas, SameCalls, NoServidor, Renovando
<1>5. OneFlight' /\ OneCall'
  BY <1>1, InTypes DEF SessChains, OneFlight, OneCall, SameCalls
<1>6. Kin'
  <2> SUFFICES ASSUME NEW c \in Renovadas', chamada'[c].aba \in ComToken'
               PROVE  \/ Raiz(aba[chamada[c].aba].token)' \in marcadas'
                      \/ Raiz(aba[chamada[c].aba].token)' = Raiz(chamada[c].token)'
    BY DEF Kin
  <2> DEFINE t == chamada[c].aba
  <2>1. c \in Renovadas /\ chamada'[c].aba = t /\ chamada'[c].token = chamada[c].token
    BY DEF SameCalls
  <2>2. PICK s \in ComToken : /\ aba'[t].token = aba[s].token /\ s \in ComToken'
                              /\ aba'[s].token = aba[s].token
    BY <1>3, <2>1
  <2>3. aba[s].token \in Born /\ chamada[c].token \in Born
    BY <2>1, InTypes DEF ComToken
  <2>4. CASE s = t
    <3>1. Raiz(aba[t].token) \in marcadas \/ Raiz(aba[t].token) = Raiz(chamada[c].token)
      BY <2>1, <2>2, <2>4 DEF SessChains, Kin
    <3> QED BY <1>1, <2>1, <2>2, <2>3, <2>4, <3>1 DEF Raiz
  <2>5. CASE s # t
    BY <1>2, <2>1, <2>2, <2>5 DEF NotShared, Raiz
  <2> QED BY <2>4, <2>5
<1>7. ASSUME NEW c \in Renovadas'
      PROVE  Own(c)'
  <2> SUFFICES ASSUME Raiz(chamada[c].token)' \notin marcadas', NEW t \in ComToken',
                      Raiz(aba[t].token)' = Raiz(chamada[c].token)'
               PROVE  t = chamada'[c].aba /\ aba'[t].token = chamada'[c].token
    BY DEF Own
  <2>1. c \in Renovadas /\ chamada'[c].aba = chamada[c].aba /\ chamada'[c].token = chamada[c].token
    BY DEF SameCalls
  <2>2. PICK s \in ComToken : /\ aba'[t].token = aba[s].token /\ s \in ComToken'
                              /\ aba'[s].token = aba[s].token
    BY <1>3
  <2>3. aba[s].token \in Born /\ chamada[c].token \in Born
    BY <2>1, InTypes DEF ComToken
  <2>4. Raiz(aba[s].token) = Raiz(chamada[c].token) /\ Raiz(chamada[c].token) \notin marcadas
    BY <1>1, <2>1, <2>2, <2>3 DEF Raiz
  <2>5. s = chamada[c].aba /\ aba[s].token = chamada[c].token
    BY <2>1, <2>4 DEF SessChains, Own
  <2>6. s = t
    BY <1>2, <2>2, <2>1, <2>5 DEF NotShared, Raiz
  <2> QED BY <2>1, <2>2, <2>5, <2>6
<1>8. NotEnded'
  <2> SUFFICES ASSUME NEW c \in NasMaos', Raiz(chamada[c].token)' \in Fechadas',
                      Raiz(chamada[c].token)' \notin marcadas'
               PROVE  FALSE
    BY DEF NotEnded
  <2>1. c \in NasMaos /\ c \in Renovadas /\ chamada'[c].token = chamada[c].token
    BY <1>4 DEF SameCalls
  <2>2. Raiz(chamada[c].token)' = Raiz(chamada[c].token)
    BY <1>1, <2>1, InTypes DEF Raiz
  <2>3. Raiz(chamada[c].token) \notin Fechadas
    BY <1>1, <2>1, <2>2 DEF SessChains, NotEnded
  <2> QED BY <2>2, <2>3 DEF EndsDead
<1>9. ASSUME NEW k \in Born', Viva(k)'
      PROVE  Alive(k)'
  <2> SUFFICES ASSUME Raiz(k)' \notin marcadas'
               PROVE  /\ \A l \in Born' : Viva(l)' /\ Raiz(l)' = Raiz(k)' => l = k
                      /\ \A c \in NasMaos' : Raiz(chamada[c].token)' = Raiz(k)' =>
                            chamada'[c].pc = "achou" /\ chamada'[c].token = k
                      /\ \A t \in ComToken' : Raiz(aba[t].token)' = Raiz(k)' => aba'[t].token = k
                      /\ \A t \in Tabs : sai'[t].pc = "enviado" /\ Raiz(sai[t].token)' = Raiz(k)' =>
                            sai'[t].token = k
                      /\ Raiz(k)' \notin Fechadas'
    BY DEF Alive
  <2>1. k \in Born /\ Viva(k) /\ Raiz(k)' = Raiz(k) /\ Raiz(k) \notin marcadas
    BY <1>1, <1>9 DEF NoneRevives
  <2>2. /\ \A l \in Born : Viva(l) /\ Raiz(l) = Raiz(k) => l = k
        /\ \A c \in NasMaos : Raiz(chamada[c].token) = Raiz(k) =>
              chamada[c].pc = "achou" /\ chamada[c].token = k
        /\ \A t \in ComToken : Raiz(aba[t].token) = Raiz(k) => aba[t].token = k
        /\ \A t \in Tabs : sai[t].pc = "enviado" /\ Raiz(sai[t].token) = Raiz(k) =>
              sai[t].token = k
        /\ Raiz(k) \notin Fechadas
    BY <2>1 DEF SessChains, Alive
  <2>3. \A l \in Born' : Viva(l)' /\ Raiz(l)' = Raiz(k)' => l = k
    BY <1>1, <2>1, <2>2 DEF NoneRevives
  <2>4. ASSUME NEW c \in NasMaos', Raiz(chamada[c].token)' = Raiz(k)'
        PROVE  chamada'[c].pc = "achou" /\ chamada'[c].token = k
    <3>1. /\ c \in NasMaos /\ c \in Renovadas /\ chamada'[c].token = chamada[c].token
          /\ chamada'[c].pc = chamada[c].pc
      BY <1>4 DEF SameCalls
    <3>2. Raiz(chamada[c].token) = Raiz(k)
      BY <1>1, <2>1, <2>4, <3>1, InTypes DEF Raiz
    <3> QED BY <2>2, <3>1, <3>2
  <2>5. ASSUME NEW t \in ComToken', Raiz(aba[t].token)' = Raiz(k)'
        PROVE  aba'[t].token = k
    <3>1. PICK s \in ComToken : aba'[t].token = aba[s].token
      BY <1>3
    <3>2. Raiz(aba[s].token) = Raiz(k)
      BY <1>1, <2>1, <2>5, <3>1 DEF Raiz, ComToken
    <3> QED BY <2>2, <3>1, <3>2
  <2>6. ASSUME NEW t \in Tabs, sai'[t].pc = "enviado", Raiz(sai[t].token)' = Raiz(k)'
        PROVE  sai'[t].token = k
    <3>1. CASE sai[t].pc = "enviado" /\ sai'[t].token = sai[t].token
      <4>1. Raiz(sai[t].token) = Raiz(k)
        BY <1>1, <2>1, <2>6, <3>1, InTypes DEF Raiz
      <4> QED BY <2>2, <3>1, <4>1
    <3>2. CASE \E s \in ComToken : sai'[t].token = aba[s].token
      <4>1. PICK s \in ComToken : sai'[t].token = aba[s].token
        BY <3>2
      <4>2. Raiz(aba[s].token) = Raiz(k)
        BY <1>1, <2>1, <2>6, <4>1 DEF Raiz, ComToken
      <4> QED BY <2>2, <4>1, <4>2
    <3> QED BY <2>6, <3>1, <3>2 DEF SameLogouts
  <2>7. Raiz(k)' \notin Fechadas'
    BY <1>9, <2>1, <2>2 DEF EndsDead
  <2> QED BY <2>3, <2>4, <2>5, <2>6, <2>7
<1> QED BY <1>2, <1>5, <1>6, <1>7, <1>8, <1>9 DEF SessChains

\* A login starts a chain of its own.
LEMMA EntraEmiteChains ==
    ASSUME SessTypes, SessChains, NEW t \in Tabs, NEW k \in Tokens, EntraEmite(t, k)
    PROVE  SessChains'
<1> DEFINE P == Aparte(t, k)
<1>1. /\ SessTypes' /\ RowsGrow /\ Born' = Born \cup {k} /\ k \notin Born /\ Marks(P)
      /\ linha'[k].raiz = k /\ \A j \in Tokens \ {k} : linha'[j] = linha[j]
      /\ aba'[t].token = k /\ \A x \in Tabs \ {t} : aba'[x] = aba[x]
  BY EntraEmiteTypes
<1>2. UNCHANGED <<chamada, sai, encerradas, expulsas>>
  BY DEF EntraEmite
<1>3. (\E c \in Renovadas : chamada[c].aba = t) => k \in marcadas'
  BY <1>1 DEF Marks, Renovadas, DaAba, Aparte
<1> HIDE DEF P
<1>4. NotShared' /\ NotCrossed'
  BY <1>1, ChainsNoticed
<1>5. /\ marcadas \subseteq marcadas' /\ Raiz(k)' = k /\ Born \subseteq Born'
      /\ \A j \in Born : Raiz(j)' = Raiz(j) /\ Raiz(j) # k /\ (Viva(j)' <=> Viva(j))
      /\ Renovadas' = Renovadas /\ NasMaos' = NasMaos /\ Fechadas' = Fechadas /\ k \notin Fechadas
      /\ ComToken' = ComToken \cup {t}
  <2>1. \A j \in Born : Raiz(j) \in Born /\ j \in Tokens /\ j # k
    BY <1>1, InTypes
  <2>2. \A j \in Born : Raiz(j)' = Raiz(j) /\ Raiz(j) # k /\ (Viva(j)' <=> Viva(j))
    BY <1>1, <2>1 DEF Raiz, Viva
  <2>3. ComToken' = ComToken \cup {t}
    BY <1>1, InTypes, SessionAssumption DEF ComToken, Born
  <2>4. k \notin Fechadas /\ Fechadas' = Fechadas
    BY <1>1, <1>2, InTypes DEF Fechadas
  <2>5. Renovadas' = Renovadas /\ NasMaos' = NasMaos
    BY <1>2 DEF Renovadas, NasMaos, Renovando, NoServidor
  <2> QED BY <1>1, <2>2, <2>3, <2>4, <2>5 DEF Marks, Raiz
<1>6. OneFlight' /\ OneCall'
  BY <1>2, <1>5, InTypes DEF SessChains, OneFlight, OneCall
<1>7. Kin'
  <2> SUFFICES ASSUME NEW c \in Renovadas, chamada[c].aba \in ComToken'
               PROVE  \/ Raiz(aba[chamada[c].aba].token)' \in marcadas'
                      \/ Raiz(aba[chamada[c].aba].token)' = Raiz(chamada[c].token)'
    BY <1>2, <1>5 DEF Kin
  <2>1. CASE chamada[c].aba = t
    BY <1>1, <1>2, <1>3, <1>5, <2>1 DEF Raiz
  <2>2. CASE chamada[c].aba # t
    <3>1. chamada[c].aba \in ComToken /\ chamada[c].token \in Born /\ chamada[c].aba \in Tabs
      BY <1>5, <2>2, InTypes
    <3>2. aba[chamada[c].aba].token \in Born
      BY <3>1 DEF ComToken
    <3>3. \/ Raiz(aba[chamada[c].aba].token) \in marcadas
          \/ Raiz(aba[chamada[c].aba].token) = Raiz(chamada[c].token)
      BY <3>1 DEF SessChains, Kin
    <3>4. Raiz(chamada[c].token)' = Raiz(chamada[c].token)
      BY <1>2, <1>5, <3>1 DEF Raiz
    <3> QED BY <1>1, <1>2, <1>5, <2>2, <3>1, <3>2, <3>3, <3>4 DEF Raiz
  <2> QED BY <2>1, <2>2
<1>8. ASSUME NEW c \in Renovadas
      PROVE  Own(c)'
  <2>1. chamada[c].token \in Born /\ Own(c)
    BY InTypes DEF SessChains
  <2>2. Raiz(chamada[c].token)' = Raiz(chamada[c].token) /\ Raiz(chamada[c].token) # k
    BY <1>2, <1>5, <2>1
  <2>3. \A x \in ComToken' : Raiz(aba[x].token)' = Raiz(chamada[c].token) =>
            x \in ComToken /\ aba'[x].token = aba[x].token /\ Raiz(aba[x].token) = Raiz(chamada[c].token)
    BY <1>1, <1>5, <2>2 DEF ComToken
  <2> QED BY <1>2, <1>5, <2>1, <2>2, <2>3 DEF Own
<1>9. NotEnded'
  BY <1>2, <1>5, InTypes DEF SessChains, NotEnded
<1>10. ASSUME NEW j \in Born', Viva(j)'
       PROVE  Alive(j)'
  <2>1. CASE j = k
    <3>1. \A l \in Born' : Raiz(l)' = k => l = k
      BY <1>1, <1>5
    <3>2. \A c \in NasMaos' : Raiz(chamada[c].token)' # k
      BY <1>2, <1>5, InTypes
    <3>3. \A x \in ComToken' : Raiz(aba[x].token)' = k => aba'[x].token = k
      BY <3>1 DEF ComToken
    <3>4. \A x \in Tabs : sai'[x].pc = "enviado" => Raiz(sai[x].token)' # k
      BY <1>2, <1>5, InTypes
    <3> QED BY <1>5, <2>1, <3>1, <3>2, <3>3, <3>4 DEF Alive
  <2>2. CASE j # k
    <3>1. j \in Born /\ Viva(j) /\ Alive(j) /\ Raiz(j)' = Raiz(j) /\ Raiz(j) # k
      BY <1>1, <1>5, <1>10, <2>2 DEF SessChains
    <3> SUFFICES ASSUME Raiz(j) \notin marcadas'
                 PROVE  /\ \A l \in Born' : Viva(l)' /\ Raiz(l)' = Raiz(j) => l = j
                        /\ \A c \in NasMaos' : Raiz(chamada[c].token)' = Raiz(j) =>
                              chamada'[c].pc = "achou" /\ chamada'[c].token = j
                        /\ \A x \in ComToken' : Raiz(aba[x].token)' = Raiz(j) => aba'[x].token = j
                        /\ \A x \in Tabs : sai'[x].pc = "enviado" /\ Raiz(sai[x].token)' = Raiz(j) =>
                              sai'[x].token = j
                        /\ Raiz(j) \notin Fechadas'
      BY <3>1 DEF Alive
    <3>2. /\ \A l \in Born : Viva(l) /\ Raiz(l) = Raiz(j) => l = j
          /\ \A c \in NasMaos : Raiz(chamada[c].token) = Raiz(j) =>
                chamada[c].pc = "achou" /\ chamada[c].token = j
          /\ \A x \in ComToken : Raiz(aba[x].token) = Raiz(j) => aba[x].token = j
          /\ \A x \in Tabs : sai[x].pc = "enviado" /\ Raiz(sai[x].token) = Raiz(j) =>
                sai[x].token = j
          /\ Raiz(j) \notin Fechadas
      BY <1>5, <3>1 DEF Alive
    <3>3. \A l \in Born' : Viva(l)' /\ Raiz(l)' = Raiz(j) => l = j
      BY <1>1, <1>5, <3>1, <3>2
    <3>4. \A c \in NasMaos' : Raiz(chamada[c].token)' = Raiz(j) =>
              chamada'[c].pc = "achou" /\ chamada'[c].token = j
      BY <1>2, <1>5, <3>2, InTypes
    <3>5. \A x \in ComToken' : Raiz(aba[x].token)' = Raiz(j) => aba'[x].token = j
      BY <1>1, <1>5, <3>1, <3>2 DEF ComToken
    <3>6. \A x \in Tabs : sai'[x].pc = "enviado" /\ Raiz(sai[x].token)' = Raiz(j) =>
              sai'[x].token = j
      BY <1>2, <1>5, <3>2, InTypes
    <3> QED BY <1>5, <3>2, <3>3, <3>4, <3>5, <3>6
  <2> QED BY <2>1, <2>2
<1> QED BY <1>4, <1>5, <1>6, <1>7, <1>8, <1>9, <1>10 DEF SessChains

\* Rows, stores and logouts as they were: what is alive depends on the calls alone.
Beside ==
    /\ linha' = linha /\ aba' = aba /\ sai' = sai
    /\ encerradas' = encerradas /\ expulsas' = expulsas

LEMMA SameRows ==
    ASSUME SessTypes, Beside
    PROVE  /\ Born' = Born /\ ComToken' = ComToken /\ Fechadas' = Fechadas
           /\ \A k : Raiz(k)' = Raiz(k) /\ (Viva(k)' <=> Viva(k))
<1>1. Born' = Born /\ \A k : Raiz(k)' = Raiz(k) /\ (Viva(k)' <=> Viva(k))
  BY DEF Beside, Born, Raiz, Viva
<1> QED BY <1>1 DEF Beside, ComToken, Fechadas

\* A refresh starts with the tab's token, and the tab has no other under way.
LEMMA RespondeChains ==
    ASSUME SessTypes, SessChains, NEW c \in Calls, Responde(c)
    PROVE  SessChains'
<1> DEFINE t == chamada[c].aba
<1>1. /\ SessTypes' /\ RowsGrow /\ Marks({}) /\ chamada[c].pc = "enviada" /\ t \in Tabs
      /\ Answered(chamada[c], chamada'[c]) /\ \A d \in Calls \ {c} : chamada'[d] = chamada[d]
  BY RespondeTypes
<1>2. Beside
  BY DEF Responde, servidor, navegador, Beside
<1>3. CASE chamada'[c].pc # "renova"
  <2>1. SameCalls
    BY <1>1, <1>3, Blank DEF Answered, SameCalls, Renovadas, Renovando
  <2>2. SameTokens /\ SameLogouts /\ NoneRevives /\ EndsDead
    BY <1>2, SameRows DEF Beside, SameTokens, SameLogouts, NoneRevives, EndsDead
  <2> QED BY <1>1, <2>1, <2>2, ChainsCalm
<1>4. CASE chamada'[c].pc = "renova"
  <2>1. /\ chamada'[c].aba = t /\ chamada'[c].token = aba[t].token /\ aba[t].token # None
        /\ ~EmVoo(t)
    BY <1>1, <1>4, Blank DEF Answered
  <2>2. t \in ComToken
    BY <1>1, <2>1, InTypes DEF ComToken
  <2>3. /\ c \notin Renovadas /\ Renovadas' = Renovadas \cup {c} /\ NasMaos' = NasMaos
        /\ \A d \in Renovadas : d # c /\ chamada'[d] = chamada[d] /\ chamada[d].aba # t
    <3>1. \A d \in Renovadas : d # c /\ chamada'[d] = chamada[d] /\ chamada[d].aba # t
      BY <1>1, <2>1 DEF Renovadas, Renovando, EmVoo, DaAba
    <3>2. Renovadas' = Renovadas \cup {c} /\ c \notin Renovadas
      BY <1>1, <1>4 DEF Renovadas, Renovando
    <3>3. NasMaos' = NasMaos
      BY <1>1, <1>4 DEF NasMaos, NoServidor
    <3> QED BY <3>1, <3>2, <3>3
  <2>4. /\ marcadas \subseteq marcadas' /\ Born' = Born /\ ComToken' = ComToken
        /\ Fechadas' = Fechadas /\ \A k : Raiz(k)' = Raiz(k) /\ (Viva(k)' <=> Viva(k))
        /\ aba' = aba /\ sai' = sai
    BY <1>1, <1>2, SameRows DEF Marks, Beside
  <2>5. NotShared' /\ NotCrossed'
    BY <1>1, ChainsNoticed
  <2>6. ASSUME NEW d \in Renovadas, Raiz(chamada[d].token) = Raiz(aba[t].token)
        PROVE  Raiz(aba[t].token) \in marcadas
    BY <2>2, <2>3, <2>6 DEF SessChains, Own
  <2>7. OneFlight'
    BY <2>1, <2>3 DEF SessChains, OneFlight
  <2>8. OneCall'
    <3> SUFFICES ASSUME NEW a \in Renovadas', NEW b \in Renovadas', a # b,
                        Raiz(chamada'[a].token) = Raiz(chamada'[b].token)
                 PROVE  Raiz(chamada'[a].token) \in marcadas'
      BY <2>4 DEF OneCall
    <3>1. CASE a = c
      BY <2>1, <2>3, <2>4, <2>6, <3>1
    <3>2. CASE b = c
      BY <2>1, <2>3, <2>4, <2>6, <3>2
    <3>3. CASE a # c /\ b # c
      BY <2>3, <2>4, <3>3 DEF SessChains, OneCall
    <3> QED BY <3>1, <3>2, <3>3
  <2>9. Kin'
    BY <2>1, <2>3, <2>4 DEF SessChains, Kin
  <2>10. ASSUME NEW d \in Renovadas'
         PROVE  Own(d)'
    <3>1. CASE d = c
      <4>1. \A s \in ComToken : Raiz(aba[s].token) = Raiz(aba[t].token) =>
                s = t \/ Raiz(aba[t].token) \in marcadas'
        BY <2>2, <2>4 DEF SessChains, NotShared
      <4> QED BY <2>1, <2>4, <3>1, <4>1 DEF Own
    <3>2. CASE d # c
      BY <2>3, <2>4, <3>2 DEF SessChains, Own
    <3> QED BY <3>1, <3>2
  <2>11. \A d \in NasMaos : d \in Renovadas /\ chamada'[d] = chamada[d]
    BY <2>3, InTypes
  <2>12. NotEnded'
    BY <2>3, <2>4, <2>11 DEF SessChains, NotEnded
  <2>13. ASSUME NEW k \in Born', Viva(k)'
         PROVE  Alive(k)'
    <3>1. Alive(k) /\ k \in Born
      BY <2>4, <2>13 DEF SessChains
    <3> QED BY <2>3, <2>4, <2>11, <3>1 DEF Alive
  <2> QED BY <2>5, <2>7, <2>8, <2>9, <2>10, <2>12, <2>13 DEF SessChains
<1> QED BY <1>3, <1>4

\* A refresh reads a row that is alive: the only one of its chain, which has not ended.
LEMMA RenovaAchaChains ==
    ASSUME SessTypes, SessChains, NEW c \in Calls, RenovaAcha(c)
    PROVE  SessChains'
<1> DEFINE q == chamada[c].token
<1>1. /\ SessTypes' /\ RowsGrow /\ Marks({}) /\ chamada[c].pc = "renova" /\ chamada'[c].pc = "achou"
      /\ q \in Born /\ chamada'[c].token = q /\ chamada'[c].aba = chamada[c].aba
      /\ \A d \in Calls \ {c} : chamada'[d] = chamada[d]
  BY RenovaAchaTypes
<1>2. Beside /\ Viva(q)
  BY DEF RenovaAcha, servidor, navegador, Beside, Trocavel
<1>3. /\ c \in Renovadas /\ Renovadas' = Renovadas /\ NasMaos' = NasMaos \cup {c}
      /\ \A d \in Renovadas : chamada'[d].token = chamada[d].token /\ chamada'[d].aba = chamada[d].aba
      /\ \A d \in NasMaos : d # c /\ chamada'[d] = chamada[d]
  <2>1. c \in Renovadas /\ Renovadas' = Renovadas /\ NasMaos' = NasMaos \cup {c}
    BY <1>1 DEF Renovadas, NasMaos, Renovando, NoServidor
  <2>2. /\ \A d \in Renovadas : chamada'[d].token = chamada[d].token /\ chamada'[d].aba = chamada[d].aba
        /\ \A d \in NasMaos : d # c /\ chamada'[d] = chamada[d]
    BY <1>1 DEF Renovadas, NasMaos, NoServidor
  <2> QED BY <2>1, <2>2
<1>4. /\ marcadas \subseteq marcadas' /\ Born' = Born /\ ComToken' = ComToken
      /\ Fechadas' = Fechadas /\ \A k : Raiz(k)' = Raiz(k) /\ (Viva(k)' <=> Viva(k))
      /\ aba' = aba /\ sai' = sai
  BY <1>1, <1>2, SameRows DEF Marks, Beside
<1>5. NotShared' /\ NotCrossed'
  BY <1>1, ChainsNoticed
<1>6. OneFlight' /\ OneCall' /\ Kin'
  <2>1. OneFlight'
    BY <1>3 DEF SessChains, OneFlight
  <2>2. OneCall'
    BY <1>3, <1>4 DEF SessChains, OneCall, Raiz
  <2>3. Kin'
    BY <1>3, <1>4 DEF SessChains, Kin, Raiz
  <2> QED BY <2>1, <2>2, <2>3
<1>7. \A d \in Renovadas' : Own(d)'
  BY <1>3, <1>4 DEF SessChains, Own, Raiz
<1>8. Alive(q)
  BY <1>1, <1>2 DEF SessChains
<1>9. NotEnded'
  BY <1>1, <1>3, <1>4, <1>8 DEF SessChains, NotEnded, Alive, Raiz
<1>10. ASSUME NEW k \in Born', Viva(k)'
       PROVE  Alive(k)'
  <2>1. Alive(k) /\ k \in Born
    BY <1>4, <1>10 DEF SessChains
  <2>2. Raiz(k) \notin marcadas /\ Raiz(q) = Raiz(k) => q = k
    BY <1>1, <1>2, <2>1 DEF Alive
  <2>3. Raiz(k) \notin marcadas => \A d \in NasMaos' : Raiz(chamada'[d].token) = Raiz(k) =>
            chamada'[d].pc = "achou" /\ chamada'[d].token = k
    BY <1>1, <1>3, <2>1, <2>2 DEF Alive
  <2> QED BY <1>4, <2>1, <2>3 DEF Alive, Raiz
<1> QED BY <1>5, <1>6, <1>7, <1>9, <1>10 DEF SessChains

\* A refresh revokes the one that was alive.
LEMMA RenovaRevogaChains ==
    ASSUME SessTypes, SessChains, NEW c \in Calls, RenovaRevoga(c)
    PROVE  SessChains'
<1> DEFINE q == chamada[c].token
<1>1. /\ SessTypes' /\ RowsGrow /\ Born' = Born /\ Marks({}) /\ q \in Born
      /\ chamada[c].pc = "achou" /\ chamada'[c].pc = "revogou"
      /\ chamada'[c].token = q /\ chamada'[c].aba = chamada[c].aba
      /\ \A d \in Calls \ {c} : chamada'[d] = chamada[d]
      /\ linha'[q].st = "revoked" /\ \A j \in Tokens \ {q} : linha'[j] = linha[j]
  BY RenovaRevogaTypes
<1>2. UNCHANGED <<aba, sai, encerradas, expulsas>>
  BY DEF RenovaRevoga, navegador
<1>3. /\ c \in NasMaos /\ c \in Renovadas /\ Renovadas' = Renovadas /\ NasMaos' = NasMaos
      /\ \A d \in Renovadas : chamada'[d].token = chamada[d].token /\ chamada'[d].aba = chamada[d].aba
      /\ \A d \in NasMaos \ {c} : chamada'[d] = chamada[d]
  <2>1. c \in NasMaos /\ c \in Renovadas /\ Renovadas' = Renovadas /\ NasMaos' = NasMaos
    BY <1>1 DEF Renovadas, NasMaos, Renovando, NoServidor
  <2>2. /\ \A d \in Renovadas : chamada'[d].token = chamada[d].token /\ chamada'[d].aba = chamada[d].aba
        /\ \A d \in NasMaos \ {c} : chamada'[d] = chamada[d]
    BY <1>1 DEF Renovadas, NasMaos
  <2> QED BY <2>1, <2>2
<1>4. /\ marcadas \subseteq marcadas' /\ ComToken' = ComToken /\ Fechadas' = Fechadas
      /\ \A k \in Born : linha'[k].raiz = linha[k].raiz /\ (Viva(k)' <=> Viva(k) /\ k # q)
  <2>1. marcadas \subseteq marcadas' /\ ComToken' = ComToken /\ Fechadas' = Fechadas
    BY <1>1, <1>2 DEF Marks, ComToken, Fechadas
  <2>2. \A k \in Born : linha'[k].raiz = linha[k].raiz
    BY <1>1 DEF RowsGrow
  <2>3. \A k \in Born : Viva(k)' <=> Viva(k) /\ k # q
    BY <1>1, InTypes DEF Viva
  <2> QED BY <2>1, <2>2, <2>3
<1>5. NotShared' /\ NotCrossed'
  BY <1>1, ChainsNoticed
<1>6. OneFlight' /\ OneCall' /\ Kin'
  <2>1. OneFlight'
    BY <1>3 DEF SessChains, OneFlight
  <2>2. OneCall'
    BY <1>3, <1>4, InTypes DEF SessChains, OneCall, Raiz
  <2>3. Kin'
    BY <1>2, <1>3, <1>4, InTypes DEF SessChains, Kin, Raiz, ComToken
  <2> QED BY <2>1, <2>2, <2>3
<1>7. \A d \in Renovadas' : Own(d)'
  BY <1>2, <1>3, <1>4, InTypes DEF SessChains, Own, Raiz, ComToken
<1>8. NotEnded'
  BY <1>3, <1>4, InTypes DEF SessChains, NotEnded, Raiz
<1>9. ASSUME NEW k \in Born', Viva(k)'
      PROVE  Alive(k)'
  <2>1. Alive(k) /\ k \in Born /\ k # q
    BY <1>1, <1>4, <1>9 DEF SessChains
  <2> SUFFICES ASSUME Raiz(k) \notin marcadas
               PROVE  /\ \A l \in Born : Viva(l)' /\ linha'[l].raiz = linha'[k].raiz => l = k
                      /\ \A d \in NasMaos : linha'[chamada'[d].token].raiz = linha'[k].raiz =>
                            chamada'[d].pc = "achou" /\ chamada'[d].token = k
                      /\ \A t \in ComToken : linha'[aba[t].token].raiz = linha'[k].raiz => aba[t].token = k
                      /\ \A t \in Tabs : sai[t].pc = "enviado" /\ linha'[sai[t].token].raiz = linha'[k].raiz =>
                            sai[t].token = k
                      /\ linha'[k].raiz \notin Fechadas
    BY <1>1, <1>2, <1>3, <1>4, <2>1 DEF Alive, Raiz
  <2>2. /\ \A l \in Born : Viva(l) /\ linha[l].raiz = linha[k].raiz => l = k
        /\ \A d \in NasMaos : linha[chamada[d].token].raiz = linha[k].raiz =>
              chamada[d].pc = "achou" /\ chamada[d].token = k
        /\ \A t \in ComToken : linha[aba[t].token].raiz = linha[k].raiz => aba[t].token = k
        /\ \A t \in Tabs : sai[t].pc = "enviado" /\ linha[sai[t].token].raiz = linha[k].raiz =>
              sai[t].token = k
        /\ linha[k].raiz \notin Fechadas
    BY <2>1 DEF Alive, Raiz
  <2>3. linha[q].raiz # linha[k].raiz
    BY <1>3, <2>1, <2>2
  <2>4. \A d \in NasMaos : linha'[chamada'[d].token].raiz = linha'[k].raiz =>
            chamada'[d].pc = "achou" /\ chamada'[d].token = k
    <3> SUFFICES ASSUME NEW d \in NasMaos, linha'[chamada'[d].token].raiz = linha'[k].raiz
                 PROVE  chamada'[d].pc = "achou" /\ chamada'[d].token = k
      OBVIOUS
    <3>1. linha[chamada[d].token].raiz = linha[k].raiz
      BY <1>3, <1>4, <2>1, InTypes
    <3>2. d # c
      BY <2>3, <3>1
    <3> QED BY <1>3, <2>2, <3>1, <3>2
  <2>5. \A t \in ComToken : linha'[aba[t].token].raiz = linha'[k].raiz => aba[t].token = k
    BY <1>4, <2>1, <2>2 DEF ComToken
  <2>6. \A t \in Tabs : sai[t].pc = "enviado" /\ linha'[sai[t].token].raiz = linha'[k].raiz =>
            sai[t].token = k
    BY <1>4, <2>1, <2>2, InTypes
  <2>7. \A l \in Born : Viva(l)' /\ linha'[l].raiz = linha'[k].raiz => l = k
    BY <1>4, <2>1, <2>2
  <2> QED BY <1>4, <2>1, <2>2, <2>4, <2>5, <2>6, <2>7
<1> QED BY <1>5, <1>6, <1>7, <1>8, <1>9 DEF SessChains

\* Nothing of the chain was alive; the new token is, with the tab and nobody else.
LEMMA RenovaEmiteChains ==
    ASSUME SessTypes, SessChains, NEW c \in Calls, NEW k \in Tokens, RenovaEmite(c, k)
    PROVE  SessChains'
<1> DEFINE q == chamada[c].token
           t == chamada[c].aba
           r == linha[q].raiz
<1>1. /\ SessTypes' /\ RowsGrow /\ Marks({}) /\ Rotated(c, k)
      /\ chamada[c].pc = "revogou" /\ t \in Tabs
      /\ aba'[t].token = k /\ \A x \in Tabs \ {t} : aba'[x] = aba[x]
      /\ chamada'[c].pc = "enviada"
      /\ \A d \in Calls : chamada'[d].pc = "enviada" \/ chamada'[d] = chamada[d]
  BY RenovaEmiteTypes
<1>2. UNCHANGED <<sai, encerradas, expulsas>>
  BY DEF RenovaEmite
<1>3. /\ Born' = Born \cup {k} /\ k \notin Born /\ q \in Born /\ linha'[k].raiz = r /\ r \in Born
      /\ marcadas \subseteq marcadas' /\ Fechadas' = Fechadas /\ ComToken' = ComToken \cup {t}
      /\ \A j \in Born : linha'[j].raiz = linha[j].raiz /\ (Viva(j)' <=> Viva(j))
  <2>1. /\ Born' = Born \cup {k} /\ k \notin Born /\ q \in Born /\ linha'[k].raiz = r
        /\ \A j \in Tokens \ {k} : linha'[j] = linha[j]
    BY <1>1 DEF Rotated
  <2>2. \A j \in Born : linha'[j].raiz = linha[j].raiz /\ (Viva(j)' <=> Viva(j))
    BY <2>1, InTypes DEF Viva
  <2>3. ComToken' = ComToken \cup {t}
    BY <1>1, <2>1, InTypes, SessionAssumption DEF ComToken, Born
  <2>4. marcadas \subseteq marcadas' /\ Fechadas' = Fechadas
    BY <1>1, <1>2 DEF Marks, Fechadas
  <2>5. r \in Born
    BY <2>1, InTypes DEF Raiz
  <2> QED BY <2>1, <2>2, <2>3, <2>4, <2>5
<1>4. /\ c \in Renovadas /\ c \in NasMaos
      /\ \A d \in Renovadas' : d \in Renovadas /\ d # c /\ chamada'[d] = chamada[d]
      /\ \A d \in NasMaos' : d \in NasMaos /\ d # c /\ chamada'[d] = chamada[d]
  BY <1>1 DEF Renovadas, NasMaos, Renovando, NoServidor
<1>5. \A d \in Renovadas' : chamada[d].aba # t
  BY <1>4 DEF SessChains, OneFlight
<1>6. \A d \in Renovadas : d # c /\ linha[chamada[d].token].raiz = r => r \in marcadas
  BY <1>4 DEF SessChains, OneCall, Raiz
<1>7. NotShared' /\ NotCrossed'
  BY <1>1, ChainsNoticed
<1>8. /\ \A d \in Renovadas' : linha'[chamada'[d].token].raiz = linha[chamada[d].token].raiz
      /\ \A x \in ComToken \ {t} : linha'[aba'[x].token].raiz = linha[aba[x].token].raiz
      /\ \A x \in Tabs : sai[x].pc = "enviado" =>
            linha'[sai'[x].token].raiz = linha[sai[x].token].raiz
  BY <1>1, <1>2, <1>3, <1>4, InTypes DEF ComToken
<1>9. OneFlight' /\ OneCall' /\ Kin' /\ NotEnded'
  <2>1. OneFlight'
    BY <1>4 DEF SessChains, OneFlight
  <2>2. OneCall'
    BY <1>3, <1>4, <1>8 DEF SessChains, OneCall, Raiz
  <2>3. Kin'
    BY <1>1, <1>3, <1>4, <1>5, <1>8 DEF SessChains, Kin, Raiz
  <2>4. NotEnded'
    BY <1>3, <1>4, <1>8, InTypes DEF SessChains, NotEnded, Raiz, NasMaos, Renovadas, NoServidor, Renovando
  <2> QED BY <2>1, <2>2, <2>3, <2>4
<1>10. ASSUME NEW d \in Renovadas'
       PROVE  Own(d)'
  <2> SUFFICES ASSUME linha[chamada[d].token].raiz \notin marcadas', NEW x \in ComToken',
                      linha'[aba'[x].token].raiz = linha[chamada[d].token].raiz
               PROVE  x = chamada[d].aba /\ aba'[x].token = chamada[d].token
    BY <1>4, <1>8 DEF Own, Raiz
  <2>1. CASE x = t
    BY <1>1, <1>3, <1>4, <1>6, <2>1
  <2>2. CASE x # t
    <3>1. /\ x \in ComToken /\ linha[aba[x].token].raiz = linha[chamada[d].token].raiz
          /\ aba'[x] = aba[x] /\ linha[chamada[d].token].raiz \notin marcadas
      BY <1>1, <1>3, <1>8, <2>2, InTypes
    <3> QED BY <1>4, <3>1 DEF SessChains, Own, Raiz
  <2> QED BY <2>1, <2>2
<1>11. r \notin marcadas =>
          /\ \A j \in Born : Viva(j) => linha[j].raiz # r
          /\ \A x \in ComToken \ {t} : linha[aba[x].token].raiz # r
          /\ \A x \in Tabs : sai[x].pc = "enviado" => linha[sai[x].token].raiz # r
          /\ r \notin Fechadas
  <2> SUFFICES ASSUME r \notin marcadas
               PROVE  /\ \A j \in Born : Viva(j) => linha[j].raiz # r
                      /\ \A x \in ComToken \ {t} : linha[aba[x].token].raiz # r
                      /\ \A x \in Tabs : sai[x].pc = "enviado" => linha[sai[x].token].raiz # r
                      /\ r \notin Fechadas
    OBVIOUS
  <2>1. \A j \in Born : Viva(j) => linha[j].raiz # r
    <3> SUFFICES ASSUME NEW j \in Born, Viva(j), linha[j].raiz = r PROVE FALSE
      OBVIOUS
    <3>1. Alive(j)
      BY DEF SessChains
    <3> QED BY <1>1, <1>4, <3>1 DEF Alive, Raiz
  <2>2. \A x \in ComToken \ {t} : linha[aba[x].token].raiz # r
    BY <1>4 DEF SessChains, Own, Raiz
  <2>3. \A x \in Tabs : sai[x].pc = "enviado" => linha[sai[x].token].raiz # r
    BY <1>4 DEF SessChains, NotCrossed, Raiz
  <2>4. r \notin Fechadas
    BY <1>4 DEF SessChains, NotEnded, Raiz
  <2> QED BY <2>1, <2>2, <2>3, <2>4
<1>12. ASSUME NEW j \in Born', Viva(j)'
       PROVE  Alive(j)'
  <2> DEFINE w == linha'[j].raiz
  <2> SUFFICES ASSUME w \notin marcadas'
               PROVE  /\ \A l \in Born' : Viva(l)' /\ linha'[l].raiz = w => l = j
                      /\ \A d \in NasMaos' : linha'[chamada'[d].token].raiz = w =>
                            chamada'[d].pc = "achou" /\ chamada'[d].token = j
                      /\ \A x \in ComToken' : linha'[aba'[x].token].raiz = w => aba'[x].token = j
                      /\ \A x \in Tabs : sai'[x].pc = "enviado" /\ linha'[sai'[x].token].raiz = w =>
                            sai'[x].token = j
                      /\ w \notin Fechadas'
    BY DEF Alive, Raiz
  <2>1. NasMaos' \subseteq Renovadas'
    BY DEF NasMaos, Renovadas, NoServidor, Renovando
  <2>2. CASE j = k
    <3>1. w = r /\ r \notin marcadas
      BY <1>3, <2>2
    <3>2. \A d \in NasMaos' : linha'[chamada'[d].token].raiz # r
      BY <1>4, <1>6, <1>8, <2>1, <3>1
    <3>3. \A x \in ComToken' : linha'[aba'[x].token].raiz = r => aba'[x].token = k
      BY <1>1, <1>3, <1>8, <1>11, <3>1
    <3>4. \A x \in Tabs : sai'[x].pc = "enviado" => linha'[sai'[x].token].raiz # r
      BY <1>2, <1>8, <1>11, <3>1
    <3>5. \A l \in Born' : Viva(l)' /\ linha'[l].raiz = r => l = k
      BY <1>3, <1>11, <3>1
    <3> QED BY <1>3, <1>11, <2>2, <3>1, <3>2, <3>3, <3>4, <3>5
  <2>3. CASE j # k
    <3>1. j \in Born /\ Viva(j) /\ w = linha[j].raiz /\ w \notin marcadas
      BY <1>3, <1>12, <2>3
    <3>2. w # r
      BY <1>11, <3>1
    <3>3. /\ \A l \in Born : Viva(l) /\ linha[l].raiz = w => l = j
          /\ \A d \in NasMaos : linha[chamada[d].token].raiz = w =>
                chamada[d].pc = "achou" /\ chamada[d].token = j
          /\ \A x \in ComToken : linha[aba[x].token].raiz = w => aba[x].token = j
          /\ \A x \in Tabs : sai[x].pc = "enviado" /\ linha[sai[x].token].raiz = w =>
                sai[x].token = j
          /\ w \notin Fechadas
      <4>1. Alive(j)
        BY <3>1 DEF SessChains
      <4> HIDE DEF w
      <4>2. w = linha[j].raiz /\ w \notin marcadas
        BY <3>1
      <4> QED BY <4>1, <4>2 DEF Alive, Raiz
    <3> HIDE DEF w
    <3>4. \A l \in Born' : Viva(l)' /\ linha'[l].raiz = w => l = j
      BY <1>3, <3>2, <3>3
    <3>5. \A d \in NasMaos' : linha'[chamada'[d].token].raiz = w =>
              chamada'[d].pc = "achou" /\ chamada'[d].token = j
      BY <1>4, <1>8, <2>1, <3>3
    <3>6. \A x \in ComToken' : linha'[aba'[x].token].raiz = w => aba'[x].token = j
      BY <1>1, <1>3, <1>8, <3>2, <3>3 DEF ComToken
    <3>7. \A x \in Tabs : sai'[x].pc = "enviado" /\ linha'[sai'[x].token].raiz = w =>
              sai'[x].token = j
      BY <1>2, <1>8, <3>3
    <3> QED BY <1>3, <3>3, <3>4, <3>5, <3>6, <3>7
  <2> QED BY <2>2, <2>3
<1> QED BY <1>7, <1>9, <1>10, <1>12 DEF SessChains

LEMMA Rests ==
    /\ UNCHANGED chamada => SameCalls
    /\ UNCHANGED aba => SameTokens
    /\ UNCHANGED sai => SameLogouts
    /\ UNCHANGED linha => NoneRevives
    /\ UNCHANGED <<encerradas, expulsas>> => EndsDead
<1>1. UNCHANGED chamada => SameCalls
  BY DEF SameCalls, Renovadas, Renovando
<1>2. UNCHANGED linha => NoneRevives
  BY DEF NoneRevives, Born, Viva
<1>3. UNCHANGED <<encerradas, expulsas>> => EndsDead
  BY DEF EndsDead, Fechadas
<1> QED BY <1>1, <1>2, <1>3 DEF SameTokens, SameLogouts

LEMMA RestartRests ==
    ASSUME SessTypes, NEW t \in Tabs, Restarted(t), aba'[t] = Vazia \/ \E s \in Tabs : aba'[t] = aba[s]
    PROVE  /\ SameCalls /\ SameTokens /\ SameLogouts
           /\ \A c \in Renovadas' : chamada[c].aba # t
<1>1. \A c \in Renovadas' : chamada'[c] = chamada[c] /\ c \in Renovadas /\ chamada[c].aba # t
  BY Blank DEF Restarted, Renovadas, Renovando
<1>2. SameTokens
  <2> SUFFICES ASSUME NEW x \in Tabs
               PROVE  \/ aba'[x].token = None
                      \/ \E s \in Tabs : aba'[x].token = aba[s].token /\ aba'[s].token = aba[s].token
    BY DEF SameTokens
  <2>1. CASE x # t
    BY <2>1 DEF Restarted
  <2>2. CASE x = t /\ aba'[t] = Vazia
    BY <2>2, Blank
  <2>3. CASE x = t /\ \E s \in Tabs : aba'[t] = aba[s]
    <3>1. PICK s \in Tabs : aba'[t] = aba[s]
      BY <2>3
    <3>2. aba'[s].token = aba[s].token
      BY <3>1 DEF Restarted
    <3> QED BY <2>3, <3>1, <3>2
  <2> QED BY <2>1, <2>2, <2>3
<1>3. SameLogouts
  BY Blank DEF Restarted, SameLogouts
<1> QED BY <1>1, <1>2, <1>3 DEF SameCalls

LEMMA SaiServidorChains ==
    ASSUME SessTypes, SessChains, NEW t \in Tabs, SaiServidor(t)
    PROVE  SessChains'
<1> DEFINE k == sai[t].token
           r == linha[k].raiz
<1>1. /\ SessTypes' /\ RowsGrow /\ Born' = Born /\ Marks({})
      /\ sai[t].pc = "enviado" /\ k \in Born /\ sai'[t].pc = "feito"
      /\ \A x \in Tabs \ {t} : sai'[x] = sai[x]
      /\ linha'[k].st = (IF Viva(k) THEN "revoked" ELSE linha[k].st)
      /\ \A j \in Tokens \ {k} : linha'[j] = linha[j]
      /\ encerradas' = encerradas \cup {r}
  BY SaiServidorTypes
<1>2. UNCHANGED <<aba, chamada, expulsas>>
  BY DEF SaiServidor, navegador
<1>3. \A j \in Born : (Viva(j)' <=> Viva(j) /\ j # k) /\ linha'[j].raiz = linha[j].raiz
  BY <1>1, InTypes DEF Viva, RowsGrow
<1>4. SameCalls /\ SameTokens
  BY <1>2, Rests
<1>5. SameLogouts
  BY <1>1 DEF SameLogouts
<1>6. NoneRevives
  BY <1>1, <1>3 DEF NoneRevives
<1>7. EndsDead
  <2> SUFFICES ASSUME r \notin marcadas'
               PROVE  /\ \A j \in Born' : Viva(j)' => linha'[j].raiz # r
                      /\ \A c \in NasMaos' : linha'[chamada'[c].token].raiz # r
    BY <1>1, <1>2 DEF EndsDead, Fechadas, Raiz
  <2>1. r \notin marcadas
    BY <1>1 DEF Marks
  <2>2. ASSUME NEW j \in Born', Viva(j)', linha'[j].raiz = r
        PROVE  FALSE
    <3>1. j \in Born /\ Viva(j) /\ j # k /\ linha[j].raiz = r
      BY <1>1, <1>3, <2>2
    <3>2. Alive(j)
      BY <3>1 DEF SessChains
    <3> QED BY <1>1, <2>1, <3>1, <3>2 DEF Alive, Raiz
  <2>3. ASSUME NEW c \in NasMaos', linha'[chamada'[c].token].raiz = r
        PROVE  FALSE
    <3>1. c \in NasMaos /\ chamada'[c] = chamada[c] /\ chamada[c].token \in Born
      BY <1>2, InTypes DEF NasMaos, NoServidor
    <3>2. linha[chamada[c].token].raiz = r
      BY <1>3, <2>3, <3>1
    <3> QED BY <1>1, <2>1, <3>1, <3>2 DEF SessChains, NotCrossed, Raiz
  <2> QED BY <2>2, <2>3
<1> QED BY <1>1, <1>4, <1>5, <1>6, <1>7, ChainsCalm

\* A refused refresh ends the chain of the tab: its token could not be exchanged any more.
LEMMA RenovaFalhaChains ==
    ASSUME SessTypes, SessChains, NEW c \in Calls, RenovaFalha(c)
    PROVE  SessChains'
<1> DEFINE t == chamada[c].aba
           q == chamada[c].token
           a == aba[t].token
           P == Cadeia(sai[t].token) \cup (IF Recusada(c) THEN {} ELSE Cadeia(q) \cup Cadeia(a))
<1>1. /\ SessTypes' /\ RowsGrow /\ Renovando(c) /\ t \in Tabs /\ q \in Born
      /\ Restarted(t) /\ Emptied(t) /\ Marks(P) /\ expulsas' = expulsas \cup Cadeia(a)
  BY RenovaFalhaTypes
<1>2. UNCHANGED <<linha, encerradas>>
  BY DEF RenovaFalha, servidor
<1>3. Recusada(c) \/ Cadeia(a) \subseteq marcadas'
  BY <1>1 DEF Marks
<1>4. marcadas \subseteq marcadas'
  BY <1>1 DEF Marks
<1> HIDE DEF P
<1>5. SameCalls /\ SameTokens /\ SameLogouts /\ \A d \in Renovadas' : chamada[d].aba # t
  BY <1>1, RestartRests DEF Emptied
<1>6. NoneRevives
  BY <1>2, Rests
<1>7. EndsDead
  <2> SUFFICES ASSUME NEW r \in Cadeia(a), r \notin marcadas'
               PROVE  /\ \A j \in Born' : Viva(j)' => Raiz(j)' # r
                      /\ \A d \in NasMaos' : Raiz(chamada[d].token)' # r
    BY <1>1, <1>2 DEF EndsDead, Fechadas
  <2>1. Recusada(c) /\ r \notin marcadas
    BY <1>3, <1>4
  <2>2. a \in Born /\ r = linha[a].raiz /\ t \in ComToken /\ c \in Renovadas
    BY <1>1, InTypes DEF Cadeia, ComToken, Renovadas
  <2>3. r = linha[q].raiz
    BY <2>1, <2>2 DEF SessChains, Kin, Raiz
  <2>4. a = q
    BY <2>1, <2>2, <2>3 DEF SessChains, Own, Raiz
  <2>5. ASSUME NEW j \in Born, Viva(j), linha[j].raiz = r
        PROVE  FALSE
    <3>1. Alive(j)
      BY <2>5 DEF SessChains
    <3>2. a = j
      BY <2>1, <2>2, <2>5, <3>1 DEF Alive, Raiz
    <3>3. chamada[c].pc # "revogou"
      BY <2>1, <2>3, <2>5, <3>1 DEF Alive, Raiz, NasMaos, NoServidor
    <3> QED BY <2>1, <2>4, <2>5, <3>2, <3>3 DEF Recusada, Trocavel
  <2>6. ASSUME NEW d \in NasMaos', linha[chamada'[d].token].raiz = r
        PROVE  FALSE
    <3>1. d \in Renovadas' /\ d \in Renovadas /\ chamada'[d].token = chamada[d].token /\ d # c
      BY <1>5 DEF SameCalls, NasMaos, Renovadas, NoServidor, Renovando
    <3> QED BY <2>1, <2>2, <2>3, <2>6, <3>1 DEF SessChains, OneCall, Raiz
  <2> QED BY <1>2, <2>5, <2>6 DEF Born, Viva, Raiz
<1> QED BY <1>1, <1>5, <1>6, <1>7, ChainsCalm

\* When the answer is lost a token is alive that no tab has: its chain is marked.
LEMMA RenovaPerdeChains ==
    ASSUME SessTypes, SessChains, NEW c \in Calls, NEW k \in Tokens, RenovaPerde(c, k)
    PROVE  SessChains'
<1> DEFINE t == chamada[c].aba
           q == chamada[c].token
           a == aba[t].token
<1>1. /\ SessTypes' /\ RowsGrow /\ Rotated(c, k) /\ chamada[c].pc = "revogou" /\ t \in Tabs
      /\ Restarted(t) /\ Emptied(t) /\ Marks(Perdidas(t) \cup Cadeia(a))
      /\ expulsas' = expulsas \cup Cadeia(a)
  BY RenovaPerdeTypes
<1>2. UNCHANGED encerradas
  BY DEF RenovaPerde
<1>3. Cadeia(a) \subseteq marcadas' /\ Cadeia(q) \subseteq marcadas'
  <2>1. Cadeia(q) \subseteq Perdidas(t)
    BY <1>1, LostOne DEF Renovando
  <2> QED BY <1>1, <2>1 DEF Marks
<1>4. SameCalls /\ SameTokens /\ SameLogouts
  BY <1>1, RestartRests DEF Emptied
<1>5. Raiz(k)' \in marcadas'
  BY <1>1, <1>3, Roots DEF Rotated, Raiz, SessTypes
<1>6. NoneRevives
  <2>1. \A j \in Born' \ {k} : j \in Born /\ linha'[j] = linha[j]
    BY <1>1, InTypes DEF Rotated
  <2> QED BY <1>5, <2>1 DEF NoneRevives, Viva
<1>7. EndsDead
  BY <1>1, <1>2, <1>3 DEF EndsDead, Fechadas
<1> QED BY <1>1, <1>4, <1>6, <1>7, ChainsCalm
-----------------------------------------------------------------------------
(* Sessions: who is sent to the login page *)

\* The session is over, or the history knows better.
Excused(r) == r \in marcadas \cup encerradas \/ linha[r].dono \in alterados

Expired(r) == \E k \in Born : Raiz(k) = r /\ linha[k].st = "expired"
Revoked(k) == linha[k].st = "revoked"
\* The exchange of token k is half way.
HalfWay(k) == \E d \in Calls : chamada[d].pc = "revogou" /\ chamada[d].token = k

SessExpelled ==
    /\ \A r \in expulsas : Excused(r) \/ Expired(r)
    /\ \A t \in ComToken : Revoked(aba[t].token) =>
          Excused(Raiz(aba[t].token)) \/ HalfWay(aba[t].token)
    /\ \A c \in Calls : chamada[c].pc = "renova" /\ Revoked(chamada[c].token) =>
          Excused(Raiz(chamada[c].token))

HistoryGrows ==
    marcadas \subseteq marcadas' /\ encerradas \subseteq encerradas' /\ alterados \subseteq alterados'

LEMMA ExcusedStays ==
    ASSUME SessTypes, RowsGrow, HistoryGrows, NEW r \in Born, Excused(r)
    PROVE  r \in marcadas' \cup encerradas' \/ linha'[r].dono \in alterados'
BY DEF RowsGrow, HistoryGrows, Excused

\* Tab t holds what some tab held, and who was exchanging it still is.
StillHalfWay(t) ==
    \E s \in ComToken :
        /\ aba'[t].token = aba[s].token /\ Revoked(aba[s].token)
        /\ \A d \in Calls : chamada[d].pc = "revogou" /\ chamada[d].token = aba[s].token =>
              chamada'[d].pc = "revogou" /\ chamada'[d].token = aba[s].token

LEMMA ExpelledKept ==
    ASSUME SessTypes, SessTypes', SessExpelled, RowsGrow, HistoryGrows,
           expulsas' \subseteq Born,
           \A r \in expulsas' \ expulsas : r \in marcadas' \/ Excused(r) \/ Expired(r),
           \A k \in Born : linha[k].st = "expired" /\ Raiz(k) \in expulsas' =>
               linha'[k].st = "expired" \/ Raiz(k) \in marcadas',
           \A t \in ComToken' : Revoked(aba[t].token)' =>
               \/ Raiz(aba[t].token)' \in marcadas' \cup encerradas'
               \/ HalfWay(aba[t].token)' \/ StillHalfWay(t),
           \A c \in Calls : chamada'[c].pc = "renova" /\ Revoked(chamada[c].token)' =>
               \/ Raiz(chamada[c].token)' \in marcadas' \cup encerradas'
               \/ Excused(Raiz(chamada'[c].token)) /\ chamada'[c].token \in Born
               \/ /\ chamada[c].pc = "renova" /\ chamada'[c].token = chamada[c].token
                  /\ Revoked(chamada[c].token)
    PROVE  SessExpelled'
<1>1. /\ \A k \in Born : linha'[k].raiz = linha[k].raiz /\ linha[k].raiz \in Born
      /\ Born \subseteq Born' /\ expulsas' \subseteq Born' /\ expulsas \subseteq Born
  BY InTypes DEF RowsGrow, Raiz, SessTypes, SessHistory
<1>2. ASSUME NEW r \in expulsas'
      PROVE  Excused(r)' \/ Expired(r)'
  <2>1. r \in marcadas' \/ Excused(r) \/ Expired(r)
    BY DEF SessExpelled
  <2>2. CASE r \in marcadas'
    BY <2>2 DEF Excused
  <2>3. CASE Excused(r)
    <3>1. r \in marcadas' \cup encerradas' \/ linha'[r].dono \in alterados'
      BY <2>3, ExcusedStays
    <3> QED BY <3>1 DEF Excused
  <2>4. CASE Expired(r)
    <3>1. PICK k \in Born : linha[k].raiz = r /\ linha[k].st = "expired"
      BY <2>4 DEF Expired, Raiz
    <3>2. linha'[k].st = "expired" \/ r \in marcadas'
      BY <3>1 DEF Raiz
    <3> QED BY <1>1, <3>1, <3>2 DEF Expired, Excused, Raiz
  <2> QED BY <2>1, <2>2, <2>3, <2>4
<1>3. ASSUME NEW t \in ComToken', Revoked(aba[t].token)'
      PROVE  Excused(Raiz(aba[t].token))' \/ HalfWay(aba[t].token)'
  <2>1. CASE Raiz(aba[t].token)' \in marcadas' \cup encerradas'
    BY <2>1 DEF Excused, Raiz
  <2>2. CASE StillHalfWay(t)
    <3>1. PICK s \in ComToken :
            /\ aba'[t].token = aba[s].token /\ Revoked(aba[s].token)
            /\ \A d \in Calls : chamada[d].pc = "revogou" /\ chamada[d].token = aba[s].token =>
                  chamada'[d].pc = "revogou" /\ chamada'[d].token = aba[s].token
      BY <2>2 DEF StillHalfWay
    <3>2. CASE HalfWay(aba[s].token)
      BY <3>1, <3>2 DEF HalfWay
    <3>3. CASE Excused(Raiz(aba[s].token))
      <4>1. linha[aba[s].token].raiz \in Born /\ linha'[aba[s].token].raiz = linha[aba[s].token].raiz
        BY <1>1 DEF ComToken
      <4>2. \/ linha[aba[s].token].raiz \in marcadas' \cup encerradas'
            \/ linha'[linha[aba[s].token].raiz].dono \in alterados'
        BY <3>3, <4>1, ExcusedStays DEF Raiz
      <4> QED BY <3>1, <4>1, <4>2 DEF Raiz, Excused
    <3> QED BY <3>1, <3>2, <3>3 DEF SessExpelled
  <2> QED BY <1>3, <2>1, <2>2
<1>4. ASSUME NEW c \in Calls, chamada'[c].pc = "renova", Revoked(chamada[c].token)'
      PROVE  Excused(Raiz(chamada[c].token))'
  <2> DEFINE k == chamada'[c].token
  <2>1. CASE Raiz(chamada[c].token)' \in marcadas' \cup encerradas'
    BY <2>1 DEF Excused, Raiz
  <2>2. CASE Excused(Raiz(k)) /\ k \in Born
    <3>1. linha[k].raiz \in Born /\ linha'[k].raiz = linha[k].raiz
      BY <1>1, <2>2
    <3>2. \/ linha[k].raiz \in marcadas' \cup encerradas'
          \/ linha'[linha[k].raiz].dono \in alterados'
      BY <2>2, <3>1, ExcusedStays DEF Raiz
    <3> QED BY <3>1, <3>2 DEF Raiz, Excused
  <2>3. CASE /\ chamada[c].pc = "renova" /\ k = chamada[c].token
             /\ Revoked(chamada[c].token)
    <3>1. Excused(Raiz(k)) /\ k \in Born
      BY <2>3, InTypes DEF SessExpelled, Renovadas, Renovando
    <3> QED BY <2>2, <3>1
  <2> QED BY <1>4, <2>1, <2>2, <2>3
<1> QED BY <1>2, <1>3, <1>4 DEF SessExpelled

\* Steps that revoke nothing and send nobody away.
LEMMA ExpelledBeside ==
    ASSUME SessTypes, SessTypes', SessExpelled, RowsGrow, HistoryGrows, expulsas' = expulsas,
           \A k \in Born : (Revoked(k)' => Revoked(k)) /\ (linha[k].st = "expired" => linha'[k].st = "expired"),
           \A t \in ComToken' : t \in ComToken /\ aba'[t].token = aba[t].token,
           \A d \in Calls :
               /\ chamada[d].pc = "revogou" =>
                     chamada'[d].pc = "revogou" /\ chamada'[d].token = chamada[d].token
               /\ chamada'[d].pc = "renova" =>
                     chamada[d].pc = "renova" /\ chamada'[d].token = chamada[d].token
    PROVE  SessExpelled'
<1>1. ASSUME NEW t \in ComToken', Revoked(aba[t].token)'
      PROVE  StillHalfWay(t)
  BY <1>1 DEF StillHalfWay, ComToken, Revoked
<1>2. ASSUME NEW c \in Calls, chamada'[c].pc = "renova", Revoked(chamada[c].token)'
      PROVE  /\ chamada[c].pc = "renova" /\ chamada'[c].token = chamada[c].token
             /\ Revoked(chamada[c].token)
  BY <1>2, InTypes DEF Renovadas, Renovando, Revoked
<1>3. expulsas' \subseteq Born
  BY DEF SessTypes, SessHistory
<1> QED BY <1>1, <1>2, <1>3, ExpelledKept

LEMMA RespondeExpelled ==
    ASSUME SessTypes, SessChains, SessExpelled, NEW c \in Calls, Responde(c)
    PROVE  SessExpelled'
<1> DEFINE t == chamada[c].aba
<1>1. /\ SessTypes' /\ RowsGrow /\ Marks({}) /\ chamada[c].pc = "enviada" /\ t \in Tabs
      /\ Answered(chamada[c], chamada'[c]) /\ \A d \in Calls \ {c} : chamada'[d] = chamada[d]
  BY RespondeTypes
<1>2. UNCHANGED <<linha, aba, encerradas, expulsas, alterados>>
  BY DEF Responde, servidor, navegador
<1>3. HistoryGrows /\ expulsas' \subseteq Born
  BY <1>1, <1>2 DEF Marks, HistoryGrows, SessTypes, SessHistory
<1>4. ASSUME NEW x \in ComToken', Revoked(aba[x].token)'
      PROVE  StillHalfWay(x)
  BY <1>1, <1>2, <1>4 DEF StillHalfWay, ComToken, Revoked, Born
<1>5. ASSUME NEW d \in Calls, chamada'[d].pc = "renova", Revoked(chamada[d].token)'
      PROVE  \/ Excused(Raiz(chamada'[d].token)) /\ chamada'[d].token \in Born
             \/ /\ chamada[d].pc = "renova" /\ chamada'[d].token = chamada[d].token
                /\ Revoked(chamada[d].token)
  <2>1. CASE d # c
    BY <1>1, <1>2, <1>5, <2>1 DEF Revoked
  <2>2. CASE d = c
    <3> DEFINE a == aba[t].token
    <3>1. chamada'[c].token = a /\ a # None /\ ~EmVoo(t)
      BY <1>1, <1>5, <2>2, Blank DEF Answered
    <3>2. t \in ComToken /\ a \in Born /\ Revoked(a)
      BY <1>1, <1>2, <1>5, <2>2, <3>1, InTypes DEF ComToken, Revoked
    <3>3. CASE HalfWay(a)
      <4>1. PICK e \in Calls : chamada[e].pc = "revogou" /\ chamada[e].token = a
        BY <3>3 DEF HalfWay
      <4>2. e \in Renovadas /\ chamada[e].aba # t
        BY <3>1, <4>1 DEF Renovadas, Renovando, EmVoo, DaAba
      <4>3. Raiz(a) \in marcadas
        BY <3>2, <4>1, <4>2 DEF SessChains, Own
      <4> QED BY <2>2, <3>1, <3>2, <4>3 DEF Excused
    <3>4. CASE Excused(Raiz(a))
      BY <2>2, <3>1, <3>2, <3>4
    <3> QED BY <3>2, <3>3, <3>4 DEF SessExpelled
  <2> QED BY <2>1, <2>2
<1>6. \A k \in Born : linha[k].st = "expired" => linha'[k].st = "expired"
  BY <1>2
<1> QED BY <1>1, <1>2, <1>3, <1>4, <1>5, <1>6, ExpelledKept

LEMMA RenovaRevogaExpelled ==
    ASSUME SessTypes, SessChains, SessExpelled, NEW c \in Calls, RenovaRevoga(c)
    PROVE  SessExpelled'
<1> DEFINE q == chamada[c].token
<1>1. /\ SessTypes' /\ RowsGrow /\ Born' = Born /\ Marks({}) /\ q \in Born
      /\ chamada[c].pc = "achou" /\ chamada'[c].pc = "revogou" /\ chamada'[c].token = q
      /\ \A d \in Calls \ {c} : chamada'[d] = chamada[d]
      /\ \A j \in Tokens \ {q} : linha'[j] = linha[j]
  BY RenovaRevogaTypes
<1>2. UNCHANGED <<aba, encerradas, expulsas, alterados>>
  BY DEF RenovaRevoga, navegador
<1>3. HistoryGrows /\ expulsas' \subseteq Born
  BY <1>1, <1>2 DEF Marks, HistoryGrows, SessTypes, SessHistory
<1>4. c \in NasMaos /\ c \in Renovadas
  BY <1>1 DEF NasMaos, Renovadas, NoServidor, Renovando
<1>5. ASSUME NEW k \in Born, linha[k].st = "expired", Raiz(k) \in expulsas'
      PROVE  linha'[k].st = "expired" \/ Raiz(k) \in marcadas'
  <2>1. CASE k = q
    BY <1>1, <1>2, <1>4, <1>5, <2>1 DEF SessChains, NotEnded, Fechadas, Marks
  <2>2. CASE k # q
    BY <1>1, <1>5, <2>2, InTypes
  <2> QED BY <2>1, <2>2
<1>6. ASSUME NEW t \in ComToken', Revoked(aba[t].token)'
      PROVE  HalfWay(aba[t].token)' \/ StillHalfWay(t)
  <2>1. CASE aba[t].token = q
    BY <1>1, <1>2, <2>1 DEF HalfWay
  <2>2. CASE aba[t].token # q
    <3>1. t \in ComToken /\ aba[t].token \in Tokens
      BY <1>1, <1>2, InTypes DEF ComToken
    <3> QED BY <1>1, <1>2, <1>6, <2>2, <3>1 DEF StillHalfWay, Revoked
  <2> QED BY <2>1, <2>2
<1>7. ASSUME NEW d \in Calls, chamada'[d].pc = "renova", Revoked(chamada[d].token)'
      PROVE  \/ Raiz(chamada[d].token)' \in marcadas' \cup encerradas'
             \/ /\ chamada[d].pc = "renova" /\ chamada'[d].token = chamada[d].token
                /\ Revoked(chamada[d].token)
  <2>1. d # c /\ chamada'[d] = chamada[d] /\ d \in Renovadas /\ chamada[d].token \in Born
    BY <1>1, <1>7, InTypes DEF Renovadas, Renovando
  <2>2. CASE chamada[d].token = q
    <3>1. Raiz(q) \in marcadas
      BY <1>4, <2>1, <2>2 DEF SessChains, OneCall
    <3>2. linha'[q].raiz = linha[q].raiz
      BY <1>1 DEF RowsGrow
    <3> QED BY <1>1, <2>1, <2>2, <3>1, <3>2 DEF Raiz, Marks
  <2>3. CASE chamada[d].token # q
    BY <1>1, <1>7, <2>1, <2>3, InTypes DEF Revoked
  <2> QED BY <2>2, <2>3
<1> QED BY <1>1, <1>2, <1>3, <1>5, <1>6, <1>7, ExpelledKept

LEMMA SaiServidorExpelled ==
    ASSUME SessTypes, SessExpelled, NEW t \in Tabs, SaiServidor(t)
    PROVE  SessExpelled'
<1> DEFINE k == sai[t].token
<1>1. /\ SessTypes' /\ RowsGrow /\ Born' = Born /\ Marks({}) /\ k \in Born
      /\ linha'[k].st = (IF Viva(k) THEN "revoked" ELSE linha[k].st)
      /\ \A j \in Tokens \ {k} : linha'[j] = linha[j]
      /\ encerradas' = encerradas \cup {linha[k].raiz}
  BY SaiServidorTypes
<1>2. UNCHANGED <<aba, chamada, expulsas, alterados>>
  BY DEF SaiServidor, navegador
<1>3. HistoryGrows /\ expulsas' \subseteq Born
  BY <1>1, <1>2 DEF Marks, HistoryGrows, SessTypes, SessHistory
<1>4. \A j \in Born : linha[j].st = "expired" => linha'[j].st = "expired"
  BY <1>1, InTypes DEF Viva
<1>5. linha'[k].raiz \in encerradas'
  BY <1>1 DEF RowsGrow
<1>6. ASSUME NEW x \in ComToken', Revoked(aba[x].token)'
      PROVE  Raiz(aba[x].token)' \in marcadas' \cup encerradas' \/ StillHalfWay(x)
  <2>1. CASE aba[x].token = k
    BY <1>2, <1>5, <2>1 DEF Raiz
  <2>2. CASE aba[x].token # k
    <3>1. x \in ComToken /\ aba[x].token \in Tokens
      BY <1>1, <1>2, InTypes DEF ComToken
    <3> QED BY <1>1, <1>2, <1>6, <2>2, <3>1 DEF StillHalfWay, Revoked
  <2> QED BY <2>1, <2>2
<1>7. ASSUME NEW d \in Calls, chamada'[d].pc = "renova", Revoked(chamada[d].token)'
      PROVE  \/ Raiz(chamada[d].token)' \in marcadas' \cup encerradas'
             \/ /\ chamada[d].pc = "renova" /\ chamada'[d].token = chamada[d].token
                /\ Revoked(chamada[d].token)
  <2>1. CASE chamada[d].token = k
    BY <1>2, <1>5, <2>1 DEF Raiz
  <2>2. CASE chamada[d].token # k
    BY <1>1, <1>2, <1>7, <2>2, InTypes DEF Revoked, Renovadas, Renovando
  <2> QED BY <2>1, <2>2
<1>8. expulsas' \ expulsas = {} /\ Marks({})
  BY <1>1, <1>2
<1> QED BY <1>1, <1>3, <1>4, <1>6, <1>7, <1>8, ExpelledKept

LEMMA EntraEmiteExpelled ==
    ASSUME SessTypes, SessExpelled, NEW t \in Tabs, NEW k \in Tokens, EntraEmite(t, k)
    PROVE  SessExpelled'
<1> DEFINE P == Aparte(t, k)
<1>1. /\ SessTypes' /\ RowsGrow /\ Born' = Born \cup {k} /\ k \notin Born /\ Marks(P)
      /\ linha'[k].st = "live" /\ \A j \in Tokens \ {k} : linha'[j] = linha[j]
      /\ aba'[t].token = k /\ \A x \in Tabs \ {t} : aba'[x] = aba[x]
  BY EntraEmiteTypes
<1>2. UNCHANGED <<chamada, encerradas, expulsas, alterados>>
  BY DEF EntraEmite
<1> HIDE DEF P
<1>3. HistoryGrows /\ expulsas' \subseteq Born
  BY <1>1, <1>2 DEF Marks, HistoryGrows, SessTypes, SessHistory
<1>4. \A j \in Born : linha'[j] = linha[j]
  BY <1>1, InTypes
<1>5. ASSUME NEW x \in ComToken', Revoked(aba[x].token)'
      PROVE  StillHalfWay(x)
  <2>1. x # t
    BY <1>1, <1>5 DEF Revoked
  <2>2. x \in Tabs /\ aba'[x] = aba[x]
    BY <1>1, <2>1 DEF ComToken
  <2>3. aba[x].token \in Born
    BY <1>1, <1>5, <2>2, InTypes DEF ComToken, Revoked
  <2> QED BY <1>2, <1>4, <1>5, <2>2, <2>3 DEF StillHalfWay, ComToken, Revoked
<1>6. ASSUME NEW d \in Calls, chamada'[d].pc = "renova", Revoked(chamada[d].token)'
      PROVE  /\ chamada[d].pc = "renova" /\ chamada'[d].token = chamada[d].token
             /\ Revoked(chamada[d].token)
  BY <1>2, <1>4, <1>6, InTypes DEF Revoked, Renovadas, Renovando
<1>7. /\ expulsas' \ expulsas = {}
      /\ \A j \in Born : linha[j].st = "expired" => linha'[j].st = "expired"
  BY <1>2, <1>4
<1> QED BY <1>1, <1>3, <1>5, <1>6, <1>7, ExpelledKept

LEMMA RenovaEmiteExpelled ==
    ASSUME SessTypes, SessChains, SessExpelled, NEW c \in Calls, NEW k \in Tokens, RenovaEmite(c, k)
    PROVE  SessExpelled'
<1> DEFINE t == chamada[c].aba
           q == chamada[c].token
<1>1. /\ SessTypes' /\ RowsGrow /\ Rotated(c, k) /\ Marks({}) /\ chamada[c].pc = "revogou"
      /\ aba'[t].token = k /\ \A x \in Tabs \ {t} : aba'[x] = aba[x]
      /\ \A d \in Calls : chamada'[d].pc = "enviada" \/ chamada'[d] = chamada[d]
      /\ \A d \in Calls \ {c} : chamada[d].pc = "espera" \/ chamada'[d] = chamada[d]
  BY RenovaEmiteTypes
<1>2. UNCHANGED <<encerradas, expulsas, alterados>>
  BY DEF RenovaEmite
<1>3. HistoryGrows /\ expulsas' \subseteq Born
  BY <1>1, <1>2 DEF Marks, HistoryGrows, SessTypes, SessHistory
<1>4. /\ Born' = Born \cup {k} /\ k \notin Born /\ linha'[k].st = "live" /\ q \in Born
      /\ \A j \in Born : linha'[j] = linha[j]
  BY <1>1, InTypes DEF Rotated
<1>5. ASSUME NEW x \in ComToken', Revoked(aba[x].token)'
      PROVE  Raiz(aba[x].token)' \in marcadas' \cup encerradas' \/ StillHalfWay(x)
  <2>1. x # t
    BY <1>1, <1>4, <1>5 DEF Revoked
  <2>2. x \in Tabs /\ aba'[x] = aba[x] /\ aba[x].token \in Born /\ x \in ComToken
    BY <1>1, <1>4, <1>5, <2>1, InTypes DEF ComToken, Revoked
  <2>3. CASE aba[x].token = q
    <3>1. c \in Renovadas
      BY <1>1 DEF Renovadas, Renovando
    <3>2. Raiz(q) \in marcadas
      BY <2>1, <2>2, <2>3, <3>1 DEF SessChains, Own
    <3> QED BY <1>1, <1>4, <2>2, <2>3, <3>2 DEF Raiz, Marks
  <2>4. CASE aba[x].token # q
    <3>1. \A d \in Calls : chamada[d].pc = "revogou" /\ chamada[d].token = aba[x].token =>
              chamada'[d] = chamada[d]
      BY <1>1, <2>4
    <3> QED BY <1>4, <1>5, <2>2, <3>1 DEF StillHalfWay, Revoked
  <2> QED BY <2>3, <2>4
<1>6. ASSUME NEW d \in Calls, chamada'[d].pc = "renova", Revoked(chamada[d].token)'
      PROVE  /\ chamada[d].pc = "renova" /\ chamada'[d].token = chamada[d].token
             /\ Revoked(chamada[d].token)
  <2>1. chamada'[d] = chamada[d] /\ chamada[d].token \in Born
    BY <1>1, <1>6, InTypes DEF Renovadas, Renovando
  <2> QED BY <1>4, <1>6, <2>1 DEF Revoked
<1>7. /\ expulsas' \ expulsas = {}
      /\ \A j \in Born : linha[j].st = "expired" => linha'[j].st = "expired"
  BY <1>2, <1>4
<1> QED BY <1>1, <1>3, <1>5, <1>6, <1>7, ExpelledKept

\* A tab is loaded anew: what it was exchanging was its own.
LEMMA ExpelledRestarts ==
    ASSUME SessTypes, SessTypes', SessChains, SessExpelled, RowsGrow, HistoryGrows,
           NEW t \in Tabs, Restarted(t), \A j \in Born : linha'[j] = linha[j],
           expulsas' \subseteq Born,
           \A r \in expulsas' \ expulsas : r \in marcadas' \/ Excused(r) \/ Expired(r),
           t \in ComToken' /\ Revoked(aba[t].token)' =>
               Raiz(aba[t].token)' \in marcadas' \/ StillHalfWay(t)
    PROVE  SessExpelled'
<1>1. \A k \in Born : linha[k].st = "expired" => linha'[k].st = "expired"
  OBVIOUS
<1>2. ASSUME NEW x \in ComToken', Revoked(aba[x].token)'
      PROVE  Raiz(aba[x].token)' \in marcadas' \cup encerradas' \/ StillHalfWay(x)
  <2>1. CASE x = t
    BY <1>2, <2>1
  <2>2. CASE x # t
    <3> DEFINE k == aba[x].token
    <3>1. x \in Tabs /\ aba'[x] = aba[x]
      BY <2>2 DEF ComToken, Restarted
    <3>2. k \in Born /\ x \in ComToken
      BY <3>1, SessionAssumption, InTypes DEF ComToken, Born
    <3>3. Revoked(k)
      BY <1>2, <3>1, <3>2 DEF Revoked
    <3>4. CASE \E d \in Calls : chamada[d].pc = "revogou" /\ chamada[d].token = k /\ chamada[d].aba = t
      <4>1. PICK d \in Calls : chamada[d].pc = "revogou" /\ chamada[d].token = k /\ chamada[d].aba = t
        BY <3>4
      <4>2. d \in Renovadas
        BY <4>1 DEF Renovadas, Renovando
      <4>3. Raiz(k) \in marcadas
        BY <2>2, <3>2, <4>1, <4>2 DEF SessChains, Own
      <4> QED BY <3>1, <3>2, <4>3 DEF HistoryGrows, Raiz
    <3>5. CASE ~\E d \in Calls : chamada[d].pc = "revogou" /\ chamada[d].token = k /\ chamada[d].aba = t
      <4>1. \A d \in Calls : chamada[d].pc = "revogou" /\ chamada[d].token = k =>
                chamada'[d] = chamada[d]
        BY <3>5 DEF Restarted
      <4> QED BY <3>1, <3>2, <3>3, <4>1 DEF StillHalfWay
    <3> QED BY <3>4, <3>5
  <2> QED BY <2>1, <2>2
<1>3. ASSUME NEW c \in Calls, chamada'[c].pc = "renova", Revoked(chamada[c].token)'
      PROVE  /\ chamada[c].pc = "renova" /\ chamada'[c].token = chamada[c].token
             /\ Revoked(chamada[c].token)
  <2>1. chamada'[c] = chamada[c]
    BY <1>3, Blank DEF Restarted
  <2>2. chamada[c].token \in Born
    BY <1>3, <2>1, InTypes DEF Renovadas, Renovando
  <2> QED BY <1>3, <2>1, <2>2 DEF Revoked
<1> QED BY <1>1, <1>2, <1>3, ExpelledKept

\* A tab reads the stored copy: another tab has that chain, or it was this tab's own.
LEMMA AbreAbaExpelled ==
    ASSUME SessTypes, SessChains, SessExpelled, NEW t \in Tabs, AbreAba(t)
    PROVE  SessExpelled'
<1> DEFINE a == guardado.token
<1>1. SessTypes' /\ RowsGrow /\ Restarted(t) /\ aba'[t] = guardado /\ Marks(Perdidas(t))
  BY AbreAbaTypes
<1>2. UNCHANGED <<linha, encerradas, expulsas, alterados>>
  BY DEF AbreAba, servidor
<1>3. HistoryGrows /\ expulsas' \subseteq Born /\ expulsas' \ expulsas = {} /\ Born' = Born
  BY <1>1, <1>2 DEF Marks, HistoryGrows, SessTypes, SessHistory, Born
<1>4. NotShared'
  BY <1>1, ChainsNoticed
<1>5. ASSUME t \in ComToken', Revoked(aba[t].token)'
      PROVE  Raiz(aba[t].token)' \in marcadas' \/ StillHalfWay(t)
  <2>1. a \in Born /\ aba'[t].token = a /\ Revoked(a)
    BY <1>1, <1>2, <1>3, <1>5 DEF ComToken, Revoked
  <2>2. PICK s \in Tabs : aba[s] = guardado
    BY <2>1, Blank, InTypes DEF SessTypes, SessHolds, Stored
  <2>3. s \in ComToken
    BY <2>1, <2>2 DEF ComToken
  <2>4. CASE s # t
    <3>1. aba'[s] = guardado /\ s \in ComToken'
      BY <1>1, <1>3, <2>1, <2>2, <2>4 DEF Restarted, ComToken
    <3> QED BY <1>1, <1>4, <1>5, <2>4, <3>1 DEF NotShared, Raiz
  <2>5. CASE s = t
    <3>1. CASE \E d \in Calls : chamada[d].pc = "revogou" /\ chamada[d].token = a
      <4>1. PICK d \in Calls : chamada[d].pc = "revogou" /\ chamada[d].token = a
        BY <3>1
      <4>2. d \in Renovadas /\ Renovando(d)
        BY <4>1 DEF Renovadas, Renovando
      <4>3. CASE chamada[d].aba = t
        <5>1. Cadeia(a) \subseteq marcadas'
          BY <1>1, <4>1, <4>2, <4>3, LostOne DEF Marks, DaAba
        <5> QED BY <1>2, <2>1, <5>1, Roots DEF Raiz, SessTypes
      <4>4. CASE chamada[d].aba # t
        <5>1. Raiz(a) \in marcadas
          BY <2>2, <2>3, <2>5, <4>1, <4>2, <4>4 DEF SessChains, Own
        <5> QED BY <1>2, <1>3, <2>1, <5>1 DEF Raiz, HistoryGrows
      <4> QED BY <4>3, <4>4
    <3>2. CASE ~\E d \in Calls : chamada[d].pc = "revogou" /\ chamada[d].token = a
      BY <2>1, <2>2, <2>3, <2>5, <3>2 DEF StillHalfWay
    <3> QED BY <3>1, <3>2
  <2> QED BY <2>4, <2>5
<1> QED BY <1>1, <1>2, <1>3, <1>5, ExpelledRestarts

\* A refused refresh was of a token that expired, that a logout or another refresh
\* revoked, or whose user was deactivated.
LEMMA RenovaFalhaExpelled ==
    ASSUME SessTypes, SessWho, SessChains, SessExpelled, NEW c \in Calls, RenovaFalha(c)
    PROVE  SessExpelled'
<1> DEFINE t == chamada[c].aba
           q == chamada[c].token
           a == aba[t].token
           P == Cadeia(sai[t].token) \cup (IF Recusada(c) THEN {} ELSE Cadeia(q) \cup Cadeia(a))
<1>1. /\ SessTypes' /\ RowsGrow /\ Renovando(c) /\ t \in Tabs /\ q \in Born
      /\ Restarted(t) /\ Emptied(t) /\ Marks(P) /\ expulsas' = expulsas \cup Cadeia(a)
  BY RenovaFalhaTypes
<1>2. UNCHANGED <<linha, encerradas, alterados>>
  BY DEF RenovaFalha, servidor
<1>3. Recusada(c) \/ Cadeia(a) \subseteq marcadas'
  BY <1>1 DEF Marks
<1>4. HistoryGrows /\ Born' = Born
  BY <1>1, <1>2 DEF Marks, HistoryGrows, Born
<1> HIDE DEF P
<1>5. expulsas' \subseteq Born
  BY <1>1, <1>4 DEF SessTypes, SessHistory
<1>6. t \notin ComToken'
  BY <1>1, Blank, SessionAssumption DEF Emptied, ComToken, Born
<1>7. ASSUME NEW r \in expulsas' \ expulsas
      PROVE  r \in marcadas' \/ Excused(r) \/ Expired(r)
  <2>1. SUFFICES ASSUME Recusada(c), r \notin marcadas
                 PROVE  Excused(r) \/ Expired(r)
    BY <1>1, <1>3 DEF Excused
  <2>2. a \in Born /\ r = linha[a].raiz /\ t \in ComToken /\ c \in Renovadas
    BY <1>1, InTypes DEF Cadeia, ComToken, Renovadas
  <2>3. r = linha[q].raiz
    BY <2>1, <2>2 DEF SessChains, Kin, Raiz
  <2>4. CASE chamada[c].pc = "renova" /\ ~Trocavel(q)
    <3>1. linha[q].st \in {"revoked", "expired"}
      BY <1>1, <2>4 DEF Trocavel, Viva, SessTypes, SessRows, Linha, Born
    <3>2. CASE linha[q].st = "revoked"
      BY <2>3, <2>4, <3>2 DEF SessExpelled, Revoked, Raiz
    <3>3. CASE linha[q].st = "expired"
      BY <1>1, <2>3, <3>3 DEF Expired, Raiz
    <3> QED BY <3>1, <3>2, <3>3
  <2>5. CASE chamada[c].pc = "revogou" /\ ~chamada[c].ativo
    <3>1. linha[q].dono \in alterados
      BY <2>5 DEF SessWho, OneRole, NoServidor
    <3>2. linha[r].dono = linha[q].dono
      BY <1>1, <2>3 DEF SessTypes, SessRows, Lineage, Born
    <3> QED BY <3>1, <3>2 DEF Excused
  <2> QED BY <2>1, <2>4, <2>5 DEF Recusada
<1> QED BY <1>1, <1>2, <1>4, <1>5, <1>6, <1>7, ExpelledRestarts

LEMMA RenovaPerdeExpelled ==
    ASSUME SessTypes, SessChains, SessExpelled, NEW c \in Calls, NEW k \in Tokens, RenovaPerde(c, k)
    PROVE  SessExpelled'
<1> DEFINE t == chamada[c].aba
           a == aba[t].token
<1>1. /\ SessTypes' /\ RowsGrow /\ Rotated(c, k) /\ t \in Tabs
      /\ Restarted(t) /\ Emptied(t) /\ Marks(Perdidas(t) \cup Cadeia(a))
      /\ expulsas' = expulsas \cup Cadeia(a)
  BY RenovaPerdeTypes
<1>2. UNCHANGED <<encerradas, alterados>>
  BY DEF RenovaPerde
<1>3. HistoryGrows /\ Cadeia(a) \subseteq marcadas' /\ \A j \in Born : linha'[j] = linha[j]
  BY <1>1, <1>2, InTypes DEF Marks, HistoryGrows, Rotated
<1>4. expulsas' \subseteq Born
  <2>1. a \in Born \cup {None}
    BY <1>1, InTypes
  <2> QED BY <1>1, <2>1, Roots DEF SessTypes, SessHistory
<1>5. t \notin ComToken'
  BY <1>1, Blank, SessionAssumption DEF Emptied, ComToken, Born
<1>6. \A r \in expulsas' \ expulsas : r \in marcadas'
  BY <1>1, <1>3
<1> QED BY <1>1, <1>3, <1>4, <1>5, <1>6, ExpelledRestarts
-----------------------------------------------------------------------------
(* Sessions: the invariant *)

\* Steps beside the tabs, their requests and what ended; rows may expire.
LEMMA RowsExpire ==
    ASSUME SessTypes, SessTypes', SessChains, SessExpelled, RowsGrow, Marks({}),
           UNCHANGED <<aba, chamada, sai, encerradas, expulsas>>, alterados \subseteq alterados',
           Born' = Born,
           \A k \in Born : linha'[k].st = linha[k].st \/ linha'[k].st = "expired"
    PROVE  SessChains' /\ SessExpelled'
<1>1. SameCalls /\ SameTokens /\ SameLogouts /\ EndsDead
  BY Rests
<1>2. NoneRevives
  BY DEF NoneRevives, Viva
<1>3. HistoryGrows /\ ComToken' = ComToken
  BY DEF HistoryGrows, Marks, ComToken
<1>4. \A k \in Born : (Revoked(k)' => Revoked(k)) /\ (linha[k].st = "expired" => linha'[k].st = "expired")
  BY DEF Revoked
<1>5. SessChains'
  BY <1>1, <1>2, ChainsCalm
<1>6. SessExpelled'
  BY <1>3, <1>4, ExpelledBeside
<1> QED BY <1>5, <1>6

\* Steps that leave the rows alone, and start and end no refresh.
LEMMA RowsRest ==
    ASSUME SessTypes, SessTypes', SessChains, SessExpelled, RowsGrow, NEW P, Marks(P),
           UNCHANGED <<linha, encerradas, expulsas, alterados>>, SameLogouts,
           \A t \in Tabs : aba'[t] = aba[t] \/ aba'[t] = Vazia,
           \A c \in Calls : \/ chamada'[c] = chamada[c]
                            \/ chamada[c].pc = "idle" /\ chamada'[c].pc = "enviada"
    PROVE  SessChains' /\ SessExpelled'
<1>1. SameCalls
  BY DEF SameCalls, Renovadas, Renovando
<1>2. SameTokens
  BY Blank DEF SameTokens
<1>3. NoneRevives /\ EndsDead
  BY Rests
<1>4. HistoryGrows /\ Born' = Born
  BY DEF HistoryGrows, Marks, Born
<1>5. \A t \in ComToken' : t \in ComToken /\ aba'[t].token = aba[t].token
  BY <1>4, Blank, SessionAssumption DEF ComToken, Born
<1>6. \A k \in Born : (Revoked(k)' => Revoked(k)) /\ (linha[k].st = "expired" => linha'[k].st = "expired")
  BY DEF Revoked
<1>7. \A d \in Calls :
        /\ chamada[d].pc = "revogou" =>
              chamada'[d].pc = "revogou" /\ chamada'[d].token = chamada[d].token
        /\ chamada'[d].pc = "renova" =>
              chamada[d].pc = "renova" /\ chamada'[d].token = chamada[d].token
  OBVIOUS
<1>8. SessChains'
  BY <1>1, <1>2, <1>3, ChainsCalm
<1>9. SessExpelled'
  BY <1>4, <1>5, <1>6, <1>7, ExpelledBeside
<1> QED BY <1>8, <1>9

LEMMA RenovaAchaExpelled ==
    ASSUME SessTypes, SessExpelled, NEW c \in Calls, RenovaAcha(c)
    PROVE  SessExpelled'
<1>1. /\ SessTypes' /\ RowsGrow /\ Marks({}) /\ chamada[c].pc = "renova" /\ chamada'[c].pc = "achou"
      /\ \A d \in Calls \ {c} : chamada'[d] = chamada[d]
  BY RenovaAchaTypes
<1>2. UNCHANGED <<linha, aba, encerradas, expulsas, alterados>>
  BY DEF RenovaAcha, servidor, navegador
<1>3. HistoryGrows /\ Born' = Born /\ ComToken' = ComToken
  BY <1>1, <1>2 DEF Marks, HistoryGrows, Born, ComToken
<1>4. \A k \in Born : (Revoked(k)' => Revoked(k)) /\ (linha[k].st = "expired" => linha'[k].st = "expired")
  BY <1>2 DEF Revoked
<1>5. \A d \in Calls :
        /\ chamada[d].pc = "revogou" =>
              chamada'[d].pc = "revogou" /\ chamada'[d].token = chamada[d].token
        /\ chamada'[d].pc = "renova" =>
              chamada[d].pc = "renova" /\ chamada'[d].token = chamada[d].token
  BY <1>1
<1> QED BY <1>1, <1>2, <1>3, <1>4, <1>5, ExpelledBeside

SessInv == SessTypes /\ SessWho /\ SessChains /\ SessExpelled

LEMMA ChainsNext ==
    ASSUME SessInv, SessionNext
    PROVE  SessChains' /\ SessExpelled'
<1> USE DEF SessInv
<1>1. ASSUME NEW t \in Tabs, NEW u \in Users, EntraLe(t, u) PROVE SessChains' /\ SessExpelled'
  <2>1. SessTypes' /\ RowsGrow /\ Marks({})
    BY <1>1, EntraLeTypes
  <2>2. UNCHANGED <<linha, aba, chamada, sai, encerradas, expulsas, alterados>> /\ Born' = Born
    BY <1>1 DEF EntraLe, servidor, navegador, Born
  <2> QED BY <2>1, <2>2, RowsExpire
<1>2. ASSUME NEW t \in Tabs, EntraFalha(t) PROVE SessChains' /\ SessExpelled'
  <2>1. SessTypes' /\ RowsGrow /\ Marks({})
    BY <1>2, EntraFalhaTypes
  <2>2. UNCHANGED <<linha, aba, chamada, sai, encerradas, expulsas, alterados>> /\ Born' = Born
    BY <1>2 DEF EntraFalha, servidor, navegador, Born
  <2> QED BY <2>1, <2>2, RowsExpire
<1>3. ASSUME NEW t \in Tabs, NEW k \in Tokens, EntraEmite(t, k) PROVE SessChains' /\ SessExpelled'
  BY <1>3, EntraEmiteChains, EntraEmiteExpelled
<1>4. ASSUME NEW t \in Tabs, NEW c \in Calls, Chama(c, t) PROVE SessChains' /\ SessExpelled'
  <2>1. /\ SessTypes' /\ RowsGrow /\ Marks({}) /\ chamada[c].pc = "idle"
        /\ chamada'[c].pc = "enviada" /\ \A d \in Calls \ {c} : chamada'[d] = chamada[d]
    BY <1>4, ChamaTypes
  <2>2. UNCHANGED <<linha, aba, sai, encerradas, expulsas, alterados>>
    BY <1>4 DEF Chama, servidor, navegador
  <2>3. SameLogouts
    BY <2>2, Rests
  <2>4. \A d \in Calls : \/ chamada'[d] = chamada[d]
                         \/ chamada[d].pc = "idle" /\ chamada'[d].pc = "enviada"
    BY <2>1
  <2> QED BY <2>1, <2>2, <2>3, <2>4, RowsRest
<1>5. ASSUME NEW t \in Tabs, Sai(t) PROVE SessChains' /\ SessExpelled'
  <2>1. /\ SessTypes' /\ RowsGrow /\ Marks({}) /\ aba[t].token # None
        /\ sai'[t].pc = "enviado" /\ sai'[t].token = aba[t].token
        /\ \A x \in Tabs \ {t} : sai'[x] = sai[x]
    BY <1>5, SaiTypes
  <2>2. UNCHANGED <<linha, aba, chamada, encerradas, expulsas, alterados>>
    BY <1>5 DEF Sai, servidor, navegador
  <2>3. t \in ComToken
    BY <2>1, InTypes DEF ComToken
  <2>4. SameLogouts
    BY <2>1, <2>3 DEF SameLogouts
  <2> QED BY <2>1, <2>2, <2>4, RowsRest
<1>6. ASSUME NEW t \in Tabs, SaiServidor(t) PROVE SessChains' /\ SessExpelled'
  BY <1>6, SaiServidorChains, SaiServidorExpelled
<1>7. ASSUME NEW t \in Tabs, SaiLimpa(t) PROVE SessChains' /\ SessExpelled'
  <2>1. /\ SessTypes' /\ RowsGrow /\ Emptied(t) /\ sai'[t] = SemSaida
        /\ Marks(IF sai[t].pc = "feito" THEN {} ELSE Cadeia(sai[t].token))
        /\ \A x \in Tabs \ {t} : sai'[x] = sai[x] /\ aba'[x] = aba[x]
    BY <1>7, SaiLimpaTypes
  <2>2. UNCHANGED <<linha, chamada, encerradas, expulsas, alterados>>
    BY <1>7 DEF SaiLimpa, servidor
  <2>3. SameLogouts
    BY <2>1, Blank DEF SameLogouts
  <2>4. \A x \in Tabs : aba'[x] = aba[x] \/ aba'[x] = Vazia
    BY <2>1 DEF Emptied
  <2> QED BY <2>1, <2>2, <2>3, <2>4, RowsRest
<1>8. ASSUME NEW t \in Tabs, AbreAba(t) PROVE SessChains' /\ SessExpelled'
  <2>1. SessTypes' /\ RowsGrow /\ Restarted(t) /\ aba'[t] = guardado /\ Marks(Perdidas(t))
    BY <1>8, AbreAbaTypes
  <2>2. UNCHANGED <<linha, encerradas, expulsas>>
    BY <1>8 DEF AbreAba, servidor
  <2>3. aba'[t] = Vazia \/ \E s \in Tabs : aba'[t] = aba[s]
    BY <2>1 DEF SessTypes, SessHolds, Stored
  <2>4. SameCalls /\ SameTokens /\ SameLogouts
    BY <2>1, <2>3, RestartRests
  <2>5. NoneRevives /\ EndsDead
    BY <2>2, Rests
  <2> QED BY <1>8, <2>1, <2>4, <2>5, ChainsCalm, AbreAbaExpelled
<1>9. ASSUME NEW c \in Calls, Responde(c) PROVE SessChains' /\ SessExpelled'
  BY <1>9, RespondeChains, RespondeExpelled
<1>10. ASSUME NEW c \in Calls, RenovaAcha(c) PROVE SessChains' /\ SessExpelled'
  BY <1>10, RenovaAchaChains, RenovaAchaExpelled
<1>11. ASSUME NEW c \in Calls, RenovaRevoga(c) PROVE SessChains' /\ SessExpelled'
  BY <1>11, RenovaRevogaChains, RenovaRevogaExpelled
<1>12. ASSUME NEW c \in Calls, NEW k \in Tokens, RenovaEmite(c, k) PROVE SessChains' /\ SessExpelled'
  BY <1>12, RenovaEmiteChains, RenovaEmiteExpelled
<1>13. ASSUME NEW c \in Calls, NEW k \in Tokens, RenovaPerde(c, k) PROVE SessChains' /\ SessExpelled'
  BY <1>13, RenovaPerdeChains, RenovaPerdeExpelled
<1>14. ASSUME NEW c \in Calls, RenovaFalha(c) PROVE SessChains' /\ SessExpelled'
  BY <1>14, RenovaFalhaChains, RenovaFalhaExpelled
<1>15. ASSUME NEW k \in Tokens, VenceAcesso(k) PROVE SessChains' /\ SessExpelled'
  <2>1. /\ SessTypes' /\ RowsGrow /\ Marks({}) /\ Born' = Born
        /\ \A j \in Tokens : linha'[j].st = linha[j].st
    BY <1>15, VenceAcessoTypes
  <2>2. UNCHANGED <<aba, chamada, sai, encerradas, expulsas, alterados>>
    BY <1>15 DEF VenceAcesso, navegador, pedidos
  <2>3. \A j \in Born : linha'[j].st = linha[j].st
    BY <2>1, InTypes
  <2> QED BY <2>1, <2>2, <2>3, RowsExpire
<1>16. ASSUME NEW k \in Tokens, VenceRefresh(k) PROVE SessChains' /\ SessExpelled'
  <2>1. /\ SessTypes' /\ RowsGrow /\ Marks({}) /\ Born' = Born /\ Viva(k)
        /\ linha'[k].st = "expired" /\ \A j \in Tokens \ {k} : linha'[j] = linha[j]
    BY <1>16, VenceRefreshTypes
  <2>2. UNCHANGED <<aba, chamada, sai, encerradas, expulsas, alterados>>
    BY <1>16 DEF VenceRefresh, navegador, pedidos
  <2>3. \A j \in Born : linha'[j].st = linha[j].st \/ linha'[j].st = "expired"
    BY <2>1, InTypes
  <2> QED BY <2>1, <2>2, <2>3, RowsExpire
<1>17. ASSUME NEW u \in Users, NEW v \in BOOLEAN, NEW p \in Papeis, AtualizaConta(u, v, p)
       PROVE  SessChains' /\ SessExpelled'
  <2>1. SessTypes' /\ RowsGrow /\ Marks({}) /\ alterados' = alterados \cup {u}
    BY <1>17, AtualizaContaTypes
  <2>2. UNCHANGED <<linha, aba, chamada, sai, encerradas, expulsas>> /\ Born' = Born
    BY <1>17 DEF AtualizaConta, navegador, pedidos, Born
  <2> QED BY <2>1, <2>2, RowsExpire
<1>21. ASSUME NEW t \in Tabs, GravaEvento(t) PROVE SessChains' /\ SessExpelled'
  <2>1. SessTypes' /\ RowsGrow /\ Marks({}) /\ Born' = Born
    BY <1>21, GravaEventoTypes
  <2>2. UNCHANGED <<linha, aba, chamada, sai, encerradas, expulsas, alterados>>
    BY <1>21 DEF GravaEvento, servidor, pedidos
  <2> QED BY <2>1, <2>2, RowsExpire
<1>18. CASE \E t \in Tabs : DaTab(t)
  BY <1>1, <1>2, <1>3, <1>4, <1>5, <1>6, <1>7, <1>8, <1>18, <1>21 DEF DaTab
<1>19. CASE \E c \in Calls : DaChamada(c)
  BY <1>9, <1>10, <1>11, <1>12, <1>13, <1>14, <1>19 DEF DaChamada
<1>20. CASE DoMundo
  BY <1>15, <1>16, <1>17, <1>20 DEF DoMundo
<1> QED BY <1>18, <1>19, <1>20 DEF SessionNext

LEMMA SessionInvInit == SessionInit => SessInv
<1> SUFFICES ASSUME SessionInit PROVE SessInv
  OBVIOUS
<1> USE DEF SessionInit
<1>1. SemLinha \in Linha /\ SemLinha.st = "none" /\ SemLinha.raiz = None
  BY DEF SemLinha, Linha
<1>2. Born = {} /\ linha \in [Tokens -> Linha] /\ \A k \in Tokens : linha[k].raiz = None
  BY <1>1 DEF Born
<1>3. conta \in [Users -> [ativo : BOOLEAN, papel : Roles]] /\ \A u \in Users : conta[u].ativo
  BY SessionAssumption
<1>4. SessRows
  BY <1>2, <1>3 DEF SessRows, Lineage
<1>5. SessHolds
  BY <1>2, Blank DEF SessHolds, Stored, Stores
<1>6. SessTypes
  BY <1>2, <1>4, <1>5 DEF SessTypes, SessHistory
<1>7. /\ \A t \in Tabs : aba[t].user = None /\ entra[t].pc = "idle" /\ sai[t].pc = "idle"
      /\ \A c \in Calls : chamada[c].pc = "idle"
      /\ guardado.user = None
  BY Blank
<1>8. SessWho
  BY <1>2, <1>3, <1>7 DEF SessWho, OneOwner, OneRole, InPlay, ShowsOwner, ShowsRole, NoServidor
<1>9. Renovadas = {} /\ NasMaos = {} /\ ComToken = {}
  BY <1>2, <1>7 DEF Renovadas, NasMaos, ComToken, Renovando, NoServidor
<1>10. SessChains
  BY <1>2, <1>9 DEF SessChains, NotShared, NotCrossed, OneFlight, OneCall, Kin, NotEnded
<1>11. SessExpelled
  BY <1>7, <1>9 DEF SessExpelled
<1> QED BY <1>6, <1>8, <1>10, <1>11 DEF SessInv

LEMMA SessionInvNext == SessInv /\ [SessionNext]_vars => SessInv'
<1> SUFFICES ASSUME SessInv, [SessionNext]_vars PROVE SessInv'
  OBVIOUS
<1>1. CASE SessionNext
  BY <1>1, WhoNext, ChainsNext DEF SessInv
<1>2. CASE UNCHANGED vars
  <2>1. /\ UNCHANGED <<conta, linha, pdvToken, guardado, aba, entra, sai, chamada>>
        /\ UNCHANGED <<marcadas, encerradas, expulsas, misturou, alterados>>
    BY <1>2 DEF vars, servidor, navegador, pedidos, historia
  <2>2. Born' = Born
    BY <2>1 DEF Born
  <2>3. SessTypes'
    BY <2>1, <2>2 DEF SessInv, SessTypes, SessRows, Lineage, SessHolds, SessHistory, Stored,
       Stores, Entradas0, Saidas, Chamadas0
  <2>4. SessWho'
    BY <2>1, <2>2 DEF SessInv, SessWho, OneOwner, OneRole, InPlay, ShowsOwner, ShowsRole, RoleOf,
       NoServidor, Renovando
  <2>5. Renovadas' = Renovadas /\ NasMaos' = NasMaos /\ ComToken' = ComToken /\ Fechadas' = Fechadas
    BY <2>1, <2>2 DEF Renovadas, NasMaos, ComToken, Fechadas, NoServidor, Renovando
  <2>6. SessChains'
    BY <2>1, <2>2, <2>5 DEF SessInv, SessChains, NotShared, NotCrossed, OneFlight, OneCall, Kin,
       NotEnded, Own, Alive, Raiz, Viva
  <2>7. SessExpelled'
    BY <2>1, <2>2, <2>5 DEF SessInv, SessExpelled, Excused, Expired, Revoked, HalfWay, Raiz
  <2> QED BY <2>3, <2>4, <2>6, <2>7 DEF SessInv
<1> QED BY <1>1, <1>2
-----------------------------------------------------------------------------
(* The matrix: who has which permission *)

LEMMA Matrix ==
    /\ RolePermissions["platform_admin"] = {"platform.manage", "audit.view"}
    /\ RolePermissions["tenant_admin"] = AllTenant
    /\ RolePermissions["supervisor"] =
          AllTenant \ {"tenant.manage", "team.manage", "billing.view", "integrations.manage",
                       "fiscal.manage"}
    /\ RolePermissions["cashier"] = {"recharge.create", "cards.manage", "customers.manage",
                                     "cash.open", "cash.close"}
    /\ RolePermissions["bartender"] = {"pos.sell", "products.manage"}
    /\ RolePermissions["exit"] = {"exit.control"}
BY DEF RolePermissions

Gerencia == {"tenant_admin", "supervisor"}

LEMMA Holders ==
    ASSUME NEW r \in Roles
    PROVE  /\ \A p \in {"platform.manage"} : Can(r, p) <=> r = "platform_admin"
           /\ \A p \in {"tenant.manage", "team.manage", "billing.view", "integrations.manage",
                        "fiscal.manage"} : Can(r, p) <=> r = "tenant_admin"
           /\ \A p \in {"events.manage", "reports.view", "refund.approve", "terminals.manage"} :
                 Can(r, p) <=> r \in Gerencia
           /\ \A p \in {"cards.manage", "recharge.create", "customers.manage", "cash.open",
                        "cash.close"} : Can(r, p) <=> r \in Gerencia \cup {"cashier"}
           /\ \A p \in {"pos.sell", "products.manage"} :
                 Can(r, p) <=> r \in Gerencia \cup {"bartender"}
           /\ Can(r, "exit.control") <=> r \in Gerencia \cup {"exit"}
<1>1. CASE r = "platform_admin"
  BY <1>1, Matrix DEF Can, Gerencia
<1>2. CASE r = "tenant_admin"
  BY <1>2, Matrix DEF Can, Gerencia, AllTenant
<1>3. CASE r = "supervisor"
  BY <1>3, Matrix DEF Can, Gerencia, AllTenant
<1>4. CASE r \in {"cashier", "bartender", "exit"}
  BY <1>4, Matrix DEF Can, Gerencia
<1> QED BY <1>1, <1>2, <1>3, <1>4 DEF Roles

\* The guards, as the sets of roles they let through.
LEMMA Guards ==
    /\ RolesGuard({"admin", "super_admin"}) = {"tenant_admin", "platform_admin"}
    /\ RolesGuard({"super_admin"}) = {"platform_admin"}
    /\ RolesGuard({"operator"}) = {"bartender"}
    /\ RolesGuard({"exit", "admin", "super_admin"}) = {"exit", "tenant_admin", "platform_admin"}
BY DEF RolesGuard, LegacyRole

LEMMA Matched ==
    ASSUME NEW ps, NEW p \in ps, NEW r \in Roles, Can(r, p)
    PROVE  r \in RequirePermission(ps)
BY DEF RequirePermission
-----------------------------------------------------------------------------
(* The pages: which roles they are shown to, and what their calls answer them *)

\* Every call of the page is accepted of a role the page is shown to, or disagrees
\* in one of the two places named in Access.
Passa(pg) ==
    \A r \in Roles : Mostra(r, pg) =>
        \A h \in PageCalls[pg] : Aceita(r, h) \/ h \in Divergentes(r)

LEMMA Shown ==
    ASSUME NEW r \in Roles, NEW pg \in Paginas, Mostra(r, pg)
    PROVE  /\ pg \in {"platform", "empresas", "empresa", "leads"} => r = "platform_admin"
           /\ pg \in {"admin", "equipe", "billing", "integrations", "fiscal"} => r = "tenant_admin"
           /\ pg \in {"app", "reports", "pdv"} => r \in Gerencia
           /\ pg \in {"recarga", "caixa", "cadastro", "cards"} => r \in Gerencia \cup {"cashier"}
           /\ pg \in {"pos", "pagar", "products"} => r \in Gerencia \cup {"bartender"}
           /\ pg = "saida" => r \in Gerencia \cup {"exit"}
<1>1. Can(r, Rotas[pg])
  BY DEF Mostra
<1>2. /\ Rotas["platform"] = "platform.manage" /\ Rotas["empresas"] = "platform.manage"
      /\ Rotas["empresa"] = "platform.manage" /\ Rotas["leads"] = "platform.manage"
      /\ Rotas["admin"] = "tenant.manage" /\ Rotas["equipe"] = "team.manage"
      /\ Rotas["billing"] = "billing.view" /\ Rotas["integrations"] = "integrations.manage"
      /\ Rotas["fiscal"] = "fiscal.manage" /\ Rotas["app"] = "reports.view"
      /\ Rotas["reports"] = "reports.view" /\ Rotas["pdv"] = "terminals.manage"
      /\ Rotas["recarga"] = "recharge.create" /\ Rotas["caixa"] = "cash.open"
      /\ Rotas["cadastro"] = "customers.manage" /\ Rotas["cards"] = "cards.manage"
      /\ Rotas["pos"] = "pos.sell" /\ Rotas["pagar"] = "pos.sell"
      /\ Rotas["products"] = "products.manage" /\ Rotas["saida"] = "exit.control"
  BY DEF Rotas
<1> QED BY <1>1, <1>2, Holders

LEMMA Admins ==
    /\ \A pg \in {"platform", "empresas", "empresa", "leads"} : Passa(pg)
    /\ \A pg \in {"admin", "equipe", "billing", "integrations", "fiscal"} : Passa(pg)
<1>1. /\ Controllers["platform"] = PlatformController /\ Controllers["plans"] = PlansController
      /\ Controllers["events"] = EventsController /\ Controllers["leads"] = LeadsController
      /\ Controllers["admin"] = AdminController /\ Controllers["users"] = UsersController
      /\ Controllers["tenants"] = TenantsController /\ Controllers["fiscal"] = FiscalController
      /\ Controllers["integrations"] = IntegrationsController
  BY DEF Controllers
<1>2. /\ \A h \in {"overview", "expireTrials", "companies", "createCompany", "company",
                   "changePlan", "setStatus", "updateCompany", "createInvoice",
                   "markInvoicePaid"} : PlatformController[h] = {"platform_admin"}
      /\ PlansController["list"] = Publico
      /\ LeadsController["list"] = RequirePermission({"platform.manage"})
      /\ \A h \in {"overview", "comandas"} : AdminController[h] = {"tenant_admin", "platform_admin"}
      /\ \A h \in {"list", "create", "update"} : UsersController[h] = {"tenant_admin", "platform_admin"}
      /\ \A h \in {"list", "create", "deactivate"} :
            IntegrationsController[h] = {"tenant_admin", "platform_admin"}
      /\ TenantsController["me"] = Roles
      /\ \A h \in {"status", "pendingOrders", "findAll", "emit", "createDemoOrder", "cancel"} :
            FiscalController[h] = Roles
  BY Guards DEF PlatformController, PlansController, LeadsController, AdminController,
     UsersController, IntegrationsController, TenantsController, FiscalController, JwtAuth,
     Administrar
<1>3. "platform_admin" \in RequirePermission({"platform.manage"})
  BY Holders, Matched DEF Roles
<1>4. \A pg \in {"platform", "empresas", "empresa", "leads"} :
          pg \in Paginas /\ \A h \in PageCalls[pg] :
              Aceita("platform_admin", h) \/ h \in Divergentes("platform_admin")
  BY <1>1, <1>2, <1>3 DEF PageCalls, Paginas, Rotas, PlatformDashboardPage, TenantsPage,
     CompanyDetailPage, LeadsPage, Chamadas, Aceita, Publico, Roles, Divergentes
<1>5. \A pg \in {"admin", "equipe", "billing", "integrations", "fiscal"} :
          pg \in Paginas /\ \A h \in PageCalls[pg] : Aceita("tenant_admin", h)
  BY <1>1, <1>2 DEF PageCalls, Paginas, Rotas, AdminControlPage, TeamPage, BillingPage,
     IntegrationsPage, FiscalPage, Chamadas, Aceita, Publico, Roles
<1> QED BY <1>4, <1>5, Shown DEF Passa

LEMMA Managers == \A pg \in {"app", "reports", "pdv"} : Passa(pg)
<1>1. /\ Controllers["events"] = EventsController /\ Controllers["reports"] = ReportsController
      /\ Controllers["pdv"] = PdvController
  BY DEF Controllers
<1>2. /\ EventsController["dashboard"] = RequirePermission({"reports.view"})
      /\ \A h \in {"sales", "products"} : ReportsController[h] = Roles
      /\ PdvController["listTerminals"] = Roles
  BY DEF EventsController, ReportsController, PdvController, JwtAuth
<1>3. Gerencia \subseteq RequirePermission({"reports.view"}) /\ Gerencia \subseteq Roles
  BY Holders, Matched DEF Gerencia, Roles
<1>4. \A pg \in {"app", "reports", "pdv"} :
          pg \in Paginas /\ \A h \in PageCalls[pg], r \in Gerencia : Aceita(r, h)
  BY <1>1, <1>2, <1>3 DEF PageCalls, Paginas, Rotas, DashboardPage, ReportsPage, PdvPage,
     Chamadas, Aceita
<1> QED BY <1>4, Shown DEF Passa

LEMMA Cashiers == \A pg \in {"recarga", "caixa", "cadastro", "cards"} : Passa(pg)
<1> DEFINE G == Gerencia \cup {"cashier"}
<1>1. /\ Controllers["cards"] = CardsController /\ Controllers["payments"] = PaymentsController
      /\ Controllers["cash"] = CashController /\ Controllers["customers"] = CustomersController
  BY DEF Controllers
<1>2. G \subseteq Roles
  BY DEF Gerencia, Roles
<1>3. /\ \A r \in G : Can(r, "cards.manage") /\ Can(r, "recharge.create")
      /\ \A r \in G : Can(r, "cash.open") /\ Can(r, "cash.close") /\ Can(r, "customers.manage")
  BY <1>2, Holders
<1> HIDE DEF G
<1>4. /\ \A h \in {"status", "create", "block", "unblock", "recharge", "rechargeIntent"} :
            G \subseteq CardsController[h]
      /\ \A h \in {"status", "confirm"} : G \subseteq PaymentsController[h]
      /\ \A h \in {"getOpen", "open", "close"} : G \subseteq CashController[h]
      /\ \A h \in {"lookup", "register", "checkin"} : G \subseteq CustomersController[h]
  BY <1>2, <1>3 DEF CardsController, CardsStatus, PaymentsController, CashController,
     CustomersController, RequirePermission, Cobrar
<1>5. \A pg \in {"recarga", "caixa", "cadastro", "cards"} :
          pg \in Paginas /\ \A h \in PageCalls[pg], r \in G : Aceita(r, h)
  BY <1>1, <1>4 DEF PageCalls, Paginas, Rotas, RechargeFlow, CashPage, CadastroPage, CardsPage,
     Chamadas, Aceita
<1> QED BY <1>5, Shown DEF Passa, G

LEMMA Bartenders == \A pg \in {"pos", "pagar", "products"} : Passa(pg)
<1> DEFINE G == Gerencia \cup {"bartender"}
<1>1. /\ Controllers["events"] = EventsController /\ Controllers["payments"] = PaymentsController
      /\ Controllers["products"] = ProductsController
      /\ Controllers["comandas"] = ComandasController
  BY DEF Controllers
<1>2. G \subseteq Roles
  BY DEF Gerencia, Roles
<1>3. \A r \in G : Can(r, "pos.sell") /\ Can(r, "products.manage")
  BY <1>2, Holders
<1> HIDE DEF G
<1>4. /\ G \subseteq EventsController["findAll"]
      /\ \A h \in {"findByEvent", "create", "update"} : G \subseteq ProductsController[h]
      /\ \A h \in {"providers", "status", "pix", "card", "confirm", "cancel"} :
            G \subseteq PaymentsController[h]
      /\ \A h \in {"findOne", "nfcTap", "addItems", "removeItem", "pay"} :
            G \subseteq ComandasController[h]
  BY <1>2, <1>3 DEF EventsController, ProductsController, PaymentsController,
     ComandasController, RequirePermission, Cobrar, JwtAuth
<1>5. \A pg \in {"pos", "pagar", "products"} :
          pg \in Paginas /\ \A h \in PageCalls[pg], r \in G : Aceita(r, h)
  BY <1>1, <1>4 DEF PageCalls, Paginas, Rotas, PosPage, PhonePayPage, ProductsPage,
     Chamadas, Aceita
<1> QED BY <1>5, Shown DEF Passa, G

LEMMA Doors == Passa("saida")
<1>1. Controllers["exit"] = ExitController /\ PageCalls["saida"] = ExitGatePage
  BY DEF Controllers, PageCalls
<1>2. \A h \in {"today", "blocked", "check", "release"} : {"exit", "tenant_admin"} \subseteq ExitController[h]
  BY Guards DEF ExitController
<1>3. \A h \in ExitGatePage : Aceita("exit", h) /\ Aceita("tenant_admin", h) /\ h \in Divergentes("supervisor")
  BY <1>1, <1>2 DEF ExitGatePage, Chamadas, Aceita, Divergentes
<1>4. "saida" \in Paginas
  BY DEF Paginas, Rotas
<1> QED BY <1>1, <1>3, <1>4, Shown DEF Passa, Gerencia

\* No role is refused what it is shown: the matrix, the routes, the menu and the guards
\* of the controllers agree, but where Access says so.
LEMMA NoPageRefused == Conferem
<1>1. ASSUME NEW r \in Roles
      PROVE  Mostra(r, Inicio[r])
  <2>1. /\ Inicio["platform_admin"] = "platform" /\ Inicio["tenant_admin"] = "app"
        /\ Inicio["supervisor"] = "app" /\ Inicio["cashier"] = "recarga"
        /\ Inicio["bartender"] = "pos" /\ Inicio["exit"] = "saida"
    BY DEF Inicio
  <2>2. /\ Rotas["platform"] = "platform.manage" /\ Rotas["app"] = "reports.view"
        /\ Rotas["recarga"] = "recharge.create" /\ Rotas["pos"] = "pos.sell"
        /\ Rotas["saida"] = "exit.control"
    BY DEF Rotas
  <2> QED BY <2>1, <2>2, Holders DEF Mostra, Roles, Gerencia
<1>2. ASSUME NEW r \in Roles, r # "exit", NEW e \in Menu, Can(r, e[2])
      PROVE  Mostra(r, e[1])
  <2>1. Rotas[e[1]] = e[2]
    BY DEF Menu, Rotas
  <2> QED BY <1>2, <2>1 DEF Mostra
<1>3. ASSUME NEW r \in Roles, NEW x \in Recusadas(r, r)
      PROVE  x \in Divergentes(r)
  <2> DEFINE D == {p \in Paginas : Mostra(r, p)}
             F(pg) == {h \in PageCalls[pg] : ~Aceita(r, h)}
  <2>1. x \in UNION {F(pg) : pg \in D}
    BY DEF Recusadas
  <2> HIDE DEF D, F
  <2>2. PICK pg \in D : x \in F(pg)
    BY <2>1
  <2>3. pg \in Paginas /\ Mostra(r, pg) /\ x \in PageCalls[pg] /\ ~Aceita(r, x)
    BY <2>2 DEF D, F
  <2>4. Passa(pg)
    BY <2>3, Admins, Managers, Cashiers, Bartenders, Doors DEF Paginas, Rotas
  <2> QED BY <2>3, <2>4 DEF Passa
<1>4. ASSUME NEW h \in Publicas
      PROVE  Aceita("ninguem", h)
  <2>1. /\ Controllers["auth"] = AuthController /\ Controllers["plans"] = PlansController
        /\ Controllers["tenants"] = TenantsController /\ Controllers["leads"] = LeadsController
    BY DEF Controllers
  <2>2. /\ AuthController["login"] = Publico /\ PlansController["list"] = Publico
        /\ TenantsController["onboard"] = Publico /\ LeadsController["create"] = Publico
    BY DEF AuthController, PlansController, TenantsController, LeadsController
  <2> QED BY <2>1, <2>2 DEF Publicas, LoginPage, OnboardPage, LandingPage, PlansPage, Chamadas,
       Aceita, Publico
<1> QED BY <1>1, <1>2, <1>3, <1>4 DEF Conferem
-----------------------------------------------------------------------------
(* Sessions: the theorems *)

LEMMA SessionAlways == SessionSpec => []SessInv
BY SessionInvInit, SessionInvNext, PTL DEF SessionSpec

LEMMA InvImpliesTypes == SessInv => TypeOK
BY Roots DEF SessInv, SessTypes, SessRows, SessHolds, SessHistory, TypeOK, Stores, Entradas0, Saidas,
   Chamadas0, Born

LEMMA InvImpliesUma == SessInv => UmaSessao
<1> SUFFICES ASSUME SessInv, NEW r \in Tokens \ marcadas
             PROVE  LET vivas == {k \in Tokens : Viva(k) /\ linha[k].raiz = r}
                    IN  /\ \A k, l \in vivas : k = l
                        /\ r \in encerradas => vivas = {}
  BY DEF UmaSessao
<1>1. ASSUME NEW k \in Tokens, Viva(k), linha[k].raiz = r
      PROVE  k \in Born /\ Alive(k)
  BY <1>1 DEF SessInv, SessChains, Born, Viva
<1> QED BY <1>1 DEF Alive, Raiz, Fechadas

LEMMA InvImpliesNunca == SessInv => NuncaExpulso
<1> SUFFICES ASSUME SessInv, NEW r \in expulsas \ marcadas
             PROVE  \/ r \in encerradas
                    \/ linha[r].dono \in alterados
                    \/ \E k \in Tokens : linha[k].raiz = r /\ linha[k].st = "expired"
  BY DEF NuncaExpulso
<1>1. Excused(r) \/ Expired(r)
  BY DEF SessInv, SessExpelled
<1> QED BY <1>1 DEF Excused, Expired, Raiz, Born

\* Whoever acts with the token in localStorage acts as whom the tab shows.
LEMMA SameOwner ==
    ASSUME SessInv, ~misturou, NEW t \in Tabs, ComTela(t), pdvToken # None
    PROVE  pdvToken \in Born /\ aba[t].user \in Users /\ linha[pdvToken].dono = aba[t].user
<1>1. pdvToken \in Born /\ aba[t].token \in Born /\ aba[t].user \in Users
  BY DEF SessInv, SessTypes, SessHolds, Stores, Store, ComTela
<1>2. pdvToken \in InPlay /\ aba[t].token \in InPlay
  BY <1>1 DEF InPlay
<1> QED BY <1>1, <1>2 DEF SessInv, SessWho, OneOwner, ShowsOwner, ComTela

LEMMA InvImpliesAge == SessInv => AgeComoMostra
BY SameOwner DEF AgeComoMostra

LEMMA InvImpliesTela == SessInv => TelaRespondida
<1> SUFFICES ASSUME SessInv, ~misturou, NEW t \in Tabs, ComTela(t), pdvToken # None,
                    aba[t].user \notin alterados
             PROVE  linha[pdvToken].papel = aba[t].papel
  BY NoPageRefused DEF TelaRespondida
<1>1. pdvToken \in Born /\ linha[pdvToken].dono = aba[t].user
  BY SameOwner
<1>2. linha[pdvToken].papel = conta[aba[t].user].papel
  BY <1>1 DEF SessInv, SessWho, OneRole, RoleOf
<1>3. aba[t].papel = conta[aba[t].user].papel
  BY DEF SessInv, SessWho, OneRole, ShowsRole, RoleOf, ComTela
<1> QED BY <1>2, <1>3

\* Rows, stores, requests and history keep their types, whatever overlaps.
THEOREM SessionTyped == SessionSpec => []TypeOK
BY SessionAlways, InvImpliesTypes, PTL

\* Rotation leaves one place to sign in from: of a chain that no tabs shared, that no
\* logout met half way and of which no answer was lost, one refresh token can be
\* exchanged, and none once a logout was carried out (refresh and logout of
\* auth.service.ts).
THEOREM OneSession == SessionSpec => []UmaSessao
BY SessionAlways, InvImpliesUma, PTL

\* Nobody is sent to the login page while the session could go on: the single flight of
\* refreshes of api.ts never lets a tab present a token its own refresh revoked.
THEOREM NeverExpelled == SessionSpec => []NuncaExpulso
BY SessionAlways, InvImpliesNunca, PTL

\* Until a login meets another user's session, the access token all tabs share is of the
\* user each tab shows (pdv_token of api.ts against the store of store/auth.ts).
THEOREM ActsAsShown == SessionSpec => []AgeComoMostra
BY SessionAlways, InvImpliesAge, PTL

\* Matrix, routes, menu and guards agree, and a page's calls are made with the role the
\* page is shown for, until users.update changes it.
THEOREM ScreenIsAnswered == SessionSpec => []TelaRespondida
BY SessionAlways, InvImpliesTela, PTL
=============================================================================
