---------------------------- MODULE AuthzProofs -----------------------------
(***************************************************************************)
(* Theorems about Authz, for any number of requests, support sessions,     *)
(* users and tokens, any ttl, timeout and capacity. What the cache does    *)
(* under them is taken from TTLCacheProofs, of which Proved is the         *)
(* instance that Authz uses.                                               *)
(***************************************************************************)
EXTENDS Authz, FiniteSetTheorems, TLAPS

Proved == INSTANCE TTLCacheProofs
              WITH Callers <- Requests, Keys <- Chave, Payloads <- Resposta,
                   TTLs <- {0, TTLPermissoes}

\* The assumptions of TTLCache hold of its instance.
LEMMA CacheAssumptions ==
    Proved!KeysAssumption /\ Proved!NumbersAssumption /\ Proved!NoneAssumption
<1>1. IsFiniteSet(Chave)
  BY AuthzAssumption, FS_Product DEF Chave
<1>2. Proved!KeysAssumption
  BY <1>1 DEF IsFiniteSet, Proved!IsFiniteSet
<1>3. Proved!NumbersAssumption
  BY AuthzAssumption
<1>4. Proved!NoneAssumption
  BY AuthzAssumption
<1>5. QED
  BY <1>2, <1>3, <1>4

(* ------------- The cache and the module of its theorems --------------- *)

\* Cache and Proved are the same module under two names: what is defined by the
\* same formula is equal, operator by operator.
LEMMA SameRoom ==
    ASSUME NEW m, NEW k
    PROVE  Cache!MadeRoom(m, k) = Proved!MadeRoom(m, k)
<1>1. /\ Cache!capacity = Proved!capacity
      /\ Cache!Present(m) = Proved!Present(m)
      /\ Cache!Purged(m) = Proved!Purged(m)
  BY DEF Cache!capacity, Proved!capacity, Cache!Present, Proved!Present, Cache!Purged, Proved!Purged
<1>2. Cache!Present(Proved!Purged(m)) = Proved!Present(Proved!Purged(m))
  BY DEF Cache!Present, Proved!Present
<1>3. Cache!Soonest(Proved!Purged(m)) = Proved!Soonest(Proved!Purged(m))
  BY DEF Cache!Soonest, Proved!Soonest, Cache!Present, Proved!Present
<1>4. \A S : Cache!Cardinality(S) = Proved!Cardinality(S)
  BY DEF Cache!Cardinality, Proved!Cardinality
<1>5. Cache!NeedsRoom(m, k) <=> Proved!NeedsRoom(m, k)
  BY <1>1, <1>4 DEF Cache!NeedsRoom, Proved!NeedsRoom
<1>6. CASE ~Cache!NeedsRoom(m, k)
  BY <1>5, <1>6 DEF Cache!MadeRoom, Proved!MadeRoom
<1>7. CASE Cache!NeedsRoom(m, k)
  BY <1>1, <1>2, <1>3, <1>4, <1>5, <1>7 DEF Cache!MadeRoom, Proved!MadeRoom
<1>8. QED
  BY <1>6, <1>7

LEMMA SameSet ==
    ASSUME NEW k, NEW v, NEW ttl
    PROVE  Cache!SetLocked(k, v, ttl) <=> Proved!SetLocked(k, v, ttl)
BY SameRoom DEF Cache!SetLocked, Proved!SetLocked

LEMMA SameTypes == Cache!TypeOK <=> Proved!TypeOK
BY DEF Cache!TypeOK, Proved!TypeOK, Cache!Item, Proved!Item, Cache!Value, Proved!Value, Cache!Result, Proved!Result, Cache!Error, Proved!Error, Cache!Call, Proved!Call

LEMMA SameNext == [Cache!Next]_cacheVars <=> [Proved!Next]_(Proved!vars)
<1>1. \A c, k : /\ Cache!LoadHit(c, k) <=> Proved!LoadHit(c, k)
                /\ Cache!LoadJoin(c, k) <=> Proved!LoadJoin(c, k)
                /\ Cache!LoadLead(c, k) <=> Proved!LoadLead(c, k)
  BY DEF Cache!LoadHit, Proved!LoadHit, Cache!LoadJoin, Proved!LoadJoin, Cache!LoadLead, Proved!LoadLead, Cache!Live, Proved!Live, Cache!InFlight, Proved!InFlight, Cache!AfterGet, Proved!AfterGet, Cache!Goto, Proved!Goto, Cache!Enter, Proved!Enter, Cache!Returns, Proved!Returns, Cache!NewCall, Proved!NewCall
<1>2. \A c : Cache!LoadEnds(c) <=> Proved!LoadEnds(c)
  BY DEF Cache!LoadEnds, Proved!LoadEnds, Cache!LoadPanics, Proved!LoadPanics, Cache!LoadReturns, Proved!LoadReturns, Cache!Goto, Proved!Goto, Cache!Returns, Proved!Returns
<1>3. \A c : Cache!Settle(c) <=> Proved!Settle(c)
  BY SameSet DEF Cache!Settle, Proved!Settle, Cache!Storable, Proved!Storable, Cache!Goto, Proved!Goto
<1>4. \A c : /\ Cache!Publish(c) <=> Proved!Publish(c)
             /\ Cache!CloseDone(c) <=> Proved!CloseDone(c)
             /\ Cache!WaiterReceives(c) <=> Proved!WaiterReceives(c)
             /\ Cache!WaiterGivesUp(c) <=> Proved!WaiterGivesUp(c)
             /\ Cache!CancelContext(c) <=> Proved!CancelContext(c)
  BY DEF Cache!Publish, Proved!Publish, Cache!CloseDone, Proved!CloseDone, Cache!WaiterReceives, Proved!WaiterReceives, Cache!WaiterGivesUp, Proved!WaiterGivesUp, Cache!CancelContext, Proved!CancelContext, Cache!Goto, Proved!Goto, Cache!Returns, Proved!Returns
<1>5. \A k, v, ttl : Cache!Set(k, v, ttl) <=> Proved!Set(k, v, ttl)
  BY SameSet DEF Cache!Set, Proved!Set, Cache!ExceptItems, Proved!ExceptItems
<1>6. /\ \A k : Cache!Get(k) <=> Proved!Get(k)
      /\ \A k : Cache!Delete(k) <=> Proved!Delete(k)
      /\ \A S : Cache!DeleteFunc(S) <=> Proved!DeleteFunc(S)
      /\ Cache!Tick <=> Proved!Tick
  BY DEF Cache!Get, Proved!Get, Cache!Delete, Proved!Delete, Cache!DeleteFunc, Proved!DeleteFunc, Cache!ExceptItems, Proved!ExceptItems, Cache!AfterGet, Proved!AfterGet, Cache!Live, Proved!Live, Cache!Tick, Proved!Tick
<1>7. \A c : Cache!Step(c) <=> Proved!Step(c)
  BY <1>1, <1>2, <1>3, <1>4 DEF Cache!Step, Proved!Step
<1>8. Cache!Next <=> Proved!Next
  BY <1>5, <1>6, <1>7 DEF Cache!Next, Proved!Next
<1>9. QED
  BY <1>8 DEF cacheVars, Proved!vars

(* -------------------------- Type correctness -------------------------- *)

OwnTypes ==
    /\ now \in 0..MaxTime
    /\ permissao \in [Usuarios -> [concede : BOOLEAN, versao : 0..MaxMudancas, desde : 0..MaxTime]]
    /\ lido \in [Requests -> Resposta \cup {None}]
    /\ inicio \in [Requests -> 0..MaxTime]
    /\ exigida \in [Usuarios -> 0..MaxMudancas]
    /\ sessao \in [Suportes -> [usuario : Usuarios, consultando : BOOLEAN,
                                lido : Resposta \cup {None}, piso : 0..MaxMudancas]]

TypeInv == Proved!TypeInv /\ OwnTypes

\* What the service answers is an answer.
LEMMA AtualType == OwnTypes => \A u \in Usuarios : Atual(u) \in Resposta
BY DEF OwnTypes, Atual, Resposta

\* A key of the cache names its user.
LEMMA UserOfKey == \A k \in Chave : k[1] \in Usuarios
BY DEF Chave

\* Whoever is inside Load entered it with a key.
LEMMA KeyOfCaller == Proved!TypeInv => \A c \in Requests : pc[c] # "idle" => key[c] \in Chave
BY DEF Proved!TypeInv, Proved!Engaged

LEMMA TypeInvInit == Init => TypeInv
<1> SUFFICES ASSUME Init PROVE TypeInv
  OBVIOUS
<1>1. Proved!Init
  BY DEF Init, Cache!Init, Proved!Init, Cache!NewCall, Proved!NewCall
<1>2. Proved!TypeInv
  BY <1>1, Proved!TypeInvInit, CacheAssumptions
<1>3. OwnTypes
  <2>1. now = 0 /\ 0 \in 0..MaxTime /\ 0 \in 0..MaxMudancas
    BY AuthzAssumption DEF Init, Cache!Init
  <2>2. permissao \in [Usuarios -> [concede : BOOLEAN, versao : 0..MaxMudancas, desde : 0..MaxTime]]
    <3>1. \A b \in BOOLEAN : [concede |-> b, versao |-> 0, desde |-> 0]
                \in [concede : BOOLEAN, versao : 0..MaxMudancas, desde : 0..MaxTime]
      BY <2>1
    <3>2. QED
      BY <3>1 DEF Init
  <2>3. sessao \in [Suportes -> [usuario : Usuarios, consultando : BOOLEAN,
                                lido : Resposta \cup {None}, piso : 0..MaxMudancas]]
    <3> DEFINE novas == {[usuario |-> u, consultando |-> FALSE, lido |-> None, piso |-> 0] :
                            u \in Usuarios}
               todas == [usuario : Usuarios, consultando : BOOLEAN,
                         lido : Resposta \cup {None}, piso : 0..MaxMudancas]
    <3>1. novas \subseteq todas
      <4>1. ASSUME NEW u \in Usuarios, NEW b \in BOOLEAN
            PROVE  [usuario |-> u, consultando |-> b, lido |-> None, piso |-> 0] \in todas
        BY <2>1
      <4> HIDE DEF todas
      <4>2. QED
        BY <4>1, FALSE \in BOOLEAN
    <3>2. sessao \in [Suportes -> novas]
      BY DEF Init
    <3> HIDE DEF novas, todas
    <3>3. sessao \in [Suportes -> todas]
      BY <3>1, <3>2
    <3>4. QED
      BY <3>3 DEF todas
  <2>4. QED
    BY <2>1, <2>2, <2>3 DEF Init, OwnTypes
<1>4. QED
  BY <1>2, <1>3 DEF TypeInv

\* The load of c ends as loads may end: with an answer for its key, or an error.
LEMMA TerminaEndsLoad ==
    ASSUME NEW c \in Requests, NEW ttl \in {0, TTLPermissoes},
           \/ \E r \in Resposta : Cache!LoadReturns(c, [key |-> key[c], data |-> r], ttl, "nil")
           \/ Cache!LoadReturns(c, Zero, ttl, "load")
    PROVE  Cache!Next
BY DEF Cache!LoadEnds, Cache!Step, Cache!Next

\* Every step of a checker is a step of the cache, or leaves the cache alone.
LEMMA StepOfTheCache == TypeInv /\ [Next]_vars => [Cache!Next]_cacheVars
<1> SUFFICES ASSUME TypeInv, [Next]_vars PROVE [Cache!Next]_cacheVars
  OBVIOUS
<1>1. ASSUME NEW c \in Requests, NEW k \in Chave, TemPermissao(c, k) PROVE Cache!Next
  BY <1>1 DEF TemPermissao, Cache!Next, Cache!Step
<1>2. ASSUME NEW c \in Requests, ConsultaResponde(c) PROVE Cache!Next
  <2>1. lido[c] \in Resposta
    BY <1>2 DEF ConsultaResponde, TypeInv, OwnTypes
  <2>2. Cache!LoadReturns(c, [key |-> key[c], data |-> lido[c]], TTLPermissoes, "nil")
    BY <1>2 DEF ConsultaResponde, Termina
  <2>3. QED
    BY <2>1, <2>2, TerminaEndsLoad
<1>3. ASSUME NEW c \in Requests, ConsultaSemSucesso(c) PROVE Cache!Next
  <2> DEFINE r == [lido[c] EXCEPT !.concede = FALSE]
  <2>1. r \in Resposta
    BY <1>3 DEF ConsultaSemSucesso, TypeInv, OwnTypes, Resposta
  <2>2. Cache!LoadReturns(c, [key |-> key[c], data |-> r], 0, "nil")
    BY <1>3 DEF ConsultaSemSucesso, TtlSemSucesso, Termina
  <2>3. QED
    BY <2>1, <2>2, TerminaEndsLoad
<1>4. ASSUME NEW c \in Requests, ConsultaFalha(c) PROVE Cache!Next
  <2>1. Cache!LoadReturns(c, Zero, 0, "load")
    BY <1>4 DEF ConsultaFalha, Termina
  <2>2. QED
    BY <2>1, TerminaEndsLoad
<1>5. ASSUME NEW c \in Requests, Prossegue(c) PROVE Cache!Next
  BY <1>5 DEF Prossegue, Cache!Next, Cache!Step
<1>6. ASSUME NEW u \in Usuarios, Invalidar(u) PROVE Cache!Next
  <2>1. EntradasDe(u) \in SUBSET Chave
    BY DEF EntradasDe
  <2>2. QED
    BY <1>6, <2>1 DEF Invalidar, Cache!Next
<1>7. ASSUME Tick PROVE Cache!Next
  BY <1>7 DEF Tick, Cache!Next
<1>8. ASSUME NEW c \in Requests, ServicoLe(c) PROVE UNCHANGED cacheVars
  BY <1>8 DEF ServicoLe
<1>9. ASSUME NEW s \in Suportes, SuportePergunta(s) \/ SuporteTermina(s)
      PROVE  UNCHANGED cacheVars
  BY <1>9 DEF SuportePergunta, SuporteTermina
<1>10. ASSUME NEW u \in Usuarios, Muda(u) PROVE UNCHANGED cacheVars
  BY <1>10 DEF Muda
<1>11. ASSUME UNCHANGED vars PROVE UNCHANGED cacheVars
  BY <1>11 DEF vars
<1>12. QED
  BY <1>1, <1>2, <1>3, <1>4, <1>5, <1>6, <1>7, <1>8, <1>9, <1>10, <1>11 DEF Next

LEMMA OwnTypesNext == TypeInv /\ [Next]_vars => OwnTypes'
<1> SUFFICES ASSUME TypeInv, [Next]_vars PROVE OwnTypes'
  OBVIOUS
<1> OwnTypes
  BY DEF TypeInv
<1>1. ASSUME NEW c \in Requests, NEW k \in Chave, TemPermissao(c, k) PROVE OwnTypes'
  <2>1. now' = now
    BY <1>1 DEF TemPermissao, Cache!LoadHit, Cache!LoadJoin, Cache!LoadLead
  <2>2. QED
    BY <1>1, <2>1 DEF TemPermissao, OwnTypes
<1>2. ASSUME NEW c \in Requests, ServicoLe(c) PROVE OwnTypes'
  <2>1. key[c] \in Chave
    BY <1>2, KeyOfCaller DEF ServicoLe, TypeInv
  <2>2. Atual(key[c][1]) \in Resposta
    BY <2>1, UserOfKey, AtualType
  <2>3. QED
    BY <1>2, <2>2 DEF ServicoLe, cacheVars, OwnTypes
<1>3. ASSUME NEW c \in Requests, NEW v, NEW ttl, NEW e, Termina(c, v, ttl, e) PROVE OwnTypes'
  BY <1>3 DEF Termina, Cache!LoadReturns, OwnTypes
<1>4. ASSUME NEW c \in Requests, Prossegue(c) PROVE OwnTypes'
  <2>1. now' = now
    BY <1>4 DEF Prossegue, Cache!Settle, Cache!Publish, Cache!CloseDone, Cache!WaiterReceives,
                Cache!WaiterGivesUp, Cache!CancelContext
  <2>2. QED
    BY <1>4, <2>1 DEF Prossegue, OwnTypes
<1>5. ASSUME NEW s \in Suportes, SuportePergunta(s) PROVE OwnTypes'
  <2>1. /\ sessao[s] \in [usuario : Usuarios, consultando : BOOLEAN,
                          lido : Resposta \cup {None}, piso : 0..MaxMudancas]
        /\ permissao[sessao[s].usuario].versao \in 0..MaxMudancas
    BY DEF OwnTypes
  <2>2. /\ UNCHANGED <<now, permissao, lido, inicio, exigida>>
        /\ sessao' = [sessao EXCEPT ![s] = [@ EXCEPT !.consultando = TRUE, !.lido = None,
                                     !.piso = permissao[sessao[s].usuario].versao]]
    BY <1>5 DEF SuportePergunta, cacheVars, OwnTypes
  <2>3. QED
    BY <2>1, <2>2 DEF OwnTypes
<1>6. ASSUME NEW s \in Suportes, SuporteTermina(s) PROVE OwnTypes'
  <2>1. sessao[s].usuario \in Usuarios
    BY DEF OwnTypes
  <2>2. Atual(sessao[s].usuario) \in Resposta
    BY <2>1, AtualType
  <2>3. PICK r \in Resposta \cup {None} :
           sessao' = [sessao EXCEPT ![s].consultando = FALSE, ![s].lido = r]
    BY <1>6, <2>2 DEF SuporteTermina
  <2>4. UNCHANGED <<now, permissao, lido, inicio, exigida>>
    BY <1>6 DEF SuporteTermina, cacheVars
  <2>5. sessao' \in [Suportes -> [usuario : Usuarios, consultando : BOOLEAN,
                                    lido : Resposta \cup {None}, piso : 0..MaxMudancas]]
    BY <2>3 DEF OwnTypes
  <2>6. QED
    BY <2>4, <2>5 DEF OwnTypes
<1>7. ASSUME NEW u \in Usuarios, Invalidar(u) PROVE OwnTypes'
  BY <1>7 DEF Invalidar, Cache!DeleteFunc, Cache!ExceptItems, OwnTypes
<1>8. ASSUME NEW u \in Usuarios, Muda(u) PROVE OwnTypes'
  <2>1. permissao[u].versao + 1 \in 0..MaxMudancas /\ now \in 0..MaxTime
    BY <1>8, AuthzAssumption DEF Muda, OwnTypes
  <2>2. QED
    BY <1>8, <2>1 DEF Muda, cacheVars, OwnTypes
<1>9. ASSUME Tick PROVE OwnTypes'
  <2>1. now' \in 0..MaxTime
    BY <1>9, AuthzAssumption DEF Tick, Cache!Tick, OwnTypes
  <2>2. QED
    BY <1>9, <2>1 DEF Tick, OwnTypes
<1>10. ASSUME UNCHANGED vars PROVE OwnTypes'
  BY <1>10 DEF vars, cacheVars, OwnTypes
<1>11. QED
  BY <1>1, <1>2, <1>3, <1>4, <1>5, <1>6, <1>7, <1>8, <1>9, <1>10
     DEF Next, ConsultaResponde, ConsultaSemSucesso, ConsultaFalha

LEMMA TypeInvNext == TypeInv /\ [Next]_vars => TypeInv'
<1>1. TypeInv /\ [Next]_vars => Proved!TypeInv'
  BY StepOfTheCache, SameNext, Proved!TypeInvNext, CacheAssumptions DEF TypeInv
<1>2. QED
  BY <1>1, OwnTypesNext DEF TypeInv

\* The types of the checker and of the cache under it, always.
THEOREM TypeCorrect == Spec => []TypeOK
<1>1. TypeInv => TypeOK
  BY SameTypes DEF TypeInv, Proved!TypeInv, OwnTypes, TypeOK
<1>2. QED
  BY TypeInvInit, TypeInvNext, <1>1, PTL DEF Spec

\* HTTPChecker uses the cache as Load, Set and DeleteFunc allow: with the service,
\* the changes and the support sessions hidden, each of its behaviours is one of
\* TTLCache, so that the theorems about TTLCache hold of it.
THEOREM RunsTheCache == Spec => Cache!Spec
<1>1. Init => Cache!Init
  BY DEF Init
<1>2. Cache!vars = cacheVars /\ Cache!vars' = cacheVars'
  BY DEF Cache!vars, cacheVars
<1>3. TypeInv /\ [Next]_vars => [Cache!Next]_(Cache!vars)
  BY StepOfTheCache, <1>2
<1>4. QED
  BY <1>1, <1>3, TypeInvInit, TypeInvNext, PTL DEF Spec, Cache!Spec

(* ---------------------------- Permissions ----------------------------- *)

\* A query is answered within Timeout, and its answer is on its way only meanwhile.
ConsultaEmPrazo ==
    \A c \in Requests :
        /\ lido[c] # None => pc[c] = "loading"
        /\ pc[c] \in {"loading", "returned"} => inicio[c] <= now /\ now <= inicio[c] + Timeout

\* r, an answer to the query of c, disagrees with the service only through a change since the
\* query, and is no older than the last Invalidar that met no query.
RespostaRecente(r, c) ==
    /\ r.concede # permissao[key[c][1]].concede => inicio[c] <= permissao[key[c][1]].desde
    /\ exigida[key[c][1]] <= r.versao

RespostasRecentes ==
    \A c \in Requests :
        /\ lido[c] # None => RespostaRecente(lido[c], c)
        /\ pc[c] = "returned" /\ Cache!Storable(ret[c])
              => ret[c].ttl = TTLPermissoes /\ RespostaRecente(ret[c].value.data, c)

\* Changes and calls of Invalidar lie in the past.
ServicoNoPassado ==
    \A u \in Usuarios : permissao[u].desde <= now /\ exigida[u] <= permissao[u].versao

\* An entry that disagrees with the service expires soon after the change.
EntradaRecente(k, i) ==
    /\ i.expiresAt <= now + TTLPermissoes
    /\ i.value.data.concede # permissao[k[1]].concede
          => i.expiresAt <= permissao[k[1]].desde + TTLPermissoes + Timeout
    /\ exigida[k[1]] <= i.value.data.versao

EntradasRecentes == \A k \in Chave : items[k] # None => EntradaRecente(k, items[k])

SuporteEmDia ==
    \A s \in Suportes :
        /\ sessao[s].piso <= permissao[sessao[s].usuario].versao
        /\ sessao[s].lido # None => sessao[s].piso <= sessao[s].lido.versao

PermissaoInv ==
    /\ ConsultaEmPrazo
    /\ RespostasRecentes
    /\ ServicoNoPassado
    /\ EntradasRecentes
    /\ SuporteEmDia

LEMMA PermissaoInvInit == Init => PermissaoInv
<1> SUFFICES ASSUME Init PROVE PermissaoInv
  OBVIOUS
<1>1. /\ now = 0 /\ \A c \in Requests : pc[c] = "idle" /\ lido[c] = None
      /\ \A k \in Chave : items[k] = None
  BY DEF Init, Cache!Init
<1>2. \A u \in Usuarios : permissao[u].desde = 0 /\ permissao[u].versao = 0 /\ exigida[u] = 0
  BY DEF Init
<1>3. \A s \in Suportes : sessao[s].usuario \in Usuarios /\ sessao[s].lido = None /\ sessao[s].piso = 0
  <2> DEFINE novas == {[usuario |-> u, consultando |-> FALSE, lido |-> None, piso |-> 0] :
                          u \in Usuarios}
  <2>1. sessao \in [Suportes -> novas]
    BY DEF Init
  <2>2. \A n \in novas : n.usuario \in Usuarios /\ n.lido = None /\ n.piso = 0
    OBVIOUS
  <2> HIDE DEF novas
  <2>3. QED
    BY <2>1, <2>2
<1>4. QED
  BY <1>1, <1>2, <1>3
     DEF PermissaoInv, ConsultaEmPrazo, RespostasRecentes, ServicoNoPassado, EntradasRecentes,
         SuporteEmDia

\* The types that the comparisons rest on.
LEMMA Comparable ==
    ASSUME TypeInv
    PROVE  /\ now \in Int /\ TTLPermissoes \in Int /\ Timeout \in Int
           /\ \A u \in Usuarios : /\ permissao[u].desde \in Int /\ permissao[u].versao \in Int
                                  /\ exigida[u] \in Int
           /\ \A c \in Requests : inicio[c] \in Int /\ (lido[c] # None => lido[c].versao \in Int)
           /\ \A k \in Chave : items[k] # None => items[k].expiresAt \in Int
BY AuthzAssumption
   DEF TypeInv, OwnTypes, Resposta, Proved!TypeInv, Proved!TypeOK, Proved!Item

\* The cache forgets entries or keeps them, and time does not run back.
LEMMA EntriesStay ==
    ASSUME TypeInv, TypeInv', EntradasRecentes, now <= now', UNCHANGED <<permissao, exigida>>,
           \A k \in Chave : items'[k] = items[k] \/ items'[k] = None
    PROVE  EntradasRecentes'
<1> SUFFICES ASSUME NEW k \in Chave, items'[k] # None
             PROVE  EntradaRecente(k, items[k])' /\ items'[k] = items[k]
  BY DEF EntradasRecentes
<1>1. items'[k] = items[k] /\ EntradaRecente(k, items[k])
  BY DEF EntradasRecentes
<1>2. /\ now \in Int /\ now' \in Int /\ TTLPermissoes \in Int
      /\ items[k].expiresAt \in Int
  BY <1>1, Comparable, AuthzAssumption DEF TypeInv, OwnTypes
<1>3. QED
  BY <1>1, <1>2 DEF EntradaRecente

\* What setLocked does to the map, entry by entry.
LEMMA SettleOfTheCache ==
    ASSUME TypeInv, NEW c \in Requests, Cache!Settle(c)
    PROVE  \A k \in Chave :
              \/ items'[k] = items[k] \/ items'[k] = None
              \/ /\ k = key[c] /\ Cache!Storable(ret[c])
                 /\ items'[k] = [value |-> ret[c].value, expiresAt |-> now + ret[c].ttl]
<1>1. CASE Cache!Storable(ret[c])
  <2>1. Cache!SetLocked(key[c], ret[c].value, ret[c].ttl) /\ pc[c] = "returned"
    BY <1>1 DEF Cache!Settle, Cache!Goto
  <2>2. PICK r \in Proved!MadeRoom(items, key[c]) :
           items' = [r EXCEPT ![key[c]] = [value |-> ret[c].value, expiresAt |-> now + ret[c].ttl]]
    BY <2>1, SameSet DEF Proved!SetLocked
  <2>3. key[c] \in Chave /\ Proved!TypeOK
    BY <2>1, KeyOfCaller DEF TypeInv, Proved!TypeInv
  <2>4. /\ r \in [Chave -> Proved!Item \cup {None}]
        /\ \A j \in Chave : r[j] # None => r[j] = items[j]
    BY <2>3, Proved!MadeRoomKeeps, CacheAssumptions
  <2>5. QED
    BY <1>1, <2>2, <2>3, <2>4
<1>2. CASE ~Cache!Storable(ret[c])
  BY <1>2 DEF Cache!Settle
<1>3. QED
  BY <1>1, <1>2

LEMMA PermissaoInvNext == TypeInv /\ TypeInv' /\ PermissaoInv /\ [Next]_vars => PermissaoInv'
<1> SUFFICES ASSUME TypeInv, TypeInv', PermissaoInv, [Next]_vars PROVE PermissaoInv'
  OBVIOUS
<1> /\ ConsultaEmPrazo /\ RespostasRecentes /\ ServicoNoPassado /\ EntradasRecentes
    /\ SuporteEmDia
  BY DEF PermissaoInv
<1> DEFINE Loading(c) == pc[c] \in {"loading", "returned"}
<1>k. \A c \in Requests : Loading(c) => key[c] \in Chave /\ key[c][1] \in Usuarios
  BY KeyOfCaller, UserOfKey DEF TypeInv
<1>t. /\ pc \in [Requests -> {"idle", "loading", "returned", "settled", "published", "waiting"}]
      /\ lido \in [Requests -> Resposta \cup {None}] /\ key \in [Requests -> Chave \cup {None}]
      /\ ret \in [Requests -> Proved!Result] /\ items \in [Chave -> Proved!Item \cup {None}]
      /\ inicio \in [Requests -> 0..MaxTime]
  BY DEF TypeInv, OwnTypes, Proved!TypeInv, Proved!TypeOK
<1>1. ASSUME NEW c \in Requests, NEW k \in Chave, TemPermissao(c, k) PROVE PermissaoInv'
  <2>1. /\ UNCHANGED <<now, permissao, lido, exigida, sessao>>
        /\ pc[c] = "idle" /\ pc'[c] # "returned" /\ (pc'[c] = "loading" => inicio'[c] = now)
        /\ \A d \in Requests \ {c} : /\ pc'[d] = pc[d] /\ key'[d] = key[d] /\ ret'[d] = ret[d]
                                      /\ inicio'[d] = inicio[d]
    BY <1>1, <1>t DEF TemPermissao, Cache!LoadHit, Cache!LoadJoin, Cache!LoadLead, Cache!Goto,
                      Cache!Enter, Cache!Returns
  <2>2. \A j \in Chave : items'[j] = items[j] \/ items'[j] = None
    BY <1>1, <1>t DEF TemPermissao, Cache!LoadHit, Cache!LoadJoin, Cache!LoadLead, Cache!AfterGet
  <2>3. EntradasRecentes'
    BY <2>1, <2>2, EntriesStay, Comparable
  <2>4. ConsultaEmPrazo'
    BY <2>1, Comparable, AuthzAssumption DEF ConsultaEmPrazo
  <2>5. lido[c] = None
    BY <2>1 DEF ConsultaEmPrazo
  <2>6. RespostasRecentes'
    BY <2>1, <2>5 DEF RespostasRecentes, RespostaRecente
  <2>7. ServicoNoPassado' /\ SuporteEmDia'
    BY <2>1 DEF ServicoNoPassado, SuporteEmDia
  <2>8. QED
    BY <2>3, <2>4, <2>6, <2>7 DEF PermissaoInv
<1>2. ASSUME NEW c \in Requests, ServicoLe(c) PROVE PermissaoInv'
  <2>1. /\ UNCHANGED <<now, items, pc, key, ret, permissao, inicio, exigida, sessao>>
        /\ pc[c] = "loading" /\ lido' = [lido EXCEPT ![c] = Atual(key[c][1])]
    BY <1>2 DEF ServicoLe, cacheVars
  <2>2. ConsultaEmPrazo' /\ ServicoNoPassado' /\ SuporteEmDia' /\ EntradasRecentes'
    BY <1>t, <2>1
       DEF ConsultaEmPrazo, ServicoNoPassado, SuporteEmDia, EntradasRecentes, EntradaRecente
  <2>3. key[c][1] \in Usuarios
    BY <1>k, <2>1
  <2>4. RespostaRecente(Atual(key[c][1]), c)
    BY <2>3 DEF RespostaRecente, Atual, ServicoNoPassado
  <2>5. RespostasRecentes'
    BY <1>t, <2>1, <2>4 DEF RespostasRecentes, RespostaRecente
  <2>6. QED
    BY <2>2, <2>5 DEF PermissaoInv
<1>3. ASSUME NEW c \in Requests, NEW v, NEW ttl, NEW e, Termina(c, v, ttl, e),
             e = "nil" /\ ttl > 0 => ttl = TTLPermissoes /\ lido[c] # None /\ v.data = lido[c]
      PROVE  PermissaoInv'
  <2>1. /\ UNCHANGED <<now, items, key, permissao, inicio, exigida, sessao>>
        /\ pc[c] = "loading" /\ pc'[c] = "returned" /\ lido'[c] = None
        /\ ret'[c] = [value |-> v, ttl |-> ttl, err |-> e]
        /\ \A d \in Requests \ {c} : pc'[d] = pc[d] /\ lido'[d] = lido[d] /\ ret'[d] = ret[d]
    BY <1>3, <1>t DEF Termina, Cache!LoadReturns, Cache!Goto, Cache!Returns
  <2>2. ConsultaEmPrazo' /\ ServicoNoPassado' /\ SuporteEmDia' /\ EntradasRecentes'
    BY <2>1
       DEF ConsultaEmPrazo, ServicoNoPassado, SuporteEmDia, EntradasRecentes, EntradaRecente
  <2>3. Cache!Storable(ret[c])'
           => ret'[c].ttl = TTLPermissoes /\ RespostaRecente(ret'[c].value.data, c)
    BY <1>3, <2>1 DEF Cache!Storable, RespostasRecentes
  <2>4. RespostasRecentes'
    BY <2>1, <2>3 DEF RespostasRecentes, RespostaRecente, Cache!Storable
  <2>5. QED
    BY <2>2, <2>4 DEF PermissaoInv
<1>4. ASSUME NEW c \in Requests,
             ConsultaResponde(c) \/ ConsultaSemSucesso(c) \/ ConsultaFalha(c)
      PROVE  PermissaoInv'
  <2>1. CASE ConsultaResponde(c)
    BY <2>1, <1>3 DEF ConsultaResponde
  <2>2. CASE ConsultaSemSucesso(c)
    BY <2>2, <1>3 DEF ConsultaSemSucesso, TtlSemSucesso
  <2>3. CASE ConsultaFalha(c)
    BY <2>3, <1>3 DEF ConsultaFalha
  <2>4. QED
    BY <1>4, <2>1, <2>2, <2>3
<1>5. ASSUME NEW c \in Requests, Prossegue(c) PROVE PermissaoInv'
  <2>1. /\ UNCHANGED <<now, key, permissao, lido, inicio, exigida, sessao>>
        /\ \A d \in Requests : \/ pc'[d] = pc[d] /\ ret'[d] = ret[d]
                               \/ pc[d] # "loading" /\ pc'[d] \notin {"loading", "returned"}
    BY <1>5, <1>t DEF Prossegue, Cache!Settle, Cache!Publish, Cache!CloseDone, Cache!WaiterReceives,
                      Cache!WaiterGivesUp, Cache!CancelContext, Cache!Goto, Cache!Returns
  <2>2. ConsultaEmPrazo'
    BY <2>1 DEF ConsultaEmPrazo
  <2>3. RespostasRecentes'
    BY <2>1 DEF RespostasRecentes, RespostaRecente, Cache!Storable
  <2>4. ServicoNoPassado' /\ SuporteEmDia'
    BY <2>1 DEF ServicoNoPassado, SuporteEmDia
  <2>5. EntradasRecentes'
    <3>1. CASE Cache!Settle(c)
      <4> SUFFICES ASSUME NEW k \in Chave, items'[k] # None PROVE EntradaRecente(k, items[k])'
        BY DEF EntradasRecentes
      <4>1. CASE items'[k] = items[k]
        BY <2>1, <4>1 DEF EntradasRecentes, EntradaRecente
      <4>2. CASE /\ k = key[c] /\ Cache!Storable(ret[c])
                 /\ items'[k] = [value |-> ret[c].value, expiresAt |-> now + ret[c].ttl]
        <5>1. pc[c] = "returned"
          BY <3>1 DEF Cache!Settle, Cache!Goto
        <5>2. ret[c].ttl = TTLPermissoes /\ RespostaRecente(ret[c].value.data, c)
          BY <4>2, <5>1 DEF RespostasRecentes
        <5>3. now <= inicio[c] + Timeout
          BY <5>1 DEF ConsultaEmPrazo
        <5>4. k[1] \in Usuarios
          BY UserOfKey
        <5>5. QED
          BY <2>1, <4>2, <5>2, <5>3, <5>4, Comparable DEF EntradaRecente, RespostaRecente
      <4>3. QED
        BY <3>1, <4>1, <4>2, SettleOfTheCache
    <3>2. CASE UNCHANGED items
      BY <2>1, <3>2 DEF EntradasRecentes, EntradaRecente
    <3>3. QED
      BY <1>5, <3>1, <3>2 DEF Prossegue, Cache!Publish, Cache!CloseDone, Cache!WaiterReceives,
                              Cache!WaiterGivesUp, Cache!CancelContext
  <2>6. QED
    BY <2>2, <2>3, <2>4, <2>5 DEF PermissaoInv
<1>6. ASSUME SuporteEmDia', UNCHANGED <<cacheVars, permissao, lido, inicio, exigida>>
      PROVE  PermissaoInv'
  <2>1. ConsultaEmPrazo' /\ RespostasRecentes' /\ ServicoNoPassado' /\ EntradasRecentes'
    BY <1>6 DEF cacheVars, ConsultaEmPrazo, RespostasRecentes, RespostaRecente, Cache!Storable,
                ServicoNoPassado, EntradasRecentes, EntradaRecente
  <2>2. QED
    BY <1>6, <2>1 DEF PermissaoInv
<1>s. /\ sessao \in [Suportes -> [usuario : Usuarios, consultando : BOOLEAN,
                                  lido : Resposta \cup {None}, piso : 0..MaxMudancas]]
      /\ \A u \in Usuarios : permissao[u].versao \in Int
  BY Comparable DEF TypeInv, OwnTypes
<1>7. ASSUME NEW s \in Suportes, SuportePergunta(s) PROVE PermissaoInv'
  <2>1. SuporteEmDia'
    BY <1>7, <1>s DEF SuportePergunta, SuporteEmDia
  <2>2. QED
    BY <1>6, <1>7, <2>1 DEF SuportePergunta
<1>8. ASSUME NEW s \in Suportes, SuporteTermina(s) PROVE PermissaoInv'
  <2>1. PICK r \in {None, Atual(sessao[s].usuario)} :
           sessao' = [sessao EXCEPT ![s].consultando = FALSE, ![s].lido = r]
    BY <1>8 DEF SuporteTermina
  <2>2. r # None => sessao[s].piso <= r.versao
    BY <2>1 DEF Atual, SuporteEmDia
  <2>3. /\ sessao'[s].piso = sessao[s].piso /\ sessao'[s].lido = r
        /\ sessao'[s].usuario = sessao[s].usuario /\ UNCHANGED permissao
        /\ \A t \in Suportes \ {s} : sessao'[t] = sessao[t]
    BY <1>8, <1>s, <2>1 DEF SuporteTermina
  <2>4. SuporteEmDia'
    BY <2>2, <2>3 DEF SuporteEmDia
  <2>5. QED
    BY <1>6, <1>8, <2>4 DEF SuporteTermina
<1>9. ASSUME NEW u \in Usuarios, Invalidar(u) PROVE PermissaoInv'
  <2>1. /\ UNCHANGED <<now, pc, key, ret, permissao, lido, inicio, sessao>>
        /\ items' = [k \in Chave |-> IF k \in EntradasDe(u) THEN None ELSE items[k]]
    BY <1>9 DEF Invalidar, Cache!DeleteFunc, Cache!ExceptItems
  <2>2. ConsultaEmPrazo' /\ SuporteEmDia'
    BY <2>1 DEF ConsultaEmPrazo, SuporteEmDia
  <2>3. CASE UNCHANGED exigida
    <3>1. EntradasRecentes'
      BY <2>1, <2>3, EntriesStay, Comparable
    <3>2. RespostasRecentes' /\ ServicoNoPassado'
      BY <2>1, <2>3 DEF RespostasRecentes, RespostaRecente, Cache!Storable, ServicoNoPassado
    <3>3. QED
      BY <2>2, <3>1, <3>2 DEF PermissaoInv
  <2>4. CASE /\ exigida' = [exigida EXCEPT ![u] = permissao[u].versao]
             /\ ~\E c \in Requests : Cache!InLoad(c) /\ key[c][1] = u
    <3>1. /\ exigida'[u] = permissao[u].versao
          /\ \A w \in Usuarios \ {u} : exigida'[w] = exigida[w]
      BY <2>4 DEF TypeInv, OwnTypes
    <3>2. ServicoNoPassado'
      BY <1>s, <2>1, <3>1 DEF ServicoNoPassado
    <3>3. RespostasRecentes'
      <4>1. \A c \in Requests : Loading(c) => key[c][1] \in Usuarios \ {u}
        BY <1>k, <2>4 DEF Cache!InLoad
      <4>2. \A c \in Requests : lido[c] # None => Loading(c)
        BY DEF ConsultaEmPrazo
      <4>3. QED
        BY <2>1, <3>1, <4>1, <4>2 DEF RespostasRecentes, RespostaRecente, Cache!Storable
    <3>4. EntradasRecentes'
      <4> SUFFICES ASSUME NEW k \in Chave, items'[k] # None PROVE EntradaRecente(k, items[k])'
        BY DEF EntradasRecentes
      <4>1. k[1] \in Usuarios \ {u} /\ items'[k] = items[k] /\ items[k] # None
        BY <2>1, UserOfKey DEF EntradasDe
      <4>2. QED
        BY <2>1, <3>1, <4>1 DEF EntradasRecentes, EntradaRecente
    <3>5. QED
      BY <2>2, <3>2, <3>3, <3>4 DEF PermissaoInv
  <2>5. QED
    BY <1>9, <2>3, <2>4 DEF Invalidar
<1>10. ASSUME NEW u \in Usuarios, Muda(u) PROVE PermissaoInv'
  <2>1. UNCHANGED <<now, items, pc, key, ret, lido, inicio, exigida, sessao>>
    BY <1>10 DEF Muda, cacheVars
  <2>2. /\ permissao'[u].versao = permissao[u].versao + 1 /\ permissao'[u].desde = now
        /\ \A w \in Usuarios \ {u} : permissao'[w] = permissao[w]
    BY <1>10 DEF Muda, TypeInv, OwnTypes
  <2>3. ConsultaEmPrazo'
    BY <2>1 DEF ConsultaEmPrazo
  <2>4. ServicoNoPassado' /\ SuporteEmDia'
    <3>1. \A s \in Suportes : sessao[s].usuario \in Usuarios /\ sessao[s].piso \in Int
      BY <1>s
    <3>2. QED
      BY <2>1, <2>2, <3>1, Comparable DEF ServicoNoPassado, SuporteEmDia
  <2>5. RespostasRecentes'
    <3>1. \A c \in Requests : Loading(c) => inicio[c] <= now
      BY DEF ConsultaEmPrazo
    <3>2. \A c \in Requests : lido[c] # None => Loading(c)
      BY DEF ConsultaEmPrazo
    <3>3. ASSUME NEW c \in Requests, NEW r, Loading(c), RespostaRecente(r, c)
          PROVE  RespostaRecente(r, c)'
      BY <1>k, <2>1, <2>2, <3>1, <3>3 DEF RespostaRecente
    <3>4. QED
      BY <2>1, <3>2, <3>3 DEF RespostasRecentes, Cache!Storable
  <2>6. EntradasRecentes'
    <3> SUFFICES ASSUME NEW k \in Chave, items[k] # None PROVE EntradaRecente(k, items[k])'
      BY <2>1 DEF EntradasRecentes
    <3>1. EntradaRecente(k, items[k]) /\ k[1] \in Usuarios
      BY UserOfKey DEF EntradasRecentes
    <3>2. /\ now \in Int /\ TTLPermissoes \in Int /\ Timeout \in Nat
          /\ items[k].expiresAt \in Int
      BY Comparable, AuthzAssumption
    <3>3. QED
      BY <2>1, <2>2, <3>1, <3>2 DEF EntradaRecente
  <2>7. QED
    BY <2>3, <2>4, <2>5, <2>6 DEF PermissaoInv
<1>11. ASSUME Tick PROVE PermissaoInv'
  <2>1. /\ now' = now + 1
        /\ UNCHANGED <<items, pc, key, ret, permissao, lido, inicio, exigida, sessao>>
        /\ \A c \in Requests : pc[c] # "returned" /\ (pc[c] = "loading" => now < inicio[c] + Timeout)
    BY <1>11 DEF Tick, Cache!Tick
  <2>2. ConsultaEmPrazo'
    BY <2>1, Comparable DEF ConsultaEmPrazo
  <2>3. RespostasRecentes' /\ SuporteEmDia'
    BY <2>1 DEF RespostasRecentes, RespostaRecente, Cache!Storable, SuporteEmDia
  <2>4. ServicoNoPassado'
    BY <2>1, Comparable DEF ServicoNoPassado
  <2>5. EntradasRecentes'
    BY <2>1, EntriesStay, Comparable
  <2>6. QED
    BY <2>2, <2>3, <2>4, <2>5 DEF PermissaoInv
<1>12. ASSUME UNCHANGED vars PROVE PermissaoInv'
  <2>1. SuporteEmDia'
    BY <1>12 DEF vars, SuporteEmDia
  <2>2. QED
    BY <1>6, <1>12, <2>1 DEF vars
<1>13. QED
  BY <1>1, <1>2, <1>4, <1>5, <1>7, <1>8, <1>9, <1>10, <1>11, <1>12 DEF Next

LEMMA PermissaoInvariant == Spec => [](TypeInv /\ PermissaoInv)
BY TypeInvInit, TypeInvNext, PermissaoInvInit, PermissaoInvNext, PTL DEF Spec

\* A usable entry disagrees with the service for less than TTLPermissoes plus one query after
\* the change, and a support session never holds an answer older than its question, for any
\* number of requests, users and tokens (TemPermissao).
THEOREM PermissionsAreCurrent == Spec => []PermissoesAtuais
<1>1. TypeInv /\ PermissaoInv => CacheAcompanhaServico
  <2> SUFFICES ASSUME TypeInv, PermissaoInv, NEW k \in Chave, Cache!Live(k),
                      items[k].value.data.concede # permissao[k[1]].concede
               PROVE  now - permissao[k[1]].desde < TTLPermissoes + Timeout
    BY DEF CacheAcompanhaServico
  <2>1. items[k] # None /\ now < items[k].expiresAt /\ k[1] \in Usuarios
    BY UserOfKey DEF Cache!Live
  <2>2. items[k].expiresAt <= permissao[k[1]].desde + TTLPermissoes + Timeout
    BY <2>1 DEF PermissaoInv, EntradasRecentes, EntradaRecente
  <2>3. QED
    BY <2>1, <2>2, Comparable
<1>2. TypeInv /\ PermissaoInv => SuporteRevalida
  BY Comparable DEF PermissaoInv, SuporteEmDia, SuporteRevalida, TypeInv, OwnTypes, Resposta
<1>3. QED
  BY <1>1, <1>2, PermissaoInvariant, PTL DEF PermissoesAtuais

\* After an Invalidar that met no query of the user, nothing older than it is in the cache
\* under any of the user's tokens, whatever answers come later.
THEOREM InvalidarReachesEveryToken == Spec => []InvalidarAlcancaTodosOsTokens
<1>1. TypeInv /\ PermissaoInv => InvalidarAlcancaTodosOsTokens
  <2> SUFFICES ASSUME TypeInv, PermissaoInv, NEW k \in Chave, items[k] # None
               PROVE  items[k].value.data.versao >= exigida[k[1]]
    BY DEF InvalidarAlcancaTodosOsTokens
  <2>1. exigida[k[1]] <= items[k].value.data.versao
    BY DEF PermissaoInv, EntradasRecentes, EntradaRecente
  <2>2. k[1] \in Usuarios
    BY UserOfKey
  <2>3. exigida[k[1]] \in Int /\ items[k].value.data.versao \in Int
    BY <2>2, Comparable DEF TypeInv, Proved!TypeInv, Proved!TypeOK, Proved!Item, Proved!Value, Resposta
  <2>4. QED
    BY <2>1, <2>3
<1>2. QED
  BY <1>1, PermissaoInvariant, PTL
=============================================================================
