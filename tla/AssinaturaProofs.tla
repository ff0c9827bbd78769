-------------------------- MODULE AssinaturaProofs --------------------------
(***************************************************************************)
(* Theorems about Assinatura, for any number of requests and companies,    *)
(* any ttls, timeout and capacity. What the cache does under it is taken   *)
(* from TTLCacheProofs, of which Proved is the instance Assinatura uses.   *)
(***************************************************************************)
EXTENDS Assinatura, FiniteSetTheorems, TLAPS

Proved == INSTANCE TTLCacheProofs
              WITH Callers <- Requests, Keys <- Empresas, Payloads <- Situacao,
                   TTLs <- {0, TTLAtivo, TTLBloqueado}

\* The assumptions of TTLCache hold of its instance.
LEMMA CacheAssumptions ==
    Proved!KeysAssumption /\ Proved!NumbersAssumption /\ Proved!NoneAssumption
<1>1. Proved!KeysAssumption
  BY AssinaturaAssumption DEF IsFiniteSet, Proved!IsFiniteSet
<1>2. Proved!NumbersAssumption
  BY AssinaturaAssumption
<1>3. Proved!NoneAssumption
  BY AssinaturaAssumption
<1>4. QED
  BY <1>1, <1>2, <1>3

(* ------------- The cache and the module of its theorems --------------- *)

\* Cache and Proved are the same module under two names: what is defined by the
\* same formula is equal, operator by operator.
LEMMA SameRoom ==
    ASSUME NEW m, NEW k
    PROVE  Cache!MadeRoom(m, k) = Proved!MadeRoom(m, k)
<1>1. /\ Cache!capacity = Proved!capacity
      /\ Cache!Present(m) = Proved!Present(m)
      /\ Cache!Purged(m) = Proved!Purged(m)
  BY DEF Cache!capacity, Proved!capacity, Cache!Present, Proved!Present, Cache!Purged, Proved!Purged
<1>2. Cache!Present(Proved!Purged(m)) = Proved!Present(Proved!Purged(m))
  BY DEF Cache!Present, Proved!Present
<1>3. Cache!Soonest(Proved!Purged(m)) = Proved!Soonest(Proved!Purged(m))
  BY DEF Cache!Soonest, Proved!Soonest, Cache!Present, Proved!Present
<1>4. \A S : Cache!Cardinality(S) = Proved!Cardinality(S)
  BY DEF Cache!Cardinality, Proved!Cardinality
<1>5. Cache!NeedsRoom(m, k) <=> Proved!NeedsRoom(m, k)
  BY <1>1, <1>4 DEF Cache!NeedsRoom, Proved!NeedsRoom
<1>6. CASE ~Cache!NeedsRoom(m, k)
  BY <1>5, <1>6 DEF Cache!MadeRoom, Proved!MadeRoom
<1>7. CASE Cache!NeedsRoom(m, k)
  BY <1>1, <1>2, <1>3, <1>4, <1>5, <1>7 DEF Cache!MadeRoom, Proved!MadeRoom
<1>8. QED
  BY <1>6, <1>7

LEMMA SameSet ==
    ASSUME NEW k, NEW v, NEW ttl
    PROVE  Cache!SetLocked(k, v, ttl) <=> Proved!SetLocked(k, v, ttl)
BY SameRoom DEF Cache!SetLocked, Proved!SetLocked

LEMMA SameTypes == Cache!TypeOK <=> Proved!TypeOK
BY DEF Cache!TypeOK, Proved!TypeOK, Cache!Item, Proved!Item, Cache!Value, Proved!Value, Cache!Result, Proved!Result, Cache!Error, Proved!Error, Cache!Call, Proved!Call

LEMMA SameNext == [Cache!Next]_cacheVars <=> [Proved!Next]_(Proved!vars)
<1>1. \A c, k : /\ Cache!LoadHit(c, k) <=> Proved!LoadHit(c, k)
                /\ Cache!LoadJoin(c, k) <=> Proved!LoadJoin(c, k)
                /\ Cache!LoadLead(c, k) <=> Proved!LoadLead(c, k)
  BY DEF Cache!LoadHit, Proved!LoadHit, Cache!LoadJoin, Proved!LoadJoin, Cache!LoadLead, Proved!LoadLead, Cache!Live, Proved!Live, Cache!InFlight, Proved!InFlight, Cache!AfterGet, Proved!AfterGet, Cache!Goto, Proved!Goto, Cache!Enter, Proved!Enter, Cache!Returns, Proved!Returns, Cache!NewCall, Proved!NewCall
<1>2. \A c : Cache!LoadEnds(c) <=> Proved!LoadEnds(c)
  BY DEF Cache!LoadEnds, Proved!LoadEnds, Cache!LoadPanics, Proved!LoadPanics, Cache!LoadReturns, Proved!LoadReturns, Cache!Goto, Proved!Goto, Cache!Returns, Proved!Returns
<1>3. \A c : Cache!Settle(c) <=> Proved!Settle(c)
  BY SameSet DEF Cache!Settle, Proved!Settle, Cache!Storable, Proved!Storable, Cache!Goto, Proved!Goto
<1>4. \A c : /\ Cache!Publish(c) <=> Proved!Publish(c)
             /\ Cache!CloseDone(c) <=> Proved!CloseDone(c)
             /\ Cache!WaiterReceives(c) <=> Proved!WaiterReceives(c)
             /\ Cache!WaiterGivesUp(c) <=> Proved!WaiterGivesUp(c)
             /\ Cache!CancelContext(c) <=> Proved!CancelContext(c)
  BY DEF Cache!Publish, Proved!Publish, Cache!CloseDone, Proved!CloseDone, Cache!WaiterReceives, Proved!WaiterReceives, Cache!WaiterGivesUp, Proved!WaiterGivesUp, Cache!CancelContext, Proved!CancelContext, Cache!Goto, Proved!Goto, Cache!Returns, Proved!Returns
<1>5. \A k, v, ttl : Cache!Set(k, v, ttl) <=> Proved!Set(k, v, ttl)
  BY SameSet DEF Cache!Set, Proved!Set, Cache!ExceptItems, Proved!ExceptItems
<1>6. /\ \A k : Cache!Get(k) <=> Proved!Get(k)
      /\ \A k : Cache!Delete(k) <=> Proved!Delete(k)
      /\ \A S : Cache!DeleteFunc(S) <=> Proved!DeleteFunc(S)
      /\ Cache!Tick <=> Proved!Tick
  BY DEF Cache!Get, Proved!Get, Cache!Delete, Proved!Delete, Cache!DeleteFunc, Proved!DeleteFunc, Cache!ExceptItems, Proved!ExceptItems, Cache!AfterGet, Proved!AfterGet, Cache!Live, Proved!Live, Cache!Tick, Proved!Tick
<1>7. \A c : Cache!Step(c) <=> Proved!Step(c)
  BY <1>1, <1>2, <1>3, <1>4 DEF Cache!Step, Proved!Step
<1>8. Cache!Next <=> Proved!Next
  BY <1>5, <1>6, <1>7 DEF Cache!Next, Proved!Next
<1>9. QED
  BY <1>8 DEF cacheVars, Proved!vars

(* -------------------------- Type correctness -------------------------- *)

OwnTypes ==
    /\ now \in 0..MaxTime
    /\ contrato \in [Empresas -> [ativo : BOOLEAN, versao : 0..MaxMudancas, desde : 0..MaxTime]]
    /\ epoca \in [Empresas -> 0..MaxInvalidacoes]
    /\ lido \in [Requests -> Situacao \cup {None}]
    /\ inicio \in [Requests -> 0..MaxTime]
    /\ visto \in [Empresas -> 0..MaxMudancas]
    /\ piso \in [Requests -> 0..MaxMudancas]
    /\ epocaNoInicio \in [Requests -> 0..MaxInvalidacoes]

\* What a request is told is an answer because of who wrote it, so that the types need the
\* invariant of the flights.
TypeInv == Proved!TypeInv /\ Proved!FlightInv /\ OwnTypes

\* Whoever is inside Load entered it with a key.
LEMMA KeyOfCaller == Proved!TypeInv => \A c \in Requests : pc[c] # "idle" => key[c] \in Empresas
BY DEF Proved!TypeInv, Proved!Engaged

\* r is an error, or an answer.
Resposta(r) == r.err = "nil" => r.value.data \in Situacao

\* What the callers of Load hold, and what their calls hold, is an error or an answer.
LEMMA AnswersHeld ==
    ASSUME TypeInv, NEW c \in Requests
    PROVE  /\ pc[c] \in {"returned", "settled", "published"} => Resposta(ret[c])
           /\ pc[c] = "idle" /\ key[c] # None => Resposta(ret[c])
           /\ pc[c] = "waiting" /\ calls[pending[c]].done => Resposta(calls[pending[c]])
<1>1. \A v \in Proved!Value : v.data \in Situacao
  BY DEF Proved!Value
<1>2. pc[c] = "returned" => Resposta(ret[c])
  BY <1>1 DEF TypeInv, Proved!TypeInv, Proved!Loaded, Resposta
<1>3. pc[c] \in {"settled", "published"} => Resposta(ret[c])
  BY <1>1 DEF TypeInv, Proved!FlightInv, Proved!LeaderState, Proved!Leading, Proved!AnswerFor, Resposta
<1>4. pc[c] = "idle" /\ key[c] # None => Resposta(ret[c])
  BY <1>1 DEF TypeInv, Proved!FlightInv, Proved!AnswerBelongsToKey, Resposta
<1>5. pc[c] = "waiting" /\ calls[pending[c]].done => Resposta(calls[pending[c]])
  BY <1>1 DEF TypeInv, Proved!FlightInv, Proved!WaiterState, Proved!AnswerFor, Resposta
<1>6. QED
  BY <1>2, <1>3, <1>4, <1>5

LEMMA EntriesHeld ==
    ASSUME TypeInv, NEW e \in Empresas, items[e] # None
    PROVE  items[e].value.data \in Situacao /\ items[e].expiresAt \in Int
BY DEF TypeInv, Proved!TypeInv, Proved!TypeOK, Proved!Item, Proved!Value

\* Init starts the cache as TTLCache starts.
LEMMA TypeInvInit == Init => TypeInv
<1> SUFFICES ASSUME Init PROVE TypeInv
  OBVIOUS
<1>1. Proved!Init
  BY DEF Init, Cache!Init, Proved!Init, Cache!NewCall, Proved!NewCall
<1>2. Proved!TypeInv /\ Proved!FlightInv
  BY <1>1, Proved!TypeInvInit, Proved!FlightInvInit, CacheAssumptions
<1>3. OwnTypes
  <2>1. now = 0 /\ 0 \in 0..MaxTime /\ 0 \in 0..MaxMudancas /\ 0 \in 0..MaxInvalidacoes
    BY AssinaturaAssumption DEF Init, Cache!Init
  <2>2. \A a \in BOOLEAN : [ativo |-> a, versao |-> 0, desde |-> 0]
              \in [ativo : BOOLEAN, versao : 0..MaxMudancas, desde : 0..MaxTime]
    BY <2>1
  <2>3. contrato \in [Empresas -> [ativo : BOOLEAN, versao : 0..MaxMudancas, desde : 0..MaxTime]]
    BY <2>2 DEF Init
  <2>4. QED
    BY <2>1, <2>3 DEF Init, OwnTypes
<1>4. QED
  BY <1>2, <1>3 DEF TypeInv

\* Every step of Assinatura is a step of the cache, or leaves the cache alone.
LEMMA StepOfTheCache == TypeInv /\ [Next]_vars => [Cache!Next]_cacheVars
<1> SUFFICES ASSUME TypeInv, [Next]_vars PROVE [Cache!Next]_cacheVars
  OBVIOUS
<1>1. ASSUME NEW c \in Requests, NEW e \in Empresas,
             RespondeDoCache(c, e) \/ EsperaConsulta(c, e) \/ Consulta(c, e)
      PROVE  Cache!Next
  BY <1>1 DEF RespondeDoCache, EsperaConsulta, Consulta, Cache!Next, Cache!Step
<1>2. ASSUME NEW c \in Requests, ConsultaResponde(c) PROVE Cache!Next
  <2>1. lido[c] \in Situacao
    BY <1>2 DEF ConsultaResponde, TypeInv, OwnTypes
  <2>2. Ttl(lido[c].ativo) \in {0, TTLAtivo, TTLBloqueado}
    BY DEF Ttl
  <2>3. Cache!LoadEnds(c)
    BY <1>2, <2>1, <2>2 DEF ConsultaResponde, Cache!LoadEnds
  <2>4. QED
    BY <2>3 DEF Cache!Next, Cache!Step
<1>3. ASSUME NEW c \in Requests, ConsultaFalha(c) PROVE Cache!Next
  <2>1. Cache!LoadEnds(c)
    BY <1>3 DEF ConsultaFalha, Cache!LoadEnds
  <2>2. QED
    BY <2>1 DEF Cache!Next, Cache!Step
<1>4. ASSUME NEW c \in Requests, Conclui(c) \/ EsperaTermina(c) \/ CancelaContexto(c)
      PROVE  Cache!Next
  BY <1>4 DEF Conclui, EsperaTermina, CancelaContexto, Cache!Next, Cache!Step
<1>5. ASSUME NEW e \in Empresas, Invalidar(e) PROVE Cache!Next
  BY <1>5 DEF Invalidar, Cache!Next
<1>6. ASSUME Tick PROVE Cache!Next
  BY <1>6 DEF Tick, Cache!Next
<1>7. ASSUME NEW c \in Requests, ServicoLe(c) PROVE UNCHANGED cacheVars
  BY <1>7 DEF ServicoLe
<1>8. ASSUME NEW e \in Empresas, Muda(e) PROVE UNCHANGED cacheVars
  BY <1>8 DEF Muda
<1>9. ASSUME UNCHANGED vars PROVE UNCHANGED cacheVars
  BY <1>9 DEF vars
<1>10. QED
  BY <1>1, <1>2, <1>3, <1>4, <1>5, <1>6, <1>7, <1>8, <1>9 DEF Next

\* What requests are told is remembered at its type.
LEMMA InformaType ==
    ASSUME OwnTypes, NEW e \in Empresas, NEW r, Resposta(r), Informa(e, r)
    PROVE  visto' \in [Empresas -> 0..MaxMudancas]
BY DEF OwnTypes, Informa, Resposta, Situacao

LEMMA ComecaType ==
    ASSUME OwnTypes, NEW c \in Requests, NEW e \in Empresas, Comeca(c, e)
    PROVE  /\ piso' \in [Requests -> 0..MaxMudancas]
           /\ epocaNoInicio' \in [Requests -> 0..MaxInvalidacoes]
BY DEF OwnTypes, Comeca

LEMMA OwnTypesNext == TypeInv /\ [Next]_vars => OwnTypes'
<1> SUFFICES ASSUME TypeInv, [Next]_vars PROVE OwnTypes'
  OBVIOUS
<1> OwnTypes
  BY DEF TypeInv
<1>1. ASSUME NEW c \in Requests, NEW e \in Empresas, RespondeDoCache(c, e) PROVE OwnTypes'
  <2>1. items[e] # None /\ Cache!Returns(c, items[e].value, 0, "nil") /\ now' = now
    BY <1>1 DEF RespondeDoCache, Cache!LoadHit, Cache!Live
  <2>2. ret'[c] = [value |-> items[e].value, ttl |-> 0, err |-> "nil"]
    BY <2>1 DEF Cache!Returns, TypeInv, Proved!TypeInv, Proved!TypeOK
  <2>3. Resposta(ret'[c])
    BY <2>1, <2>2, EntriesHeld DEF Resposta
  <2>4. visto' \in [Empresas -> 0..MaxMudancas]
    BY <1>1, <2>3, InformaType DEF RespondeDoCache
  <2>5. QED
    BY <1>1, <2>1, <2>4, ComecaType DEF RespondeDoCache, OwnTypes
<1>2. ASSUME NEW c \in Requests, NEW e \in Empresas, EsperaConsulta(c, e) \/ Consulta(c, e)
      PROVE  OwnTypes'
  <2>1. now' = now
    BY <1>2 DEF EsperaConsulta, Consulta, Cache!LoadJoin, Cache!LoadLead
  <2>2. QED
    BY <1>2, <2>1, ComecaType DEF EsperaConsulta, Consulta, OwnTypes
<1>3. ASSUME NEW c \in Requests, ServicoLe(c) PROVE OwnTypes'
  <2>1. key[c] \in Empresas
    BY <1>3, KeyOfCaller DEF ServicoLe, TypeInv
  <2>2. [ativo |-> contrato[key[c]].ativo, versao |-> contrato[key[c]].versao,
         epoca |-> epoca[key[c]]] \in Situacao
    BY <2>1 DEF OwnTypes, Situacao
  <2>3. QED
    BY <1>3, <2>2 DEF ServicoLe, cacheVars, historyVars, OwnTypes
<1>4. ASSUME NEW c \in Requests, ConsultaResponde(c) \/ ConsultaFalha(c) PROVE OwnTypes'
  BY <1>4 DEF ConsultaResponde, ConsultaFalha, Cache!LoadReturns, historyVars, OwnTypes
<1>5. ASSUME NEW c \in Requests, Conclui(c) PROVE OwnTypes'
  <2>1. now' = now
    BY <1>5 DEF Conclui, Cache!Settle, Cache!Publish, Cache!CloseDone
  <2>2. ASSUME Cache!CloseDone(c), Informa(key[c], ret[c])
        PROVE  visto' \in [Empresas -> 0..MaxMudancas]
    <3>1. pc[c] = "published"
      BY <2>2 DEF Cache!CloseDone, Cache!Goto
    <3>2. Resposta(ret[c]) /\ key[c] \in Empresas
      BY <3>1, AnswersHeld, KeyOfCaller DEF TypeInv
    <3>3. QED
      BY <2>2, <3>2, InformaType
  <2>3. visto' \in [Empresas -> 0..MaxMudancas]
    BY <1>5, <2>2 DEF Conclui, OwnTypes
  <2>4. QED
    BY <1>5, <2>1, <2>3 DEF Conclui, OwnTypes
<1>6. ASSUME NEW c \in Requests, EsperaTermina(c) PROVE OwnTypes'
  <2>1. pc[c] = "waiting" /\ now' = now
    BY <1>6 DEF EsperaTermina, Cache!WaiterReceives, Cache!WaiterGivesUp, Cache!Goto
  <2>2. \/ /\ calls[pending[c]].done
           /\ ret'[c] = [value |-> calls[pending[c]].value, ttl |-> 0, err |-> calls[pending[c]].err]
        \/ ret'[c] = [value |-> Zero, ttl |-> 0, err |-> "ctx"]
    BY <1>6 DEF EsperaTermina, Cache!WaiterReceives, Cache!WaiterGivesUp, Cache!Returns,
                TypeInv, Proved!TypeInv, Proved!TypeOK
  <2>3. Resposta(ret'[c]) /\ key[c] \in Empresas
    BY <2>1, <2>2, AnswersHeld, KeyOfCaller DEF Resposta, TypeInv
  <2>4. visto' \in [Empresas -> 0..MaxMudancas]
    BY <1>6, <2>3, InformaType DEF EsperaTermina
  <2>5. QED
    BY <1>6, <2>1, <2>4 DEF EsperaTermina, OwnTypes
<1>7. ASSUME NEW c \in Requests, CancelaContexto(c) PROVE OwnTypes'
  BY <1>7 DEF CancelaContexto, Cache!CancelContext, historyVars, OwnTypes
<1>8. ASSUME NEW e \in Empresas, Invalidar(e) PROVE OwnTypes'
  <2>1. epoca[e] + 1 \in 0..MaxInvalidacoes
    BY <1>8, AssinaturaAssumption DEF Invalidar, OwnTypes
  <2>2. QED
    BY <1>8, <2>1
       DEF Invalidar, Cache!Delete, Cache!DeleteFunc, Cache!ExceptItems, historyVars, OwnTypes
<1>9. ASSUME NEW e \in Empresas, Muda(e) PROVE OwnTypes'
  <2>1. contrato[e].versao + 1 \in 0..MaxMudancas /\ now \in 0..MaxTime
    BY <1>9, AssinaturaAssumption DEF Muda, OwnTypes
  <2>2. QED
    BY <1>9, <2>1 DEF Muda, cacheVars, historyVars, OwnTypes
<1>10. ASSUME Tick PROVE OwnTypes'
  <2>1. now' \in 0..MaxTime
    BY <1>10, AssinaturaAssumption DEF Tick, Cache!Tick, OwnTypes
  <2>2. QED
    BY <1>10, <2>1 DEF Tick, historyVars, OwnTypes
<1>11. ASSUME UNCHANGED vars PROVE OwnTypes'
  BY <1>11 DEF vars, cacheVars, historyVars, OwnTypes
<1>12. QED
  BY <1>1, <1>2, <1>3, <1>4, <1>5, <1>6, <1>7, <1>8, <1>9, <1>10, <1>11 DEF Next

LEMMA TypeInvNext == TypeInv /\ [Next]_vars => TypeInv'
<1>1. TypeInv /\ [Next]_vars => [Proved!Next]_(Proved!vars)
  BY StepOfTheCache, SameNext
<1>2. TypeInv /\ [Next]_vars => Proved!TypeInv'
  BY <1>1, Proved!TypeInvNext, CacheAssumptions DEF TypeInv
<1>3. TypeInv /\ [Next]_vars => Proved!FlightInv'
  BY <1>1, Proved!FlightInvNext, CacheAssumptions DEF TypeInv
<1>4. QED
  BY <1>2, <1>3, OwnTypesNext DEF TypeInv

\* The types of the checker and of the cache under it, always.
THEOREM TypeCorrect == Spec => []TypeOK
<1>1. TypeInv => TypeOK
  BY SameTypes DEF TypeInv, Proved!TypeInv, OwnTypes, TypeOK
<1>2. QED
  BY TypeInvInit, TypeInvNext, <1>1, PTL DEF Spec

\* HTTPChecker uses the cache as Load and Delete allow: with cliente-service, the
\* contracts and the history hidden, each of its behaviours is one of TTLCache, so
\* that the theorems about TTLCache hold of it.
THEOREM RunsTheCache == Spec => Cache!Spec
<1>1. Init => Cache!Init
  BY DEF Init
<1>2. Cache!vars = cacheVars /\ Cache!vars' = cacheVars'
  BY DEF Cache!vars, cacheVars
<1>3. TypeInv /\ [Next]_vars => [Cache!Next]_(Cache!vars)
  BY StepOfTheCache, <1>2
<1>4. QED
  BY <1>1, <1>3, TypeInvInit, TypeInvNext, PTL DEF Spec, Cache!Spec

(* -------------------- The contract and the cache ---------------------- *)

\* A query is answered within Timeout, and its answer is on its way only meanwhile.
ConsultaEmPrazo ==
    \A c \in Requests :
        /\ lido[c] # None => pc[c] = "loading"
        /\ pc[c] \in {"loading", "returned"} => inicio[c] <= now /\ now <= inicio[c] + Timeout

\* r, an answer to the query of c, disagrees with the contract only through a change since
\* the query.
RespostaRecente(r, c) == r.ativo # contrato[key[c]].ativo => inicio[c] <= contrato[key[c]].desde

RespostasRecentes ==
    \A c \in Requests :
        /\ lido[c] # None => RespostaRecente(lido[c], c)
        /\ pc[c] = "returned" /\ ret[c].err = "nil"
              => ret[c].ttl = Ttl(ret[c].value.data.ativo) /\ RespostaRecente(ret[c].value.data, c)

\* An entry that disagrees with the contract expires soon after the change.
EntradaRecente(e, i) ==
    LET ttl == Ttl(i.value.data.ativo) IN
    /\ i.expiresAt <= now + ttl
    /\ i.value.data.ativo # contrato[e].ativo
          => i.expiresAt <= contrato[e].desde + ttl + Timeout

EntradasRecentes == \A e \in Empresas : items[e] # None => EntradaRecente(e, items[e])

MudancasNoPassado == \A e \in Empresas : contrato[e].desde <= now

PrazoInv ==
    /\ ConsultaEmPrazo
    /\ RespostasRecentes
    /\ EntradasRecentes
    /\ MudancasNoPassado

LEMMA PrazoInvInit == Init => PrazoInv
<1> SUFFICES ASSUME Init PROVE PrazoInv
  OBVIOUS
<1>1. /\ now = 0 /\ \A c \in Requests : pc[c] = "idle" /\ lido[c] = None
      /\ \A e \in Empresas : items[e] = None
  BY DEF Init, Cache!Init
<1>2. \A e \in Empresas : contrato[e].desde = 0
  BY DEF Init
<1>3. QED
  BY <1>1, <1>2
     DEF PrazoInv, ConsultaEmPrazo, RespostasRecentes, EntradasRecentes, MudancasNoPassado

\* The types that the comparisons rest on.
LEMMA Comparable ==
    ASSUME TypeInv
    PROVE  /\ now \in Int /\ Timeout \in Int /\ Timeout >= 0
           /\ \A a : Ttl(a) \in Int /\ Ttl(a) > 0
           /\ \A e \in Empresas : contrato[e].desde \in Int /\ contrato[e].versao \in Int
           /\ \A c \in Requests : inicio[c] \in Int
           /\ \A e \in Empresas : items[e] # None => items[e].expiresAt \in Int
BY AssinaturaAssumption, EntriesHeld DEF TypeInv, OwnTypes, Ttl

\* The cache forgets entries or keeps them, and time does not run back.
LEMMA EntriesStay ==
    ASSUME TypeInv, TypeInv', EntradasRecentes, now <= now', UNCHANGED contrato,
           \A e \in Empresas : items'[e] = items[e] \/ items'[e] = None
    PROVE  EntradasRecentes'
<1> SUFFICES ASSUME NEW e \in Empresas, items'[e] # None
             PROVE  EntradaRecente(e, items[e])' /\ items'[e] = items[e]
  BY DEF EntradasRecentes
<1>1. items'[e] = items[e] /\ EntradaRecente(e, items[e])
  BY DEF EntradasRecentes
<1>2. now \in Int /\ now' \in Int /\ items[e].expiresAt \in Int /\ \A a : Ttl(a) \in Int
  BY <1>1, Comparable DEF TypeInv, OwnTypes
<1>3. QED
  BY <1>1, <1>2 DEF EntradaRecente, Ttl

\* What setLocked does to the map, entry by entry.
LEMMA SettleOfTheCache ==
    ASSUME TypeInv, NEW c \in Requests, Cache!Settle(c)
    PROVE  \A e \in Empresas :
              \/ items'[e] = items[e] \/ items'[e] = None
              \/ /\ e = key[c] /\ ret[c].err = "nil"
                 /\ items'[e] = [value |-> ret[c].value, expiresAt |-> now + ret[c].ttl]
<1>1. CASE Cache!Storable(ret[c])
  <2>1. Cache!SetLocked(key[c], ret[c].value, ret[c].ttl) /\ pc[c] = "returned"
    BY <1>1 DEF Cache!Settle, Cache!Goto
  <2>2. PICK r \in Proved!MadeRoom(items, key[c]) :
           items' = [r EXCEPT ![key[c]] = [value |-> ret[c].value, expiresAt |-> now + ret[c].ttl]]
    BY <2>1, SameSet DEF Proved!SetLocked
  <2>3. key[c] \in Empresas /\ Proved!TypeOK
    BY <2>1, KeyOfCaller DEF TypeInv, Proved!TypeInv
  <2>4. /\ r \in [Empresas -> Proved!Item \cup {None}]
        /\ \A j \in Empresas : r[j] # None => r[j] = items[j]
    BY <2>3, Proved!MadeRoomKeeps, CacheAssumptions
  <2>5. QED
    BY <1>1, <2>2, <2>3, <2>4 DEF Cache!Storable
<1>2. CASE ~Cache!Storable(ret[c])
  BY <1>2 DEF Cache!Settle
<1>3. QED
  BY <1>1, <1>2

\* The functions the steps change have the domains their changes need.
LEMMA CacheTypes ==
    ASSUME TypeInv
    PROVE  /\ pc \in [Requests -> {"idle", "loading", "returned", "settled", "published", "waiting"}]
           /\ key \in [Requests -> Empresas \cup {None}] /\ ret \in [Requests -> Proved!Result]
           /\ items \in [Empresas -> Proved!Item \cup {None}] /\ calls \in [Calls -> Proved!Call]
           /\ inflight \in [Empresas -> Calls \cup {None}]
           /\ pending \in [Requests -> Calls \cup {None}]
           /\ lido \in [Requests -> Situacao \cup {None}] /\ inicio \in [Requests -> 0..MaxTime]
BY DEF TypeInv, OwnTypes, Proved!TypeInv, Proved!TypeOK

LEMMA PrazoInvNext == TypeInv /\ TypeInv' /\ PrazoInv /\ [Next]_vars => PrazoInv'
<1> SUFFICES ASSUME TypeInv, TypeInv', PrazoInv, [Next]_vars PROVE PrazoInv'
  OBVIOUS
<1> ConsultaEmPrazo /\ RespostasRecentes /\ EntradasRecentes /\ MudancasNoPassado
  BY DEF PrazoInv
<1> DEFINE Loading(c) == pc[c] \in {"loading", "returned"}
<1>k. \A c \in Requests : Loading(c) => key[c] \in Empresas
  BY KeyOfCaller DEF TypeInv
<1>1. ASSUME NEW c \in Requests, NEW e \in Empresas,
             RespondeDoCache(c, e) \/ EsperaConsulta(c, e) \/ Consulta(c, e)
      PROVE  PrazoInv'
  <2>1. /\ UNCHANGED <<now, contrato, lido>>
        /\ pc[c] = "idle" /\ pc'[c] # "returned" /\ (pc'[c] = "loading" => inicio'[c] = now)
        /\ \A d \in Requests \ {c} : /\ pc'[d] = pc[d] /\ key'[d] = key[d] /\ ret'[d] = ret[d]
                                      /\ inicio'[d] = inicio[d]
    BY <1>1, CacheTypes
       DEF RespondeDoCache, EsperaConsulta, Consulta, Cache!LoadHit, Cache!LoadJoin,
           Cache!LoadLead, Cache!Goto, Cache!Enter, Cache!Returns
  <2>2. \A j \in Empresas : items'[j] = items[j] \/ items'[j] = None
    BY <1>1, CacheTypes
       DEF RespondeDoCache, EsperaConsulta, Consulta, Cache!LoadHit, Cache!LoadJoin,
           Cache!LoadLead, Cache!AfterGet
  <2>3. EntradasRecentes'
    BY <2>1, <2>2, EntriesStay, Comparable
  <2>4. ConsultaEmPrazo'
    BY <2>1, Comparable DEF ConsultaEmPrazo
  <2>5. lido[c] = None
    BY <2>1 DEF ConsultaEmPrazo
  <2>6. RespostasRecentes'
    BY <2>1, <2>5 DEF RespostasRecentes, RespostaRecente
  <2>7. MudancasNoPassado'
    BY <2>1 DEF MudancasNoPassado
  <2>8. QED
    BY <2>3, <2>4, <2>6, <2>7 DEF PrazoInv
<1>2. ASSUME NEW c \in Requests, ServicoLe(c) PROVE PrazoInv'
  <2>1. /\ UNCHANGED <<now, items, pc, key, ret, contrato, inicio>>
        /\ pc[c] = "loading" /\ lido'[c].ativo = contrato[key[c]].ativo
        /\ \A d \in Requests \ {c} : lido'[d] = lido[d]
    BY <1>2, CacheTypes DEF ServicoLe, cacheVars
  <2>2. ConsultaEmPrazo' /\ MudancasNoPassado' /\ EntradasRecentes'
    BY <2>1 DEF ConsultaEmPrazo, MudancasNoPassado, EntradasRecentes, EntradaRecente
  <2>3. RespostasRecentes'
    BY <2>1 DEF RespostasRecentes, RespostaRecente
  <2>4. QED
    BY <2>2, <2>3 DEF PrazoInv
<1>3. ASSUME NEW c \in Requests, ConsultaResponde(c) \/ ConsultaFalha(c) PROVE PrazoInv'
  <2>1. /\ UNCHANGED <<now, items, key, contrato, inicio>>
        /\ pc[c] = "loading" /\ pc'[c] = "returned" /\ lido'[c] = None
        /\ \A d \in Requests \ {c} : pc'[d] = pc[d] /\ lido'[d] = lido[d] /\ ret'[d] = ret[d]
    BY <1>3, CacheTypes DEF ConsultaResponde, ConsultaFalha, Cache!LoadReturns, Cache!Goto, Cache!Returns
  <2>2. ConsultaEmPrazo' /\ MudancasNoPassado' /\ EntradasRecentes'
    BY <2>1 DEF ConsultaEmPrazo, MudancasNoPassado, EntradasRecentes, EntradaRecente
  <2>3. ret'[c].err = "nil" => /\ lido[c] # None /\ ret'[c].value.data = lido[c]
                               /\ ret'[c].ttl = Ttl(lido[c].ativo)
    BY <1>3, CacheTypes DEF ConsultaResponde, ConsultaFalha, Cache!LoadReturns, Cache!Returns
  <2>4. RespostasRecentes'
    BY <2>1, <2>3 DEF RespostasRecentes, RespostaRecente, Ttl
  <2>5. QED
    BY <2>2, <2>4 DEF PrazoInv
<1>4. ASSUME NEW c \in Requests, Conclui(c) \/ EsperaTermina(c) \/ CancelaContexto(c)
      PROVE  PrazoInv'
  <2>1. /\ UNCHANGED <<now, key, contrato, lido, inicio>>
        /\ \A d \in Requests : \/ pc'[d] = pc[d] /\ ret'[d] = ret[d]
                               \/ pc[d] # "loading" /\ pc'[d] \notin {"loading", "returned"}
    BY <1>4, CacheTypes
       DEF Conclui, EsperaTermina, CancelaContexto, Cache!Settle, Cache!Publish, Cache!CloseDone,
           Cache!WaiterReceives, Cache!WaiterGivesUp, Cache!CancelContext, Cache!Goto, Cache!Returns
  <2>2. ConsultaEmPrazo' /\ MudancasNoPassado'
    BY <2>1 DEF ConsultaEmPrazo, MudancasNoPassado
  <2>3. RespostasRecentes'
    BY <2>1 DEF RespostasRecentes, RespostaRecente
  <2>4. EntradasRecentes'
    <3>1. CASE Cache!Settle(c)
      <4> SUFFICES ASSUME NEW e \in Empresas, items'[e] # None PROVE EntradaRecente(e, items[e])'
        BY DEF EntradasRecentes
      <4>1. CASE items'[e] = items[e]
        BY <2>1, <4>1 DEF EntradasRecentes, EntradaRecente
      <4>2. CASE /\ e = key[c] /\ ret[c].err = "nil"
                 /\ items'[e] = [value |-> ret[c].value, expiresAt |-> now + ret[c].ttl]
        <5>1. pc[c] = "returned"
          BY <3>1 DEF Cache!Settle, Cache!Goto
        <5>2. ret[c].ttl = Ttl(ret[c].value.data.ativo) /\ RespostaRecente(ret[c].value.data, c)
          BY <4>2, <5>1 DEF RespostasRecentes
        <5>3. now <= inicio[c] + Timeout
          BY <5>1 DEF ConsultaEmPrazo
        <5>4. Ttl(ret[c].value.data.ativo) \in Int
          BY Comparable
        <5> DEFINE ttl == Ttl(ret[c].value.data.ativo)
        <5>5. /\ items'[e].expiresAt = now + ttl
              /\ items'[e].value.data.ativo # contrato[e].ativo => inicio[c] <= contrato[e].desde
          BY <4>2, <5>2 DEF RespostaRecente
        <5> HIDE DEF ttl
        <5>6. items'[e].value.data = ret[c].value.data /\ ttl \in Int
          BY <4>2, <5>4 DEF ttl
        <5>7. /\ items'[e].expiresAt <= now + ttl
              /\ items'[e].value.data.ativo # contrato[e].ativo
                    => items'[e].expiresAt <= contrato[e].desde + ttl + Timeout
          BY <5>3, <5>5, <5>6, Comparable
        <5>8. QED
          BY <2>1, <5>6, <5>7 DEF EntradaRecente, ttl, Ttl
      <4>3. QED
        BY <3>1, <4>1, <4>2, SettleOfTheCache
    <3>2. CASE UNCHANGED items
      BY <2>1, <3>2 DEF EntradasRecentes, EntradaRecente
    <3>3. QED
      BY <1>4, <3>1, <3>2
         DEF Conclui, EsperaTermina, CancelaContexto, Cache!Publish, Cache!CloseDone,
             Cache!WaiterReceives, Cache!WaiterGivesUp, Cache!CancelContext
  <2>5. QED
    BY <2>2, <2>3, <2>4 DEF PrazoInv
<1>5. ASSUME NEW e \in Empresas, Invalidar(e) PROVE PrazoInv'
  <2>1. /\ UNCHANGED <<now, pc, key, ret, contrato, lido, inicio>>
        /\ \A j \in Empresas : items'[j] = items[j] \/ items'[j] = None
    BY <1>5 DEF Invalidar, Cache!Delete, Cache!DeleteFunc, Cache!ExceptItems
  <2>2. EntradasRecentes'
    BY <2>1, EntriesStay, Comparable
  <2>3. QED
    BY <2>1, <2>2
       DEF PrazoInv, ConsultaEmPrazo, RespostasRecentes, RespostaRecente, MudancasNoPassado
<1>6. ASSUME NEW e \in Empresas, Muda(e) PROVE PrazoInv'
  <2>1. UNCHANGED <<now, items, pc, key, ret, lido, inicio>>
    BY <1>6 DEF Muda, cacheVars
  <2>2. /\ contrato'[e].desde = now
        /\ \A j \in Empresas \ {e} : contrato'[j] = contrato[j]
    BY <1>6 DEF Muda, TypeInv, OwnTypes
  <2>3. ConsultaEmPrazo'
    BY <2>1 DEF ConsultaEmPrazo
  <2>4. MudancasNoPassado'
    BY <2>1, <2>2, Comparable DEF MudancasNoPassado
  <2>5. RespostasRecentes'
    <3>1. \A c \in Requests : (Loading(c) => inicio[c] <= now) /\ (lido[c] # None => Loading(c))
      BY DEF ConsultaEmPrazo
    <3>2. ASSUME NEW c \in Requests, NEW r, Loading(c), RespostaRecente(r, c)
          PROVE  RespostaRecente(r, c)'
      BY <1>k, <2>1, <2>2, <3>1, <3>2 DEF RespostaRecente
    <3>3. QED
      BY <2>1, <3>1, <3>2 DEF RespostasRecentes
  <2>6. EntradasRecentes'
    <3> SUFFICES ASSUME NEW j \in Empresas, items[j] # None PROVE EntradaRecente(j, items[j])'
      BY <2>1 DEF EntradasRecentes
    <3>1. EntradaRecente(j, items[j])
      BY DEF EntradasRecentes
    <3>2. /\ now \in Int /\ Timeout \in Int /\ Timeout >= 0 /\ items[j].expiresAt \in Int
          /\ \A a : Ttl(a) \in Int
      BY Comparable
    <3>3. QED
      BY <2>1, <2>2, <3>1, <3>2 DEF EntradaRecente
  <2>7. QED
    BY <2>3, <2>4, <2>5, <2>6 DEF PrazoInv
<1>7. ASSUME Tick PROVE PrazoInv'
  <2>1. /\ now' = now + 1 /\ UNCHANGED <<items, pc, key, ret, contrato, lido, inicio>>
        /\ \A c \in Requests : pc[c] # "returned" /\ (pc[c] = "loading" => now < inicio[c] + Timeout)
    BY <1>7 DEF Tick, Cache!Tick
  <2>2. ConsultaEmPrazo'
    BY <2>1, Comparable DEF ConsultaEmPrazo
  <2>3. RespostasRecentes'
    BY <2>1 DEF RespostasRecentes, RespostaRecente
  <2>4. MudancasNoPassado'
    BY <2>1, Comparable DEF MudancasNoPassado
  <2>5. EntradasRecentes'
    BY <2>1, EntriesStay, Comparable
  <2>6. QED
    BY <2>2, <2>3, <2>4, <2>5 DEF PrazoInv
<1>8. ASSUME UNCHANGED vars PROVE PrazoInv'
  BY <1>8 DEF vars, cacheVars, PrazoInv, ConsultaEmPrazo, RespostasRecentes, RespostaRecente,
              EntradasRecentes, EntradaRecente, MudancasNoPassado
<1>9. QED
  BY <1>1, <1>2, <1>3, <1>4, <1>5, <1>6, <1>7, <1>8 DEF Next

LEMMA PrazoInvariant == Spec => [](TypeInv /\ PrazoInv)
BY TypeInvInit, TypeInvNext, PrazoInvInit, PrazoInvNext, PTL DEF Spec

\* A usable entry disagrees with the contract for less than its own ttl plus one query after
\* the change, in either direction, for any number of requests and companies (ContratoAtivo).
THEOREM DisagreementIsBounded == Spec => []DiscordanciaLimitada
<1>1. TypeInv /\ PrazoInv => DiscordanciaLimitada
  <2> SUFFICES ASSUME TypeInv, PrazoInv, NEW e \in Empresas, Cache!Live(e),
                      items[e].value.data.ativo # contrato[e].ativo
               PROVE  now - contrato[e].desde < Ttl(items[e].value.data.ativo) + Timeout
    BY DEF DiscordanciaLimitada, BloqueioExpiraCedo, LiberacaoExpira, Ttl
  <2>1. items[e] # None /\ now < items[e].expiresAt
    BY DEF Cache!Live
  <2>2. items[e].expiresAt <= contrato[e].desde + Ttl(items[e].value.data.ativo) + Timeout
    BY <2>1 DEF PrazoInv, EntradasRecentes, EntradaRecente
  <2>3. QED
    BY <2>1, <2>2, Comparable
<1>2. QED
  BY <1>1, PrazoInvariant, PTL

(* ------------------ What is told does not go back --------------------- *)

\* An answer that was read and is not settled yet.
Leu(c) == \/ pc[c] = "loading" /\ lido[c] # None
          \/ pc[c] = "returned" /\ ret[c].err = "nil"
VersaoLida(c) == IF pc[c] = "loading" THEN lido[c].versao ELSE ret[c].value.data.versao

\* An answer that is settled and that c is about to be told.
Resultado(c) == IF pc[c] = "waiting" THEN calls[pending[c]] ELSE ret[c]
Respondida(c) ==
    /\ \/ pc[c] \in {"settled", "published"}
       \/ pc[c] = "waiting" /\ calls[pending[c]].done
    /\ Resultado(c).err = "nil"
VersaoDada(c) == Resultado(c).value.data.versao

\* What was told is no newer than the contract, nor older than what was told when the
\* request began.
VistoNoPassado == \A e \in Empresas : visto[e] <= contrato[e].versao
PisoNoVisto == \A c \in Requests : key[c] # None => piso[c] <= visto[key[c]]

\* What a query read is at least as new as all that was told or is about to be told.
LidasNovas ==
    \A c \in Requests : Leu(c) =>
        /\ visto[key[c]] <= VersaoLida(c) /\ VersaoLida(c) <= contrato[key[c]].versao
        /\ \A d \in Requests : Respondida(d) /\ key[d] = key[c] => VersaoDada(d) <= VersaoLida(c)

\* So is an entry, and no query is sent while there is one.
EntradasNovas ==
    \A e \in Empresas : items[e] # None =>
        /\ visto[e] <= items[e].value.data.versao /\ items[e].value.data.versao <= contrato[e].versao
        /\ \A d \in Requests : Respondida(d) /\ key[d] = e => VersaoDada(d) <= items[e].value.data.versao
        /\ \A d \in Requests : Cache!InLoad(d) => key[d] # e

\* What is about to be told is new enough for all who wait for it.
DadasNovas ==
    \A d \in Requests : Respondida(d) =>
        /\ piso[d] <= VersaoDada(d) /\ VersaoDada(d) <= contrato[key[d]].versao
        /\ \A w \in Requests : pc[w] = "waiting" /\ pending[w] = pending[d] => piso[w] <= VersaoDada(d)

OrdemInv ==
    /\ VistoNoPassado
    /\ PisoNoVisto
    /\ LidasNovas
    /\ EntradasNovas
    /\ DadasNovas
    /\ LeituraMonotona

LEMMA OrdemInvInit == Init => OrdemInv
<1> SUFFICES ASSUME Init PROVE OrdemInv
  OBVIOUS
<1>1. /\ \A c \in Requests : pc[c] = "idle" /\ key[c] = None
      /\ \A e \in Empresas : items[e] = None /\ visto[e] = 0
  BY DEF Init, Cache!Init
<1>2. \A e \in Empresas : contrato[e].versao = 0
  BY DEF Init
<1>3. QED
  BY <1>1, <1>2
     DEF OrdemInv, VistoNoPassado, PisoNoVisto, LidasNovas, EntradasNovas, DadasNovas,
         LeituraMonotona, Leu, Respondida, Decidida

\* Versions are numbers.
LEMMA Versoes ==
    ASSUME TypeInv
    PROVE  /\ \A e \in Empresas : visto[e] \in Int /\ contrato[e].versao \in Int
           /\ \A c \in Requests : /\ piso[c] \in Int
                                  /\ Leu(c) => VersaoLida(c) \in Int
                                  /\ Respondida(c) => VersaoDada(c) \in Int
           /\ \A e \in Empresas : items[e] # None => items[e].value.data.versao \in Int
<1>1. \A s \in Situacao : s.versao \in Int
  BY DEF Situacao
<1>2. \A e \in Empresas : visto[e] \in Int /\ contrato[e].versao \in Int
  BY DEF TypeInv, OwnTypes
<1>3. ASSUME NEW c \in Requests PROVE piso[c] \in Int /\ (Leu(c) => VersaoLida(c) \in Int)
  BY <1>1, AnswersHeld DEF TypeInv, OwnTypes, Leu, VersaoLida, Resposta
<1>4. ASSUME NEW c \in Requests, Respondida(c) PROVE VersaoDada(c) \in Int
  BY <1>1, <1>4, AnswersHeld DEF Respondida, VersaoDada, Resultado, Resposta
<1>5. \A e \in Empresas : items[e] # None => items[e].value.data.versao \in Int
  BY <1>1, EntriesHeld
<1>6. QED
  BY <1>2, <1>3, <1>4, <1>5

\* A load that is registered has not answered anybody yet.
LEMMA FlightIsOpen ==
    ASSUME TypeInv, NEW e \in Empresas, inflight[e] # None
    PROVE  /\ ~calls[inflight[e]].done
           /\ \A d \in Requests : Respondida(d) => pending[d] # inflight[e]
<1>1. PICK l \in Requests : Proved!InLoad(l) /\ pending[l] = inflight[e]
  BY DEF TypeInv, Proved!FlightInv, Proved!FlightHasLoader
<1>2. Proved!Leading(l)
  BY <1>1 DEF Proved!InLoad, Proved!Leading
<1>3. ~calls[inflight[e]].done
  BY <1>1, <1>2 DEF TypeInv, Proved!FlightInv, Proved!LeaderState
<1>4. ASSUME NEW d \in Requests, Respondida(d), pending[d] = inflight[e] PROVE FALSE
  <2>1. pc[d] \in {"settled", "published"}
    BY <1>3, <1>4 DEF Respondida
  <2>2. d = l
    BY <1>1, <1>2, <1>4, <2>1 DEF TypeInv, Proved!FlightInv, Proved!OneLeader, Proved!Leading
  <2>3. QED
    BY <1>1, <2>1, <2>2 DEF Proved!InLoad
<1>5. QED
  BY <1>3, <1>4

\* Who waits for the call of a leader waits for its key.
LEMMA WaiterOfLeader ==
    ASSUME TypeInv, NEW c \in Requests, Proved!Leading(c)
    PROVE  /\ ~calls[pending[c]].done
           /\ \A w \in Requests : pc[w] = "waiting" /\ pending[w] = pending[c] => key[w] = key[c]
BY DEF TypeInv, Proved!FlightInv, Proved!LeaderState, Proved!WaiterState, Proved!OneLeader

\* Being told moves visto to what is told, and no further back.
LEMMA InformaEffect ==
    ASSUME TypeInv, NEW e \in Empresas, NEW r, Resposta(r), Informa(e, r)
    PROVE  \A j \in Empresas :
              /\ visto[j] <= visto'[j]
              /\ \/ visto'[j] = visto[j]
                 \/ j = e /\ r.err = "nil" /\ visto'[j] = r.value.data.versao
<1>1. visto \in [Empresas -> 0..MaxMudancas]
  BY DEF TypeInv, OwnTypes
<1>2. r.err = "nil" => r.value.data.versao \in Int
  BY DEF Resposta, Situacao
<1>3. QED
  BY <1>1, <1>2 DEF Informa

\* What c is told is no newer than what others read, than the entry and than the contract.
LEMMA ToldInOrder ==
    ASSUME TypeInv, OrdemInv, NEW c \in Requests, key[c] \in Empresas,
           \A j \in Empresas : \/ visto'[j] = visto[j]
                               \/ j = key[c] /\ Respondida(c) /\ visto'[j] = VersaoDada(c)
    PROVE  /\ \A e \in Empresas : /\ visto'[e] <= contrato[e].versao
                                  /\ items[e] # None => visto'[e] <= items[e].value.data.versao
           /\ \A d \in Requests : Leu(d) => visto'[key[d]] <= VersaoLida(d)
<1>1. \A d \in Requests : Leu(d) => key[d] \in Empresas
  BY KeyOfCaller DEF TypeInv, Leu
<1>2. QED
  BY <1>1 DEF OrdemInv, VistoNoPassado, LidasNovas, EntradasNovas, DadasNovas

\* A step keeps the order when each answer that is read after it was read before or is read
\* by it, each that is about to be told was so before, with what waits for it, and the cache
\* only forgets.
LEMMA OrderKept ==
    ASSUME TypeInv, TypeInv', OrdemInv,
           \A c \in Requests : Leu(c)' =>
              /\ key'[c] = key[c]
              /\ \/ Leu(c) /\ VersaoLida(c)' = VersaoLida(c) /\ visto'[key[c]] <= VersaoLida(c)
                 \/ VersaoLida(c)' = contrato[key[c]].versao,
           \A d \in Requests : Respondida(d)' =>
              \E s \in Requests :
                 /\ Respondida(s) /\ VersaoDada(d)' = VersaoDada(s) /\ key'[d] = key[s]
                 /\ pending'[d] = pending[s] /\ piso'[d] <= VersaoDada(s),
           \A w \in Requests : pc'[w] = "waiting" =>
              \/ pc[w] = "waiting" /\ pending'[w] = pending[w] /\ piso'[w] = piso[w]
              \/ \A s \in Requests : Respondida(s) => pending[s] # pending'[w],
           \A d \in Requests : Cache!InLoad(d)' =>
              (Cache!InLoad(d) /\ key'[d] = key[d]) \/ items'[key'[d]] = None,
           \A e \in Empresas :
              /\ items'[e] = items[e] \/ items'[e] = None
              /\ contrato[e].versao <= contrato'[e].versao
              /\ visto[e] <= visto'[e] /\ visto'[e] <= contrato[e].versao
              /\ items'[e] # None => visto'[e] <= items[e].value.data.versao,
           \A c \in Requests :
              /\ \/ piso'[c] = piso[c] /\ key'[c] = key[c]
                 \/ key'[c] \in Empresas /\ piso'[c] = visto[key'[c]]
              /\ Decidida(c)' /\ ret'[c].err = "nil" => piso'[c] <= ret'[c].value.data.versao
    PROVE  OrdemInv'
<1> /\ VistoNoPassado /\ PisoNoVisto /\ LidasNovas /\ EntradasNovas /\ DadasNovas
  BY DEF OrdemInv
<1>t. \A e \in Empresas : visto'[e] \in Int /\ contrato'[e].versao \in Int
  BY DEF TypeInv, OwnTypes
<1>k. \A c \in Requests : /\ key[c] \in Empresas \cup {None}
                          /\ Leu(c) \/ Leu(c)' \/ Respondida(c) => key[c] \in Empresas
  <2>1. ASSUME NEW c \in Requests, Leu(c) \/ Respondida(c) PROVE key[c] \in Empresas
    BY <2>1, KeyOfCaller DEF TypeInv, Leu, Respondida
  <2>2. ASSUME NEW c \in Requests, Leu(c)' PROVE key[c] \in Empresas
    BY <2>2 DEF TypeInv, Proved!TypeInv, Proved!Engaged, Leu
  <2>3. QED
    BY <2>1, <2>2, CacheTypes
<1>1. VistoNoPassado'
  BY <1>t, Versoes DEF VistoNoPassado
<1>2. PisoNoVisto'
  <2> SUFFICES ASSUME NEW c \in Requests, key'[c] # None PROVE piso'[c] <= visto'[key'[c]]
    BY DEF PisoNoVisto
  <2>1. key'[c] \in Empresas
    BY <1>k
  <2>2. piso'[c] <= visto[key'[c]]
    <3>1. CASE piso'[c] = piso[c] /\ key'[c] = key[c]
      BY <2>1, <3>1 DEF PisoNoVisto
    <3>2. CASE piso'[c] = visto[key'[c]]
      BY <2>1, <3>2, Versoes
    <3>3. QED
      BY <3>1, <3>2
  <2>3. piso'[c] \in Int /\ visto[key'[c]] \in Int /\ visto'[key'[c]] \in Int
    BY <2>1, <1>t, Versoes DEF TypeInv, OwnTypes
  <2>4. visto[key'[c]] <= visto'[key'[c]]
    BY <2>1
  <2>5. QED
    BY <2>2, <2>3, <2>4
<1>3. LidasNovas'
  <2> SUFFICES ASSUME NEW c \in Requests, Leu(c)'
               PROVE  /\ visto'[key'[c]] <= VersaoLida(c)'
                      /\ VersaoLida(c)' <= contrato'[key'[c]].versao
                      /\ \A d \in Requests : Respondida(d)' /\ key'[d] = key'[c]
                            => VersaoDada(d)' <= VersaoLida(c)'
    BY DEF LidasNovas
  <2>1. key'[c] = key[c] /\ key[c] \in Empresas
    BY <1>k
  <2>2. /\ visto'[key[c]] <= VersaoLida(c)'
        /\ VersaoLida(c)' <= contrato[key[c]].versao
        /\ VersaoLida(c)' \in Int
        /\ \A s \in Requests : Respondida(s) /\ key[s] = key[c] => VersaoDada(s) <= VersaoLida(c)'
    <3>1. CASE Leu(c) /\ VersaoLida(c)' = VersaoLida(c) /\ visto'[key[c]] <= VersaoLida(c)
      BY <3>1, Versoes DEF LidasNovas
    <3>2. CASE VersaoLida(c)' = contrato[key[c]].versao
      BY <2>1, <3>2, Versoes DEF DadasNovas
    <3>3. QED
      BY <3>1, <3>2
  <2>3. VersaoLida(c)' <= contrato'[key[c]].versao
    BY <1>t, <2>1, <2>2, Versoes
  <2>4. QED
    BY <2>1, <2>2, <2>3
<1>4. EntradasNovas'
  <2> SUFFICES ASSUME NEW e \in Empresas, items'[e] # None
               PROVE  /\ visto'[e] <= items'[e].value.data.versao
                      /\ items'[e].value.data.versao <= contrato'[e].versao
                      /\ \A d \in Requests : Respondida(d)' /\ key'[d] = e
                            => VersaoDada(d)' <= items'[e].value.data.versao
                      /\ \A d \in Requests : Cache!InLoad(d)' => key'[d] # e
    BY DEF EntradasNovas
  <2>1. items'[e] = items[e] /\ items[e] # None
    OBVIOUS
  <2>2. items[e].value.data.versao <= contrato'[e].versao
    BY <1>t, <2>1, Versoes DEF EntradasNovas
  <2>3. QED
    BY <2>1, <2>2 DEF EntradasNovas
<1>5. DadasNovas'
  <2> SUFFICES ASSUME NEW d \in Requests, Respondida(d)'
               PROVE  /\ piso'[d] <= VersaoDada(d)' /\ VersaoDada(d)' <= contrato'[key'[d]].versao
                      /\ \A w \in Requests : pc'[w] = "waiting" /\ pending'[w] = pending'[d]
                            => piso'[w] <= VersaoDada(d)'
    BY DEF DadasNovas
  <2>1. PICK s \in Requests :
           /\ Respondida(s) /\ VersaoDada(d)' = VersaoDada(s) /\ key'[d] = key[s]
           /\ pending'[d] = pending[s] /\ piso'[d] <= VersaoDada(s)
    OBVIOUS
  <2>2. VersaoDada(s) <= contrato'[key[s]].versao
    BY <1>t, <1>k, <2>1, Versoes DEF DadasNovas
  <2>3. QED
    BY <2>1, <2>2 DEF DadasNovas
<1>6. LeituraMonotona'
  <2> SUFFICES ASSUME NEW c \in Requests, Decidida(c)', ret'[c].err = "nil"
               PROVE  ret'[c].value.data.versao >= piso'[c]
    BY DEF LeituraMonotona
  <2>1. ret'[c].value.data.versao \in Int /\ piso'[c] \in Int
    <3>1. pc'[c] = "idle" /\ key'[c] # None
      BY DEF Decidida
    <3>2. ret'[c].value \in Proved!Value
      BY <3>1 DEF TypeInv, Proved!FlightInv, Proved!AnswerBelongsToKey
    <3>3. QED
      BY <3>2 DEF Proved!Value, Situacao, TypeInv, OwnTypes
  <2>2. QED
    BY <2>1
<1>7. QED
  BY <1>1, <1>2, <1>3, <1>4, <1>5, <1>6 DEF OrdemInv

\* Settle, which stores what was read and makes it the answer of those who wait.
LEMMA OrderKeptBySettle ==
    ASSUME TypeInv, OrdemInv, NEW c \in Requests, Cache!Settle(c),
           UNCHANGED <<contrato, lido, visto, piso>>
    PROVE  OrdemInv'
<1> /\ VistoNoPassado /\ PisoNoVisto /\ LidasNovas /\ EntradasNovas /\ DadasNovas
    /\ LeituraMonotona
  BY DEF OrdemInv
<1>1. /\ UNCHANGED <<key, ret, calls, pending>>
      /\ pc[c] = "returned" /\ pc'[c] = "settled" /\ \A d \in Requests \ {c} : pc'[d] = pc[d]
  BY CacheTypes DEF Cache!Settle, Cache!Goto
<1>2. key[c] \in Empresas /\ key[c] # None /\ Proved!Leading(c)
  BY <1>1, KeyOfCaller, AssinaturaAssumption DEF TypeInv, Proved!Leading
<1>3. ASSUME NEW d \in Requests \ {c}, Cache!InLoad(d) PROVE key[d] # key[c]
  <2>1. Proved!InLoad(d) /\ Proved!InLoad(c) /\ Proved!Leading(d)
    BY <1>1, <1>3 DEF Cache!InLoad, Proved!InLoad, Proved!Leading
  <2>2. QED
    BY <1>2, <2>1 DEF TypeInv, Proved!FlightInv, Proved!LoaderHasFlight, Proved!OneLeader
<1>4. \A d \in Requests : Respondida(d)' =>
         IF d = c THEN Leu(c) /\ VersaoDada(c)' = VersaoLida(c)
                  ELSE Respondida(d) /\ VersaoDada(d)' = VersaoDada(d)
  BY <1>1 DEF Respondida, VersaoDada, Resultado, Leu, VersaoLida
<1>5. \A d \in Requests : /\ Cache!InLoad(d)' => d # c /\ Cache!InLoad(d)
                          /\ Leu(d)' => /\ d # c /\ Leu(d) /\ VersaoLida(d)' = VersaoLida(d)
                                        /\ Cache!InLoad(d)
  BY <1>1 DEF Cache!InLoad, Leu, VersaoLida
<1>6. VistoNoPassado' /\ PisoNoVisto'
  BY <1>1 DEF VistoNoPassado, PisoNoVisto
<1>7. LidasNovas'
  BY <1>1, <1>3, <1>4, <1>5 DEF LidasNovas
<1>8. EntradasNovas'
  <2> SUFFICES ASSUME NEW e \in Empresas, items'[e] # None
               PROVE  /\ visto[e] <= items'[e].value.data.versao
                      /\ items'[e].value.data.versao <= contrato[e].versao
                      /\ \A d \in Requests : Respondida(d)' /\ key[d] = e
                            => VersaoDada(d)' <= items'[e].value.data.versao
                      /\ \A d \in Requests : Cache!InLoad(d)' => key[d] # e
    BY <1>1 DEF EntradasNovas
  <2>1. CASE items'[e] = items[e]
    <3>1. key[c] # e
      BY <1>1, <2>1 DEF EntradasNovas, Cache!InLoad
    <3>2. QED
      BY <1>4, <1>5, <2>1, <3>1 DEF EntradasNovas
  <2>2. CASE /\ e = key[c] /\ ret[c].err = "nil"
             /\ items'[e] = [value |-> ret[c].value, expiresAt |-> now + ret[c].ttl]
    <3>1. Leu(c) /\ items'[e].value.data.versao = VersaoLida(c)
      BY <1>1, <2>2 DEF Leu, VersaoLida
    <3>2. VersaoLida(c) <= VersaoLida(c)
      BY <3>1, Versoes
    <3>3. QED
      BY <1>3, <1>4, <1>5, <2>2, <3>1, <3>2 DEF LidasNovas
  <2>3. QED
    BY <2>1, <2>2, SettleOfTheCache
<1>9. DadasNovas'
  <2> SUFFICES ASSUME NEW d \in Requests, Respondida(d)'
               PROVE  /\ piso[d] <= VersaoDada(d)' /\ VersaoDada(d)' <= contrato[key[d]].versao
                      /\ \A w \in Requests : pc'[w] = "waiting" /\ pending[w] = pending[d]
                            => piso[w] <= VersaoDada(d)'
    BY <1>1 DEF DadasNovas
  <2>1. CASE d # c
    <3>1. \A w \in Requests : pc'[w] = "waiting" => pc[w] = "waiting"
      BY <1>1
    <3>2. QED
      BY <1>4, <2>1, <3>1 DEF DadasNovas
  <2>2. CASE d = c
    <3>1. Leu(c) /\ VersaoDada(c)' = VersaoLida(c)
      BY <1>4, <2>2
    <3>2. ASSUME NEW w \in Requests, key[w] = key[c] PROVE piso[w] <= VersaoLida(c)
      <4>1. piso[w] <= visto[key[c]] /\ visto[key[c]] <= VersaoLida(c)
        BY <1>2, <3>1, <3>2 DEF PisoNoVisto, LidasNovas
      <4>2. piso[w] \in Int /\ visto[key[c]] \in Int /\ VersaoLida(c) \in Int
        BY <1>2, <3>1, Versoes
      <4>3. QED
        BY <4>1, <4>2
    <3>3. \A w \in Requests : pc'[w] = "waiting" /\ pending[w] = pending[c] => key[w] = key[c]
      BY <1>1, <1>2, WaiterOfLeader
    <3>4. QED
      BY <2>2, <3>1, <3>2, <3>3 DEF LidasNovas
  <2>3. QED
    BY <2>1, <2>2
<1>10. LeituraMonotona'
  BY <1>1 DEF LeituraMonotona, Decidida
<1>11. QED
  BY <1>6, <1>7, <1>8, <1>9, <1>10 DEF OrdemInv

\* What was told so far is no older than it had to be.
LEMMA AlreadyTold ==
    ASSUME TypeInv, OrdemInv
    PROVE  \A c \in Requests : Decidida(c) /\ ret[c].err = "nil" => piso[c] <= ret[c].value.data.versao
<1> SUFFICES ASSUME NEW c \in Requests, Decidida(c), ret[c].err = "nil"
             PROVE  piso[c] <= ret[c].value.data.versao
  OBVIOUS
<1>1. ret[c].value.data.versao >= piso[c]
  BY DEF OrdemInv, LeituraMonotona
<1>2. Resposta(ret[c])
  BY AnswersHeld DEF Decidida
<1>3. ret[c].value.data.versao \in Int /\ piso[c] \in Int
  BY <1>2, Versoes DEF Resposta, Situacao
<1>4. QED
  BY <1>1, <1>3

\* A step that neither asks, answers nor tells changes nothing the order is about.
LEMMA OrderKeptElsewhere ==
    ASSUME TypeInv, TypeInv', OrdemInv,
           UNCHANGED <<calls, pc, key, pending, ret, lido, visto, piso>>,
           \A e \in Empresas : /\ items'[e] = items[e] \/ items'[e] = None
                               /\ contrato[e].versao <= contrato'[e].versao
    PROVE  OrdemInv'
<1> /\ VistoNoPassado /\ PisoNoVisto /\ LidasNovas /\ EntradasNovas /\ DadasNovas
    /\ LeituraMonotona
  BY DEF OrdemInv
<1>1. \A c \in Requests : /\ Leu(c)' <=> Leu(c)
                          /\ VersaoLida(c)' = VersaoLida(c)
                          /\ Respondida(c)' <=> Respondida(c)
                          /\ VersaoDada(c)' = VersaoDada(c)
                          /\ Cache!InLoad(c)' <=> Cache!InLoad(c)
                          /\ Decidida(c)' <=> Decidida(c)
  BY DEF Leu, VersaoLida, Respondida, VersaoDada, Resultado, Cache!InLoad, Decidida
<1>2. \A c \in Requests : Leu(c) => visto[key[c]] <= VersaoLida(c)
  BY DEF LidasNovas
<1>3. \A d \in Requests : Respondida(d) => piso[d] <= VersaoDada(d)
  BY DEF DadasNovas
<1>4. \A e \in Empresas : /\ visto[e] <= visto[e] /\ visto[e] <= contrato[e].versao
                          /\ items[e] # None => visto[e] <= items[e].value.data.versao
  BY Versoes DEF VistoNoPassado, EntradasNovas
<1>5. QED
  BY <1>1, <1>2, <1>3, <1>4, AlreadyTold, OrderKept

LEMMA OrdemInvNext ==
    TypeInv /\ TypeInv' /\ ConsultaEmPrazo /\ OrdemInv /\ [Next]_vars => OrdemInv'
<1> SUFFICES ASSUME TypeInv, TypeInv', ConsultaEmPrazo, OrdemInv, [Next]_vars PROVE OrdemInv'
  OBVIOUS
<1> /\ VistoNoPassado /\ PisoNoVisto /\ LidasNovas /\ EntradasNovas /\ DadasNovas
    /\ LeituraMonotona
  BY DEF OrdemInv
<1>p. piso \in [Requests -> 0..MaxMudancas]
  BY DEF TypeInv, OwnTypes
<1>v. \A e \in Empresas : /\ visto[e] <= visto[e] /\ visto[e] <= contrato[e].versao
                          /\ contrato[e].versao <= contrato[e].versao
                          /\ items[e] # None => visto[e] <= items[e].value.data.versao
  BY Versoes DEF VistoNoPassado, EntradasNovas
<1>l. \A c \in Requests : Leu(c) => visto[key[c]] <= VersaoLida(c)
  BY DEF LidasNovas
<1>d. \A c \in Requests : Respondida(c) => piso[c] <= VersaoDada(c)
  BY DEF DadasNovas
<1>m. \A c \in Requests : Decidida(c) /\ ret[c].err = "nil" => piso[c] <= ret[c].value.data.versao
  BY AlreadyTold
\* The cache answers: nothing newer is on its way, and no query is sent.
<1>1. ASSUME NEW c \in Requests, NEW e \in Empresas, RespondeDoCache(c, e) PROVE OrdemInv'
  <2>1. /\ UNCHANGED <<items, calls, pc, pending, contrato, lido>>
        /\ pc[c] = "idle" /\ key'[c] = e /\ items[e] # None /\ piso'[c] = visto[e]
        /\ ret'[c] = [value |-> items[e].value, ttl |-> 0, err |-> "nil"]
        /\ \A d \in Requests \ {c} : key'[d] = key[d] /\ ret'[d] = ret[d] /\ piso'[d] = piso[d]
        /\ Informa(e, ret'[c])
    BY <1>1, <1>p, CacheTypes
       DEF RespondeDoCache, Comeca, Cache!LoadHit, Cache!Live, Cache!Enter, Cache!Returns
  <2>2. Resposta(ret'[c])
    BY <2>1, EntriesHeld DEF Resposta
  <2>3. \A j \in Empresas : /\ visto[j] <= visto'[j]
                            /\ \/ visto'[j] = visto[j]
                               \/ j = e /\ visto'[j] = items[e].value.data.versao
    BY <2>1, <2>2, InformaEffect
  <2>4. items[e].value.data.versao <= items[e].value.data.versao
    BY <2>1, Versoes
  <2>5. \A j \in Empresas : /\ visto'[j] <= contrato[j].versao
                            /\ items[j] # None => visto'[j] <= items[j].value.data.versao
    BY <1>v, <2>1, <2>3, <2>4 DEF EntradasNovas
  <2>6. \A d \in Requests : /\ Leu(d)' => /\ d # c /\ Leu(d) /\ VersaoLida(d)' = VersaoLida(d)
                                          /\ Cache!InLoad(d)
                            /\ Respondida(d)' => /\ d # c /\ Respondida(d)
                                                 /\ VersaoDada(d)' = VersaoDada(d)
                            /\ Cache!InLoad(d)' => d # c /\ Cache!InLoad(d)
                            /\ d # c => (Decidida(d)' <=> Decidida(d))
    BY <2>1 DEF Leu, VersaoLida, Respondida, VersaoDada, Resultado, Cache!InLoad, Decidida
  <2>7. \A d \in Requests : Leu(d)' => visto'[key[d]] <= VersaoLida(d)
    <3>1. \A d \in Requests : Leu(d)' => key[d] # e /\ key[d] \in Empresas
      BY <2>1, <2>6, KeyOfCaller DEF EntradasNovas, TypeInv, Leu
    <3>2. QED
      BY <1>l, <2>3, <2>6, <3>1
  <2>8. piso'[c] <= ret'[c].value.data.versao
    BY <1>v, <2>1
  <2>9. QED
    BY <1>d, <1>m, <1>v, <2>1, <2>3, <2>5, <2>6, <2>7, <2>8, OrderKept
\* A request joins a query whose answer nobody has yet.
<1>2. ASSUME NEW c \in Requests, NEW e \in Empresas, EsperaConsulta(c, e) PROVE OrdemInv'
  <2>1. /\ UNCHANGED <<calls, ret, contrato, lido, visto>>
        /\ pc[c] = "idle" /\ pc'[c] = "waiting" /\ key'[c] = e /\ piso'[c] = visto[e]
        /\ inflight[e] # None /\ pending'[c] = inflight[e]
        /\ \A d \in Requests \ {c} : /\ pc'[d] = pc[d] /\ key'[d] = key[d] /\ piso'[d] = piso[d]
                                      /\ pending'[d] = pending[d]
        /\ \A j \in Empresas : items'[j] = items[j] \/ items'[j] = None
    BY <1>2, <1>p, CacheTypes
       DEF EsperaConsulta, Comeca, Cache!LoadJoin, Cache!InFlight, Cache!Enter, Cache!Goto,
           Cache!AfterGet
  <2>2. /\ ~calls[inflight[e]].done
        /\ \A d \in Requests : Respondida(d) => pending[d] # inflight[e]
    BY <2>1, FlightIsOpen
  <2>3. \A d \in Requests : /\ Leu(d)' => d # c /\ Leu(d) /\ VersaoLida(d)' = VersaoLida(d)
                            /\ Respondida(d)' => /\ d # c /\ Respondida(d)
                                                 /\ VersaoDada(d)' = VersaoDada(d)
                            /\ Cache!InLoad(d)' => d # c /\ Cache!InLoad(d)
                            /\ Decidida(d)' => d # c /\ Decidida(d)
    BY <2>1, <2>2 DEF Leu, VersaoLida, Respondida, VersaoDada, Resultado, Cache!InLoad, Decidida
  <2>4. QED
    BY <1>d, <1>l, <1>m, <1>v, <2>1, <2>2, <2>3, OrderKept
\* A request sends a query: there is no entry, and its call is nobody else's.
<1>3. ASSUME NEW c \in Requests, NEW e \in Empresas, Consulta(c, e) PROVE OrdemInv'
  <2>1. PICK i \in Calls :
           /\ \A d \in Requests : pending[d] # i
           /\ calls' = [calls EXCEPT ![i] = Cache!NewCall]
           /\ pending' = [pending EXCEPT ![c] = i]
    BY <1>3 DEF Consulta, Cache!LoadLead
  <2>2. /\ UNCHANGED <<ret, contrato, lido, visto>>
        /\ pc[c] = "idle" /\ pc'[c] = "loading" /\ key'[c] = e /\ piso'[c] = visto[e]
        /\ \A d \in Requests \ {c} : pc'[d] = pc[d] /\ key'[d] = key[d] /\ piso'[d] = piso[d]
        /\ \A j \in Empresas : items'[j] = items[j] \/ items'[j] = None
        /\ items'[e] = None
    BY <1>3, <1>p, CacheTypes
       DEF Consulta, Comeca, Cache!LoadLead, Cache!Enter, Cache!Goto, Cache!AfterGet, Cache!Live
  <2>3. \A d \in Requests \ {c} : pending'[d] = pending[d] /\ calls'[pending[d]] = calls[pending[d]]
    BY <2>1, CacheTypes
  <2>4. lido[c] = None
    BY <2>2 DEF ConsultaEmPrazo
  <2>5. \A d \in Requests : /\ Leu(d)' => d # c /\ Leu(d) /\ VersaoLida(d)' = VersaoLida(d)
                            /\ Respondida(d)' => /\ d # c /\ Respondida(d)
                                                 /\ VersaoDada(d)' = VersaoDada(d)
                            /\ Cache!InLoad(d)' => d = c \/ Cache!InLoad(d)
                            /\ Decidida(d)' => d # c /\ Decidida(d)
    BY <2>2, <2>3, <2>4
       DEF Leu, VersaoLida, Respondida, VersaoDada, Resultado, Cache!InLoad, Decidida
  <2>6. QED
    BY <1>d, <1>l, <1>m, <1>v, <2>2, <2>3, <2>5, OrderKept
\* The service reads the contract as it is now.
<1>4. ASSUME NEW c \in Requests, ServicoLe(c) PROVE OrdemInv'
  <2>1. /\ UNCHANGED <<items, calls, pc, key, pending, ret, contrato, visto, piso>>
        /\ pc[c] = "loading" /\ lido'[c].versao = contrato[key[c]].versao
        /\ \A d \in Requests \ {c} : lido'[d] = lido[d]
    BY <1>4, CacheTypes DEF ServicoLe, cacheVars, historyVars
  <2>2. \A d \in Requests : /\ Leu(d)' => IF d = c THEN VersaoLida(c)' = contrato[key[c]].versao
                                          ELSE Leu(d) /\ VersaoLida(d)' = VersaoLida(d)
                            /\ Respondida(d)' => Respondida(d) /\ VersaoDada(d)' = VersaoDada(d)
                            /\ Cache!InLoad(d)' => Cache!InLoad(d)
                            /\ Decidida(d)' => Decidida(d)
    BY <2>1 DEF Leu, VersaoLida, Respondida, VersaoDada, Resultado, Cache!InLoad, Decidida
  <2>3. QED
    BY <1>d, <1>l, <1>m, <1>v, <2>1, <2>2, OrderKept
<1>5. ASSUME NEW c \in Requests, ConsultaResponde(c) \/ ConsultaFalha(c) PROVE OrdemInv'
  <2>1. /\ UNCHANGED <<items, calls, key, pending, contrato, visto, piso>>
        /\ pc[c] = "loading" /\ pc'[c] = "returned"
        /\ ret'[c].err = "nil" => lido[c] # None /\ ret'[c].value.data = lido[c]
        /\ \A d \in Requests \ {c} : pc'[d] = pc[d] /\ lido'[d] = lido[d] /\ ret'[d] = ret[d]
    BY <1>5, CacheTypes
       DEF ConsultaResponde, ConsultaFalha, Cache!LoadReturns, Cache!Goto, Cache!Returns, historyVars
  <2>2. \A d \in Requests : /\ Leu(d)' => Leu(d) /\ VersaoLida(d)' = VersaoLida(d)
                            /\ Respondida(d)' => Respondida(d) /\ VersaoDada(d)' = VersaoDada(d)
                            /\ Cache!InLoad(d)' => Cache!InLoad(d)
                            /\ Decidida(d)' => d # c /\ Decidida(d)
    BY <2>1 DEF Leu, VersaoLida, Respondida, VersaoDada, Resultado, Cache!InLoad, Decidida
  <2>3. QED
    BY <1>d, <1>l, <1>m, <1>v, <2>1, <2>2, OrderKept
<1>6. ASSUME NEW c \in Requests, Conclui(c) PROVE OrdemInv'
  <2>1. UNCHANGED <<contrato, lido, piso>>
    BY <1>6 DEF Conclui
  <2>2. CASE Cache!Settle(c) /\ UNCHANGED visto
    BY <2>1, <2>2, OrderKeptBySettle
  <2>3. CASE Cache!Publish(c) /\ UNCHANGED visto
    <3>1. /\ UNCHANGED <<items, key, pending, ret>>
          /\ pc[c] = "settled" /\ pc'[c] = "published"
          /\ \A d \in Requests \ {c} : pc'[d] = pc[d]
          /\ \A i \in Calls \ {pending[c]} : calls'[i] = calls[i]
          /\ pending[c] \in Calls => calls'[pending[c]].done = calls[pending[c]].done
      BY <2>3, CacheTypes DEF Cache!Publish, Cache!Goto, Proved!Call
    <3>2. /\ ~calls[pending[c]].done /\ pending[c] \in Calls
          /\ \A d \in Requests : pc[d] = "waiting" => pending[d] \in Calls
      BY <3>1, WaiterOfLeader DEF Proved!Leading, TypeInv, Proved!TypeInv, Proved!Engaged
    <3>3. \A d \in Requests : /\ Leu(d)' => Leu(d) /\ VersaoLida(d)' = VersaoLida(d)
                              /\ Respondida(d)' => Respondida(d) /\ VersaoDada(d)' = VersaoDada(d)
                              /\ Cache!InLoad(d)' => Cache!InLoad(d)
                              /\ Decidida(d)' => Decidida(d)
      BY <2>1, <3>1, <3>2
         DEF Leu, VersaoLida, Respondida, VersaoDada, Resultado, Cache!InLoad, Decidida
    <3>4. QED
      BY <1>d, <1>l, <1>m, <1>v, <2>1, <2>3, <3>1, <3>3, OrderKept
  <2>4. CASE Cache!CloseDone(c) /\ Informa(key[c], ret[c])
    <3>1. /\ UNCHANGED <<items, key, ret>>
          /\ pc[c] = "published" /\ pc'[c] = "idle"
          /\ \A d \in Requests \ {c} : pc'[d] = pc[d] /\ pending'[d] = pending[d]
          /\ \A i \in Calls \ {pending[c]} : calls'[i] = calls[i]
          /\ pending[c] \in Calls => /\ calls'[pending[c]].value = calls[pending[c]].value
                                     /\ calls'[pending[c]].err = calls[pending[c]].err
      BY <2>4, CacheTypes DEF Cache!CloseDone, Cache!Goto, Proved!Call
    <3>2. Proved!Leading(c) /\ key[c] \in Empresas /\ Resposta(ret[c])
      BY <3>1, KeyOfCaller, AnswersHeld DEF TypeInv, Proved!Leading
    <3>3. /\ calls[pending[c]].value = ret[c].value /\ calls[pending[c]].err = ret[c].err
          /\ pending[c] \in Calls /\ \A d \in Requests : pc[d] = "waiting" => pending[d] \in Calls
          /\ \A d \in Requests : pc[d] = "waiting" /\ pending[d] = pending[c] => key[d] = key[c]
      BY <3>1, <3>2, WaiterOfLeader
         DEF TypeInv, Proved!FlightInv, Proved!LeaderState, Proved!TypeInv, Proved!Engaged
    <3>4. /\ ret[c].err = "nil" => Respondida(c)
          /\ VersaoDada(c) = ret[c].value.data.versao
      BY <3>1 DEF Respondida, VersaoDada, Resultado
    <3>5. \A j \in Empresas :
             /\ visto[j] <= visto'[j]
             /\ \/ visto'[j] = visto[j]
                \/ j = key[c] /\ Respondida(c) /\ visto'[j] = VersaoDada(c)
      BY <2>4, <3>2, <3>4, InformaEffect
    <3>6. /\ \A j \in Empresas : /\ visto'[j] <= contrato[j].versao
                                 /\ items[j] # None => visto'[j] <= items[j].value.data.versao
          /\ \A d \in Requests : Leu(d) => visto'[key[d]] <= VersaoLida(d)
      BY <3>2, <3>5, ToldInOrder
    <3>7. \A d \in Requests : /\ Leu(d)' => Leu(d) /\ VersaoLida(d)' = VersaoLida(d)
                              /\ Cache!InLoad(d)' => Cache!InLoad(d)
                              /\ Decidida(d)' => d = c \/ Decidida(d)
                              /\ pc'[d] = "waiting" => d # c /\ pc[d] = "waiting"
      BY <2>1, <3>1 DEF Leu, VersaoLida, Cache!InLoad, Decidida
    <3>8. ASSUME NEW d \in Requests, Respondida(d)'
          PROVE  \E s \in Requests :
                    /\ Respondida(s) /\ VersaoDada(d)' = VersaoDada(s) /\ key'[d] = key[s]
                    /\ pending'[d] = pending[s] /\ piso'[d] <= VersaoDada(s)
      <4>1. d # c
        BY <3>1, <3>8 DEF Respondida
      <4>2. CASE pc[d] = "waiting" /\ pending[d] = pending[c]
        <5>1. Respondida(c) /\ VersaoDada(d)' = VersaoDada(c)
          BY <3>1, <3>3, <3>8, <4>1, <4>2 DEF Respondida, VersaoDada, Resultado
        <5>2. key'[d] = key[c] /\ pending'[d] = pending[c] /\ piso'[d] <= VersaoDada(c)
          BY <2>1, <3>1, <3>3, <4>1, <4>2, <5>1 DEF DadasNovas
        <5>3. QED
          BY <5>1, <5>2
      <4>3. CASE ~(pc[d] = "waiting" /\ pending[d] = pending[c])
        <5>1. Respondida(d) /\ VersaoDada(d)' = VersaoDada(d)
          BY <3>1, <3>3, <3>8, <4>1, <4>3 DEF Respondida, VersaoDada, Resultado
        <5>2. QED
          BY <1>d, <2>1, <3>1, <4>1, <5>1
      <4>4. QED
        BY <4>2, <4>3
    <3>9. ret'[c].err = "nil" => piso'[c] <= ret'[c].value.data.versao
      BY <1>d, <2>1, <3>1, <3>4
    <3>10. QED
      BY <1>m, <1>v, <2>1, <3>1, <3>5, <3>6, <3>7, <3>8, <3>9, OrderKept
  <2>5. QED
    BY <1>6, <2>2, <2>3, <2>4 DEF Conclui
<1>7. ASSUME NEW c \in Requests, EsperaTermina(c) PROVE OrdemInv'
  <2>1. /\ UNCHANGED <<items, calls, key, contrato, lido, piso>>
        /\ pc[c] = "waiting" /\ pc'[c] = "idle"
        /\ \A d \in Requests \ {c} : /\ pc'[d] = pc[d] /\ pending'[d] = pending[d]
                                      /\ ret'[d] = ret[d]
        /\ Informa(key[c], ret'[c])
    BY <1>7, CacheTypes
       DEF EsperaTermina, Cache!WaiterReceives, Cache!WaiterGivesUp, Cache!Goto, Cache!Returns
  <2>2. ret'[c].err = "nil" => Respondida(c) /\ VersaoDada(c) = ret'[c].value.data.versao
    BY <1>7, <2>1, CacheTypes
       DEF EsperaTermina, Cache!WaiterReceives, Cache!WaiterGivesUp, Cache!Returns, Respondida,
           VersaoDada, Resultado
  <2>3. key[c] \in Empresas /\ Resposta(ret'[c])
    <3>1. ret'[c].err = "nil" => /\ ret'[c].value = calls[pending[c]].value
                                 /\ calls[pending[c]].done /\ calls[pending[c]].err = "nil"
      BY <1>7, CacheTypes
         DEF EsperaTermina, Cache!WaiterReceives, Cache!WaiterGivesUp, Cache!Returns
    <3>2. QED
      BY <2>1, <3>1, KeyOfCaller, AnswersHeld DEF TypeInv, Resposta
  <2>4. \A j \in Empresas :
           /\ visto[j] <= visto'[j]
           /\ \/ visto'[j] = visto[j]
              \/ j = key[c] /\ Respondida(c) /\ visto'[j] = VersaoDada(c)
    BY <2>1, <2>2, <2>3, InformaEffect
  <2>5. /\ \A j \in Empresas : /\ visto'[j] <= contrato[j].versao
                               /\ items[j] # None => visto'[j] <= items[j].value.data.versao
        /\ \A d \in Requests : Leu(d) => visto'[key[d]] <= VersaoLida(d)
    BY <2>3, <2>4, ToldInOrder
  <2>6. \A d \in Requests : /\ Leu(d)' => Leu(d) /\ VersaoLida(d)' = VersaoLida(d)
                            /\ Respondida(d)' => /\ d # c /\ Respondida(d)
                                                 /\ VersaoDada(d)' = VersaoDada(d)
                            /\ Cache!InLoad(d)' => Cache!InLoad(d)
                            /\ Decidida(d)' => d = c \/ Decidida(d)
    BY <2>1 DEF Leu, VersaoLida, Respondida, VersaoDada, Resultado, Cache!InLoad, Decidida
  <2>7. ret'[c].err = "nil" => piso'[c] <= ret'[c].value.data.versao
    BY <1>d, <2>1, <2>2
  <2>8. QED
    BY <1>d, <1>m, <1>v, <2>1, <2>4, <2>5, <2>6, <2>7, OrderKept
<1>8. ASSUME NEW c \in Requests, CancelaContexto(c) PROVE OrdemInv'
  <2>1. UNCHANGED <<items, calls, pc, key, pending, ret, contrato, lido, visto, piso>>
    BY <1>8 DEF CancelaContexto, Cache!CancelContext, historyVars
  <2>2. QED
    BY <1>v, <2>1, OrderKeptElsewhere
<1>9. ASSUME NEW e \in Empresas, Invalidar(e) PROVE OrdemInv'
  <2>1. /\ UNCHANGED <<calls, pc, key, pending, ret, contrato, lido, visto, piso>>
        /\ \A j \in Empresas : items'[j] = items[j] \/ items'[j] = None
    BY <1>9 DEF Invalidar, Cache!Delete, Cache!DeleteFunc, Cache!ExceptItems, historyVars
  <2>2. QED
    BY <1>v, <2>1, OrderKeptElsewhere
<1>10. ASSUME NEW e \in Empresas, Muda(e) PROVE OrdemInv'
  <2>1. /\ UNCHANGED <<items, calls, pc, key, pending, ret, lido, visto, piso>>
        /\ contrato'[e].versao = contrato[e].versao + 1
        /\ \A j \in Empresas \ {e} : contrato'[j] = contrato[j]
    BY <1>10 DEF Muda, cacheVars, historyVars, TypeInv, OwnTypes
  <2>2. \A j \in Empresas : contrato[j].versao <= contrato'[j].versao
    BY <2>1, Versoes
  <2>3. QED
    BY <2>1, <2>2, OrderKeptElsewhere
<1>11. ASSUME Tick \/ UNCHANGED vars PROVE OrdemInv'
  <2>1. UNCHANGED <<items, calls, pc, key, pending, ret, contrato, lido, visto, piso>>
    BY <1>11 DEF Tick, Cache!Tick, vars, cacheVars, historyVars
  <2>2. QED
    BY <1>v, <2>1, OrderKeptElsewhere
<1>12. QED
  BY <1>1, <1>2, <1>3, <1>4, <1>5, <1>6, <1>7, <1>8, <1>9, <1>10, <1>11 DEF Next

\* What requests are told of a company never goes back in time, however many requests there
\* are, whatever is cached, shared, late or invalidated (ContratoAtivo over Load).
THEOREM ReadingsNeverGoBack == Spec => []LeituraMonotona
<1>1. PrazoInv => ConsultaEmPrazo
  BY DEF PrazoInv
<1>2. OrdemInv => LeituraMonotona
  BY DEF OrdemInv
<1>3. QED
  BY TypeInvNext, PrazoInvariant, OrdemInvInit, OrdemInvNext, <1>1, <1>2, PTL DEF Spec
=============================================================================
