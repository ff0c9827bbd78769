----------------------------- MODULE Assinatura -----------------------------
(***************************************************************************)
(* assinatura: the middleware RequerContratoAtivo and the HTTPChecker it   *)
(* asks, which keeps what cliente-service said of each company's contract  *)
(* in a TTLCache.  Requests run concurrently; contracts change at          *)
(* cliente-service whenever they like; Invalidar may be called at any time.*)
(*                                                                         *)
(* An answer is [ativo, versao, epoca]: ativo is what the service said;    *)
(* versao and epoca are history the code does not have, namely how many    *)
(* times the contract had changed, and how many calls of Invalidar had     *)
(* returned, when the service read it.                                     *)
(***************************************************************************)
EXTENDS Integers, FiniteSets

CONSTANTS
    Requests,           \* goroutines serving requests that need a contract
    Empresas,
    Capacity,           \* CapacidadeCache
    TTLAtivo,           \* TTLCache
    TTLBloqueado,       \* TTLCacheBloqueado
    Timeout,            \* of the HTTP client
    Calls,
    MaxTime,            \* bound on the clock
    MaxMudancas,        \* bound on the changes of each contract
    MaxInvalidacoes,    \* bound on the calls of Invalidar for each company
    None, Zero

VARIABLES
    now, items, inflight, calls, pc, key, pending, ret, ctxDone,    \* the cache
    contrato,       \* cliente-service: [ativo, versao, desde] of each company
    epoca,          \* history: calls of Invalidar for each company
    lido,           \* the answer on its way back to each request, or None
    inicio,         \* when each request sent its query
    visto,          \* history: newest version any request was told, by company
    piso,           \* history: visto when each request began
    epocaNoInicio   \* history: epoca when each request began

Situacao == [ativo : BOOLEAN, versao : 0..MaxMudancas, epoca : 0..MaxInvalidacoes]

Cache == INSTANCE TTLCache
             WITH Callers <- Requests, Keys <- Empresas, Payloads <- Situacao,
                  TTLs <- {0, TTLAtivo, TTLBloqueado}

\* TTLCache, TTLCacheBloqueado, CapacidadeCache and the timeout are positive constants of the code.
ASSUME AssinaturaAssumption ==
    /\ IsFiniteSet(Empresas)
    /\ Capacity \in Int /\ {TTLAtivo, TTLBloqueado, Timeout} \subseteq Nat \ {0}
    /\ {MaxTime, MaxMudancas, MaxInvalidacoes} \subseteq Nat
    /\ None \notin Calls \cup Situacao \cup Empresas
    /\ None \notin [value : [key : Empresas, data : Situacao], expiresAt : Int]

cacheVars == <<now, items, inflight, calls, pc, key, pending, ret, ctxDone>>
historyVars == <<visto, piso, epocaNoInicio>>
vars == <<cacheVars, contrato, epoca, lido, inicio, historyVars>>

-----------------------------------------------------------------------------
Init ==
    /\ Cache!Init
    /\ contrato \in [Empresas -> {[ativo |-> a, versao |-> 0, desde |-> 0] : a \in BOOLEAN}]
    /\ epoca = [e \in Empresas |-> 0]
    /\ lido = [c \in Requests |-> None]
    /\ inicio = [c \in Requests |-> 0]
    /\ visto = [e \in Empresas |-> 0]
    /\ piso = [c \in Requests |-> 0]
    /\ epocaNoInicio = [c \in Requests |-> 0]

\* History kept when request c begins for company e.
Comeca(c, e) ==
    /\ piso' = [piso EXCEPT ![c] = visto[e]]
    /\ epocaNoInicio' = [epocaNoInicio EXCEPT ![c] = epoca[e]]

\* History kept when a request for company e is told the result r.
Informa(e, r) ==
    visto' = IF r.err = "nil" /\ r.value.data.versao > visto[e]
             THEN [visto EXCEPT ![e] = r.value.data.versao] ELSE visto

\* ContratoAtivo: the answer is in the cache ...
RespondeDoCache(c, e) ==
    /\ Cache!LoadHit(c, e)
    /\ Comeca(c, e)
    /\ Informa(e, ret'[c])
    /\ UNCHANGED <<contrato, epoca, lido, inicio>>

\* ... or is being fetched by another request ...
EsperaConsulta(c, e) ==
    /\ Cache!LoadJoin(c, e)
    /\ Comeca(c, e)
    /\ UNCHANGED <<contrato, epoca, lido, inicio, visto>>

\* ... or this request sends the query.
Consulta(c, e) ==
    /\ Cache!LoadLead(c, e)
    /\ Comeca(c, e)
    /\ inicio' = [inicio EXCEPT ![c] = now]
    /\ UNCHANGED <<contrato, epoca, lido, visto>>

\* cliente-service handles the query.
ServicoLe(c) ==
    LET e == key[c] IN
    /\ pc[c] = "loading"
    /\ lido[c] = None
    /\ lido' = [lido EXCEPT ![c] = [ativo |-> contrato[e].ativo,
                                    versao |-> contrato[e].versao,
                                    epoca |-> epoca[e]]]
    /\ UNCHANGED <<cacheVars, contrato, epoca, inicio, historyVars>>

\* Mutant of Ttl: one ttl for both answers.
TtlSimetrico(ativo) == TTLAtivo

\* Mutant of Ttl: a slip of the unit.
TtlNoutraUnidade(ativo) == 60 * (IF ativo THEN TTLAtivo ELSE TTLBloqueado)

Ttl(ativo) == IF ativo THEN TTLAtivo ELSE TTLBloqueado

\* consultar succeeds: the load returns the answer with its ttl.
ConsultaResponde(c) ==
    /\ lido[c] # None
    /\ Cache!LoadReturns(c, [key |-> key[c], data |-> lido[c]], Ttl(lido[c].ativo), "nil")
    /\ lido' = [lido EXCEPT ![c] = None]
    /\ UNCHANGED <<contrato, epoca, inicio, historyVars>>

\* consultar fails: timeout, context cancelled, transport, status, body.
ConsultaFalha(c) ==
    /\ Cache!LoadReturns(c, Zero, 0, "load")
    /\ lido' = [lido EXCEPT ![c] = None]
    /\ UNCHANGED <<contrato, epoca, inicio, historyVars>>

\* The deferred function of Load, step by step.
Conclui(c) ==
    /\ \/ Cache!Settle(c) /\ UNCHANGED visto
       \/ Cache!Publish(c) /\ UNCHANGED visto
       \/ Cache!CloseDone(c) /\ Informa(key[c], ret[c])
    /\ UNCHANGED <<contrato, epoca, lido, inicio, piso, epocaNoInicio>>

EsperaTermina(c) ==
    /\ Cache!WaiterReceives(c) \/ Cache!WaiterGivesUp(c)
    /\ Informa(key[c], ret'[c])
    /\ UNCHANGED <<contrato, epoca, lido, inicio, piso, epocaNoInicio>>

CancelaContexto(c) ==
    /\ Cache!CancelContext(c)
    /\ UNCHANGED <<contrato, epoca, lido, inicio, historyVars>>

Invalidar(e) ==
    /\ epoca[e] < MaxInvalidacoes
    /\ Cache!Delete(e)
    /\ epoca' = [epoca EXCEPT ![e] = @ + 1]
    /\ UNCHANGED <<contrato, lido, inicio, historyVars>>

\* The contract of e is activated or blocked at cliente-service.
Muda(e) ==
    /\ contrato[e].versao < MaxMudancas
    /\ contrato' = [contrato EXCEPT ![e] = [ativo |-> ~@.ativo,
                                            versao |-> @.versao + 1,
                                            desde |-> now]]
    /\ UNCHANGED <<cacheVars, epoca, lido, inicio, historyVars>>

\* Time passes in units much longer than a goroutine needs to run: a query ends
\* within Timeout, and what can run without waiting for the network has run.
Tick ==
    /\ Cache!Tick
    /\ \A c \in Requests :
          /\ pc[c] = "loading" => now < inicio[c] + Timeout
          /\ pc[c] \notin {"returned", "settled", "published"}
          /\ pc[c] = "waiting" => ~calls[pending[c]].done
    /\ UNCHANGED <<contrato, epoca, lido, inicio, historyVars>>

Next ==
    \/ \E c \in Requests :
          \/ \E e \in Empresas :
                RespondeDoCache(c, e) \/ EsperaConsulta(c, e) \/ Consulta(c, e)
          \/ ServicoLe(c) \/ ConsultaResponde(c) \/ ConsultaFalha(c)
          \/ Conclui(c) \/ EsperaTermina(c) \/ CancelaContexto(c)
    \/ \E e \in Empresas : Invalidar(e) \/ Muda(e)
    \/ Tick

Spec == Init /\ [][Next]_vars

-----------------------------------------------------------------------------
\* RequerContratoAtivo: the request is let through on an error and refused with
\* 402 only on an explicit answer that the contract is not active.
Decidida(c) == pc[c] = "idle" /\ key[c] # None
Recusada(c) == Decidida(c) /\ ret[c].err = "nil" /\ ~ret[c].value.data.ativo

\* Type invariant.
TypeOK ==
    /\ Cache!TypeOK
    /\ contrato \in [Empresas -> [ativo : BOOLEAN, versao : 0..MaxMudancas, desde : 0..MaxTime]]
    /\ epoca \in [Empresas -> 0..MaxInvalidacoes]
    /\ lido \in [Requests -> Situacao \cup {None}]
    /\ inicio \in [Requests -> 0..MaxTime]
    /\ visto \in [Empresas -> 0..MaxMudancas]
    /\ piso \in [Requests -> 0..MaxMudancas]
    /\ epocaNoInicio \in [Requests -> 0..MaxInvalidacoes]

\* A company that pays is not refused from the cache for long: an entry that
\* says "blocked" is usable only while the contract was activated less than
\* TTLBloqueado plus one query ago (ContratoAtivo: the asymmetric ttl).
BloqueioExpiraCedo ==
    \A e \in Empresas :
        Cache!Live(e) /\ ~items[e].value.data.ativo /\ contrato[e].ativo
            => now - contrato[e].desde < TTLBloqueado + Timeout

\* Nor is a blocked company let through from the cache for longer than TTLAtivo
\* plus one query.
LiberacaoExpira ==
    \A e \in Empresas :
        Cache!Live(e) /\ items[e].value.data.ativo /\ ~contrato[e].ativo
            => now - contrato[e].desde < TTLAtivo + Timeout

\* The cache and the contract disagree for a bounded time in either direction, and for the
\* shorter one where a company that pays would be refused.
DiscordanciaLimitada == BloqueioExpiraCedo /\ LiberacaoExpira

\* What requests are told of a company never goes back in time: a request that
\* begins after another one was told of a change is told of it too, or fails,
\* whatever cached, shared or late answers and calls of Invalidar there were.
LeituraMonotona ==
    \A c \in Requests : Decidida(c) /\ ret[c].err = "nil"
        => ret[c].value.data.versao >= piso[c]

\* A request that begins after Invalidar has returned is answered with what the
\* service said after that (http_checker.go:118, http_checker_test.go:145).
InvalidarForcaNovaConsulta ==
    \A c \in Requests : Decidida(c) /\ ret[c].err = "nil"
        => ret[c].value.data.epoca >= epocaNoInicio[c]
=============================================================================
