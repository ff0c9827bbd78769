------------------------------- MODULE Authz --------------------------------
(***************************************************************************)
(* authz.HTTPChecker: what autenticacao-service said of a user's           *)
(* permissions is kept in a TTLCache keyed by user and token, except for   *)
(* support sessions, which ask again every time.                           *)
(*                                                                         *)
(* One permission stands for the map of all of them.  An answer is         *)
(* [concede, versao]: versao is history, the number of changes the user's  *)
(* permissions had gone through when the service read them.                *)
(***************************************************************************)
EXTENDS Integers, FiniteSets

CONSTANTS
    Requests,           \* goroutines serving requests of ordinary sessions
    Suportes,           \* goroutines serving requests of support sessions
    Usuarios, Tokens,
    Capacity,           \* CapacidadeCache
    TTLPermissoes,      \* TTLCache
    Timeout,            \* of the HTTP client
    Calls,
    MaxTime,            \* bound on the clock
    MaxMudancas,        \* bound on the changes of each user's permissions
    None, Zero

VARIABLES
    now, items, inflight, calls, pc, key, pending, ret, ctxDone,    \* the cache
    permissao,      \* autenticacao-service: [concede, versao, desde] of each user
    lido,           \* the answer on its way back to each request, or None
    inicio,         \* when each request sent its query
    exigida,        \* history: version of the user's permissions at the last
                    \* Invalidar that no query of that user overlapped
    sessao          \* each support session: [usuario, consultando, lido, piso]

\* chaveCache: one entry for each user and token.
Chave == Usuarios \X Tokens

Resposta == [concede : BOOLEAN, versao : 0..MaxMudancas]

Cache == INSTANCE TTLCache
             WITH Callers <- Requests, Keys <- Chave, Payloads <- Resposta,
                  TTLs <- {0, TTLPermissoes}

\* TTLCache, CapacidadeCache and the timeout are positive constants of the code.
ASSUME AuthzAssumption ==
    /\ IsFiniteSet(Usuarios) /\ IsFiniteSet(Tokens)
    /\ Capacity \in Int /\ {TTLPermissoes, Timeout} \subseteq Nat \ {0}
    /\ {MaxTime, MaxMudancas} \subseteq Nat
    /\ None \notin Calls \cup Resposta
    /\ None \notin [value : [key : Chave, data : Resposta], expiresAt : Int]

cacheVars == <<now, items, inflight, calls, pc, key, pending, ret, ctxDone>>
vars == <<cacheVars, permissao, lido, inicio, exigida, sessao>>

-----------------------------------------------------------------------------
Init ==
    /\ Cache!Init
    /\ permissao \in [Usuarios -> {[concede |-> b, versao |-> 0, desde |-> 0] : b \in BOOLEAN}]
    /\ lido = [c \in Requests |-> None]
    /\ inicio = [c \in Requests |-> 0]
    /\ exigida = [u \in Usuarios |-> 0]
    /\ sessao \in [Suportes -> {[usuario |-> u, consultando |-> FALSE, lido |-> None, piso |-> 0] :
                                  u \in Usuarios}]

\* TemPermissao of an ordinary session: cached, shared or asked.
TemPermissao(c, k) ==
    /\ \/ Cache!LoadHit(c, k) /\ UNCHANGED inicio
       \/ Cache!LoadJoin(c, k) /\ UNCHANGED inicio
       \/ Cache!LoadLead(c, k) /\ inicio' = [inicio EXCEPT ![c] = now]
    /\ UNCHANGED <<permissao, lido, exigida, sessao>>

\* What autenticacao-service answers about u at this moment.
Atual(u) == [concede |-> permissao[u].concede, versao |-> permissao[u].versao]

ServicoLe(c) ==
    /\ pc[c] = "loading"
    /\ lido[c] = None
    /\ lido' = [lido EXCEPT ![c] = Atual(key[c][1])]
    /\ UNCHANGED <<cacheVars, permissao, inicio, exigida, sessao>>

\* The load of c ends with value v, ttl and error e.
Termina(c, v, ttl, e) ==
    /\ Cache!LoadReturns(c, v, ttl, e)
    /\ lido' = [lido EXCEPT ![c] = None]
    /\ UNCHANGED <<permissao, inicio, exigida, sessao>>

ConsultaResponde(c) ==
    /\ lido[c] # None
    /\ Termina(c, [key |-> key[c], data |-> lido[c]], TTLPermissoes, "nil")

\* A response with sucesso = false grants nothing and is not an error ...
TtlSemSucesso == 0
ConsultaSemSucesso(c) ==
    /\ lido[c] # None
    /\ Termina(c, [key |-> key[c], data |-> [lido[c] EXCEPT !.concede = FALSE]],
               TtlSemSucesso, "nil")

\* Mutant of ConsultaFalha: the error is swallowed, and what was decoded so far is kept.
ConsultaFalhaSemErro(c) == Termina(c, Zero, TTLPermissoes, "nil")

\* ... unlike a timeout, a cancelled context, a bad status or body.
ConsultaFalha(c) == Termina(c, Zero, 0, "load")

\* The deferred function of Load, and the other ways out of Load.
Prossegue(c) ==
    /\ \/ Cache!Settle(c) \/ Cache!Publish(c) \/ Cache!CloseDone(c)
       \/ Cache!WaiterReceives(c) \/ Cache!WaiterGivesUp(c) \/ Cache!CancelContext(c)
    /\ UNCHANGED <<permissao, lido, inicio, exigida, sessao>>

\* Mutant of SuportePergunta: the support session takes the cached answer.
SuportePerguntaAoCache(s) ==
    /\ \E t \in Tokens :
          /\ Cache!Live(<<sessao[s].usuario, t>>)
          /\ sessao' = [sessao EXCEPT ![s].piso = permissao[sessao[s].usuario].versao,
                                      ![s].lido = items[<<sessao[s].usuario, t>>].value.data]
    /\ UNCHANGED <<cacheVars, permissao, lido, inicio, exigida>>

\* TemPermissao of a support session: no cache, no sharing, its own query.
SuportePergunta(s) ==
    /\ ~sessao[s].consultando
    /\ sessao' = [sessao EXCEPT ![s].consultando = TRUE,
                                ![s].lido = None,
                                ![s].piso = permissao[sessao[s].usuario].versao]
    /\ UNCHANGED <<cacheVars, permissao, lido, inicio, exigida>>

\* The query of a support session is answered, or fails and leaves no answer.
SuporteTermina(s) ==
    /\ sessao[s].consultando
    /\ \E r \in {None, Atual(sessao[s].usuario)} :
          sessao' = [sessao EXCEPT ![s].consultando = FALSE, ![s].lido = r]
    /\ UNCHANGED <<cacheVars, permissao, lido, inicio, exigida>>

\* Mutant of EntradasDe: only one token's entry is matched.
EntradasDeUmToken(u) == {CHOOSE k \in Chave : k[1] = u}

EntradasDe(u) == {k \in Chave : k[1] = u}

Invalidar(u) ==
    /\ Cache!DeleteFunc(EntradasDe(u))
    /\ exigida' = IF \E c \in Requests : Cache!InLoad(c) /\ key[c][1] = u
                  THEN exigida
                  ELSE [exigida EXCEPT ![u] = permissao[u].versao]
    /\ UNCHANGED <<permissao, lido, inicio, sessao>>

\* The role of u changes at autenticacao-service.
Muda(u) ==
    /\ permissao[u].versao < MaxMudancas
    /\ permissao' = [permissao EXCEPT ![u] = [concede |-> ~@.concede,
                                              versao |-> @.versao + 1,
                                              desde |-> now]]
    /\ UNCHANGED <<cacheVars, lido, inicio, exigida, sessao>>

\* As in Assinatura: a query ends within Timeout, what can run has run.
Tick ==
    /\ Cache!Tick
    /\ \A c \in Requests :
          /\ pc[c] = "loading" => now < inicio[c] + Timeout
          /\ pc[c] \notin {"returned", "settled", "published"}
          /\ pc[c] = "waiting" => ~calls[pending[c]].done
    /\ UNCHANGED <<permissao, lido, inicio, exigida, sessao>>

Next ==
    \/ \E c \in Requests :
          \/ \E k \in Chave : TemPermissao(c, k)
          \/ ServicoLe(c) \/ ConsultaResponde(c) \/ ConsultaSemSucesso(c)
          \/ ConsultaFalha(c) \/ Prossegue(c)
    \/ \E s \in Suportes : SuportePergunta(s) \/ SuporteTermina(s)
    \/ \E u \in Usuarios : Invalidar(u) \/ Muda(u)
    \/ Tick

Spec == Init /\ [][Next]_vars

-----------------------------------------------------------------------------
\* Type invariant.
TypeOK ==
    /\ Cache!TypeOK
    /\ permissao \in [Usuarios -> [concede : BOOLEAN, versao : 0..MaxMudancas, desde : 0..MaxTime]]
    /\ lido \in [Requests -> Resposta \cup {None}]
    /\ inicio \in [Requests -> 0..MaxTime]
    /\ exigida \in [Usuarios -> 0..MaxMudancas]
    /\ sessao \in [Suportes -> [usuario : Usuarios, consultando : BOOLEAN,
                                lido : Resposta \cup {None}, piso : 0..MaxMudancas]]

\* A usable entry that disagrees with the service, in either direction, does so
\* only for TTLPermissoes plus one query after the change: a revocation takes
\* effect, and no passing empty answer keeps denying what is granted.
CacheAcompanhaServico ==
    \A k \in Chave :
        Cache!Live(k) /\ items[k].value.data.concede # permissao[k[1]].concede
            => now - permissao[k[1]].desde < TTLPermissoes + Timeout

\* A support session is answered with what the service says after it asked: a
\* revocation holds from its very next request on.
SuporteRevalida ==
    \A s \in Suportes : sessao[s].lido # None => sessao[s].lido.versao >= sessao[s].piso

\* Permissions are as current as the kind of token demands: cached for two minutes at most, or
\* asked anew for a support session.  The two minutes are the checker's own comment
\* (http_checker.go:23-34); the interface it stands behind claims more, see AlteracaoImediata.
PermissoesAtuais == CacheAcompanhaServico /\ SuporteRevalida

\* "a checagem é feita ao vivo [...], então alterações de cargo têm efeito imediato, sem depender
\* de refresh de token" (auth/permissao.go:17-19): what an ordinary session that asks now is told
\* from the cache is what the service says now.
AlteracaoImediata ==
    \A k \in Chave :
        Cache!Live(k) => items[k].value.data.concede = permissao[k[1]].concede

\* Unless a query about the user was running when Invalidar was called, nothing
\* older than that call is in the cache afterwards, under any of the user's
\* tokens, whatever answers arrive later.
InvalidarAlcancaTodosOsTokens ==
    \A k \in Chave : items[k] # None => items[k].value.data.versao >= exigida[k[1]]
=============================================================================
