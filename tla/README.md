# deelp-pkg, specified in TLA+

deelp-pkg is the library that the Go services of the platform share: authentication and
authorisation middlewares, messaging, caches, tenant data export and purge, rate limits,
telemetry. This directory specifies the parts of it that keep state, decide, or are used by many
goroutines or replicas at once, model-checks them with TLC on small instances, and proves with
TLAPS, for every instance, all of the safety that the passing runs check; liveness is model-checked.

Paths below are relative to the repository. Names in the modules are the names of the code,
Portuguese included; where a step of the code has no name, the module gives it one.

    tlc -workers 2 -config TTLCache.cfg MCTTLCache.tla     # any run of PROJECT.json
    tlapm TTLCacheProofs.tla                               # or any other *Proofs.tla

## 1. The system

| Component | State it keeps | Operations | What is hard | What makes it correct |
|---|---|---|---|---|
| `internal/ttlcache` | map with expiry, capacity, calls in flight | `Get` `Set` `Delete` `DeleteFunc` `Load` | goroutines race for a key; the load runs outside the mutex, fails, panics; waiters give up | one load per key; answers belong to their key; capacity; nobody waits for ever |
| `assinatura` (`http_checker.go`, `guarda.go`) | a cache of contract states | `ContratoAtivo` `Invalidar`, middleware | a contract changes while its state is cached, shared or in flight | bounded disagreement, shorter for "blocked"; answers do not go back in time |
| `authz` | a cache of permissions, keyed by user and token | `TemPermissao` `Invalidar` | revocation with several tokens and queries in flight; support sessions bypass the cache | revocations take effect in time; support sessions are asked anew each time |
| `mensageria.GerenciadorConexao` | the connection, callbacks | `IniciarMonitoramento` `OnReconexao` `Close` | losses, failed dials, `Close` and registrations at any moment | one open connection, callbacks get the new one, the monitor repairs losses and returns when told |
| `mensageria.Publisher` | one channel, exchanges declared on it, a buffer of returns | `Publicar` `DeclararExchange` `Close` | confirmation, return, timeout and channel end race; retries | the outcome reported is the true one; no second copy; no leaked channel; every call returns unless a remote call hangs |
| `seguranca.RateLimiter` | visits per IP, in memory or in Redis | `Allow`, middleware, cleanup | windows, concurrency across replicas, fail-open | at most `Limite` in a window, and nobody refused below it |
| `seguranca.IPBlocker` | failures and blocks per IP | `RegistrarFalha` `RegistrarSucesso` `EstaBloqueado` | several Redis commands per operation, each may fail | `MaxTentativas` failures in the window block, only time ends a block |
| `auth` | claims in the context | `Autenticacao` `TenantGuard` permission, channel and read guards, `DerivarTokenAssistente` | a chain of guards in the service's own order; header and cookie; classification by lists | a request is let through only with every condition of its kind of token, and refused only for a reason |
| `tenantdados` | none of its own; deletes from tables, collections, S3 | `Exportar` `Expurgar` in two phases, HTTP client and handlers | failure in the middle, retry over a handler still at work, retained data | retained data stays, master data last, a report that matches what was deleted |
| `observabilidade` collector | providers, the probing goroutine, suppressed warnings | `Iniciar`, `Desligar` | shutdown while probing or installing | what was installed is shut down; `Desligar` returns; a Collector that stays is found |
| `observabilidade` middleware, metrics, redaction | gauges, counters | `MiddlewareHTTP`, `Rotas`, `RodadaTicker` | panics, hijacked connections, copied requests | one record for each request, round and message; the in-flight gauge returns to zero |
| `cache` | Redis | `Set` `Delete` `DeletePattern` | list and delete are two commands | what was there when the keys were listed is gone |
| `consumo` | none | `Intervalo` `FaixasRFC3339` | texts of two offsets at the end of a month | a document counts in its month; a month that is over keeps its count |
| `cmd/deelp-arquitetura` | a baseline file | check, strict check, generate | code and baseline are edited between runs | a passing check means nothing new points outwards |
| start-up: `Conectar` of `postgres`, `mongodb`, `cache`; `mensageria.Conectar`, `DeclararExchange`, `DeclararFila` | what is open; exchanges, queues and bindings of the broker | each opens, checks, closes on error | services that depend on each other's exchanges, restarts | an error leaves nothing open; a service that is up finds its bindings; all come up |
| `dfe`, `telefone`, `resposta`, `xmldsig`, `s3`, `internalauth` | none | pure functions, envelopes, single remote calls | - | - |
| `scripts`, CI | none | development tooling | - | - |

How they interact: the middlewares of `assinatura` and `authz` ask cliente-service and
autenticacao-service over HTTP through the cache, whose `Load` calls back into them;
`auth.Autenticacao` runs before both and puts the claims into the context they read
(`auth.EhSessaoSuporte` is what makes `authz` bypass the cache). A service mounts its guards in
an order of its own: `seguranca.CSRFGuard`, `auth`, the contract's gate and the permission guards. `Publisher` takes its channel
from a `ProvedorCanal`, in the services `GerenciadorConexao.Channel`, and finds a lost
connection only as a channel that is closed or cannot be opened; consumers find out by
`OnReconexao`. `tenantdados/transporte` is called by the orchestrator in cliente-service.

`PROJECT.json` lists under "hazards" what in this code is hard to test, each at its line with the
properties that watch over it; the properties were chosen from that list.

## 2. The modules

| Module | Models | Extends / instantiates |
|---|---|---|
| `TTLCache` | `internal/ttlcache` | - |
| `SingleFlightMap` | what the cache promises, without clock, capacity and goroutines | - |
| `TTLCacheProofs` | the theorems about `TTLCache` | `TTLCache` |
| `Assinatura` | `assinatura.HTTPChecker`, the decision of `RequerContratoAtivo`, cliente-service | `TTLCache` as `Cache` |
| `Authz` | `authz.HTTPChecker`, autenticacao-service | `TTLCache` as `Cache` |
| `AssinaturaProofs`, `AuthzProofs` | the theorems about the two checkers | the checker; `TTLCacheProofs` as `Proved` |
| `Conexao` | `mensageria.GerenciadorConexao` and the connections of amqp091 | - |
| `Publisher` | `mensageria.Publisher`, the channels of amqp091, the broker | `Publicacao` (as a promise) |
| `Publicacao` | what `Publisher` promises its callers: calls that do not disturb each other | - |
| `ConexaoProofs` | the theorems about `Conexao` | `Conexao` |
| `PublisherProofs` | the theorems about `Publisher` | `Publisher` |
| `Ambiente` | a clock, and whether the service has a Redis | - |
| `IPBlocker`, `RateLimiter` | `seguranca`, in memory and over Redis | `Ambiente` |
| `Auth` | the guards of `auth`, `seguranca.CSRFGuard`, the contract's gate, the derived token | `Ambiente` |
| `Medidas` | `observabilidade/http.go`, `ticker.go`, the measuring in `mensageria/consumo.go` | - |
| `CacheRedis` | `cache.CacheService` | `Ambiente` |
| `Consumo` | `consumo` and the counting that uses it | - |
| `Arquitetura` | `cmd/deelp-arquitetura` | - |
| `Coletor` | `observabilidade.Iniciar`, the probing, `Desligar`, `errorHandlerLimitado` | `Ambiente` |
| `TenantDados` | `tenantdados/core`, its handlers and client, an orchestrator | - |
| `Inicializacao` | the connections and declarations of services that start | - |
| `MCPublisher` | the requests of the instances of `Publisher` | `Publisher` |
| `MCTTLCache`, `MCAssinatura`, `MCAuthz` | several instances in one run: `modo` restricts what a behaviour uses | `TTLCache`, `Assinatura`, `Authz` |
| `MCMensageria` | connection and publisher in one run: `parte` says which one a behaviour runs | `MCPublisher`, `Conexao` |
| `TenantDadosProofs` | the theorems about `TenantDados` | `TenantDados` |
| `MCServico`, `MCOperacao` | small components that share nothing in one run: `parte` says which one a behaviour runs | `IPBlocker` to `Arquitetura`; `Coletor` to `Inicializacao` |
| `ServicoProofs` | the theorems about the components of `MCServico`, and about them together | `MCServico` |
| `OperacaoProofs` | the theorems about `Coletor` and `Inicializacao`, and about the three together | `MCOperacao`, `TenantDadosProofs` |

### TTLCache

Every critical section of `Cache.mu` is one action; whatever `Load` does outside the mutex is a
step of its own, because others run in between:

    LoadHit / LoadJoin / LoadLead   the first critical section: hit, wait, or register a call
    LoadReturns / LoadPanics        load ends with (value, ttl, err), or panics (err = errLoadAborted)
    Settle                          the deferred critical section: remove the call, store if err = nil and ttl > 0
    Publish, CloseDone              pending.value, pending.err = value, err; then close(pending.done)
    WaiterReceives / WaiterGivesUp  the select of a waiter: both may be ready, either may be taken
    Set, Get, Delete, DeleteFunc    one critical section each

`Get` and the lookup of `Load` delete an entry they find expired (`AfterGet`). `setLocked` purges
and then evicts the entry that expires soonest; among equals Go's map order decides, so
`MadeRoom` is a set. Call objects are pointers in the code; here a finite set `Calls`, an object
being reused once nobody points to it. A value carries the key it was loaded for, which is how
`AnswerBelongsToKey` can see a mix-up; the code's values do not need it.

`SingleFlightMap` is the promise: a memo that may lose any entry at any time but never invents or
resurrects one, and at most one load per key. `ImplementsSingleFlightMap` maps `memo` to the
entries a `Get` would find now and `loading` to the goroutines between registering and removing
their call, each with its key; the passing of time,
`Delete` and evictions are all losses.

### Assinatura and Authz

Both instantiate `TTLCache` and conjoin its actions with their own state: the service's truth
with a version counter, the answer on its way back, and history. The service reads its truth at
some moment between the query and the answer (`ServicoLe`), which is what makes answers stale.
`Ttl`, `TtlSemSucesso`, `Chave` and `EntradasDe` are the decisions the two files take;
the rest is the cache's. A query fails at any moment (`ConsultaFalha`: timeout, cancelled context
of the leader, status, body), with or without the service having read.

In the real deadlines enters one assumption about speed, in `Tick`: the clock is in units much
longer than a goroutine needs between two steps that do not wait for the network, and a query
ends within `Timeout` (the `http.Client` has one: 5 s and 10 s against ttls of 10 s and 2 min).
Without it no bound on staleness holds in any program.

The query of a support session (`SuportePergunta`, `SuporteTermina`) goes around the cache. The
service's reading and the delivery of the answer are one step there: nothing else can see the
answer in between.

### Conexao

The monitor is one process with a place `monitor`, from reading `g.conn` and registering `NotifyClose` to
the backoff, the dial, the critical section of `conectar` and the callbacks, one step for each
thing another goroutine may come before or after. The connections are external: `ConnectionLost`
gives the error to the registered channel, a `Close` closes it, and `NotifyClose` on a
connection that has already ended closes the channel at once (`NoticeOf`), as the library does.
`Conexao` and `Channel` only read `g.conn` and are not actions.

### Publisher

A task is one call of `Publicar` or `DeclararExchange`. It holds `p.mu` from its first to its last
step, so tasks do not interleave with each other; the steps exist because of what the network,
the broker and the channels do in between. The end of a channel settles its pending
confirmations as not acked and drops the answers under way; the broker may take what was
written before. The remote calls of amqp091 have no deadline, closing a channel among them: the timer ends the
wait (`TimesOut`), and the channel is closed in a step of its own, with `p.mu` still held (`Uncertain`). `Close` is
two steps for the same reason, the mutex taken from the first to the second (`CloseEnds`). `AwaitsBroker` says where a call
waits for an answer that may never come. What the publisher sees of its connection is channels that end, at any time.
Two requests of the instance publish the same `MessageId`, as a producer that sends a fact again
does (`docs/adr/0005-mensageria.md:14`).

`Publicacao` is what a caller may rely on: its message leaves once at most, and each answer says what may
be assumed of it. After `ErrFechado` and the errors of the channel and of a declaration nothing left or ever will, so
publishing again is safe; after `ErrRecusada` and `ErrConfirmacaoIncerta` it may be in a queue; an error of the
write itself leaves that open. `ImplementsPublicacao` maps `copia` to where the bytes of a call are
(`Copia`): not written, under way in some channel, or taken by the broker. What has left may arrive
long after its call is over.

### IPBlocker and RateLimiter

One IP. `IPBlocker` in memory makes an operation one action (`RegistrarFalha`, `RegistrarSucesso`,
`Cleanup`); in Redis a request has an `etapa` and goes through the commands one by one: `Conta`
(INCR), `Expire`, `SetBloqueio`, `DelContador`. `ContaFalha` and the `...SemResposta` actions are
commands that fail with or without having taken effect, `Morre` is the end of a replica between two
commands. A request is admitted (`Admite`) some time before its handler reports. The counter in
memory has no window: `JanelaTentativas` is used in Redis only, and `BloqueioJustificado` says so. Two
exceptions are named in the properties because the code has them: `semPrazo`, a counter whose
EXPIRE was lost and which never expires, and `recusado`, a block that is owed and not set: Redis did not
answer, for then the code lets the request through, or a replica died that had counted enough (`Decidida`).
With `MaxTentativas` = 1 the first count is enough, and a death at its EXPIRE loses the block too. The
histories of both modules are sets of calls, each with its moment and number (`Ambiente!MaisUma`).

`RateLimiter` has `Allow` over the slice of visits, which is filtered in place, and `AllowRedis` over
the script, with `Incrementar` for what it does to the counter and its expiry; `AllowSemResposta` is a
script whose answer is lost. The window in Redis is fixed: a sliding window of the same length meets
two of them, so the bound is twice `Limite` there.

The clock is in units longer than the 200 ms the code gives a Redis command; several commands may
fall into one unit, and time may pass between any two of them.

### Auth

One request with one token goes through the guards in the order of `config`; `passo` is the guard whose turn
it is, `claims` the context. The orders, routes and tokens are small sets chosen so that each
guard decides each way (`Configs`, `Rotas`, `Tokens`); the classification of reads
(`EhRequisicaoDeLeitura`), of the assistant's paths (`CanalPodeChamar`) and the choice between header and
cookie (`TokenAutenticado`, `BearerDoRequest`) are the code's. A checker that cannot answer is one of
`Respostas`. `DerivarTokenAssistente` runs in the handler, and a second request (`par`) comes back with the
token it derived, later. Signatures are a fact about a token. Three functions choose between header and
cookie; that they choose alike is `RepassaOMesmoToken`.

### Medidas

Requests, rounds and messages run at the same time. A request goes through `Chega`, the routing or not
(`Roteia`, `NaoRoteia`, with a request that a middleware copied or not), its end (`Retorna`, `Panica`), and the
deferred `Finaliza` and `Sai`. `padrao` is the pattern in the mux's own request, `referencia` the one `Rotas`
tells the middleware: `RotaDe` takes the second, or the first if the request was not copied. `RodadaTermina` is
the end of a round or a message, in a panic or not.

### CacheRedis

A key is what is under it; `antigas` are, for each `DeletePattern` under way, the keys of the pattern that
held a value when it listed them and still do. Any command may fail, with or without effect.

### Consumo

Time is in hours, months have two and three; a document is written as a Date, or as text with the server's
offset or in UTC. Texts compare by wall clock and then by offset, as strings do. A count is taken at any moment
and as often as the bound allows. Two statements had to be made precise: within the offset of a month's
end a text may also count for the neighbour, and "Recontar sempre dá o mesmo número" holds from the
moment the offset has passed.

### Arquitetura

The state is the code (dependencies, files that do not parse), the baseline, and the last verdict; edits of code
and baseline happen between runs of `Confere` and `GerarBaseline`.

### Coletor

The probing goroutine, the installer (`CriaTraces`, `CriaMetricas`, `Instala`, `FalhaMetricas`) and each
caller of `Desligar` take their own steps; the Collector comes and goes (`ColetorMuda`). `sonda` and `instala` are
where the goroutine is, `pc` where the callers are. Two things are modelled because they are so: an
error while installing ends the probing for good (`coletor.go:86`), and providers that `Iniciar`
installs itself have no lock between two calls of `Desligar`. `Handle` is the warning limiter and shares
nothing with the rest.

### TenantDados

A call of a handler goes from source to source (`NaFonte`): skipped, counted only, deleted at once, or listed
and deleted piece by piece, as S3 does. `Falha` is an error in the middle of it, after which any part of what was to be deleted
may be gone, as with a `DeleteMany` of Mongo. The orchestrator is outside
`src/`: it exports, then purges the movement of all services, then the master data, and repeats what did not
succeed; it may give up (`Desiste`) on a handler that is still at work, and other calls with any key, phase and
`simular` come in between (`Avulsa`). `simular` "true" stands for every text but "false". Nobody writes data of the
tenant while it is purged: it has been deactivated before.

### Inicializacao

A process has a list of things to open and to declare, and is at one of them (`passo`) and somewhere in it (`dentro`).
Every step may fail; `Encerra` closes what earlier calls returned, as a `main` does; `Mata` is a death and
`BrokerReinicia` keeps what is durable, which is everything the library declares.

## 3. The runs

| Run | Question | Instance | Distinct states |
|---|---|---|---|
| `TTLCache` | single flight; faithful answers; capacity; what eviction may drop; waiters are released; refinement of `SingleFlightMap` | three kinds of behaviour over 2 goroutines, 3 keys, room for 2, 2 calls (below) | 347 thousand |
| `AssinaturaCache` | staleness with two ttls; answers do not go back | 2 requests, 2 changes, times 0 to 3, no invalidation; and 2 requests, 2 changes, 1 invalidation, no clock | 855 thousand |
| `AssinaturaInvalidar` | **violated**: a query after `Invalidar` | 2 requests | stops early |
| `AuthzPermissoes` | staleness; `sucesso = false`; support sessions; `Invalidar` reaches all tokens | 1 request at a time under 2 tokens, 1 support session, 2 changes, times 0 to 3; and 2 concurrent requests, 1 change, no clock | 1.6 million |
| `AuthzAlteracaoImediata` | **violated**: a change of permissions takes effect at once | 1 request, 1 change | stops early |
| `Mensageria` | the monitor: one open connection, callbacks, return, repair; the publisher: outcomes and copies (`EntregaFiel`), channels, declarations, returns, every call returns (`PublisherReturns`), refinement of `Publicacao` | 3 connections, 2 callbacks; 2 calls of 4 kinds, 2 channels | 393 thousand |
| `ConexaoPerdaNaoObservada` | **violated**: every loss is repaired | 3 connections, 1 callback | stops early |
| `ConexaoCloseDuranteRecuo` | **violated**: `Close` ends the monitor | 3 connections, 1 callback | stops early |
| `PublisherRecusada` | **violated**: `ErrRecusada` is the broker's word | 2 calls | stops early |
| `Servico` | blocks, limits, the guards, measuring, clearing a cache, counting a month, the layers' ratchet | times 0 to 5, 2 requests, 2 attempts, 4 failures, limit 2, 2 companies, 2 requests and 3 rounds measured, 3 keys and 2 replicas, 2 months and 2 documents, 7 dependencies | 2 million |
| `MedidasRotaPerdida` | **violated**: the route is known whatever copies the request | 1 request | stops early |
| `Operacao` | shutdown of telemetry, purge of a tenant, start-up; that each ends | 2 callers of `Desligar`; 2 services with 2 and 4 sources, 2 calls at once, 2 failures or 1 and a stray call; 2 processes, 3 breakdowns | 114 thousand |

`Mensageria`, `Servico` and `Operacao` run several components, one in each behaviour, for these share no state; the
type invariants of the last two are checked together. Properties are conjunctions of named parts where one promise has several
sides, such as `AcessoCorreto` (nobody gets through who may not, nobody is refused who may); the
parts are stated, each with its comment, in the component's module. `PROJECT.json` names for each
property a faulty variant of the code that breaks it.

Why the bounds are enough. Two goroutines are what every race in `Load` takes: a leader and a waiter, or an old
and a new leader; a third waiter only repeats the second. Two keys show answers crossing over; three keys and
two places are the least where eviction has a choice. `TTLCache` has three kinds of behaviour. One goroutine on
three keys with ttls 0 to 2 and times 0 to 2 is for expiry and eviction (it is not cancelled and its loads
answer, as nobody waits there); both goroutines on one key with ttls 0 and 1 and times 0 and 1 are for waiting,
failing, panicking and giving up; and both on two keys in a single instant, with a third to fill the map, for
loads that race. So races of two keys with a passing clock are not in the run, nor is a capacity below one; the
theorems have both. The clock runs one unit past the longest bound a property states (`TTL + Timeout`). Two
versions of a contract are what going back in time takes, and a flip and a flip back. In `AssinaturaCache` and
`AuthzPermissoes` a behaviour has either the clock or calls of `Invalidar`, since what `Invalidar` promises is
no matter of deadlines: one instant holds every order of queries, changes and invalidations. In
`AuthzPermissoes` two ordinary requests are concurrent in the second kind only, where one of them is not
cancelled: the other, of the same kind, is. A connection is reused once unreferenced, and at most the current,
the watched and the dialled one are referenced: three. `MaxFailures` = 6 is where the backoff has reached its
ceiling. The publisher references the current channel and the one being opened: two. The client's buffer of
returns keeps its real size, 16. In `Servico` two attempts and a limit of two are the least where the count
before the last one is not the first; two requests are an admitted straggler and the one that blocks; the clock
passes two windows, and for the guards the lifetime of a derived token. Of two requests measured one is of any
type, the other an ordinary one, for a request meets the others in the gauge alone. Three keys are one that is
listed, one that is written in between and one outside the pattern. Two months have a boundary with a neighbour
on either side, and the offset (1) is shorter than a month. In `Operacao` two calls at once are the one given up
on and its repetition, two services are what "movement of all before master data of any" takes, and two
processes wait for each other's exchange. `MaxDesvios` = 2 bounds the failures and stray calls of one purge
together: a failure while another call helps, or two failures in a row.

Deadlock is checked everywhere but in the runs of `Publisher` and in `Mensageria`, whose calls are made once
each and then are over, in `Servico` and `MedidasRotaPerdida`, whose requests, clocks and counts come to an end,
and in `Operacao`, where a purge and a shutdown are over in the end; there liveness says that nothing stops
short of it. Symmetry is used in `AssinaturaCache`, `AuthzPermissoes` and two of the runs marked "violated",
which check no liveness, for which it is unsound. `MCMensageria` and `MCTTLCache` instead fix a name where all
would do: which connection is the first, in what order the two requests are given to the calls, which call
object is used first.

### Fairness

- `TTLCache!Fairness`: weak, for the steps of a goroutine that can run, and for the end of the
  load: both checkers load through an HTTP client with a timeout. A waiter is not assumed to be
  cancelled.
- `Conexao!ConexaoFairSpec`: weak for the monitor's own steps (timers fire, dials end, callbacks
  return); strong for returning on a done context, because a Go `select` picks at random among
  the ready cases and the context stays done. Nothing is assumed of the broker; the properties that need it say `<>[]brokerUp`.
- `Publisher!FairSpec`: strong for taking the mutex (`sync.Mutex` hands it over to a waiter that has
  starved), weak for the steps of its holder that do not await the broker, where the deadline of the wait is one. Nothing is
  assumed of the broker: it may leave a publication unconfirmed, and it may leave a remote call (opening or closing a channel,
  confirm mode, a declaration) or a write unanswered for ever, which heartbeats do not prevent. `EveryCallReturns`
  therefore has the premise `NoRemoteCallHangs`; section 4 says what happens without it. In the run it is
  `PublisherReturns`, as only the behaviours of the publisher make calls.
- `ColetorFairness`: weak for the installer, the probe (it dials with a timeout), the ticker and a caller
  of `Desligar` that has begun (the SDK's shutdown has a deadline); strong for `SondaPara`, since `select`
  picks at random among the ready cases and the stop channel stays closed. Nothing is assumed of the Collector.
- `TenantFairness`: weak for a handler's steps, for the disposal of replies nobody waits for, and
  for the orchestrator, which repeats what failed. Failures are bounded by `MaxFalhas`: `Termina` says that
  repetition is enough once they stop.
- `InicializacaoFairness`: weak for the steps of a process, and for its restart after it ended, which the orchestrator
  does (`docs/adr/0004-ciclo-de-vida.md`); breakdowns are bounded by `MaxQuedas`.

## 4. What the runs showed of the code

Six statements of the repository do not hold of the program. The counterexamples are those of
the runs marked "violated".

- `assinatura/http_checker.go:118` and `http_checker_test.go:145`: after `Invalidar`, a new query is
  forced. Not if a query is in flight: it stores its answer afterwards, and requests that begin
  after `Invalidar` wait for it and get it. What does hold of `authz`, where the same can happen, is stated with
  its premise in `InvalidarAlcancaTodosOsTokens`.
- `mensageria/reconexao.go:19`: automatic reconnection. A connection that is lost before the
  monitor registers on it (at the start, or while slow callbacks run) closes the notification
  channel, and the monitor takes that for an orderly `Close` and returns (line 84).
- `mensageria/reconexao.go:146`: the monitor returns after `Close`. Not while it is in its backoff:
  `Close` finds a closed connection and does nothing, and the monitor reconnects.
- `docs/adr/0005-mensageria.md:10`: a nack becomes `ErrRecusada`, a missing confirmation
  `ErrConfirmacaoIncerta`. When the channel ends during the wait, the client library settles the
  confirmation as not acked and `Publicar` answers `ErrRecusada` for a message that may be queued.

- `auth/permissao.go:17`: permissions are checked live, the services that ask over HTTP included, so a changed role takes
  effect at once. An ordinary session is answered from the cache of `authz.HTTPChecker` for two minutes after the last query;
  the checker's own comment (`http_checker.go:31`) knows this. `PermissoesAtuais` is what does hold: the
  lifetime of an entry and one query, and at once for support sessions.
- `observabilidade/http.go:34` and `:98`: the mux tells the middleware the route also when a middleware in between copied the
  request. Not when the handler panics, `http.ErrAbortHandler` included: `Rotas` tells it after `ServeHTTP` and not in a `defer`,
  so the request is recorded as `nao_roteada`. `RotaRegistrada` says exactly when a record has its route.

One more follows from the code without a run. `docs/adr/0005-mensageria.md:10` turns a missing confirmation into
`ErrConfirmacaoIncerta`, and `TempoConfirmacao` (`publisher.go:33`) bounds the wait for it, but not the call:
after the deadline `descartarLocked` closes the channel (`publisher.go:149`, `:224`), a remote call without a
deadline, with `p.mu` held. A broker that answers heartbeats and nothing else, as RabbitMQ may under a memory
alarm, holds that call and everyone who waits for the mutex, whatever their contexts say. That is the premise of
`EveryCallReturns`.

The properties of the passing runs hold on the instances checked, within the premises and exceptions that their comments name.
What they do not reach is listed in section 7.

## 5. What is proved

Every invariant and every safety property of the passing runs is a theorem, for every value of the
constants that their assumptions allow; TLC evaluates these assumptions in the runs. The proofs share a
shape: an inductive invariant, a conjunction of named parts, checked with TLC before it was proved; a
lemma that it holds at first, one that each step keeps it, with a step of the proof for each action;
and what it implies. The tables name the theorem, its property, and what it needed to be known.

### The cache: `TTLCacheProofs`

For every set of goroutines, keys, values and call objects, every capacity and set of ttls:

| Theorem | States |
|---|---|
| `TypeCorrect` | `Spec => []TypeOK` |
| `CapacityAlwaysRespected` | `Spec => []CapacityRespected` |
| `EvictsTheSoonest` | `Spec => EvictsSoonestLive` |
| `OneLoadPerKey` | `Spec => []SingleFlight` |
| `AnswersBelongToTheirKey`, `OnlyAnswersAreCached`, together `AnswersAreFaithful` | `Spec => []AnswersFaithful` |
| `RefinesSingleFlightMap` | `Spec => ImplementsSingleFlightMap` |
| `NobodyWaitsInVain` | `Spec => []NoOrphan /\ [][LeaderGoesOn]_vars`, the safe core of `WaitersReleased` |

Assumed: the keys are a finite set (the capacity counts entries), numbers are integers, and `None` is
neither a call nor an entry.

`TypeInv` adds to `TypeOK` that a goroutine inside `Load` has a key and a call, and that what a
successful load holds is a value of its key; without it `calls[pending[c]]` is not known to be a call.
For `SingleFlight`, two goroutines that both find no call in flight are the danger, so `FlightInv` says that
whoever is between registering and removing a call is *the* one whose call `inflight` holds for its
key, that a call object has one leader, and that a call with `done` set carries an error or a value of
the key its waiters asked for: the last is what `LoadJoin` establishes for a waiter, `Publish` fills in and
`WaiterReceives` uses. The capacity needs only that making room leaves fewer entries than the capacity, a
lemma on `MadeRoom` by cases, with cardinality facts of `FiniteSetTheorems`; eviction, that `setLocked`
has purged before it chooses, so that what it chooses among is live.

For the refinement, `memo` is the value of each live entry and `loading` the pairs of a goroutine and
the key it loads. `LoadLead` is `Begin`: nobody else loads the key, for `FlightInv` would then have
`inflight` hold that call. `Settle` is `Finish`, and what it stores is live at once because its ttl is
positive. `Set` is `Put`; `DeleteFunc` and `Tick` are `Lose`; the rest changes neither variable, also where
`getLocked` deletes an entry, since what it deletes had expired.

`NobodyWaitsInVain` follows from `FlightInv`: the call a waiter waits for is done, or has a leader inside `Load`; and
that leader's next steps, after an answer as after a panic, end in `CloseDone`, four at most.

### The two checkers: `AssinaturaProofs`, `AuthzProofs`

For any number of companies or users, tokens, requests and support sessions, any ttls, timeout and capacity:

| Theorem | States |
|---|---|
| `AssinaturaProofs!TypeCorrect`, `AuthzProofs!TypeCorrect` | `Spec => []TypeOK` |
| `RunsTheCache` (both) | `Spec => Cache!Spec`: each behaviour is one of the cache's |
| `DisagreementIsBounded` | `Spec => []DiscordanciaLimitada` |
| `ReadingsNeverGoBack` | `Spec => []LeituraMonotona` |
| `PermissionsAreCurrent` | `Spec => []PermissoesAtuais` |
| `InvalidarReachesEveryToken` | `Spec => []InvalidarAlcancaTodosOsTokens` |

Assumed: companies (users and tokens) are finite sets, times are positive, bounds are numbers, and `None` is
neither a call, an answer, nor an entry.

What is proved of the cache is used, not proved again: `Proved` is the instance of `TTLCacheProofs` at the
constants of the checker, `CacheAssumptions` shows that the checker's constants satisfy the cache's
assumptions, and `SameTypes`, `SameNext` that the two instances say the same. `StepOfTheCache` is where composition could
fail: every step of a checker must be a step of the cache or leave it alone, which holds because a query ends the
way a `load` may, with a value of the key asked for.

Staleness (`PrazoInv`, `PermissaoInv`) dates everything that may disagree with the service. An answer on its way disagrees
only if the change is younger than the query (`RespostasRecentes`), a query takes `Timeout` at most
(`ConsultaEmPrazo`), so an entry that disagrees expires within ttl + `Timeout` of the change (`EntradasRecentes`); the ttl
is that of the answer held, which gives the shorter bound for "blocked". `exigida` is followed through the same
places for `Invalidar`: no answer in flight and no entry is older.

`LeituraMonotona` is about what is told, so `OrdemInv` compares versions along the way to it: in a query (`LidasNovas`),
in the map (`EntradasNovas`), in a call object (`DadasNovas`), each at least as new as all that was told for
that company, and as all that is about to be told. The last is the part one misses: an answer that
waiters have still to receive is not told yet, and a newer one must not overtake it and then be followed by it. It
holds because no query is sent while there is an entry, and a settled call is received by those only who joined it.

### Messaging: `ConexaoProofs`, `PublisherProofs`

For every set of connections and callbacks, and assuming nothing of the constants:

| Theorem | States |
|---|---|
| `ConexaoProofs!TypeCorrect` | `ConexaoSpec => []ConexaoTypeOK` |
| `AtMostOneOpenConnection` | `ConexaoSpec => []OneOpenConnection` |
| `ReconnectionInOrder` | `ConexaoSpec => []ReconnectsInOrder` |
| `CloseIsForGood` | `ConexaoSpec => [][ClosedForGood]_conexaoVars`, the safe core of `MonitorReturns` after a `Close` |
| `LossIsNotForgotten` | `ConexaoSpec => [][LossKept]_conexaoVars`, the safe core of `NoticedLossIsRepaired` |

It has to be known where the open connection is. `OpenInv` says that it is `g.conn`, or the one just dialled
while that is not stored yet, and that none is open while the monitor waits or dials. The last part is
what `DialSucceeds` needs; it holds because the monitor leaves "watch" for "backoff" only on an error, an error is
reported only of the connection it watches, after that has ended, and the connection it watches is `g.conn`, which only the monitor
replaces. For the callbacks, `DueInv` follows one that is due from the list to the copy to the call:
`OnReconexao` only appends, so none can get lost in between, and `AllCalled` finds none left.
`BackoffFollowsFailures` is inductive with `ConexaoTypeOK`. The last two add `ToldInv`, what the monitor was told against what
`g.conn` is: an error is told of a lost connection only, and so a closed one never leads to a backoff. Both say what the
code does in the orders of `Close` and losses that the two runs marked "violated" leave over.

For every set of calls, whatever they ask for, and every set of channels, `None` being neither:

| Theorem | States |
|---|---|
| `PublisherProofs!TypeCorrect` | `Spec => []TypeOK` |
| `NoSecondCopy` | `Spec => []AtMostOneCopy` |
| `ChannelsInOrder` | `Spec => []ChannelInOrder` |
| `OutcomeTrue`, with `NoSecondCopy` `DeliveryFaithful` | `Spec => []OutcomeIsTrue`, `Spec => []EntregaFiel` |
| `RefinesPublicacao` | `Spec => ImplementsPublicacao` |
| `CallsEnd` | `Spec => [](\A t \in Tasks : Restam(t) \in 0..16) /\ [][CallsAdvance]_vars`, the safe core of `EveryCallReturns` |

`NoSecondCopy` rests on `CopyInv` alone: a call that may still send has written nothing, because what
goes round the loop again is a failed declaration or `ErrClosed`. The others need to know who is where.
`LockInv` says that the mutex is held by the one call between its first and its last step; `FieldInv`, what
that call knows of `canal`, `declarado` and `fechado`, which nobody else writes; `AnswerInv`, that answers
are under way only to the call that waits, over the open channel of the publisher, and that a return
in an open buffer is that of its message and precedes its ack. So the buffer holds one return at
most, and `retornadaLocked` empties it. `OutcomeInv` adds what these answers say: once the ack is on
its way the broker has taken the message, and its return is in the buffer if and only if it had no
route. Its step is the long one, because every end of a channel settles confirmations and drops
answers; `ShutEffect` and `ShutOutcome` say once what that leaves.

For the refinement `CallInv` says of each call that it has no result before it returns, that a declaration never comes to
the write, and that a call past the write has one copy of its message, under way or at the broker. Writing
is `Escreve`, the broker's taking `Toma`, the last step of a call `Responde`; mutex, channels, attempts, confirmations
and answers under way are stutters. An error of the publication is where both happen at once, which
is why `Responde` may move `copia` there. `CallsEnd` counts the steps of a call, the second attempt included:
`Restam` takes from sixteen to none, each step of a call lowers its own number, and no other step raises it.

### Requests, limits and caches of a service: `ServicoProofs`

Each about its own component, whatever the constants; the last about the run's specification:

| Theorem | States |
|---|---|
| `GuardsDecideCorrectly`, `TokensStandForTheirSession` | `AuthSpec => []AcessoCorreto`, `AuthSpec => []CredenciaisCorretas` |
| `MeasuredFaithfully` | `MedidasSpec => []MedidasFieis` |
| `ClearingIsComplete` | `CacheSpec => []LimpezaCompleta` |
| `RatchetHolds` | `ArquiteturaSpec => []CatracaCorreta` |
| `CountsSettle` | `ConsumoSpec => ContagemCorreta` |
| `WindowsAreLimited` | `LimiterSpec => []LimiteCorreto` |
| `BlocksAreRight` | `BlockerSpec => BloqueioCorreto` |
| `TypesOfTheService` | `MCSpec => []ServicoTypeOK` |

- **Guards.** `AuthInv` follows the request: the claims are those of its own token, valid when read, and a
  support session's or the assistant's were let through for a reason (`ClaimsInv`); whatever was asked of a
  checker was asked about them (`PerguntasInv`); and each guard that is behind has seen to its part
  (`GuardasInv`), which does not depend on the order. `ParInv` is for the guard that tries a second permission,
  `DerivadoInv` for the token that comes back. That the functions which choose between header and cookie agree
  is `OwnToken`.
- **Measuring.** `MedidaInv` says that the record is there once the deferred code has run and is of how the
  request ended; `PedidoInv`, where its route is known: in the reference if and only if the mux took it to a
  handler that returned through `Rotas`, in the mux's request from there on. The gauge is the number of requests
  between the two ends of the middleware, a cardinality kept by each step.
- **Clearing.** What a replica still has to clear was in its list; every other command only shrinks it.
- **Ratchet.** The baseline holds nothing that was not there when it was generated, and a verdict is true of
  what the run read. `ForbiddenIsOutward` compares the check's rule with the layers' order.
- **Counting.** `TextsAndDates` is the arithmetic: what the filter selects by text is the month's, or within the
  offset of its ends. A document that arrives after a month settled is not in its filter. `Inicio` is a
  recursive function of the lengths of the months, for which `MonthsBegin` proves its equation.
- **Limit.** In memory the slice must agree with the history of the calls that passed: `MemoriaInv` says that
  for every moment in the window as many calls passed since it as the slice has visits since it, and that the
  slice is ordered, which the clean-up needs since it looks at the last visit only. `FilterRuns` shows that the
  loop of `allow`, a recursive function, keeps exactly the visits in the window. In Redis a sliding window meets
  two fixed ones: `RedisInv` bounds the calls in the key's window by its counter and by `Limite`, and those of a
  window length before it by `Limite` more; the counter is made up by calls that passed and calls whose answer
  was lost, which justifies a refusal.
- **Blocks.** Most of the work is commands of different replicas in between each other. `ContadorInv` says what
  the counter counts: failures of this moment while its EXPIRE is due, afterwards failures since its window
  began. `BloqueioInv`: whoever is to delete the counter has set the block. `TentativasInv`, that the attempts
  that fail are limited, has four cases, and each step leads from one to one: something owed was lost
  (`recusado`); the counter has them all; the IP is blocked, and only requests already at their handler may
  still fail; or some replica is about to block it, and so is any other that counts now. The third case absorbs
  a late DEL: what it deletes is made up for by the block. Looking for this invariant showed the case of
  `MaxTentativas` = 1 above, which the instance of the run does not have; it was checked with TLC for
  `MaxTentativas` 1 and 2.
- **Together.** `PartesInv`: the part that runs keeps its invariant, the others stay as they began.

Assumed: sets of requests and rounds are finite, durations, windows and limits are positive, `Nunca` is no moment,
and the empty claim is neither a company nor a token.

### Purge, collector, start-up: `TenantDadosProofs`, `OperacaoProofs`

| Theorem | States |
|---|---|
| `TenantTypes`, `ReportsAreTrue` | `TenantSpec => []TenantTypeOK`, `TenantSpec => []RelatorioVerdadeiro` |
| `PurgeInOrder` | `TenantSpec => ExpurgoEmOrdem` |
| `ThePurgeGoesOn` | `TenantSpec => []Pendentes /\ [][PurgeGoesOn]_tenantVars`, the safe core of `Termina` |
| `SafeStart`, `StartTypes` | `InicializacaoSpec => []PartidaSegura`, `InicializacaoSpec => []InicializacaoTypeOK` |
| `ShutDownForGood` | `ColetorSpec => [](DesligadoDeVez /\ FalhaNaoVaza)`, the safe part of `DesligarCumpre` |
| `StartGoesOn` | `InicializacaoSpec => []TemCaminho /\ [][PartidaAvanca]_inicializacaoProprias`, the safe core of `TodosSobem` |
| `ShutDownGoesOn` | `ColetorSpec => []NadaTrava /\ [][DesligarAvanca]_ambienteColetor`, the safe core of `DesligarVolta` |
| `ProbingGoesOn` | `ColetorSpec => []SoEncerraResolvida /\ [][SondaContinua]_ambienteColetor`, the safe core of `AtivaQuandoSobe` |
| `ErrorsAreCounted` | `ColetorSpec => []AvisosContados`, the safe part of `SondagemFiel` |
| `TypesOfAll` | `MCSpec => []OperacaoTypeOK` |

- **Purge**, for any services with any sources in any order, any number of calls at work at once and any number
  of failures. `TarefaInv` says how far a call has come: what is left of the source it deletes item by item is
  on its list, the sources behind it that it may delete are empty, those it touched are in its report, and a
  call for the master data is at work only when no service holds movement. The last holds because the
  orchestrator sends it after every service answered for the movement (`EsperaInv`), an answer of success is
  true (`SuccessMeansPurged`), and nobody writes (`EmptyStays`). Calls of others delete too; that they only help
  is `OthersDelete`.
- **Start-up**, whatever lists of steps the processes run. `HeldInv` says what a process can hold at each point:
  the connections of the steps behind it, that of its own step only while it pings, and a channel only where the
  deferred `Close` is still ahead. `DeclaredInv` says that what the steps behind a process declare is at the
  broker, that a queue precedes its binding, and that a step about to close its channel without an error has
  declared everything; the other processes keep it because nobody takes back a declaration (`DeclaredStays`).
- **Collector**, for any number of callers of `Desligar`. `EtapaInv` says that `Iniciar` or the goroutine
  installs, never both; `ChamadaInv`, that a caller reaches the providers only when they are installed, and what
  is behind a caller that returned is shut or being shut by another; `FechaInv`, that each exporter is being
  shut by one caller exactly. `AvisoInv` counts errors.
- **Progress.** Purge, start-up, shutdown and probing each come with what must hold for them to end, were they
  scheduled. `PurgeGoesOn`: a handler's step takes its call to an answer, to the next source, to deleting, or to
  a shorter list, and no step of anybody sends a call back; an item is deleted in the order listed, which is why
  `Itens` numbers the items of a source (any set of naturals). The own call of the orchestrator turns to an
  error only with a failure counted in `falhas`, and only a success takes a service from those to be asked.
  `NadaTrava`: whoever holds `mu` is closing an exporter and waits for nobody, and a caller waits for a
  goroutine only after telling it to stop, never with `mu`. `SoEncerraResolvida` and `SondaContinua`: failed
  probes never end the probing, and one that finds the Collector leads to the installation. `TemCaminho` and
  `PartidaAvanca`: a process is always at a place its step has; with no breakdown its steps take it on, and only
  a queue with an exchange that is not at the broker yet stops it, while what is there stays.

Assumed: services and calls at work are any sets, a phase is 0, 1 or 2, the items of a source are numbered; the callers of
`Desligar` are finitely many and warnings have a positive distance; and the constants that stand for nobody are not calls.

### What stays with TLC, and how recursion was handled

Only model-checked is liveness, because no prover here handles fairness: `WaitersReleased`, `MonitorReturns`,
`NoticedLossIsRepaired`, `EveryCallReturns`, `Termina`, `TodosSobem`, and in `DesligarCumpre` and
`SondagemFiel` the parts that say that something happens. What each of them rests on beside fairness is proved, for
all constants: that there is always a next step, that it leads closer, and that nothing else leads back
(`NobodyWaitsInVain`, `CloseIsForGood`, `LossIsNotForgotten`, `CallsEnd`, `ThePurgeGoesOn`, `StartGoesOn`, `ShutDownGoesOn`,
`ProbingGoesOn`). That the step is taken is fairness, and that is TLC's part; that the monitor returns when its context is
cancelled is nothing but fairness, and is left to TLC altogether. The runs marked "violated" have no theorem.

The library's induction theorems cannot be instantiated here, as they take an operator for a parameter. Where a
recursive function is needed (`Inicio` of `Consumo`, the loop of `allow`), its existence and its values
are proved by a least counterexample: `Least`, that a non-empty set of natural numbers has a least
element, follows from `NatLessThanWellFounded`, and a set can be given to it.

## 6. Abstractions

- Values, messages and permissions are tokens; one permission stands for the map of them, since an
  answer is cached and replaced as a whole. Formatting, headers, tracing and logs are left out.
- The hash of `chaveCache` is the pair (user, token).
- Clocks are integers and do not go back (Go's monotonic readings); a ttl counts from the moment it is stored.
- Redis holds keys with expiry; a command is atomic, a script too. An IP, a tenant and a broker stand
  for each of their kind, which share nothing.
- A route, a token and a configuration of guards are members of small sets; signatures are a fact about a token.
- `Publicar`'s delivery mode, content type and trace headers do not influence its control.
- External code (amqp091, the two services, the broker) is modelled by how this code uses it and marked
  external in `PROJECT.json`.

## 7. Not modelled, and what is left

Not modelled:

- `xmldsig` (canonicalisation and signing of XML), the keys of `dfe`, `telefone`, the redaction of text in `observabilidade`,
  CSV and ZIP of an export: conversions of data without control that a model could get wrong in an
  interesting way; `resposta`, an envelope.
- Headers, audit, events and business metrics of `seguranca` and `observabilidade`: they write, and nothing reads them back.
- Uploads and presigned URLs of `s3`: single remote calls.
- Acknowledgement, retry and dead-lettering of consumers: the services do it, not this library.
- `scripts`, CI.

Modelled, but not with the detail that some hazards of `PROJECT.json` would take:

- `allow` filters the slice of visits in place. Visits are a sequence of values here: that the loop keeps the right ones is checked
  and proved, that nothing else still reads the array it writes into is not.
- Which paths read and which may be called by an assistant are labels of the routes in `Auth`; the lists of paths in `leitura.go` and
  `canal.go` themselves are not there.
- The leader of a load uses its own context, so its cancellation fails the waiters too. It is modelled (`ConsultaFalha`) and no
  property forbids it, for the code promises nothing about it.
- What an export or a purge counts.

Left to do, in this order:

1. `Publisher` over `Conexao`: the publisher's channels end with their connection; a publication
   gets through again after a reconnection.
2. Theorems about that composition: what `EntregaFiel` and `ChannelInOrder` become when a channel
   cannot outlive its connection, and that it still implements `Publicacao`.
