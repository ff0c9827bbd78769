----------------------------- MODULE MCServico ------------------------------
(***************************************************************************)
(* Small instances of IPBlocker, RateLimiter, Auth, Medidas, CacheRedis,   *)
(* Consumo and Arquitetura for TLC. They share nothing but the clock and   *)
(* the choice of a Redis, so a behaviour runs one of them, and the others  *)
(* stay in their initial state.                                            *)
(***************************************************************************)
EXTENDS IPBlocker, RateLimiter, Auth, Medidas, CacheRedis, Consumo, Arquitetura

VARIABLE parte

mcVars == <<agora, comRedis, blockerProprias, limiterProprias, authProprias, medidasProprias,
            cacheProprias, consumoProprias, arquiteturaProprias, parte>>

-----------------------------------------------------------------------------
(* Constants.                                                              *)

\* Two months.
MCDuracoes == <<2, 3>>

\* Forbidden and allowed imports, of production code, a test, test data and another module.
Da(camada, nome) == <<"internal", camada, nome>>
MCDependencias ==
    { <<Da("domain", "a.go"), <<"m", "internal", "infra", "db">> >>,
      <<Da("domain", "a.go"), <<"m", "internal", "application">> >>,
      <<Da("application", "b.go"), <<"m", "internal", "adapters">> >>,
      <<Da("application", "b.go"), <<"m", "internal", "domain">> >>,
      <<Da("domain", "a_test.go"), <<"m", "internal", "infra">> >>,
      <<Da("domain", "a.go"), <<"outro", "internal", "infra">> >>,
      << <<"internal", "domain", "testdata", "d.go">>, <<"m", "internal", "infra">> >> }

-----------------------------------------------------------------------------
\* One initial state of each component that has many.
SemAuth ==
    /\ config = Config(Ordem, "local", <<"visualizar">>, FALSE, TRUE)
    /\ pedido = [rota |-> CHOOSE r \in Rotas : TRUE, token |-> CHOOSE t \in Tokens : TRUE,
                 via |-> "cookie", eco |-> FALSE]
    /\ passo = 0 /\ par = 1 /\ claims = Vazio /\ resposta = 0
    /\ quandoLidas = 0 /\ perguntas = {} /\ origem = Vazio

Comuns == [ignorada |-> FALSE, upgrade |-> FALSE, preflight |-> FALSE, copia |-> FALSE, rotas |-> TRUE]

MCInit ==
    /\ parte \in {"blocker", "limiter", "auth", "pedidos", "rodadas", "cache", "consumo", "arquitetura"}
    /\ AmbienteInit /\ (parte \notin {"blocker", "limiter"} => ~comRedis)
    /\ BlockerInit /\ LimiterInit
    /\ IF parte = "auth" THEN AuthInit ELSE SemAuth
    /\ tipo \in [Pedidos -> IF parte = "pedidos" THEN Tipos ELSE {Comuns}]
    /\ \E p \in Pedidos : tipo[p] = Comuns
    /\ MedidasInit
    /\ CacheInit /\ ConsumoInit /\ ArquiteturaInit

SemTempo == UNCHANGED <<agora, comRedis>>

MCNext ==
    /\ \/ parte = "blocker" /\ BlockerNext
       \/ parte # "blocker" /\ UNCHANGED blockerProprias
    /\ \/ parte = "limiter" /\ LimiterNext
       \/ parte # "limiter" /\ UNCHANGED limiterProprias
    /\ \/ parte = "auth" /\ AuthNext /\ agora' <= Duracao + 1
       \/ parte # "auth" /\ UNCHANGED authProprias
    /\ \/ parte = "pedidos" /\ PedidoNext /\ SemTempo
       \/ parte = "rodadas" /\ RodadaNext /\ SemTempo
       \/ parte \notin {"pedidos", "rodadas"} /\ UNCHANGED medidasProprias
    /\ \/ parte = "cache" /\ CacheNext
       \/ parte # "cache" /\ UNCHANGED cacheProprias
    /\ \/ parte = "consumo" /\ ConsumoNext /\ SemTempo
       \/ parte # "consumo" /\ UNCHANGED consumoProprias
    /\ \/ parte = "arquitetura" /\ ArquiteturaNext /\ SemTempo
       \/ parte # "arquitetura" /\ UNCHANGED arquiteturaProprias
    /\ UNCHANGED parte

MCSpec == MCInit /\ [][MCNext]_mcVars

\* The components' type invariants together.
ServicoTypeOK == BlockerTypeOK /\ LimiterTypeOK /\ AuthTypeOK /\ MedidasTypeOK /\ CacheTypeOK
=============================================================================
