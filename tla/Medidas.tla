------------------------------ MODULE Medidas -------------------------------
(***************************************************************************)
(* What observabilidade measures of requests (src/observabilidade/http.go) *)
(* and of rounds of a job or messages of a queue (ticker.go and            *)
(* src/mensageria/consumo.go), at the same time, when what is measured     *)
(* returns, fails, panics or aborts.                                       *)
(***************************************************************************)
EXTENDS Integers, FiniteSets, Sequences

CONSTANTS
    Pedidos,    \* requests
    Rodadas     \* rounds of a job, or messages of a queue

ASSUME MedidasAssumption == IsFiniteSet(Pedidos) /\ IsFiniteSet(Rodadas)

VARIABLES
    tipo,           \* what each request is, and how its service mounts mux and middlewares
    fase,           \* where each request is
    codigo,         \* how it ended: a status, or a panic
    referencia,     \* referenciaRota
    padrao,         \* r.Pattern of the request that the mux was given
    emAndamento,    \* the gauge
    registros,      \* duracaoServidor
    rodada,         \* where each round is, and how it ended
    medidas,        \* duracaoTicker, duracaoConsumo: the results recorded
    falhasTicker          \* falhasTicker

pedidosVars == <<tipo, fase, codigo, referencia, padrao, emAndamento, registros>>
rodadasVars == <<rodada, medidas, falhasTicker>>
medidasProprias == <<pedidosVars, rodadasVars>>

\* ignorada: ignorarRequisicao; upgrade: ehUpgrade; preflight: OPTIONS; copia: a middleware on
\* the way copies the request (r.WithContext); rotas: the mux is wrapped by Rotas.
Tipos == [ignorada : BOOLEAN, upgrade : BOOLEAN, preflight : BOOLEAN, copia : BOOLEAN, rotas : BOOLEAN]

Status == {"200", "401", "404", "500"}
Panicos == {"panico", "abort"}
Resultados == {"ok", "erro", "panico"}

MedidasInit ==
    /\ tipo \in [Pedidos -> Tipos]
    /\ fase = [p \in Pedidos |-> "fora"]
    /\ codigo = [p \in Pedidos |-> ""]
    /\ referencia = [p \in Pedidos |-> ""] /\ padrao = [p \in Pedidos |-> ""]
    /\ emAndamento = 0
    /\ registros = [p \in Pedidos |-> <<>>]
    /\ rodada = [j \in Rodadas |-> "fora"]
    /\ medidas = <<>> /\ falhasTicker = 0

Vai(p, f) == fase' = [fase EXCEPT ![p] = f]

-----------------------------------------------------------------------------
(* MiddlewareHTTP, with what it wraps.                                     *)

Chega(p) ==
    /\ fase[p] = "fora"
    /\ Vai(p, "cadeia")
    /\ emAndamento' = emAndamento + (IF tipo[p].ignorada THEN 0 ELSE 1)
    /\ UNCHANGED <<tipo, codigo, referencia, padrao, registros, rodadasVars>>

\* A guard refuses before the mux, or the mux has no such route.
NaoRoteia(p) ==
    /\ fase[p] = "cadeia"
    /\ Vai(p, "saindo")
    /\ \E s \in {"401", "404"} : codigo' = [codigo EXCEPT ![p] = s]
    /\ UNCHANGED <<tipo, referencia, padrao, emAndamento, registros, rodadasVars>>

\* The mux writes the pattern into the request it was given.
Roteia(p) ==
    /\ fase[p] = "cadeia"
    /\ Vai(p, "handler")
    /\ padrao' = [padrao EXCEPT ![p] = "rota"]
    /\ UNCHANGED <<tipo, codigo, referencia, emAndamento, registros, rodadasVars>>

\* The handler returns through Rotas, which tells the middleware the pattern.
Retorna(p) ==
    /\ fase[p] = "handler"
    /\ Vai(p, "saindo")
    /\ \E s \in Status : codigo' = [codigo EXCEPT ![p] = s]
    /\ referencia' = [referencia EXCEPT ![p] = IF tipo[p].rotas THEN "rota" ELSE ""]
    /\ UNCHANGED <<tipo, padrao, emAndamento, registros, rodadasVars>>

\* A panic passes Rotas by.
Panica(p) ==
    /\ fase[p] = "handler"
    /\ Vai(p, "saindo")
    /\ \E s \in Panicos : codigo' = [codigo EXCEPT ![p] = s]
    /\ UNCHANGED <<tipo, referencia, padrao, emAndamento, registros, rodadasVars>>

\* classeStatus of the code, 500 for a panic and 499 for http.ErrAbortHandler.
Classe(c) ==
    CASE c \in {"500", "panico"} -> "5xx"
      [] c \in {"401", "404", "abort"} -> "4xx"
      [] c = "200" -> "2xx"

\* rotaDe, and what finalizarRequisicao puts in the place of nao_roteada: the request the
\* middleware holds is the mux's own unless it was copied.
RotaDe(p) ==
    CASE referencia[p] # "" -> referencia[p]
      [] referencia[p] = "" /\ padrao[p] # "" /\ ~tipo[p].copia -> padrao[p]
      [] referencia[p] = "" /\ (padrao[p] = "" \/ tipo[p].copia) ->
            IF tipo[p].preflight THEN "preflight_cors"
            ELSE IF codigo[p] = "401" THEN "recusada_antes_da_rota" ELSE "nao_roteada"

\* Mutant: what ends in a panic is not recorded.
FinalizaSemPanico(p) ==
    /\ fase[p] = "saindo"
    /\ Vai(p, "medida")
    /\ registros' = [registros EXCEPT ![p] =
          IF tipo[p].ignorada \/ tipo[p].upgrade \/ codigo[p] \in Panicos THEN @
          ELSE Append(@, [rota |-> RotaDe(p), classe |-> Classe(codigo[p])])]
    /\ UNCHANGED <<tipo, codigo, referencia, padrao, emAndamento, rodadasVars>>

\* finalizarRequisicao, after the handler or in the deferred function that recovered its panic.
Finaliza(p) ==
    /\ fase[p] = "saindo"
    /\ Vai(p, "medida")
    /\ registros' = [registros EXCEPT ![p] =
          IF tipo[p].ignorada \/ tipo[p].upgrade THEN @
          ELSE Append(@, [rota |-> RotaDe(p), classe |-> Classe(codigo[p])])]
    /\ UNCHANGED <<tipo, codigo, referencia, padrao, emAndamento, rodadasVars>>

\* The deferred decrement of the gauge; a panic goes on to the server.
Sai(p) ==
    /\ fase[p] = "medida"
    /\ Vai(p, "fim")
    /\ emAndamento' = emAndamento - (IF tipo[p].ignorada THEN 0 ELSE 1)
    /\ UNCHANGED <<tipo, codigo, referencia, padrao, registros, rodadasVars>>

PedidoNext ==
    \E p \in Pedidos :
        Chega(p) \/ NaoRoteia(p) \/ Roteia(p) \/ Retorna(p) \/ Panica(p) \/ Finaliza(p) \/ Sai(p)

-----------------------------------------------------------------------------
(* RodadaTicker and ProcessarMensagem.                                     *)

Comeca(j) ==
    /\ rodada[j] = "fora"
    /\ rodada' = [rodada EXCEPT ![j] = "rodando"]
    /\ UNCHANGED <<pedidosVars, medidas, falhasTicker>>

\* registrar, called with the error or, in the deferred function, with the panic.
Registrar(r) ==
    /\ medidas' = Append(medidas, IF r = "ok" THEN "ok" ELSE "erro")
    /\ falhasTicker' = falhasTicker + (IF r = "ok" THEN 0 ELSE 1)

RodadaTermina(j) ==
    /\ rodada[j] = "rodando"
    /\ \E r \in Resultados :
          /\ rodada' = [rodada EXCEPT ![j] = r]
          /\ Registrar(r)
    /\ UNCHANGED pedidosVars

RodadaNext == \E j \in Rodadas : Comeca(j) \/ RodadaTermina(j)

MedidasSpec == MedidasInit /\ [][PedidoNext \/ RodadaNext]_medidasProprias

-----------------------------------------------------------------------------
(* Properties.                                                             *)

Tem(S, P(_)) == Cardinality({x \in S : P(x)})

\* Type invariant.
MedidasTypeOK ==
    /\ tipo \in [Pedidos -> Tipos]
    /\ fase \in [Pedidos -> {"fora", "cadeia", "handler", "saindo", "medida", "fim"}]
    /\ \A p \in Pedidos : codigo[p] \in {""} \cup Status \cup Panicos
    /\ emAndamento \in Nat

\* The gauge counts the requests under way, whatever their handlers do.
GaugeConfere == emAndamento = Tem(Pedidos, LAMBDA p : fase[p] \notin {"fora", "fim"} /\ ~tipo[p].ignorada)

\* A request is recorded once, with the class of how it ended, also when its handler panicked
\* and the panic goes on; health checks and websockets are not recorded.
RegistradaUmaVez ==
    \A p \in Pedidos : fase[p] = "fim" =>
        IF tipo[p].ignorada \/ tipo[p].upgrade THEN registros[p] = <<>>
        ELSE /\ Len(registros[p]) = 1
             /\ registros[p][1].classe = "5xx" <=> codigo[p] \in {"500", "panico"}

\* A record names a route if the mux took the request there, and nothing that was refused before
\* the mux; but for what the middleware cannot learn: the route of a copied request that no Rotas
\* told it of, or that panicked, which passes Rotas by (see RotaSempreRegistrada).
RotaRegistrada ==
    \A p \in Pedidos : \A i \in DOMAIN registros[p] :
        registros[p][i].rota = "rota" <=>
            /\ padrao[p] # ""
            /\ tipo[p].copia => tipo[p].rotas /\ codigo[p] \notin Panicos

\* Every round and every message is recorded once, and counts as a failure if it failed or
\* panicked.
RodadasContadas ==
    /\ Len(medidas) = Tem(Rodadas, LAMBDA j : rodada[j] \in Resultados)
    /\ falhasTicker = Tem(Rodadas, LAMBDA j : rodada[j] \in {"erro", "panico"})

\* Requests, rounds and messages are recorded once each, panics included, and as what they ended
\* as, requests under their route as far as the middleware learns it; and the gauge is brought back.
MedidasFieis == RegistradaUmaVez /\ RotaRegistrada /\ GaugeConfere /\ RodadasContadas

\* "Middlewares no meio da cadeia [...] copiam a request, então r.Pattern não chega ao middleware
\* externo; o mux informa a rota por uma referência guardada no contexto" (http.go:34-36): behind
\* Rotas every request that was routed is recorded under its route, however its handler ends.
RotaSempreRegistrada ==
    \A p \in Pedidos : \A i \in DOMAIN registros[p] :
        padrao[p] # "" /\ tipo[p].rotas => registros[p][i].rota = "rota"
=============================================================================
