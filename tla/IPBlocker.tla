----------------------------- MODULE IPBlocker ------------------------------
(***************************************************************************)
(* seguranca.IPBlocker (src/seguranca/ip_blocker.go) for one IP: requests  *)
(* on several replicas pass the middleware, and their handler reports a    *)
(* failed or a successful attempt. In memory an operation is one critical  *)
(* section; in Redis it is a sequence of commands. Each command may fail,  *)
(* with or without having taken effect, and the replica may die before the *)
(* next one.                                                               *)
(***************************************************************************)
EXTENDS Ambiente, FiniteSets

CONSTANTS
    Requisicoes,        \* requests that may be under way at once
    MaxTentativas, DuracaoBloqueio, JanelaTentativas,
    MaxFalhas           \* bound on the failed attempts

ASSUME BlockerAssumption ==
    /\ IsFiniteSet(Requisicoes)
    /\ MaxTentativas \in Nat \ {0} /\ MaxFalhas \in Nat
    /\ DuracaoBloqueio \in Nat \ {0} /\ JanelaTentativas \in Nat \ {0}

VARIABLES
    falhas,     \* the counter of failures
    falhasAte,  \* when Redis drops the counter
    bloqueio,   \* when the block was set
    etapa,      \* where each request is
    \* history
    falharam,   \* the attempts that failed
    seguidas,   \* attempts that failed since a success, the end of the window or of a block
    somadas,    \* attempts that failed since a success or the setting of a block
    ultimo,     \* when a block was set last
    semPrazo,   \* a counter was left without its EXPIRE
    recusado    \* Redis did not answer EXISTS, or an attempt was left uncounted or a block unset

blockerProprias == <<falhas, falhasAte, bloqueio, etapa, falharam, seguidas, somadas, ultimo, semPrazo, recusado>>
blockerVars == <<agora, comRedis, blockerProprias>>

Etapas == {"fora", "handler", "expire", "set", "del"}

BlockerInit ==
    /\ falhas = 0 /\ falhasAte = Nunca /\ bloqueio = Nunca
    /\ etapa = [r \in Requisicoes |-> "fora"]
    /\ falharam = {}
    /\ seguidas = 0 /\ somadas = 0 /\ ultimo = Nunca /\ semPrazo = FALSE /\ recusado = FALSE

VaiPara(r, e) == etapa' = [etapa EXCEPT ![r] = e]

-----------------------------------------------------------------------------
(* The keys of Redis and the maps of the process.                          *)

\* A key of Redis is gone when its time comes; an entry of the map stays until it is deleted.
Expirada(fim) == comRedis /\ fim # Nunca /\ fim <= agora

Contador == IF Expirada(falhasAte) THEN 0 ELSE falhas

\* time.Since(bt) > DuracaoBloqueio in memory; a Redis key with that ttl lives strictly less.
Passou(bt) == IF comRedis THEN agora >= bt + DuracaoBloqueio ELSE agora > bt + DuracaoBloqueio

Bloqueado == bloqueio # Nunca /\ ~Passou(bloqueio)

ApagaContador == falhas' = 0 /\ falhasAte' = Nunca

Bloqueia == bloqueio' = agora /\ ultimo' = agora /\ somadas' = 0

-----------------------------------------------------------------------------
(* The middleware.                                                         *)

\* EstaBloqueado deletes a block it finds expired; the middleware lets the request through.
Admite(r) ==
    /\ etapa[r] = "fora" /\ ~Bloqueado
    /\ VaiPara(r, "handler")
    /\ bloqueio' = Nunca
    /\ UNCHANGED <<agora, comRedis, falhas, falhasAte, falharam, seguidas, somadas, ultimo, semPrazo, recusado>>

\* EXISTS fails: the request goes through.
AdmiteSemResposta(r) ==
    /\ comRedis /\ etapa[r] = "fora"
    /\ VaiPara(r, "handler")
    /\ recusado' = TRUE
    /\ UNCHANGED <<agora, comRedis, falhas, falhasAte, bloqueio, falharam, seguidas, somadas, ultimo, semPrazo>>

\* The ticker of cleanup, which runs only without Redis.
Cleanup ==
    /\ ~comRedis /\ bloqueio # Nunca /\ Passou(bloqueio)
    /\ bloqueio' = Nunca
    /\ UNCHANGED <<agora, comRedis, falhas, falhasAte, etapa, falharam, seguidas, somadas, ultimo, semPrazo, recusado>>

-----------------------------------------------------------------------------
(* The handler's report.                                                   *)

\* An attempt of request r fails: history only.
Falhou(r) ==
    /\ etapa[r] = "handler"
    /\ Cardinality(falharam) < MaxFalhas
    /\ falharam' = MaisUma(falharam)
    /\ seguidas' = seguidas + 1

\* Mutant: the block is set, and the entry stays and counts on.
RegistrarFalhaSemApagar(r) ==
    /\ ~comRedis /\ Falhou(r)
    /\ VaiPara(r, "fora")
    /\ falhas' = falhas + 1
    /\ IF falhas + 1 >= MaxTentativas
       THEN Bloqueia
       ELSE somadas' = somadas + 1 /\ UNCHANGED <<bloqueio, ultimo>>
    /\ UNCHANGED <<agora, comRedis, falhasAte, semPrazo, recusado>>

\* RegistrarFalha in memory, one critical section.
RegistrarFalha(r) ==
    /\ ~comRedis /\ Falhou(r)
    /\ VaiPara(r, "fora")
    /\ IF falhas + 1 >= MaxTentativas
       THEN ApagaContador /\ Bloqueia
       ELSE falhas' = falhas + 1 /\ somadas' = somadas + 1 /\ UNCHANGED <<falhasAte, bloqueio, ultimo>>
    /\ UNCHANGED <<agora, comRedis, semPrazo, recusado>>

\* Mutant: the comparison with the maximum is off by one.
DepoisDeContarTarde(n) == IF n > MaxTentativas THEN "set" ELSE "fora"

\* What follows an INCR that answered n, or the EXPIRE after it.
DepoisDeContar(n) == IF n >= MaxTentativas THEN "set" ELSE "fora"

\* Request r has counted failures enough and is to set the block.
Decidida(r) == etapa[r] = "set" \/ (etapa[r] = "expire" /\ DepoisDeContar(1) = "set")

\* INCR creates the key without a ttl, or counts up and keeps the ttl there is.
Incr ==
    /\ falhas' = Contador + 1
    /\ falhasAte' = IF Contador = 0 THEN Nunca ELSE falhasAte

\* registrarFalhaRedis up to the answer of INCR.
Conta(r) ==
    /\ comRedis /\ Falhou(r)
    /\ Incr
    /\ VaiPara(r, IF falhas' = 1 THEN "expire" ELSE DepoisDeContar(falhas'))
    /\ somadas' = somadas + 1
    /\ UNCHANGED <<agora, comRedis, bloqueio, ultimo, semPrazo, recusado>>

\* INCR fails, having taken effect or not: nothing else is done.
ContaFalha(r) ==
    /\ comRedis /\ Falhou(r)
    /\ \/ Incr /\ semPrazo' = (semPrazo \/ falhas' = 1)
       \/ UNCHANGED <<falhas, falhasAte, semPrazo>>
    /\ VaiPara(r, "fora")
    /\ recusado' = TRUE
    /\ somadas' = somadas + 1
    /\ UNCHANGED <<agora, comRedis, bloqueio, ultimo>>

\* EXPIRE, on whatever counter there is now; its error is ignored.
Expire(r) ==
    /\ etapa[r] = "expire"
    /\ \/ /\ falhasAte' = IF Contador = 0 THEN falhasAte ELSE agora + JanelaTentativas
          /\ UNCHANGED semPrazo
       \/ semPrazo' = TRUE /\ UNCHANGED falhasAte
    /\ VaiPara(r, DepoisDeContar(1))
    /\ UNCHANGED <<agora, comRedis, falhas, bloqueio, falharam, seguidas, somadas, ultimo, recusado>>

\* SET of the block with its ttl; its error is ignored.
SetBloqueio(r) ==
    /\ etapa[r] = "set"
    /\ \/ Bloqueia /\ UNCHANGED recusado
       \/ recusado' = TRUE /\ UNCHANGED <<bloqueio, somadas, ultimo>>
    /\ VaiPara(r, "del")
    /\ UNCHANGED <<agora, comRedis, falhas, falhasAte, falharam, seguidas, semPrazo>>

\* DEL of the counter; its error is ignored.
DelContador(r) ==
    /\ etapa[r] = "del"
    /\ \/ ApagaContador
       \/ UNCHANGED <<falhas, falhasAte>>
    /\ VaiPara(r, "fora")
    /\ UNCHANGED <<agora, comRedis, bloqueio, falharam, seguidas, somadas, ultimo, semPrazo, recusado>>

\* RegistrarSucesso: one critical section, or one DEL whose error is ignored.
RegistrarSucesso(r) ==
    /\ etapa[r] = "handler"
    /\ \/ ApagaContador /\ seguidas' = 0 /\ somadas' = 0
       \/ comRedis /\ UNCHANGED <<falhas, falhasAte, seguidas, somadas>>
    /\ VaiPara(r, "fora")
    /\ UNCHANGED <<agora, comRedis, bloqueio, falharam, ultimo, semPrazo, recusado>>

\* The replica dies with its requests; the state in Redis stays.
Morre(r) ==
    /\ comRedis /\ etapa[r] # "fora"
    /\ VaiPara(r, "fora")
    /\ semPrazo' = (semPrazo \/ etapa[r] = "expire")
    /\ recusado' = (recusado \/ Decidida(r))
    /\ UNCHANGED <<agora, comRedis, falhas, falhasAte, bloqueio, falharam, seguidas, somadas, ultimo>>

\* An operation ends within the unit of the clock; a handler may take longer.
EntreOperacoes == \A r \in Requisicoes : etapa[r] \in {"fora", "handler"}

\* The moment at which earlier failures stop counting: a block or the window ends.
Perdoa(t) ==
    \/ bloqueio # Nunca /\ ~Passou(bloqueio) /\ t >= bloqueio + DuracaoBloqueio
    \/ comRedis /\ falhas > 0 /\ falhasAte = t

BlockerPassa ==
    /\ EntreOperacoes
    /\ Passa
    /\ seguidas' = IF Perdoa(agora + 1) THEN 0 ELSE seguidas
    /\ UNCHANGED <<falhas, falhasAte, bloqueio, etapa, falharam, somadas, ultimo, semPrazo, recusado>>

BlockerNext ==
    \/ \E r \in Requisicoes :
          \/ Admite(r) \/ AdmiteSemResposta(r)
          \/ RegistrarFalha(r) \/ Conta(r) \/ ContaFalha(r)
          \/ Expire(r) \/ SetBloqueio(r) \/ DelContador(r)
          \/ RegistrarSucesso(r) \/ Morre(r)
    \/ Cleanup \/ BlockerPassa

BlockerSpec == AmbienteInit /\ BlockerInit /\ [][BlockerNext]_blockerVars

-----------------------------------------------------------------------------
(* Properties.                                                             *)

\* Types. The counter cannot run away: the one who reaches the maximum deletes it.
BlockerTypeOK ==
    /\ agora \in Tempos /\ comRedis \in BOOLEAN
    /\ falhas \in 0..MaxFalhas
    /\ falhasAte \in 0..(MaxTempo + JanelaTentativas) \cup {Nunca}
    /\ {bloqueio, ultimo} \subseteq Tempos \cup {Nunca}
    /\ etapa \in [Requisicoes -> Etapas]
    /\ falharam \subseteq [quando : Tempos, numero : 0..MaxFalhas]
    /\ {seguidas, somadas} \subseteq 0..MaxFalhas
    /\ semPrazo \in BOOLEAN /\ recusado \in BOOLEAN
    /\ ~comRedis => falhas < MaxTentativas

FalhasNaJanela == Cardinality(Desde(falharam, JanelaTentativas))

\* A block is set only after MaxTentativas failures, in Redis all of them within
\* JanelaTentativas, although INCR and EXPIRE are two commands and replicas count and delete
\* in each other's midst. The exception is a counter whose EXPIRE got lost (line 145): it
\* never expires, and failures of any age count.
BloqueioJustificado ==
    ultimo' # ultimo =>
        IF comRedis THEN semPrazo \/ FalhasNaJanela >= MaxTentativas ELSE somadas + 1 >= MaxTentativas

\* As long as Redis answers, an IP gets at most MaxTentativas failed attempts, and one more for
\* each further request that was already admitted, before it succeeds, is blocked until the
\* block ends, or lets the window pass: counts deleted by the DEL of a replica that is late
\* (line 149) are made up for by its block.
TentativasLimitadas ==
    recusado \/ seguidas <= MaxTentativas + Cardinality(Requisicoes) - 1

\* Nothing but time lifts a block: neither successes, nor the clean-up, nor a replica's death.
SoOTempoLevantaBloqueio ==
    ultimo # Nunca /\ agora < ultimo + DuracaoBloqueio => Bloqueado

\* Blocked when, and only when, there were failures enough, and for as long as promised: the
\* counter and the block are separate keys, changed by several replicas command by command.
BloqueioCorreto ==
    [][BloqueioJustificado /\ (TentativasLimitadas /\ SoOTempoLevantaBloqueio)']_blockerVars
=============================================================================
