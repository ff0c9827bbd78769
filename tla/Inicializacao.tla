---------------------------- MODULE Inicializacao ---------------------------
(***************************************************************************)
(* Services that start against one broker and their own databases, with    *)
(* what this library gives them: postgres, mongodb and cache.Conectar      *)
(* (open, ping, and close if the ping fails), mensageria.Conectar,         *)
(* DeclararExchange and DeclararFila. Their main opens one thing after the *)
(* other, closes all of it on an error and is restarted (ADR 0004).        *)
(* Everything may fail at any step, and the broker may restart.            *)
(***************************************************************************)
EXTENDS Integers, FiniteSets, Sequences, SequencesExt

CONSTANTS
    Processos,
    Passos,     \* what each opens, in order: [tipo, exchange, fila]
    MaxQuedas   \* bound on the failures and the restarts of the broker

ASSUME InicializacaoAssumption ==
    /\ DOMAIN Passos = Processos /\ MaxQuedas \in Nat
    /\ \A p \in Processos :
          Passos[p] \in Seq([tipo : {"banco", "broker", "exchange", "fila"}, exchange : STRING, fila : STRING])

VARIABLES
    passo,      \* the step each process is at
    dentro,     \* where it is in that step
    abertos,    \* the steps whose connection it holds open
    canal,      \* it has a channel open
    noBroker,   \* what is declared: exchanges, queues, and bindings of a queue to an exchange
    quedas      \* history: how many failures there were

inicializacaoProprias == <<passo, dentro, abertos, canal, noBroker, quedas>>

Onde == {"inicio", "ping", "declara", "vincula", "fecha", "fechaComErro", "erro", "parado"}

SemNada == [exchanges |-> {}, filas |-> {}, vinculos |-> {}]

InicializacaoInit ==
    /\ passo = [p \in Processos |-> 1]
    /\ dentro = [p \in Processos |-> "parado"]
    /\ abertos = [p \in Processos |-> {}]
    /\ canal = [p \in Processos |-> FALSE]
    /\ noBroker = SemNada
    /\ quedas = 0

Pronto(p) == passo[p] > Len(Passos[p])

\* Process p is at place onde of a step of one of these types.
No(p, tipos, onde) == ~Pronto(p) /\ dentro[p] = onde /\ Passos[p][passo[p]].tipo \in tipos

Atual(p) == Passos[p][passo[p]]

Va(p, onde) == dentro' = [dentro EXCEPT ![p] = onde] /\ UNCHANGED passo

\* The step is done.
Avanca(p) ==
    /\ dentro' = [dentro EXCEPT ![p] = "inicio"]
    /\ passo' = [passo EXCEPT ![p] = @ + 1]

Abre(p) == abertos' = [abertos EXCEPT ![p] = @ \cup {passo[p]}]
Fecha(p) == abertos' = [abertos EXCEPT ![p] = @ \ {passo[p]}]

Cai == quedas < MaxQuedas /\ quedas' = quedas + 1

-----------------------------------------------------------------------------
(* The functions Conectar.                                                 *)

\* An invalid configuration, or a driver that cannot be opened.
NaoAbre(p) ==
    /\ No(p, {"banco", "broker"}, "inicio")
    /\ Cai /\ Va(p, "erro")
    /\ UNCHANGED <<abertos, canal, noBroker>>

\* sql.Open, mongo.Connect and redis.NewClient return a pool before anything is reached.
AbreBanco(p) ==
    /\ No(p, {"banco"}, "inicio")
    /\ Abre(p) /\ Va(p, "ping")
    /\ UNCHANGED <<canal, noBroker, quedas>>

PingResponde(p) ==
    /\ No(p, {"banco"}, "ping")
    /\ Avanca(p)
    /\ UNCHANGED <<abertos, canal, noBroker, quedas>>

\* Mutant: the error goes up and the pool stays.
PingFalhaSemFechar(p) ==
    /\ No(p, {"banco"}, "ping")
    /\ Cai /\ Va(p, "erro")
    /\ UNCHANGED <<abertos, canal, noBroker>>

PingFalha(p) ==
    /\ No(p, {"banco"}, "ping")
    /\ Cai /\ Fecha(p) /\ Va(p, "erro")
    /\ UNCHANGED <<canal, noBroker>>

\* amqp091.Dial.
ConectaBroker(p) ==
    /\ No(p, {"broker"}, "inicio")
    /\ Abre(p) /\ Avanca(p)
    /\ UNCHANGED <<canal, noBroker, quedas>>

-----------------------------------------------------------------------------
(* DeclararExchange and DeclararFila.                                      *)

Declara == {"exchange", "fila"}

AbreCanal(p) ==
    /\ No(p, Declara, "inicio")
    /\ canal' = [canal EXCEPT ![p] = TRUE]
    /\ Va(p, "declara")
    /\ UNCHANGED <<abertos, noBroker, quedas>>

\* Mutant: the exchange is only looked up.
DeclaraExchangePassiva(p) ==
    /\ No(p, {"exchange"}, "declara")
    /\ Va(p, IF Atual(p).exchange \in noBroker.exchanges THEN "fecha" ELSE "fechaComErro")
    /\ UNCHANGED <<abertos, canal, noBroker, quedas>>

DeclaraExchange(p) ==
    /\ No(p, {"exchange"}, "declara")
    /\ noBroker' = [noBroker EXCEPT !.exchanges = @ \cup {Atual(p).exchange}]
    /\ Va(p, "fecha")
    /\ UNCHANGED <<abertos, canal, quedas>>

\* An empty exchange asks for no binding.
DeclaraFila(p) ==
    /\ No(p, {"fila"}, "declara")
    /\ noBroker' = [noBroker EXCEPT !.filas = @ \cup {Atual(p).fila}]
    /\ Va(p, IF Atual(p).exchange = "" THEN "fecha" ELSE "vincula")
    /\ UNCHANGED <<abertos, canal, quedas>>

\* QueueBind. The broker refuses an exchange that is not there.
Vincula(p) ==
    /\ No(p, {"fila"}, "vincula")
    /\ IF Atual(p).exchange \in noBroker.exchanges
       THEN /\ noBroker' = [noBroker EXCEPT !.vinculos = @ \cup {<<Atual(p).fila, Atual(p).exchange>>}]
            /\ Va(p, "fecha")
       ELSE Va(p, "fechaComErro") /\ UNCHANGED noBroker
    /\ UNCHANGED <<abertos, canal, quedas>>

\* A call to the broker fails; what has been declared stays.
DeclaraFalha(p) ==
    /\ \/ No(p, Declara, "inicio") /\ Va(p, "erro")
       \/ (No(p, Declara, "declara") \/ No(p, Declara, "vincula")) /\ Va(p, "fechaComErro")
    /\ Cai
    /\ UNCHANGED <<abertos, canal, noBroker>>

\* Mutant: the Close is not deferred.
FechaCanalSeDeuCerto(p) ==
    /\ \/ No(p, Declara, "fecha") /\ Avanca(p) /\ canal' = [canal EXCEPT ![p] = FALSE]
       \/ No(p, Declara, "fechaComErro") /\ Va(p, "erro") /\ UNCHANGED canal
    /\ UNCHANGED <<abertos, noBroker, quedas>>

\* The deferred Close of the channel.
FechaCanal(p) ==
    /\ \/ No(p, Declara, "fecha") /\ Avanca(p)
       \/ No(p, Declara, "fechaComErro") /\ Va(p, "erro")
    /\ canal' = [canal EXCEPT ![p] = FALSE]
    /\ UNCHANGED <<abertos, noBroker, quedas>>

-----------------------------------------------------------------------------
(* The processes and the broker.                                           *)

\* main closes what the calls before returned, and the process ends.
Encerra(p) ==
    /\ dentro[p] = "erro"
    /\ Va(p, "parado")
    /\ abertos' = [abertos EXCEPT ![p] = {i \in @ : i >= passo[p]}]
    /\ UNCHANGED <<canal, noBroker, quedas>>

\* The orchestrator of the containers starts it, again.
Inicia(p) ==
    /\ dentro[p] = "parado"
    /\ dentro' = [dentro EXCEPT ![p] = "inicio"]
    /\ passo' = [passo EXCEPT ![p] = 1]
    /\ abertos' = [abertos EXCEPT ![p] = {}]
    /\ UNCHANGED <<canal, noBroker, quedas>>

\* Killed at any point: the system closes its sockets.
Mata(p) ==
    /\ dentro[p] # "parado"
    /\ Cai
    /\ dentro' = [dentro EXCEPT ![p] = "parado"]
    /\ passo' = [passo EXCEPT ![p] = 1]
    /\ abertos' = [abertos EXCEPT ![p] = {}]
    /\ canal' = [canal EXCEPT ![p] = FALSE]
    /\ UNCHANGED noBroker

\* What is durable, that is all of it, is there again.
Sobra(b) == b

BrokerReinicia ==
    /\ Cai
    /\ noBroker' = Sobra(noBroker)
    /\ UNCHANGED <<passo, dentro, abertos, canal>>

Anda(p) ==
    \/ AbreBanco(p) \/ PingResponde(p) \/ ConectaBroker(p)
    \/ AbreCanal(p) \/ DeclaraExchange(p) \/ DeclaraFila(p) \/ Vincula(p) \/ FechaCanal(p)
    \/ Encerra(p)

InicializacaoNext ==
    \/ \E p \in Processos :
          \/ Anda(p) \/ NaoAbre(p) \/ PingFalha(p) \/ DeclaraFalha(p)
          \/ Inicia(p) \/ Mata(p)
    \/ BrokerReinicia

\* Something has been declared, or has failed.
Comecou == noBroker # SemNada \/ quedas > 0

\* A process takes its next step; once the deployment has begun, every process is started, and
\* again after it ended.
InicializacaoFairness ==
    \A p \in Processos :
        /\ WF_inicializacaoProprias(Anda(p))
        /\ WF_inicializacaoProprias(Comecou /\ Inicia(p))

InicializacaoSpec ==
    InicializacaoInit /\ [][InicializacaoNext]_inicializacaoProprias /\ InicializacaoFairness

-----------------------------------------------------------------------------
(* Properties.                                                             *)

\* Types, and a channel is open only while something is being declared.
InicializacaoTypeOK ==
    /\ \A p \in Processos :
          /\ passo[p] \in 1..(Len(Passos[p]) + 1) /\ abertos[p] \subseteq DOMAIN Passos[p]
          /\ canal[p] <=> dentro[p] \in {"declara", "vincula", "fecha", "fechaComErro"}
    /\ dentro \in [Processos -> Onde]
    /\ quedas \in 0..MaxQuedas

\* A call that returns an error leaves nothing open that main could not close: once the process
\* has closed what the calls before it returned, nothing is.
ErroNaoDeixaAberto ==
    \A p \in Processos : dentro[p] = "parado" => abertos[p] = {} /\ ~canal[p]

\* A service that is up finds its queues bound to the exchanges they read from, whoever declared
\* those, whatever failed on the way and however often the broker restarted since: nothing that
\* is published from then on goes astray.
ProntoTemFila ==
    \A p \in Processos : Pronto(p) =>
        \A i \in DOMAIN Passos[p] :
            LET s == Passos[p][i] IN
            /\ s.tipo = "fila" => s.fila \in noBroker.filas
            /\ s.tipo = "fila" /\ s.exchange # "" => <<s.fila, s.exchange>> \in noBroker.vinculos
            /\ s.tipo = "exchange" => s.exchange \in noBroker.exchanges

\* A start-up that fails leaves nothing open, and one that succeeds leaves nothing out.
PartidaSegura == ErroNaoDeixaAberto /\ ProntoTemFila

\* Services whose queues read from each other's exchanges all come up in the end, in whatever
\* order they start.
TodosSobem == \A p \in Processos : dentro[p] = "erro" ~> Pronto(p)
=============================================================================
