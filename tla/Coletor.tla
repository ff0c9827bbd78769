------------------------------- MODULE Coletor ------------------------------
(***************************************************************************)
(* observabilidade.Iniciar and the Desligar it returns                     *)
(* (src/observabilidade/observabilidade.go, coletor.go): the goroutine     *)
(* that probes for the Collector and installs the providers when it        *)
(* answers, callers of Desligar at any moment; and the limit on warnings   *)
(* of errorHandlerLimitado.                                                *)
(***************************************************************************)
EXTENDS Ambiente, FiniteSets

CONSTANTS
    Chamadores,     \* goroutines that call Desligar
    IntervaloAviso, \* intervaloAvisoErro
    MaxErros        \* bound on the errors the SDK reports

ASSUME ColetorAssumption ==
    /\ IsFiniteSet(Chamadores) /\ Nunca \notin Chamadores
    /\ IntervaloAviso \in Nat \ {0} /\ MaxErros \in Nat

VARIABLES
    coletor,    \* the Collector accepts connections
    iniciar,    \* where Iniciar is
    sonda,      \* where the goroutine of aguardarColetor is
    instala,    \* where instalarProviders is; it is called once at most
    exporter,   \* the state of the two exporters
    globais,    \* the providers are the global ones
    tique,      \* ticker.C holds a tick
    parar,      \* the channel is closed
    desligar,   \* the variable: desligarNada or the function of instalarProviders
    trava,      \* who holds mu
    pc,         \* where each caller of Desligar is
    ultimo, suprimidos,     \* errorHandlerLimitado
    erros, avisos, contados \* history: errors reported, when warnings were, errors they speak of

iniciarVars == <<coletor, iniciar, sonda, instala, exporter, globais, tique, parar, desligar, trava, pc>>
avisoVars == <<ultimo, suprimidos, erros, avisos, contados>>
coletorProprias == <<iniciarVars, avisoVars>>

Sinais == {"traces", "metricas"}

ColetorInit ==
    /\ coletor \in BOOLEAN
    /\ iniciar = "inicio" /\ sonda = "nenhuma" /\ instala = "nao"
    /\ exporter = [s \in Sinais |-> "nenhum"]
    /\ globais = FALSE /\ tique = FALSE /\ parar = FALSE /\ desligar = "nada" /\ trava = Nunca
    /\ pc = [c \in Chamadores |-> "fora"]
    /\ ultimo = Nunca /\ suprimidos = 0 /\ erros = 0 /\ avisos = {} /\ contados = 0

-----------------------------------------------------------------------------
(* Iniciar and instalarProviders.                                          *)

\* Switched off, or refused by validar or resolveEndpoint: nothing starts.
NaoInicia ==
    /\ iniciar = "inicio"
    /\ iniciar' \in {"desabilitada", "erro"}
    /\ UNCHANGED <<coletor, sonda, instala, exporter, globais, tique, parar, desligar, trava, pc, avisoVars>>

\* coletorAcessivel: installed at once, or the goroutine starts and Iniciar returns.
Sonda ==
    /\ iniciar = "inicio"
    /\ IF coletor
       THEN iniciar' = "instalando" /\ instala' = "traces" /\ UNCHANGED sonda
       ELSE iniciar' = "esperando" /\ sonda' = "espera" /\ UNCHANGED instala
    /\ UNCHANGED <<coletor, exporter, globais, tique, parar, desligar, trava, pc, avisoVars>>

Instalando == iniciar = "instalando" \/ sonda = "instalando"

\* The exporter of the traces, or an error.
CriaTraces ==
    /\ Instalando /\ instala = "traces"
    /\ \/ instala' = "metricas" /\ exporter' = [exporter EXCEPT !["traces"] = "aberto"]
       \/ instala' = "falhou" /\ UNCHANGED exporter
    /\ UNCHANGED <<coletor, iniciar, sonda, globais, tique, parar, desligar, trava, pc, avisoVars>>

Cria(s) == [exporter EXCEPT ![s] = "aberto"]

\* What the error of the second exporter does to the first one.
FalhaMetricas == exporter' = [exporter EXCEPT !["traces"] = "fechado"]

\* The exporter of the metrics; its error shuts the other one down.
CriaMetricas ==
    /\ Instalando /\ instala = "metricas"
    /\ \/ instala' = "globais" /\ exporter' = Cria("metricas")
       \/ instala' = "falhou" /\ FalhaMetricas
    /\ UNCHANGED <<coletor, iniciar, sonda, globais, tique, parar, desligar, trava, pc, avisoVars>>

\* otel.SetTracerProvider and SetMeterProvider.
Instala ==
    /\ Instalando /\ instala = "globais"
    /\ instala' = "feito" /\ globais' = TRUE
    /\ UNCHANGED <<coletor, iniciar, sonda, exporter, tique, parar, desligar, trava, pc, avisoVars>>

\* Iniciar returns what instalarProviders returned.
IniciarVolta ==
    /\ iniciar = "instalando" /\ instala \in {"feito", "falhou"}
    /\ iniciar' = IF instala = "feito" THEN "instalado" ELSE "erro"
    /\ UNCHANGED <<coletor, sonda, instala, exporter, globais, tique, parar, desligar, trava, pc, avisoVars>>

-----------------------------------------------------------------------------
(* The goroutine of aguardarColetor.                                       *)

\* select on parar: the deferred close of terminou.
SondaPara ==
    /\ sonda = "espera" /\ parar
    /\ sonda' = "terminou"
    /\ UNCHANGED <<coletor, iniciar, instala, exporter, globais, tique, parar, desligar, trava, pc, avisoVars>>

\* select on the ticker, also when parar is ready; coletorAcessivel comes next.
SondaTique ==
    /\ sonda = "espera" /\ tique
    /\ sonda' = "sondando" /\ tique' = FALSE
    /\ UNCHANGED <<coletor, iniciar, instala, exporter, globais, parar, desligar, trava, pc, avisoVars>>

\* Mutant: one probe is all.
SondaRespondeUmaVez ==
    /\ sonda = "sondando"
    /\ IF coletor
       THEN sonda' = "instalando" /\ instala' = "traces"
       ELSE sonda' = "terminou" /\ UNCHANGED instala
    /\ UNCHANGED <<coletor, iniciar, exporter, globais, tique, parar, desligar, trava, pc, avisoVars>>

SondaResponde ==
    /\ sonda = "sondando"
    /\ IF coletor
       THEN sonda' = "instalando" /\ instala' = "traces"
       ELSE sonda' = "espera" /\ UNCHANGED instala
    /\ UNCHANGED <<coletor, iniciar, exporter, globais, tique, parar, desligar, trava, pc, avisoVars>>

\* desligar = d under mu, before terminou is closed.
SondaGuarda ==
    /\ sonda = "instalando" /\ instala = "feito" /\ trava = Nunca
    /\ desligar' = "providers"
    /\ sonda' = "terminou"
    /\ UNCHANGED <<coletor, iniciar, instala, exporter, globais, tique, parar, trava, pc, avisoVars>>

\* Mutant: terminou stays open.
SondaDesisteSemAvisar ==
    /\ sonda = "instalando" /\ instala = "falhou"
    /\ sonda' = "nenhuma"
    /\ UNCHANGED <<coletor, iniciar, instala, exporter, globais, tique, parar, desligar, trava, pc, avisoVars>>

\* An exporter failed: the goroutine gives up.
SondaDesiste ==
    /\ sonda = "instalando" /\ instala = "falhou"
    /\ sonda' = "terminou"
    /\ UNCHANGED <<coletor, iniciar, instala, exporter, globais, tique, parar, desligar, trava, pc, avisoVars>>

Tique ==
    /\ sonda = "espera" /\ ~tique
    /\ tique' = TRUE
    /\ UNCHANGED <<coletor, iniciar, sonda, instala, exporter, globais, parar, desligar, trava, pc, avisoVars>>

-----------------------------------------------------------------------------
(* Desligar.                                                               *)

Em(c, de, para) == pc[c] = de /\ pc' = [pc EXCEPT ![c] = para]

\* The function of aguardarColetor closes parar once; the one of instalarProviders goes straight
\* to the providers; desligarNada returns.
Desligar(c) ==
    /\ \/ iniciar = "esperando" /\ Em(c, "fora", "esperando") /\ parar' = TRUE
       \/ iniciar = "instalado" /\ Em(c, "fora", "traces") /\ UNCHANGED parar
       \/ iniciar = "desabilitada" /\ Em(c, "fora", "voltou") /\ UNCHANGED parar
    /\ UNCHANGED <<coletor, iniciar, sonda, instala, exporter, globais, tique, desligar, trava, avisoVars>>

\* <-terminou, then mu, then desligar.
Terminou(c) ==
    /\ sonda = "terminou" /\ trava = Nunca
    /\ Em(c, "esperando", IF desligar = "providers" THEN "traces" ELSE "voltou")
    /\ trava' = IF desligar = "providers" THEN c ELSE Nunca
    /\ UNCHANGED <<coletor, iniciar, sonda, instala, exporter, globais, tique, parar, desligar, avisoVars>>

\* The deferred Unlock.
Libera(c, s) == trava' = IF trava = c /\ s = "metricas" THEN Nunca ELSE trava

Fechando == [traces |-> "fechaTraces", metricas |-> "fechaMetricas"]
Depois == [traces |-> "metricas", metricas |-> "voltou"]

\* tp.Shutdown or mt.Shutdown. The SDK does it once: a second call returns without waiting.
ComecaFechar(c, s) ==
    /\ IF exporter[s] = "aberto"
       THEN Em(c, s, Fechando[s]) /\ exporter' = [exporter EXCEPT ![s] = "fechando"] /\ UNCHANGED trava
       ELSE Em(c, s, Depois[s]) /\ UNCHANGED exporter /\ Libera(c, s)
    /\ UNCHANGED <<coletor, iniciar, sonda, instala, globais, tique, parar, desligar, avisoVars>>

\* Everything is flushed, or the flush failed; after the traces come the metrics all the same.
TerminaFechar(c, s) ==
    /\ Em(c, Fechando[s], Depois[s])
    /\ exporter' = [exporter EXCEPT ![s] = "fechado"]
    /\ Libera(c, s)
    /\ UNCHANGED <<coletor, iniciar, sonda, instala, globais, tique, parar, desligar, avisoVars>>

ColetorMuda ==
    /\ coletor' = ~coletor
    /\ UNCHANGED <<iniciar, sonda, instala, exporter, globais, tique, parar, desligar, trava, pc, avisoVars>>

Instalador == CriaTraces \/ CriaMetricas \/ Instala \/ IniciarVolta
Sondagem == SondaTique \/ SondaResponde \/ SondaGuarda \/ SondaDesiste
Chamada(c) == Terminou(c) \/ \E s \in Sinais : ComecaFechar(c, s) \/ TerminaFechar(c, s)

IniciarNext ==
    \/ NaoInicia \/ Sonda \/ Instalador \/ SondaPara \/ Sondagem \/ Tique
    \/ \E c \in Chamadores : Desligar(c) \/ Chamada(c)
    \/ ColetorMuda

-----------------------------------------------------------------------------
(* errorHandlerLimitado.                                                   *)

Avisa == ultimo' = agora /\ suprimidos' = 0

\* The interval since the last warning has not passed.
Suprime == ultimo # Nunca /\ agora - ultimo < IntervaloAviso

Handle ==
    /\ erros < MaxErros
    /\ erros' = erros + 1
    /\ IF Suprime
       THEN suprimidos' = suprimidos + 1 /\ UNCHANGED <<ultimo, avisos, contados>>
       ELSE Avisa /\ avisos' = avisos \cup {agora} /\ contados' = contados + suprimidos + 1

HandleNext == Handle /\ UNCHANGED <<agora, comRedis, iniciarVars>>

ColetorFairness ==
    /\ WF_coletorProprias(Instalador) /\ WF_coletorProprias(Sondagem) /\ WF_coletorProprias(Tique)
    /\ SF_coletorProprias(SondaPara)
    /\ \A c \in Chamadores : WF_coletorProprias(Chamada(c))

ColetorNext ==
    \/ IniciarNext /\ UNCHANGED <<agora, comRedis>>
    \/ HandleNext
    \/ Passa /\ UNCHANGED coletorProprias

ColetorSpec ==
    /\ AmbienteInit /\ ColetorInit
    /\ [][ColetorNext]_<<agora, comRedis, coletorProprias>>
    /\ ColetorFairness

-----------------------------------------------------------------------------
(* Properties.                                                             *)

\* Types, and a goroutine that installed the providers and ended has left their Desligar.
ColetorTypeOK ==
    /\ iniciar \in {"inicio", "instalando", "esperando", "instalado", "desabilitada", "erro"}
    /\ sonda \in {"nenhuma", "espera", "sondando", "instalando", "terminou"}
    /\ instala \in {"nao", "traces", "metricas", "globais", "feito", "falhou"}
    /\ exporter \in [Sinais -> {"nenhum", "aberto", "fechando", "fechado"}]
    /\ trava \in Chamadores \cup {Nunca}
    /\ pc \in [Chamadores -> {"fora", "esperando", "traces", "fechaTraces", "metricas", "fechaMetricas", "voltou"}]
    /\ suprimidos \in 0..erros
    /\ sonda = "terminou" /\ instala = "feito" => desligar = "providers"

\* Once a call of Desligar returned nothing exports any more, and nothing is installed later:
\* also when it was called while the goroutine was dialling or half-way through installing. Under
\* mu no flush of another call is still running either; providers that Iniciar installed itself
\* have no such lock.
DesligadoDeVez ==
    (\E c \in Chamadores : pc[c] = "voltou") =>
        /\ \A s \in Sinais : exporter[s] # "aberto"
        /\ sonda \in {"nenhuma", "terminou"}
        /\ iniciar = "esperando" => \A s \in Sinais : exporter[s] # "fechando"

\* A failed installation leaves no exporter open and no global provider.
FalhaNaoVaza ==
    instala = "falhou" => ~globais /\ \A s \in Sinais : exporter[s] # "aberto"

\* Every call of Desligar returns, whatever the goroutine is doing and the Collector does.
DesligarVolta == \A c \in Chamadores : pc[c] # "fora" ~> pc[c] = "voltou"

\* What Desligar promises: it returns, and from then on nothing exports, however the probing, the
\* installation and other calls of Desligar interleave with it; a failed installation leaves
\* nothing for it to shut down.
DesligarCumpre == []DesligadoDeVez /\ []FalhaNaoVaza /\ DesligarVolta

\* A Collector that comes up and stays is found, unless Desligar is called or an exporter cannot
\* be created, which ends the probing.
AtivaQuandoSobe ==
    <>[](iniciar = "esperando" /\ coletor) => <>(globais \/ parar \/ instala = "falhou")

\* Each error is told once: in a warning, or in the number of suppressed ones of the next; and
\* warnings keep their distance.
AvisosContados ==
    /\ contados + suprimidos = erros
    /\ \A a, b \in avisos : a < b => b - a >= IntervaloAviso

\* While the Collector cannot be reached its errors are counted, and once it can be it is found.
SondagemFiel == []AvisosContados /\ AtivaQuandoSobe
=============================================================================
