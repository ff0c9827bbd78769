---------------------------- MODULE RateLimiter -----------------------------
(***************************************************************************)
(* seguranca.RateLimiter (src/seguranca/rate_limiter.go) for one IP. In    *)
(* memory a call is one critical section over a sliding window; in Redis   *)
(* one script over a fixed window, which may fail with or without having   *)
(* counted, and then the middleware lets the request through.              *)
(***************************************************************************)
EXTENDS Ambiente, FiniteSetsExt, SequencesExt

CONSTANTS
    Limite, Janela,
    MaxErros    \* bound on the calls that Redis does not answer

ASSUME LimiterAssumption ==
    Limite \in Nat \ {0} /\ Janela \in Nat \ {0} /\ MaxErros \in Nat

VARIABLES
    visitas,    \* in memory: when the calls of the window passed
    quantidade, \* in Redis: the calls counted, up to Limite + 1
    janelaAte,  \* in Redis: when the key expires
    \* history
    passaram,   \* the calls that passed, counted and within the limit
    semResposta,\* those that passed because Redis did not answer
    recusas     \* how many refusals at this moment, up to one

limiterProprias == <<visitas, quantidade, janelaAte, passaram, semResposta, recusas>>
limiterVars == <<agora, comRedis, limiterProprias>>

LimiterInit ==
    /\ visitas = <<>> /\ quantidade = 0 /\ janelaAte = Nunca
    /\ passaram = {} /\ semResposta = {} /\ recusas = 0

-----------------------------------------------------------------------------
(* In memory.                                                              *)

\* t.After(now - janela), for a visit t.
NaJanela(t) == t > agora - Janela

\* The loop that keeps the visits in the window, in the slice they were in.
NaJanelaDe(s) ==
    LET ate[i \in 0..Len(s)] ==
            IF i = 0 THEN <<>> ELSE IF NaJanela(s[i]) THEN Append(ate[i - 1], s[i]) ELSE ate[i - 1]
    IN ate[Len(s)]

\* Visits of which the last is older than two windows: cleanup deletes them.
Velhas == visitas # <<>> /\ Last(visitas) < agora - 2 * Janela

\* Mutant: one call more than the limit passes.
CheiaUmaAMais(novo) == Len(novo) > Limite

Cheia(novo) == Len(novo) >= Limite

\* limiterMemoria.allow, whatever it answers.
Allow ==
    /\ ~comRedis
    /\ LET novo == NaJanelaDe(visitas) IN
       IF Cheia(novo)
       THEN visitas' = novo /\ recusas' = 1 /\ UNCHANGED passaram
       ELSE visitas' = Append(novo, agora) /\ passaram' = MaisUma(passaram) /\ UNCHANGED recusas
    /\ UNCHANGED <<agora, comRedis, quantidade, janelaAte, semResposta>>

LimiterCleanup ==
    /\ ~comRedis /\ Velhas
    /\ visitas' = <<>>
    /\ UNCHANGED <<agora, comRedis, quantidade, janelaAte, passaram, semResposta, recusas>>

-----------------------------------------------------------------------------
(* In Redis.                                                               *)

Contada == IF janelaAte # Nunca /\ janelaAte <= agora THEN 0 ELSE quantidade

\* The script: INCR, and PEXPIRE when it created the key.
Incrementar ==
    /\ quantidade' = Min({Contada + 1, Limite + 1})
    /\ janelaAte' = IF Contada = 0 THEN agora + Janela ELSE janelaAte

AllowRedis ==
    /\ comRedis
    /\ Incrementar
    /\ IF quantidade' <= Limite
       THEN passaram' = MaisUma(passaram) /\ UNCHANGED recusas
       ELSE recusas' = 1 /\ UNCHANGED passaram
    /\ UNCHANGED <<agora, comRedis, visitas, semResposta>>

\* The script's answer does not come: the middleware lets the request through.
AllowSemResposta ==
    /\ comRedis
    /\ Cardinality(semResposta) < MaxErros
    /\ Incrementar \/ UNCHANGED <<quantidade, janelaAte>>
    /\ semResposta' = MaisUma(semResposta)
    /\ UNCHANGED <<agora, comRedis, visitas, passaram, recusas>>

LimiterPassa ==
    /\ Passa
    /\ recusas' = 0
    /\ UNCHANGED <<visitas, quantidade, janelaAte, passaram, semResposta>>

LimiterNext == Allow \/ LimiterCleanup \/ AllowRedis \/ AllowSemResposta \/ LimiterPassa

LimiterSpec == AmbienteInit /\ LimiterInit /\ [][LimiterNext]_limiterVars

-----------------------------------------------------------------------------
(* Properties.                                                             *)

\* How many of the calls in h passed in the window that ends now.
Passaram(h) == Cardinality(Desde(h, Janela))

Historia == [quando : Tempos, numero : Nat]

\* Types. The slice of an IP never holds more than Limite visits, in order.
LimiterTypeOK ==
    /\ agora \in Tempos /\ comRedis \in BOOLEAN
    /\ visitas \in BoundedSeq(Tempos, Limite)
    /\ quantidade \in 0..(Limite + 1)
    /\ janelaAte \in 0..(MaxTempo + Janela) \cup {Nunca}
    /\ passaram \subseteq Historia /\ semResposta \subseteq Historia
    /\ recusas \in 0..1

\* In memory at most Limite calls pass in any window, whenever it ends, although the slice is
\* filtered in place and cleaned up. In Redis the windows are fixed and a sliding one meets two
\* of them: at most twice Limite, apart from calls Redis did not answer.
LimiteNaJanela ==
    Passaram(passaram) <= IF comRedis THEN 2 * Limite ELSE Limite

\* A call is refused only if Limite calls passed less than Janela ago: refused calls do not
\* count in memory, and in Redis they do not prolong the window.
RecusaJustificada ==
    recusas > 0 => Passaram(passaram) + Passaram(semResposta) >= Limite

\* The limit is neither exceeded nor applied to those who keep to it.
LimiteCorreto == LimiteNaJanela /\ RecusaJustificada
=============================================================================
