------------------------------ MODULE Ambiente ------------------------------
(***************************************************************************)
(* What the filters of a request find around them: a clock, and a Redis    *)
(* client in their configuration or none.                                  *)
(***************************************************************************)
EXTENDS Integers, FiniteSets

CONSTANTS
    MaxTempo,   \* bound on the clock
    Nunca       \* no moment

ASSUME AmbienteAssumption == MaxTempo \in Nat /\ Nunca \notin Int

VARIABLES
    agora,      \* time.Now(), also the clock by which Redis expires its keys
    comRedis    \* cfg.Redis # nil

Tempos == 0..MaxTempo

AmbienteInit ==
    /\ agora = 0
    /\ comRedis \in BOOLEAN

\* Time passes. The unit is much longer than the 200 ms that the commands of one operation
\* may take together.
Passa ==
    /\ agora < MaxTempo
    /\ agora' = agora + 1
    /\ UNCHANGED comRedis

\* A history of calls, each with its moment and its number: one more, and those of the last d units.
MaisUma(h) == h \cup {[quando |-> agora, numero |-> Cardinality(h)]}

Desde(h, d) == {c \in h : agora - d < c.quando}
=============================================================================
