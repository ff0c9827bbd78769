---------------------------- MODULE MCTTLCache -----------------------------
(***************************************************************************)
(* Small instances of TTLCache for TLC. MCSpec holds three of them in one  *)
(* run: modo restricts which callers, keys and times a behaviour uses.     *)
(***************************************************************************)
EXTENDS TTLCache

CONSTANTS c1, k1, k2, i1    \* one of the callers, two of the keys, one of the call objects

VARIABLE modo

mcVars == <<vars, modo>>

\* "despejo": one caller, whose context is not cancelled and whose loads answer, over
\* every key and time.
\* "espera": every caller on one key, one unit of time.
\* "corrida": every caller on two keys in one instant (c1 on k1 only, its context not cancelled); a
\* third key is only set, to fill the map, and leaves it by eviction; i1 is used before other calls.
MCInit ==
    /\ Init
    /\ modo \in {"despejo", "espera", "corrida"}

Ativos == IF modo = "despejo" THEN {c1} ELSE Callers
Usadas == CASE modo = "despejo" -> Keys [] modo = "espera" -> {k1} [] modo = "corrida" -> {k1, k2}

Curta == now' <= 1 /\ \A c \in Callers : ret'[c].ttl <= 1

MCNext ==
    /\ Next
    /\ \A c \in Callers \ Ativos : pc'[c] = "idle" /\ key'[c] = None
    /\ \A c \in Callers : key'[c] \in Usadas \cup {None}
    /\ modo # "corrida" => \A k \in Keys \ Usadas : items'[k] = None
    /\ modo = "despejo" => \A c \in Callers : ~ctxDone'[c] /\ ret'[c].err = "nil"
    /\ modo = "espera" => /\ Curta
                          /\ \A k \in Usadas : items'[k] # None => items'[k].expiresAt <= now + 1
    /\ modo = "corrida" =>
          /\ now' = 0 /\ \A c \in Callers : ret'[c].ttl <= 1
          /\ ~ctxDone'[c1] /\ key'[c1] # k2
          /\ \A k \in Keys \ Usadas : items[k] # None /\ items'[k] = None => Inserted # {}
          /\ \A k \in Keys : items'[k] # None => items'[k].expiresAt <= 1
          /\ \A c \in Callers : pending[c] = None /\ pending'[c] # None
                => pending'[c] = i1 \/ \E d \in Callers : pending[d] = i1
    /\ UNCHANGED modo

MCSpec == MCInit /\ [][MCNext]_mcVars /\ Fairness
=============================================================================
