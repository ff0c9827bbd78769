-------------------------- MODULE SingleFlightMap --------------------------
(***************************************************************************)
(* What internal/ttlcache promises to its users, with no clock, no         *)
(* capacity and no goroutines: a memo that may lose any entry at any time  *)
(* but never invents or resurrects one, and at most one load per key.      *)
(***************************************************************************)
CONSTANTS Callers, Keys, Values, None

VARIABLES
    memo,       \* the value a Get of each key would find, or None
    loading     \* who is loading which key: pairs of a caller and a key

Init == memo = [k \in Keys |-> None] /\ loading = {}

\* The memo with v under k; any other entry may be lost to make room.
Stores(k, v) ==
    \E lost \in SUBSET (Keys \ {k}) :
        memo' = [j \in Keys |-> IF j = k THEN v
                                ELSE IF j \in lost THEN None ELSE memo[j]]

\* A load begins only for a key that has no value and that nobody loads.
Begin(c, k) ==
    /\ memo[k] = None
    /\ \A d \in Callers : <<d, k>> \notin loading
    /\ loading' = loading \cup {<<c, k>>}
    /\ UNCHANGED memo

\* A load ends: with a value of its key, or with nothing to keep.
Finish(c, k) ==
    /\ <<c, k>> \in loading
    /\ loading' = loading \ {<<c, k>>}
    /\ \/ UNCHANGED memo
       \/ \E v \in Values : v.key = k /\ Stores(k, v)

Put(k) ==
    /\ \E v \in Values : v.key = k /\ Stores(k, v)
    /\ UNCHANGED loading

Lose(lost) ==
    /\ memo' = [k \in Keys |-> IF k \in lost THEN None ELSE memo[k]]
    /\ UNCHANGED loading

Next ==
    \/ \E c \in Callers, k \in Keys : Begin(c, k) \/ Finish(c, k)
    \/ \E k \in Keys : Put(k)
    \/ \E lost \in SUBSET Keys : Lose(lost)

Spec == Init /\ [][Next]_<<memo, loading>>
=============================================================================
