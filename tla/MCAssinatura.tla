---------------------------- MODULE MCAssinatura ----------------------------
(***************************************************************************)
(* Small instances of Assinatura for TLC, two of them in one run: modo     *)
(* restricts the clock, the changes and the invalidations of a behaviour.  *)
(***************************************************************************)
EXTENDS Assinatura, TLC

VARIABLE modo

mcVars == <<vars, modo>>

Symmetry == Permutations(Requests) \cup Permutations(Calls)

\* "relogio": time and every change, no call of Invalidar; "corrida": one instant in which
\* requests, changes and calls of Invalidar interleave.
MCInit ==
    /\ Init
    /\ modo \in {"relogio", "corrida"}

MCNext ==
    /\ Next
    /\ IF modo = "relogio"
       THEN \A e \in Empresas : epoca'[e] = 0
       ELSE now' = 0
    /\ UNCHANGED modo

MCSpec == MCInit /\ [][MCNext]_mcVars
=============================================================================
