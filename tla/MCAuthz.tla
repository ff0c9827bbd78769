------------------------------ MODULE MCAuthz -------------------------------
(***************************************************************************)
(* Small instances of Authz for TLC, two of them in one run: modo          *)
(* restricts which requests and which changes a behaviour has.             *)
(***************************************************************************)
EXTENDS Authz, TLC

CONSTANTS r1, i1    \* one of the requests and one of the call objects

VARIABLE modo

mcVars == <<vars, modo>>

Symmetry == Permutations(Tokens)

\* "relogio": one request, a support session, time and every change; "corrida": every request,
\* no time, one change, and the context of r1 is not cancelled.
MCInit ==
    /\ Init
    /\ modo \in {"relogio", "corrida"}

MCNext ==
    /\ Next
    /\ IF modo = "relogio"
       THEN /\ \A c \in Requests \ {r1} : pc'[c] = "idle" /\ key'[c] = None
            /\ pending'[r1] \in {i1, None}
       ELSE /\ now' = 0 /\ ~ctxDone'[r1] /\ UNCHANGED sessao
            /\ \A u \in Usuarios : permissao'[u].versao <= 1
    /\ UNCHANGED modo

MCSpec == MCInit /\ [][MCNext]_mcVars
=============================================================================
