---------------------------- MODULE MCMensageria ----------------------------
(***************************************************************************)
(* Small instances of Conexao and Publisher for TLC.  What the publisher   *)
(* sees of a connection is the channels that end, at any time, so the two  *)
(* share nothing: a behaviour runs one of them, and the other stays in one *)
(* of its initial states.                                                  *)
(***************************************************************************)
EXTENDS MCPublisher, Conexao

CONSTANTS
    n1,             \* one of the connections
    f1, f2,         \* the callbacks
    t1, t2          \* the calls

VARIABLE parte

mcVars == <<vars, conexaoVars, parte>>

\* Calls are alike, and so are connections and callbacks: of behaviours that differ in their
\* names only, one is kept.
MCInit ==
    /\ parte \in {"conexao", "publicacao"}
    /\ Init
    /\ \E a, b \in DOMAIN MCCalls : a <= b /\ req[t1] = MCCalls[a] /\ req[t2] = MCCalls[b]
    /\ parte = "conexao" => req = [t \in Tasks |-> declare(x)]
    /\ ConexaoInit /\ conn = n1

MCNext ==
    /\ \/ parte = "conexao" /\ ConexaoNext /\ (f2 \in ToSet(onConn') => f1 \in ToSet(onConn'))
       \/ parte # "conexao" /\ UNCHANGED conexaoVars
    /\ \/ parte = "publicacao" /\ Next
       \/ parte # "publicacao" /\ UNCHANGED vars
    /\ UNCHANGED parte

Publica == parte = "publicacao"

\* What ConexaoFairSpec and FairSpec assume; a monitor that was not started owes nothing, and
\* calls are made in behaviours of the publisher only.
MCFairness ==
    /\ WF_conexaoVars(Monitor) /\ SF_conexaoVars(Return)
    /\ \A t \in Tasks : /\ SF_vars(Publica /\ Lock(t))
                        /\ WF_vars(~AwaitsBroker(t) /\ Proceeds(t))
    /\ WF_vars(~CloseAwaitsBroker /\ CloseEnds)

MCSpec == MCInit /\ [][MCNext]_mcVars /\ MCFairness

\* EveryCallReturns of the behaviours in which calls run.
PublisherReturns == Publica => EveryCallReturns
=============================================================================
