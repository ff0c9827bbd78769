---------------------------- MODULE MCPublisher -----------------------------
(* Small instances of Publisher for TLC. *)
EXTENDS Publisher, TLC

CONSTANTS x, m1, m2     \* an exchange and two message ids

publish(e, id, permit) == [op |-> "publicar", exchange |-> e, id |-> id, permit |-> permit]
declare(e) == [op |-> "declarar", exchange |-> e, id |-> m1, permit |-> FALSE]

\* Two calls that publish the same fact, one that does not insist on a route, one that
\* publishes another; an exchange to declare and the default one.
MCCalls == <<publish(x, m1, TRUE), publish(x, m1, FALSE), publish(Default, m2, FALSE), declare(x)>>
MCRequests == ToSet(MCCalls)

\* Every way of publishing, without the declarations alone.
MCPublications == {publish(x, m1, TRUE), publish(Default, m1, FALSE)}

Symmetry == Permutations(Tasks) \cup Permutations(Chans)
=============================================================================
