------------------------------ MODULE TTLCache ------------------------------
(***************************************************************************)
(* internal/ttlcache: a mutex-protected map with expiry and a capacity,    *)
(* and Load, which lets one goroutine per key run the (slow) load while    *)
(* the others wait for its answer.                                         *)
(*                                                                         *)
(* Each critical section of the mutex is one action; everything Load does  *)
(* outside the mutex (run load, write the answer, close the channel) is a  *)
(* step of its own.  A value carries, as provenance, the key it was loaded *)
(* for; the code's values do not.                                          *)
(***************************************************************************)
EXTENDS Integers, FiniteSets

CONSTANTS
    Callers,    \* goroutines that call Load
    Keys,
    Payloads,   \* what distinguishes two values of one key
    TTLs,       \* ttls that load and Set are given
    Capacity,   \* the argument of New
    Calls,      \* call objects; one is reused once nobody points to it
    MaxTime,    \* bound: the clock stops here
    None,       \* an absent map entry, a nil pointer
    Zero        \* the zero value of V

ASSUME KeysAssumption  == IsFiniteSet(Keys)
ASSUME NumbersAssumption == /\ TTLs \subseteq Int
                            /\ Capacity \in Int
                            /\ MaxTime \in Nat
ASSUME NoneAssumption  == /\ None \notin Calls
                          /\ None \notin [value : [key : Keys, data : Payloads],
                                          expiresAt : Int]

VARIABLES
    now,        \* the clock c.now()
    items,      \* Cache.items
    inflight,   \* Cache.inflight
    calls,      \* the call objects: done, value, err
    pc,         \* where in Load each caller is
    key,        \* the key each caller passed to Load
    pending,    \* the call each caller leads or waits for
    ret,        \* the locals value, ttl, err of Load; when idle, its result
    ctxDone     \* has the caller's context been cancelled?

vars == <<now, items, inflight, calls, pc, key, pending, ret, ctxDone>>

-----------------------------------------------------------------------------
capacity == IF Capacity < 1 THEN 1 ELSE Capacity

Value == [key : Keys, data : Payloads]
Item == [value : Value, expiresAt : Int]
Error == {"nil", "load", "aborted", "ctx"}
Result == [value : Value \cup {Zero}, ttl : TTLs \cup {0}, err : Error]
Call == [done : BOOLEAN, value : Value \cup {Zero}, err : Error]

NewCall == [done |-> FALSE, value |-> Zero, err |-> "nil"]

Present(m) == {k \in Keys : m[k] # None}

Live(k) == items[k] # None /\ now < items[k].expiresAt

\* getLocked deletes the entry it finds expired.
AfterGet(k) == IF Live(k) THEN items ELSE [items EXCEPT ![k] = None]

Purged(m) == [k \in Keys |-> IF m[k] # None /\ ~(now < m[k].expiresAt)
                             THEN None ELSE m[k]]

\* Entries that evictSoonestLocked may pick: map order decides between equals.
Soonest(m) == {k \in Present(m) :
                  \A j \in Present(m) : m[k].expiresAt <= m[j].expiresAt}

\* Mutant of NeedsRoom: the capacity test is off by one.
NeedsRoomOffByOne(m, k) == m[k] = None /\ Cardinality(Present(m)) > capacity

NeedsRoom(m, k) == m[k] = None /\ Cardinality(Present(m)) >= capacity

\* Mutant of MadeRoom: evicts without looking whether the purge made room.
MadeRoomWithoutRecheck(m, k) ==
    IF NeedsRoom(m, k) /\ Present(Purged(m)) # {}
    THEN {[Purged(m) EXCEPT ![v] = None] : v \in Soonest(Purged(m))}
    ELSE {Purged(m)}

\* The maps setLocked may have before it inserts k.
MadeRoom(m, k) ==
    IF ~NeedsRoom(m, k) THEN {m}
    ELSE IF Cardinality(Present(Purged(m))) >= capacity
         THEN {[Purged(m) EXCEPT ![v] = None] : v \in Soonest(Purged(m))}
         ELSE {Purged(m)}

SetLocked(k, v, ttl) ==
    \E m \in MadeRoom(items, k) :
        items' = [m EXCEPT ![k] = [value |-> v, expiresAt |-> now + ttl]]

-----------------------------------------------------------------------------
Init ==
    /\ now = 0
    /\ items = [k \in Keys |-> None]
    /\ inflight = [k \in Keys |-> None]
    /\ calls = [i \in Calls |-> NewCall]
    /\ pc = [c \in Callers |-> "idle"]
    /\ key = [c \in Callers |-> None]
    /\ pending = [c \in Callers |-> None]
    /\ ret = [c \in Callers |-> [value |-> Zero, ttl |-> 0, err |-> "nil"]]
    /\ ctxDone = [c \in Callers |-> FALSE]

Returns(c, v, ttl, e) ==
    ret' = [ret EXCEPT ![c] = [value |-> v, ttl |-> ttl, err |-> e]]

Goto(c, from, to) == pc[c] = from /\ pc' = [pc EXCEPT ![c] = to]

Enter(c, k) ==
    /\ key' = [key EXCEPT ![c] = k]
    /\ ctxDone' = [ctxDone EXCEPT ![c] = FALSE]

LoadHit(c, k) ==
    /\ pc[c] = "idle"
    /\ Live(k)
    /\ Enter(c, k)
    /\ Returns(c, items[k].value, 0, "nil")
    /\ UNCHANGED <<now, items, inflight, calls, pc, pending>>

\* Mutant of InFlight: Load does not look for a load already running.
InFlightIgnored(k) == FALSE

InFlight(k) == inflight[k] # None

LoadJoin(c, k) ==
    /\ ~Live(k)
    /\ InFlight(k)
    /\ Goto(c, "idle", "waiting")
    /\ Enter(c, k)
    /\ items' = AfterGet(k)
    /\ pending' = [pending EXCEPT ![c] = inflight[k]]
    /\ UNCHANGED <<now, inflight, calls, ret>>

LoadLead(c, k) ==
    /\ ~Live(k)
    /\ ~InFlight(k)
    /\ Goto(c, "idle", "loading")
    /\ Enter(c, k)
    /\ items' = AfterGet(k)
    /\ \E i \in Calls :
          /\ \A d \in Callers : pending[d] # i
          /\ calls' = [calls EXCEPT ![i] = NewCall]
          /\ inflight' = [inflight EXCEPT ![k] = i]
          /\ pending' = [pending EXCEPT ![c] = i]
    /\ UNCHANGED <<now, ret>>

LoadReturns(c, v, ttl, e) ==
    /\ Goto(c, "loading", "returned")
    /\ Returns(c, v, ttl, e)
    /\ UNCHANGED <<now, items, inflight, calls, key, pending, ctxDone>>

\* Mutant of LoadPanics: the cleanup is not deferred, so a panic skips it.
LoadPanicsWithoutDefer(c) ==
    /\ Goto(c, "loading", "idle")
    /\ Returns(c, Zero, 0, "aborted")
    /\ UNCHANGED <<now, items, inflight, calls, key, pending, ctxDone>>

\* load panics: the deferred function runs with err still errLoadAborted.
LoadPanics(c) == LoadReturns(c, Zero, 0, "aborted")

\* Mutant of Storable: the error is not looked at.
StorableOnError(r) == r.ttl > 0

Storable(r) == r.err = "nil" /\ r.ttl > 0

Settle(c) ==
    /\ Goto(c, "returned", "settled")
    /\ inflight' = [inflight EXCEPT ![key[c]] = None]
    /\ IF Storable(ret[c])
       THEN SetLocked(key[c], ret[c].value, ret[c].ttl)
       ELSE UNCHANGED items
    /\ UNCHANGED <<now, calls, key, pending, ret, ctxDone>>

\* Mutant of Publish: the error of the load is not handed to the waiters.
PublishWithoutError(c) ==
    /\ Goto(c, "settled", "published")
    /\ calls' = [calls EXCEPT ![pending[c]].value = ret[c].value]
    /\ UNCHANGED <<now, items, inflight, key, pending, ret, ctxDone>>

Publish(c) ==
    /\ Goto(c, "settled", "published")
    /\ calls' = [calls EXCEPT ![pending[c]].value = ret[c].value,
                              ![pending[c]].err = ret[c].err]
    /\ UNCHANGED <<now, items, inflight, key, pending, ret, ctxDone>>

CloseDone(c) ==
    /\ Goto(c, "published", "idle")
    /\ calls' = [calls EXCEPT ![pending[c]].done = TRUE]
    /\ pending' = [pending EXCEPT ![c] = None]
    /\ UNCHANGED <<now, items, inflight, key, ret, ctxDone>>

WaiterReceives(c) ==
    /\ Goto(c, "waiting", "idle")
    /\ calls[pending[c]].done
    /\ Returns(c, calls[pending[c]].value, 0, calls[pending[c]].err)
    /\ pending' = [pending EXCEPT ![c] = None]
    /\ UNCHANGED <<now, items, inflight, calls, key, ctxDone>>

WaiterGivesUp(c) ==
    /\ Goto(c, "waiting", "idle")
    /\ ctxDone[c]
    /\ Returns(c, Zero, 0, "ctx")
    /\ pending' = [pending EXCEPT ![c] = None]
    /\ UNCHANGED <<now, items, inflight, calls, key, ctxDone>>

CancelContext(c) ==
    /\ pc[c] # "idle"
    /\ ~ctxDone[c]
    /\ ctxDone' = [ctxDone EXCEPT ![c] = TRUE]
    /\ UNCHANGED <<now, items, inflight, calls, pc, key, pending, ret>>

\* Set, Get, Delete and DeleteFunc: one critical section each.
ExceptItems == <<now, inflight, calls, pc, key, pending, ret, ctxDone>>

Set(k, v, ttl) ==
    /\ ttl > 0
    /\ SetLocked(k, v, ttl)
    /\ UNCHANGED ExceptItems

Get(k) == items' = AfterGet(k) /\ UNCHANGED ExceptItems

\* matching: the keys whose entry the match function accepts.
DeleteFunc(matching) ==
    /\ items' = [k \in Keys |-> IF k \in matching THEN None ELSE items[k]]
    /\ UNCHANGED ExceptItems

Delete(k) == DeleteFunc({k})

Tick ==
    /\ now < MaxTime
    /\ now' = now + 1
    /\ UNCHANGED <<items, inflight, calls, pc, key, pending, ret, ctxDone>>

LoadEnds(c) ==
    \/ LoadPanics(c)
    \/ \E ttl \in TTLs : \/ LoadReturns(c, Zero, ttl, "load")
                         \/ \E d \in Payloads :
                               LoadReturns(c, [key |-> key[c], data |-> d], ttl, "nil")

Step(c) ==
    \/ \E k \in Keys : LoadHit(c, k) \/ LoadJoin(c, k) \/ LoadLead(c, k)
    \/ LoadEnds(c) \/ Settle(c) \/ Publish(c) \/ CloseDone(c)
    \/ WaiterReceives(c) \/ WaiterGivesUp(c) \/ CancelContext(c)

Next ==
    \/ \E c \in Callers : Step(c)
    \/ \E k \in Keys, d \in Payloads, ttl \in TTLs :
          Set(k, [key |-> k, data |-> d], ttl)
    \/ \E k \in Keys : Get(k) \/ Delete(k)
    \/ \E matching \in SUBSET Keys : DeleteFunc(matching)
    \/ Tick

Spec == Init /\ [][Next]_vars

\* The Go scheduler runs every runnable goroutine, and load returns: both
\* checkers run it with an HTTP client that has a timeout.
Fairness ==
    \A c \in Callers : /\ WF_vars(LoadEnds(c))
                       /\ WF_vars(Settle(c))
                       /\ WF_vars(Publish(c))
                       /\ WF_vars(CloseDone(c))
                       /\ WF_vars(WaiterReceives(c))

FairSpec == Spec /\ Fairness

-----------------------------------------------------------------------------
\* Type invariant.
TypeOK ==
    /\ now \in Int
    /\ items \in [Keys -> Item \cup {None}]
    /\ inflight \in [Keys -> Calls \cup {None}]
    /\ calls \in [Calls -> Call]
    /\ pc \in [Callers -> {"idle", "loading", "returned", "settled",
                            "published", "waiting"}]
    /\ key \in [Callers -> Keys \cup {None}]
    /\ pending \in [Callers -> Calls \cup {None}]
    /\ ret \in [Callers -> Result]
    /\ ctxDone \in [Callers -> BOOLEAN]

\* The map never holds more entries than the capacity New settled on, whatever
\* order Set, Load's store, expiry and deletions come in (setLocked).
CapacityRespected == Cardinality(Present(items)) <= capacity

\* At most one goroutine per key is between registering its call and removing
\* it again, so load never runs twice at once for a key (Load).
InLoad(c) == pc[c] \in {"loading", "returned"}
SingleFlight ==
    \A c, d \in Callers : InLoad(c) /\ InLoad(d) /\ key[c] = key[d] => c = d

\* A Load that returns without error returns a value loaded or set for its own
\* key, also when it waited for a call led by another goroutine: it never gets
\* the zero value of a failed or aborted load, nor an answer that was not yet
\* written when the channel closed.
AnswerBelongsToKey ==
    \A c \in Callers :
        pc[c] = "idle" /\ key[c] # None /\ ret[c].err = "nil"
            => ret[c].value \in Value /\ ret[c].value.key = key[c]

\* Only answers are cached: a failed or panicked load leaves nothing behind.
OnlyAnswersCached ==
    \A k \in Keys : items[k] # None
        => items[k].value \in Value /\ items[k].value.key = k

\* What Load and Get answer is always what some load of that very key returned without an
\* error: never another key's value, never a failure kept.
AnswersFaithful == AnswerBelongsToKey /\ OnlyAnswersCached

\* A step that inserts an entry drops a live one only if live entries alone fill
\* the map, no expired one is left beside it, and it is the closest to its expiry
\* (setLocked, purgeLocked, evictSoonestLocked).
Inserted == {k \in Keys : items[k] = None /\ items'[k] # None}
EvictsSoonestLive ==
    [][\A v \in Keys :
         Inserted # {} /\ Live(v) /\ items'[v] = None
           => /\ Cardinality({k \in Keys : Live(k)}) >= capacity
              /\ \A j \in Keys \ Inserted : items'[j] # None
                    => Live(j) /\ items[v].expiresAt <= items[j].expiresAt]_vars

\* Everyone who waits for a load is released, whether the load answers, fails
\* or panics (the deferred function of Load).
WaitersReleased == \A c \in Callers : pc[c] = "waiting" ~> pc[c] = "idle"

\* What the cache promises: see SingleFlightMap.
Memo == [k \in Keys |-> IF Live(k) THEN items[k].value ELSE None]
LoadingPairs == {<<c, key[c]>> : c \in {d \in Callers : InLoad(d)}}
Promise == INSTANCE SingleFlightMap
               WITH memo <- Memo, loading <- LoadingPairs, Values <- Value
ImplementsSingleFlightMap == Promise!Spec
=============================================================================
