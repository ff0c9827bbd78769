--------------------------- MODULE TTLCacheProofs ---------------------------
(***************************************************************************)
(* Theorems about TTLCache, for any number of callers and keys, any        *)
(* capacity and an unbounded clock.                                        *)
(***************************************************************************)
EXTENDS TTLCache, FiniteSetTheorems, TLAPS

(* -------------------------- Type correctness -------------------------- *)

\* Whatever map setLocked starts from, each entry of the map it leaves is one
\* it found there or none.
LEMMA MadeRoomType ==
    ASSUME NEW M, NEW m \in [Keys -> M \cup {None}], NEW k \in Keys,
           NEW r \in MadeRoom(m, k)
    PROVE  r \in [Keys -> M \cup {None}]
<1>1. Purged(m) \in [Keys -> M \cup {None}]
  BY DEF Purged
<1>2. QED
  BY <1>1 DEF MadeRoom

\* setLocked keeps the map well typed.
LEMMA SetLockedType ==
    ASSUME TypeOK, NEW k \in Keys, NEW v \in Value, NEW ttl \in Int,
           SetLocked(k, v, ttl)
    PROVE  items' \in [Keys -> Item \cup {None}]
<1>1. PICK r \in MadeRoom(items, k) :
          items' = [r EXCEPT ![k] = [value |-> v, expiresAt |-> now + ttl]]
  BY DEF SetLocked
<1>2. r \in [Keys -> Item \cup {None}]
  BY MadeRoomType, <1>1 DEF TypeOK
<1>3. [value |-> v, expiresAt |-> now + ttl] \in Item
  BY DEF TypeOK, Item
<1>4. QED
  BY <1>1, <1>2, <1>3

LEMMA TTLsAreIntegers == \A ttl \in TTLs \cup {0} : ttl \in Int
BY NumbersAssumption

\* The entries are those a caller stored: a value whenever there is no error.
Loaded ==
    \A c \in Callers : pc[c] = "returned" /\ ret[c].err = "nil"
        => ret[c].value \in Value /\ ret[c].value.key = key[c]

\* A caller that is not idle entered Load with a key; one that leads or waits
\* points to a call.
Engaged ==
    \A c \in Callers : pc[c] # "idle" => key[c] \in Keys /\ pending[c] \in Calls

TypeInv == TypeOK /\ Engaged /\ Loaded

LEMMA TypeInvInit == Init => TypeInv
BY DEF Init, TypeInv, TypeOK, Engaged, Loaded, NewCall, Call, Result, Error

LEMMA TypeInvNext == TypeInv /\ [Next]_vars => TypeInv'
<1> SUFFICES ASSUME TypeInv, [Next]_vars PROVE TypeInv'
  OBVIOUS
<1> USE DEF TypeInv, TypeOK, Engaged, Loaded
<1>1. ASSUME NEW c \in Callers, NEW k \in Keys, LoadHit(c, k) PROVE TypeInv'
  <2>1. items[k].value \in Value
    BY <1>1 DEF LoadHit, Live, Item
  <2>2. [value |-> items[k].value, ttl |-> 0, err |-> "nil"] \in Result
    BY <2>1 DEF Result, Error
  <2>3. QED
    BY <1>1, <2>2 DEF LoadHit, Enter, Returns
<1>2. ASSUME NEW c \in Callers, NEW k \in Keys, LoadJoin(c, k) PROVE TypeInv'
  BY <1>2 DEF LoadJoin, Goto, Enter, AfterGet, InFlight
<1>3. ASSUME NEW c \in Callers, NEW k \in Keys, LoadLead(c, k) PROVE TypeInv'
  BY <1>3 DEF LoadLead, Goto, Enter, AfterGet, NewCall, Call, Error
<1>4. ASSUME NEW c \in Callers, NEW ttl \in TTLs \cup {0}, NEW e \in Error,
             NEW v \in Value \cup {Zero}, LoadReturns(c, v, ttl, e),
             e = "nil" => v \in Value /\ v.key = key[c]
      PROVE TypeInv'
  <2>1. [value |-> v, ttl |-> ttl, err |-> e] \in Result
    BY DEF Result
  <2>2. TypeOK' /\ Engaged'
    BY <1>4, <2>1 DEF LoadReturns, Goto, Returns
  <2>3. Loaded'
    BY <1>4 DEF LoadReturns, Goto, Returns
  <2>4. QED
    BY <2>2, <2>3
<1>5. ASSUME NEW c \in Callers, LoadEnds(c) PROVE TypeInv'
  <2>1. CASE LoadPanics(c)
    BY <2>1, <1>4 DEF LoadPanics, Error
  <2>2. CASE \E ttl \in TTLs : LoadReturns(c, Zero, ttl, "load")
    BY <2>2, <1>4 DEF Error
  <2>3. ASSUME NEW ttl \in TTLs, NEW d \in Payloads,
               LoadReturns(c, [key |-> key[c], data |-> d], ttl, "nil")
        PROVE TypeInv'
    <3>1. key[c] \in Keys
      BY <2>3 DEF LoadReturns, Goto
    <3>2. [key |-> key[c], data |-> d] \in Value
      BY <3>1 DEF Value
    <3>3. QED
      BY <2>3, <3>2, <1>4 DEF Error
  <2>4. QED
    BY <1>5, <2>1, <2>2, <2>3 DEF LoadEnds
<1>6. ASSUME NEW c \in Callers, Settle(c) PROVE TypeInv'
  <2>1. items' \in [Keys -> Item \cup {None}]
    <3>1. CASE Storable(ret[c])
      <4>1. pc[c] = "returned" /\ ret[c] \in Result
        BY <1>6 DEF Settle, Goto
      <4>2. ret[c].ttl \in Int
        <5>1. ret[c].ttl \in TTLs \cup {0}
          BY <4>1 DEF Result
        <5>2. QED
          BY <5>1, TTLsAreIntegers
      <4>3. key[c] \in Keys
        BY <4>1
      <4>4. ret[c].value \in Value
        BY <4>1, <3>1 DEF Storable
      <4>5. SetLocked(key[c], ret[c].value, ret[c].ttl)
        BY <1>6, <3>1 DEF Settle
      <4>6. QED
        BY <4>2, <4>3, <4>4, <4>5, SetLockedType
    <3>2. CASE ~Storable(ret[c])
      BY <1>6, <3>2 DEF Settle
    <3>3. QED
      BY <3>1, <3>2
  <2>2. QED
    BY <1>6, <2>1 DEF Settle, Goto
<1>7. ASSUME NEW c \in Callers, Publish(c) PROVE TypeInv'
  <2>1. calls' \in [Calls -> Call]
    BY <1>7 DEF Publish, Goto, Call, Result
  <2>2. QED
    BY <1>7, <2>1 DEF Publish, Goto
<1>8. ASSUME NEW c \in Callers, CloseDone(c) PROVE TypeInv'
  <2>1. calls' \in [Calls -> Call]
    BY <1>8 DEF CloseDone, Goto, Call
  <2>2. QED
    BY <1>8, <2>1 DEF CloseDone, Goto
<1>9. ASSUME NEW c \in Callers, WaiterReceives(c) PROVE TypeInv'
  <2>1. [value |-> calls[pending[c]].value, ttl |-> 0,
         err |-> calls[pending[c]].err] \in Result
    BY <1>9 DEF WaiterReceives, Goto, Result, Call
  <2>2. QED
    BY <1>9, <2>1 DEF WaiterReceives, Goto, Returns
<1>10. ASSUME NEW c \in Callers, WaiterGivesUp(c) PROVE TypeInv'
  <2>1. [value |-> Zero, ttl |-> 0, err |-> "ctx"] \in Result
    BY DEF Result, Error
  <2>2. QED
    BY <1>10, <2>1 DEF WaiterGivesUp, Goto, Returns
<1>11. ASSUME NEW c \in Callers, CancelContext(c) PROVE TypeInv'
  BY <1>11 DEF CancelContext
<1>12. ASSUME NEW k \in Keys, NEW d \in Payloads, NEW ttl \in TTLs,
              Set(k, [key |-> k, data |-> d], ttl)
       PROVE TypeInv'
  <2>1. [key |-> k, data |-> d] \in Value /\ ttl \in Int
    BY NumbersAssumption DEF Value
  <2>2. items' \in [Keys -> Item \cup {None}]
    BY <1>12, <2>1, SetLockedType DEF Set
  <2>3. QED
    BY <1>12, <2>2 DEF Set, ExceptItems
<1>13. ASSUME NEW k \in Keys, Get(k) PROVE TypeInv'
  BY <1>13 DEF Get, AfterGet, ExceptItems
<1>14. ASSUME NEW matching \in SUBSET Keys, DeleteFunc(matching) PROVE TypeInv'
  BY <1>14 DEF DeleteFunc, ExceptItems
<1>15. ASSUME NEW k \in Keys, Delete(k) PROVE TypeInv'
  BY <1>15, <1>14 DEF Delete
<1>16. ASSUME Tick PROVE TypeInv'
  BY <1>16 DEF Tick
<1>17. ASSUME UNCHANGED vars PROVE TypeInv'
  BY <1>17 DEF vars
<1>18. QED
  BY <1>1, <1>2, <1>3, <1>5, <1>6, <1>7, <1>8, <1>9, <1>10, <1>11, <1>12,
     <1>13, <1>14, <1>15, <1>16, <1>17 DEF Next, Step

\* The variables of the cache and of Load always have their types.
THEOREM TypeCorrect == Spec => []TypeOK
<1>1. TypeInv => TypeOK
  BY DEF TypeInv
<1>2. QED
  BY TypeInvInit, TypeInvNext, <1>1, PTL DEF Spec

(* ------------------------------ Capacity ------------------------------ *)

LEMMA PresentFinite ==
    ASSUME NEW m
    PROVE  /\ IsFiniteSet(Present(m))
           /\ Cardinality(Present(m)) \in Nat
BY KeysAssumption, FS_Subset, FS_CardinalityType DEF Present

LEMMA CapacityPositive == capacity \in Nat /\ capacity >= 1
BY NumbersAssumption DEF capacity

\* A map with no more entries has no greater cardinality.
LEMMA FewerEntries ==
    ASSUME NEW m, NEW r, Present(r) \subseteq Present(m)
    PROVE  Cardinality(Present(r)) <= Cardinality(Present(m))
BY PresentFinite, FS_Subset

\* setLocked makes room: the map it is about to insert k into already holds k,
\* or has a free place.  A full map holds an entry, so there is one to evict.
LEMMA RoomIsMade ==
    ASSUME NEW M, NEW m \in [Keys -> M \cup {None}], NEW k \in Keys,
           Cardinality(Present(m)) <= capacity,
           NEW r \in MadeRoom(m, k)
    PROVE  Cardinality(Present(r) \cup {k}) <= capacity
<1>1. CASE ~NeedsRoom(m, k)
  <2>1. r = m
    BY <1>1 DEF MadeRoom
  <2>2. k \in Present(m) \/ Cardinality(Present(m)) < capacity
    BY <1>1, PresentFinite, CapacityPositive DEF NeedsRoom, Present
  <2>3. Cardinality(Present(m) \cup {k}) =
            IF k \in Present(m) THEN Cardinality(Present(m))
                                ELSE Cardinality(Present(m)) + 1
    BY PresentFinite, FS_AddElement
  <2>4. QED
    BY <2>1, <2>2, <2>3, PresentFinite, CapacityPositive
<1>2. CASE NeedsRoom(m, k)
  <2> DEFINE p == Purged(m)
  <2>1. Present(p) \subseteq Present(m)
    BY DEF Purged, Present
  <2>2. Cardinality(Present(p)) <= capacity
    BY <2>1, FewerEntries, PresentFinite, CapacityPositive
  <2>3. Cardinality(Present(r)) < capacity
    <3>1. CASE Cardinality(Present(p)) >= capacity
      <4>1. PICK v \in Soonest(p) : r = [p EXCEPT ![v] = None]
        BY <1>2, <3>1 DEF MadeRoom
      <4>2. v \in Present(p)
        BY <4>1 DEF Soonest
      <4>3. p \in [Keys -> M \cup {None}]
        BY DEF Purged
      <4>4. Present(r) = Present(p) \ {v}
        BY <4>1, <4>2, <4>3 DEF Present
      <4>5. Cardinality(Present(p) \ {v}) = Cardinality(Present(p)) - 1
        BY <4>2, PresentFinite, FS_RemoveElement
      <4>6. QED
        BY <4>4, <4>5, <2>2, PresentFinite, CapacityPositive
    <3>2. CASE ~(Cardinality(Present(p)) >= capacity)
      <4>1. r = p
        BY <1>2, <3>2 DEF MadeRoom
      <4>2. QED
        BY <4>1, <3>2, PresentFinite, CapacityPositive
    <3>3. QED
      BY <3>1, <3>2
  <2>4. Cardinality(Present(r) \cup {k}) =
            IF k \in Present(r) THEN Cardinality(Present(r))
                                ELSE Cardinality(Present(r)) + 1
    BY PresentFinite, FS_AddElement
  <2>5. Cardinality(Present(r)) \in Nat
    BY PresentFinite
  <2>6. QED
    BY <2>3, <2>4, <2>5, CapacityPositive
<1>3. QED
  BY <1>1, <1>2

\* setLocked never takes the map past its capacity.
LEMMA SetLockedRespectsCapacity ==
    ASSUME TypeOK, CapacityRespected,
           NEW k \in Keys, NEW v, NEW ttl, SetLocked(k, v, ttl)
    PROVE  CapacityRespected'
<1>1. PICK r \in MadeRoom(items, k) :
          items' = [r EXCEPT ![k] = [value |-> v, expiresAt |-> now + ttl]]
  BY DEF SetLocked
<1>2. r \in [Keys -> Item \cup {None}]
  BY <1>1, MadeRoomType DEF TypeOK
<1>3. Present(items') \subseteq Present(r) \cup {k}
  BY <1>1, <1>2 DEF Present
<1>4. Cardinality(Present(r) \cup {k}) <= capacity
  BY <1>1, RoomIsMade DEF TypeOK, CapacityRespected
<1>5. IsFiniteSet(Present(r) \cup {k})
  BY PresentFinite, FS_AddElement
<1>6. Cardinality(Present(items')) <= Cardinality(Present(r) \cup {k})
  BY <1>3, <1>5, FS_Subset
<1>7. QED
  BY <1>4, <1>5, <1>6, PresentFinite, CapacityPositive, FS_CardinalityType
     DEF CapacityRespected

\* A step that only drops entries respects the capacity.
LEMMA DroppingRespectsCapacity ==
    ASSUME CapacityRespected, Present(items') \subseteq Present(items)
    PROVE  CapacityRespected'
BY FewerEntries, PresentFinite, CapacityPositive DEF CapacityRespected

LEMMA CapacityInit == Init => CapacityRespected
<1>1. Init => Present(items) = {}
  BY DEF Init, Present
<1>2. QED
  BY <1>1, FS_EmptySet, CapacityPositive DEF CapacityRespected

LEMMA CapacityNext == TypeInv /\ CapacityRespected /\ [Next]_vars => CapacityRespected'
<1> SUFFICES ASSUME TypeInv, CapacityRespected, [Next]_vars
             PROVE  CapacityRespected'
  OBVIOUS
<1> USE DEF TypeInv
<1>1. ASSUME NEW c \in Callers, Settle(c) PROVE CapacityRespected'
  <2>1. key[c] \in Keys
    BY <1>1 DEF Settle, Goto, Engaged
  <2>2. QED
    BY <1>1, <2>1, SetLockedRespectsCapacity DEF Settle, CapacityRespected
<1>2. ASSUME NEW k \in Keys, NEW v, NEW ttl, Set(k, v, ttl)
      PROVE CapacityRespected'
  BY <1>2, SetLockedRespectsCapacity DEF Set
<1>3. ASSUME \/ \E c \in Callers, k \in Keys : LoadJoin(c, k) \/ LoadLead(c, k)
             \/ \E k \in Keys : Get(k) \/ Delete(k)
             \/ \E matching \in SUBSET Keys : DeleteFunc(matching)
      PROVE CapacityRespected'
  <2>1. \/ \E k \in Keys : items' = AfterGet(k)
        \/ \E matching \in SUBSET Keys :
              items' = [k \in Keys |-> IF k \in matching THEN None ELSE items[k]]
    BY <1>3 DEF LoadJoin, LoadLead, Get, Delete, DeleteFunc
  <2>2. Present(items') \subseteq Present(items)
    BY <2>1 DEF AfterGet, Present, TypeOK
  <2>3. QED
    BY <2>2, DroppingRespectsCapacity
<1>4. ASSUME UNCHANGED items PROVE CapacityRespected'
  BY <1>4 DEF CapacityRespected
<1>5. QED
  BY <1>1, <1>2, <1>3, <1>4
     DEF Next, Step, vars, LoadHit, LoadEnds, LoadPanics, LoadReturns, Publish,
         CloseDone, WaiterReceives, WaiterGivesUp, CancelContext, Tick

\* The map never outgrows its capacity, for any capacity, number of keys and
\* number of callers, however Set, Load and the deletions interleave.
THEOREM CapacityAlwaysRespected == Spec => []CapacityRespected
BY TypeInvInit, TypeInvNext, CapacityInit, CapacityNext, PTL DEF Spec

\* The map tells an entry from none.
LEMMA NoneIsNoItem == None \notin Item
BY NoneAssumption DEF Item, Value

(* ------------------------------ Eviction ------------------------------- *)

\* What is left after the purge is what is live.
LEMMA PurgedIsLive ==
    ASSUME items \in [Keys -> Item \cup {None}]
    PROVE  /\ Present(Purged(items)) = {k \in Keys : Live(k)}
           /\ \A k \in Keys : Live(k) => Purged(items)[k] = items[k]
           /\ Purged(items) \in [Keys -> Item \cup {None}]
BY DEF Purged, Present, Live

\* A live entry that setLocked drops is the soonest of a map full of live ones.
LEMMA SetLockedEvictsSoonest ==
    ASSUME TypeOK,
           NEW k \in Keys, NEW v \in Value, NEW ttl \in Int, SetLocked(k, v, ttl),
           NEW e \in Keys, Live(e), items'[e] = None
    PROVE  /\ Cardinality({j \in Keys : Live(j)}) >= capacity
           /\ \A j \in Keys \ Inserted : items'[j] # None
                 => Live(j) /\ items[e].expiresAt <= items[j].expiresAt
<1> DEFINE p == Purged(items)
<1>1. PICK r \in MadeRoom(items, k) :
          items' = [r EXCEPT ![k] = [value |-> v, expiresAt |-> now + ttl]]
  BY DEF SetLocked
<1>2. r \in [Keys -> Item \cup {None}]
  BY <1>1, MadeRoomType DEF TypeOK
<1>3. items'[k] # None
  <2>1. [value |-> v, expiresAt |-> now + ttl] \in Item
    BY DEF TypeOK, Item
  <2>2. QED
    BY <1>1, <1>2, <2>1, NoneIsNoItem
<1>4. e # k /\ r[e] = None /\ items[e] # None
  BY <1>1, <1>2, <1>3 DEF Live
<1>5. /\ Present(p) = {j \in Keys : Live(j)}
      /\ \A j \in Keys : Live(j) => p[j] = items[j]
      /\ p \in [Keys -> Item \cup {None}]
  BY PurgedIsLive DEF TypeOK
<1>6. NeedsRoom(items, k) /\ Cardinality(Present(p)) >= capacity
  BY <1>1, <1>4, <1>5 DEF MadeRoom
<1>7. PICK w \in Soonest(p) : r = [p EXCEPT ![w] = None]
  BY <1>1, <1>6 DEF MadeRoom
<1> HIDE DEF p
<1>8. w = e
  BY <1>4, <1>5, <1>7
<1>9. k \in Inserted
  BY <1>3, <1>6 DEF Inserted, NeedsRoom
<1>10. ASSUME NEW j \in Keys \ Inserted, items'[j] # None
       PROVE  Live(j) /\ items[e].expiresAt <= items[j].expiresAt
  <2>1. j # k /\ p[j] # None
    BY <1>1, <1>2, <1>5, <1>7, <1>9, <1>10
  <2>2. j \in Present(p) /\ e \in Present(p) /\ p[e].expiresAt <= p[j].expiresAt
    BY <1>7, <1>8, <2>1 DEF Soonest, Present
  <2>3. QED
    BY <1>5, <2>2
<1>11. QED
  BY <1>5, <1>6, <1>10

\* A live entry is evicted only from a map full of live entries, and it is the
\* one closest to its expiry, whoever inserts: Set or the store of a load.
THEOREM EvictsTheSoonest == Spec => EvictsSoonestLive
<1> DEFINE Soonest1 ==
        \A v \in Keys : Inserted # {} /\ Live(v) /\ items'[v] = None
           => /\ Cardinality({k \in Keys : Live(k)}) >= capacity
              /\ \A j \in Keys \ Inserted : items'[j] # None
                    => Live(j) /\ items[v].expiresAt <= items[j].expiresAt
<1>1. ASSUME TypeInv, [Next]_vars PROVE Soonest1 \/ UNCHANGED vars
  <2> USE <1>1 DEF TypeInv
  <2>1. ASSUME NEW c \in Callers, Settle(c), Storable(ret[c]) PROVE Soonest1
    <3>1. key[c] \in Keys /\ ret[c].value \in Value
      BY <2>1 DEF Settle, Goto, Engaged, Loaded, Storable
    <3>2. ret[c].ttl \in Int
      <4>1. ret[c].ttl \in TTLs \cup {0}
        BY DEF TypeOK, Result
      <4>2. QED
        BY <4>1, TTLsAreIntegers
    <3>3. SetLocked(key[c], ret[c].value, ret[c].ttl)
      BY <2>1 DEF Settle
    <3>4. QED
      BY <3>1, <3>2, <3>3, SetLockedEvictsSoonest
  <2>2. ASSUME NEW k \in Keys, NEW d \in Payloads, NEW ttl \in TTLs,
               Set(k, [key |-> k, data |-> d], ttl)
        PROVE  Soonest1
    <3>1. [key |-> k, data |-> d] \in Value /\ ttl \in Int
      BY NumbersAssumption DEF Value
    <3>2. SetLocked(k, [key |-> k, data |-> d], ttl)
      BY <2>2 DEF Set
    <3>3. QED
      BY <3>1, <3>2, SetLockedEvictsSoonest
  <2>3. ASSUME \/ \E c \in Callers, k \in Keys : LoadJoin(c, k) \/ LoadLead(c, k)
               \/ \E k \in Keys : Get(k) \/ Delete(k)
               \/ \E matching \in SUBSET Keys : DeleteFunc(matching)
        PROVE  Soonest1
    <3>1. \/ \E k \in Keys : items' = AfterGet(k)
          \/ \E matching \in SUBSET Keys :
                items' = [k \in Keys |-> IF k \in matching THEN None ELSE items[k]]
      BY <2>3 DEF LoadJoin, LoadLead, Get, Delete, DeleteFunc
    <3>2. Inserted = {}
      BY <3>1 DEF AfterGet, Inserted, TypeOK
    <3>3. QED
      BY <3>2
  <2>4. ASSUME UNCHANGED items PROVE Soonest1
    BY <2>4 DEF Inserted
  <2>5. ASSUME NEW c \in Callers, Settle(c) PROVE Soonest1
    BY <2>1, <2>4, <2>5 DEF Settle
  <2> HIDE DEF Soonest1
  <2>6. QED
    BY <1>1, <2>2, <2>3, <2>4, <2>5
       DEF Next, Step, LoadHit, LoadEnds, LoadPanics, LoadReturns, Publish,
           CloseDone, WaiterReceives, WaiterGivesUp, CancelContext, Tick
<1>2. QED
  BY TypeInvInit, TypeInvNext, <1>1, PTL DEF Spec, EvictsSoonestLive

(* --------------------- One load per key, its answer -------------------- *)

Leading(c) == pc[c] \in {"loading", "returned", "settled", "published"}

\* r is an answer for k: an error, or a value of k.
AnswerFor(r, k) == r.err = "nil" => r.value \in Value /\ r.value.key = k

\* The call registered for a key is the one its single loader leads.
FlightHasLoader ==
    \A k \in Keys : inflight[k] # None
        => \E c \in Callers : InLoad(c) /\ key[c] = k /\ pending[c] = inflight[k]
LoaderHasFlight == \A c \in Callers : InLoad(c) => inflight[key[c]] = pending[c]

\* A call has one leader, which holds its answer and has not closed it.
OneLeader ==
    \A c, d \in Callers : Leading(c) /\ Leading(d) /\ pending[c] = pending[d] => c = d
LeaderState ==
    \A c \in Callers :
        /\ Leading(c) => ~calls[pending[c]].done
        /\ Leading(c) /\ pc[c] # "loading" => AnswerFor(ret[c], key[c])
        /\ pc[c] = "published" => /\ calls[pending[c]].value = ret[c].value
                                 /\ calls[pending[c]].err = ret[c].err

\* A waiter waits for a call of its own key: answered, or still led by someone.
WaiterState ==
    \A c \in Callers : pc[c] = "waiting"
        => IF calls[pending[c]].done
           THEN AnswerFor(calls[pending[c]], key[c])
           ELSE \E d \in Callers : /\ Leading(d)
                                   /\ pending[d] = pending[c]
                                   /\ key[d] = key[c]

FlightInv == /\ FlightHasLoader
             /\ LoaderHasFlight
             /\ OneLeader
             /\ LeaderState
             /\ WaiterState
             /\ OnlyAnswersCached
             /\ AnswerBelongsToKey

LEMMA FlightInvInit == Init => FlightInv
BY DEF Init, FlightInv, FlightHasLoader, LoaderHasFlight, OneLeader, LeaderState,
       WaiterState, OnlyAnswersCached, AnswerBelongsToKey, InLoad, Leading

\* Making room changes no entry that stays.
LEMMA MadeRoomKeeps ==
    ASSUME TypeOK, NEW k \in Keys, NEW r \in MadeRoom(items, k)
    PROVE  /\ r \in [Keys -> Item \cup {None}]
           /\ \A j \in Keys : r[j] # None => r[j] = items[j]
<1>1. /\ Purged(items) \in [Keys -> Item \cup {None}]
      /\ \A j \in Keys : Purged(items)[j] # None => Purged(items)[j] = items[j]
  BY DEF Purged, TypeOK
<1>2. QED
  BY <1>1 DEF MadeRoom, TypeOK

\* setLocked keeps every entry an answer for its key.
LEMMA SetLockedKeepsAnswers ==
    ASSUME TypeOK, OnlyAnswersCached,
           NEW k \in Keys, NEW v \in Value, v.key = k, NEW ttl, SetLocked(k, v, ttl)
    PROVE  OnlyAnswersCached'
<1>1. PICK r \in MadeRoom(items, k) :
          items' = [r EXCEPT ![k] = [value |-> v, expiresAt |-> now + ttl]]
  BY DEF SetLocked
<1>2. /\ r \in [Keys -> Item \cup {None}]
      /\ \A j \in Keys : r[j] # None => r[j] = items[j]
  BY <1>1, MadeRoomKeeps
<1>3. QED
  BY <1>1, <1>2 DEF OnlyAnswersCached

LEMMA FlightInvNext == TypeInv /\ FlightInv /\ [Next]_vars => FlightInv'
<1> SUFFICES ASSUME TypeInv, FlightInv, [Next]_vars PROVE FlightInv'
  OBVIOUS
<1> USE DEF TypeInv, FlightInv
<1>1. ASSUME NEW c \in Callers, NEW k \in Keys, LoadHit(c, k) PROVE FlightInv'
  <2>1. /\ UNCHANGED <<items, inflight, calls, pc, pending>>
        /\ pc[c] = "idle"
        /\ \A d \in Callers \ {c} : key'[d] = key[d] /\ ret'[d] = ret[d]
    BY <1>1 DEF LoadHit, Enter, Returns, TypeOK
  <2>2. AnswerBelongsToKey'
    <3>1. key'[c] = k /\ ret'[c].value = items[k].value
      BY <1>1 DEF LoadHit, Enter, Returns, TypeOK
    <3>2. items[k] # None
      BY <1>1 DEF LoadHit, Live
    <3>3. QED
      BY <2>1, <3>1, <3>2 DEF AnswerBelongsToKey, OnlyAnswersCached
  <2>3. FlightHasLoader' /\ LoaderHasFlight' /\ OneLeader' /\ OnlyAnswersCached'
    BY <2>1 DEF FlightHasLoader, LoaderHasFlight, OneLeader, OnlyAnswersCached,
                InLoad, Leading
  <2>4. LeaderState'
    BY <2>1 DEF LeaderState, Leading, AnswerFor
  <2>5. WaiterState'
    BY <2>1 DEF WaiterState, Leading, AnswerFor
  <2>6. QED
    BY <2>2, <2>3, <2>4, <2>5
<1>2. ASSUME NEW c \in Callers, NEW k \in Keys, LoadJoin(c, k) PROVE FlightInv'
  <2>1. /\ UNCHANGED <<inflight, calls, ret>>
        /\ pc[c] = "idle" /\ pc'[c] = "waiting"
        /\ key'[c] = k /\ pending'[c] = inflight[k] /\ inflight[k] # None
        /\ \A d \in Callers \ {c} : /\ pc'[d] = pc[d]
                                    /\ key'[d] = key[d]
                                    /\ pending'[d] = pending[d]
        /\ items' = AfterGet(k)
    BY <1>2 DEF LoadJoin, Goto, Enter, InFlight, TypeOK
  <2>2. FlightHasLoader' /\ LoaderHasFlight' /\ OneLeader'
    BY <2>1 DEF FlightHasLoader, LoaderHasFlight, OneLeader, InLoad, Leading
  <2>3. OnlyAnswersCached'
    BY <2>1 DEF OnlyAnswersCached, AfterGet, TypeOK
  <2>4. AnswerBelongsToKey'
    BY <2>1 DEF AnswerBelongsToKey
  <2>5. LeaderState'
    BY <2>1 DEF LeaderState, Leading, AnswerFor
  <2>6. WaiterState'
    <3>1. PICK d \in Callers : InLoad(d) /\ key[d] = k /\ pending[d] = inflight[k]
      BY <2>1 DEF FlightHasLoader
    <3>2. d # c /\ Leading(d)
      BY <2>1, <3>1 DEF InLoad, Leading
    <3>3. Leading(d)' /\ pending'[d] = pending'[c] /\ key'[d] = key'[c]
      BY <2>1, <3>1, <3>2 DEF Leading
    <3>4. ~calls'[pending'[c]].done
      BY <2>1, <3>1, <3>2 DEF LeaderState
    <3>5. ASSUME NEW e \in Callers \ {c}, Leading(e) PROVE Leading(e)'
      BY <2>1, <3>5 DEF Leading
    <3>6. ASSUME NEW e \in Callers \ {c}, pc'[e] = "waiting", ~calls'[pending'[e]].done
          PROVE  \E f \in Callers : Leading(f)' /\ pending'[f] = pending'[e] /\ key'[f] = key'[e]
      <4>1. PICK f \in Callers : Leading(f) /\ pending[f] = pending[e] /\ key[f] = key[e]
        BY <2>1, <3>6 DEF WaiterState
      <4>2. f # c
        BY <2>1, <4>1 DEF Leading
      <4>3. QED
        BY <2>1, <4>1, <4>2, <3>5
    <3>7. QED
      BY <2>1, <3>3, <3>4, <3>6 DEF WaiterState, AnswerFor
  <2>7. QED
    BY <2>2, <2>3, <2>4, <2>5, <2>6
<1>3. ASSUME NEW c \in Callers, NEW k \in Keys, LoadLead(c, k) PROVE FlightInv'
  <2>1. PICK i \in Calls :
          /\ \A d \in Callers : pending[d] # i
          /\ calls' = [calls EXCEPT ![i] = NewCall]
          /\ inflight' = [inflight EXCEPT ![k] = i]
          /\ pending' = [pending EXCEPT ![c] = i]
    BY <1>3 DEF LoadLead
  <2>2. /\ UNCHANGED ret
        /\ inflight[k] = None
        /\ pc[c] = "idle" /\ pc'[c] = "loading"
        /\ key'[c] = k /\ pending'[c] = i /\ inflight'[k] = i
        /\ \A d \in Callers \ {c} : /\ pc'[d] = pc[d]
                                    /\ key'[d] = key[d]
                                    /\ pending'[d] = pending[d]
        /\ \A j \in Keys \ {k} : inflight'[j] = inflight[j]
        /\ calls'[i] = NewCall
        /\ \A j \in Calls \ {i} : calls'[j] = calls[j]
        /\ items' = AfterGet(k)
    BY <1>3, <2>1 DEF LoadLead, Goto, Enter, InFlight, TypeOK
  <2>3. \A d \in Callers : pending[d] \in Calls => calls'[pending[d]] = calls[pending[d]]
    BY <2>1, <2>2
  <2>4. FlightHasLoader'
    BY <2>1, <2>2 DEF FlightHasLoader, InLoad
  <2>5. LoaderHasFlight'
    <3>1. \A d \in Callers \ {c} : InLoad(d) => key[d] # k
      BY <2>2, NoneAssumption DEF LoaderHasFlight, InLoad, Engaged
    <3>2. QED
      BY <2>2, <3>1 DEF LoaderHasFlight, InLoad, Engaged
  <2>6. OneLeader'
    BY <2>1, <2>2 DEF OneLeader, Leading
  <2>7. OnlyAnswersCached'
    BY <2>2 DEF OnlyAnswersCached, AfterGet, TypeOK
  <2>8. AnswerBelongsToKey'
    BY <2>2 DEF AnswerBelongsToKey
  <2>9. LeaderState'
    BY <2>2, <2>3 DEF LeaderState, Leading, AnswerFor, NewCall, Engaged
  <2>10. WaiterState'
    <3>1. ASSUME NEW e \in Callers \ {c}, pc'[e] = "waiting", ~calls'[pending'[e]].done
          PROVE  \E f \in Callers : Leading(f)' /\ pending'[f] = pending'[e] /\ key'[f] = key'[e]
      <4>1. PICK f \in Callers : Leading(f) /\ pending[f] = pending[e] /\ key[f] = key[e]
        BY <2>2, <2>3, <3>1 DEF WaiterState, Engaged
      <4>2. f # c
        BY <2>2, <4>1 DEF Leading
      <4>3. QED
        BY <2>2, <4>1, <4>2 DEF Leading
    <3>2. QED
      BY <2>2, <2>3, <3>1 DEF WaiterState, AnswerFor, Engaged
  <2>11. QED
    BY <2>4, <2>5, <2>6, <2>7, <2>8, <2>9, <2>10
<1>4. ASSUME NEW c \in Callers, NEW ttl, NEW e, NEW v,
             e = "nil" => v \in Value /\ v.key = key[c], LoadReturns(c, v, ttl, e)
      PROVE FlightInv'
  <2>1. /\ UNCHANGED <<items, inflight, calls, key, pending>>
        /\ pc[c] = "loading" /\ pc'[c] = "returned"
        /\ ret'[c].value = v /\ ret'[c].err = e
        /\ \A d \in Callers \ {c} : pc'[d] = pc[d] /\ ret'[d] = ret[d]
    BY <1>4 DEF LoadReturns, Goto, Returns, TypeOK
  <2>2. \A d \in Callers : (InLoad(d)' <=> InLoad(d)) /\ (Leading(d)' <=> Leading(d))
    BY <2>1 DEF InLoad, Leading
  <2>3. FlightHasLoader' /\ LoaderHasFlight' /\ OneLeader' /\ OnlyAnswersCached'
    BY <2>1, <2>2 DEF FlightHasLoader, LoaderHasFlight, OneLeader, OnlyAnswersCached
  <2>4. AnswerBelongsToKey'
    BY <2>1 DEF AnswerBelongsToKey
  <2>5. LeaderState'
    BY <1>4, <2>1, <2>2 DEF LeaderState, AnswerFor
  <2>6. WaiterState'
    BY <2>1, <2>2 DEF WaiterState, AnswerFor
  <2>7. QED
    BY <2>3, <2>4, <2>5, <2>6
<1>5. ASSUME NEW c \in Callers, LoadEnds(c) PROVE FlightInv'
  <2>1. CASE LoadPanics(c)
    BY <2>1, <1>4 DEF LoadPanics
  <2>2. CASE \E ttl \in TTLs : LoadReturns(c, Zero, ttl, "load")
    BY <2>2, <1>4
  <2>3. ASSUME NEW ttl \in TTLs, NEW d \in Payloads,
               LoadReturns(c, [key |-> key[c], data |-> d], ttl, "nil")
        PROVE FlightInv'
    <3>1. key[c] \in Keys
      BY <2>3 DEF LoadReturns, Goto, Engaged
    <3>2. [key |-> key[c], data |-> d] \in Value
      BY <3>1 DEF Value
    <3>3. QED
      BY <2>3, <3>2, <1>4
  <2>4. QED
    BY <1>5, <2>1, <2>2, <2>3 DEF LoadEnds
<1>6. ASSUME NEW c \in Callers, Settle(c) PROVE FlightInv'
  <2>1. /\ UNCHANGED <<calls, key, pending, ret>>
        /\ pc[c] = "returned" /\ pc'[c] = "settled"
        /\ key[c] \in Keys /\ inflight'[key[c]] = None
        /\ \A d \in Callers \ {c} : pc'[d] = pc[d]
        /\ \A j \in Keys \ {key[c]} : inflight'[j] = inflight[j]
    BY <1>6 DEF Settle, Goto, TypeOK, Engaged
  <2>2. \A d \in Callers : Leading(d)' <=> Leading(d)
    BY <2>1 DEF Leading
  <2>3. \A d \in Callers \ {c} : InLoad(d) => key[d] # key[c]
    BY <2>1 DEF LoaderHasFlight, OneLeader, InLoad, Leading
  <2>4. FlightHasLoader'
    BY <2>1 DEF FlightHasLoader, InLoad
  <2>5. LoaderHasFlight'
    BY <2>1, <2>3 DEF LoaderHasFlight, InLoad, Engaged
  <2>6. OneLeader'
    BY <2>1, <2>2 DEF OneLeader
  <2>7. OnlyAnswersCached'
    <3>1. CASE Storable(ret[c])
      <4>1. ret[c].value \in Value /\ ret[c].value.key = key[c]
        BY <2>1, <3>1 DEF Storable, Loaded
      <4>2. SetLocked(key[c], ret[c].value, ret[c].ttl)
        BY <1>6, <3>1 DEF Settle
      <4>3. QED
        BY <2>1, <4>1, <4>2, SetLockedKeepsAnswers
    <3>2. CASE ~Storable(ret[c])
      BY <1>6, <3>2 DEF Settle, OnlyAnswersCached
    <3>3. QED
      BY <3>1, <3>2
  <2>8. AnswerBelongsToKey'
    BY <2>1 DEF AnswerBelongsToKey
  <2>9. LeaderState'
    BY <2>1, <2>2 DEF LeaderState, AnswerFor
  <2>10. WaiterState'
    BY <2>1, <2>2 DEF WaiterState, AnswerFor
  <2>11. QED
    BY <2>4, <2>5, <2>6, <2>7, <2>8, <2>9, <2>10
<1>7. ASSUME NEW c \in Callers, Publish(c) PROVE FlightInv'
  <2>1. /\ UNCHANGED <<items, inflight, key, pending, ret>>
        /\ pc[c] = "settled" /\ pc'[c] = "published"
        /\ pending[c] \in Calls
        /\ \A d \in Callers \ {c} : pc'[d] = pc[d]
        /\ \A j \in Calls : calls'[j].done = calls[j].done
        /\ \A j \in Calls \ {pending[c]} : calls'[j] = calls[j]
        /\ calls'[pending[c]].value = ret[c].value
        /\ calls'[pending[c]].err = ret[c].err
    BY <1>7 DEF Publish, Goto, TypeOK, Engaged, Call
  <2>2. \A d \in Callers : (InLoad(d)' <=> InLoad(d)) /\ (Leading(d)' <=> Leading(d))
    BY <2>1 DEF InLoad, Leading
  <2>3. FlightHasLoader' /\ LoaderHasFlight' /\ OneLeader' /\ OnlyAnswersCached'
    BY <2>1, <2>2 DEF FlightHasLoader, LoaderHasFlight, OneLeader, OnlyAnswersCached
  <2>4. AnswerBelongsToKey'
    BY <2>1 DEF AnswerBelongsToKey
  <2>5. LeaderState'
    <3>1. ASSUME NEW d \in Callers, pc'[d] = "published"
          PROVE  calls'[pending[d]].value = ret[d].value /\ calls'[pending[d]].err = ret[d].err
      <4>1. CASE d = c
        BY <2>1, <4>1
      <4>2. CASE d # c
        <5>1. pc[d] = "published" /\ pending[d] # pending[c] /\ pending[d] \in Calls
          BY <2>1, <3>1, <4>2 DEF OneLeader, Leading, Engaged
        <5>2. QED
          BY <2>1, <5>1 DEF LeaderState
      <4>3. QED
        BY <4>1, <4>2
    <3>2. QED
      BY <2>1, <2>2, <3>1 DEF LeaderState, AnswerFor, Engaged, Leading
  <2>6. WaiterState'
    <3>1. \A d \in Callers : pc[d] = "waiting" /\ calls[pending[d]].done
                                => pending[d] # pending[c]
      BY <2>1 DEF LeaderState, Leading
    <3>2. QED
      BY <2>1, <2>2, <3>1 DEF WaiterState, AnswerFor, Engaged
  <2>7. QED
    BY <2>3, <2>4, <2>5, <2>6
<1>8. ASSUME NEW c \in Callers, CloseDone(c) PROVE FlightInv'
  <2>1. /\ UNCHANGED <<items, inflight, key, ret>>
        /\ pc[c] = "published" /\ pc'[c] = "idle"
        /\ pending[c] \in Calls /\ pending'[c] = None
        /\ \A d \in Callers \ {c} : pc'[d] = pc[d] /\ pending'[d] = pending[d]
        /\ \A j \in Calls \ {pending[c]} : calls'[j] = calls[j]
        /\ calls'[pending[c]].done
        /\ calls'[pending[c]].value = calls[pending[c]].value
        /\ calls'[pending[c]].err = calls[pending[c]].err
    BY <1>8 DEF CloseDone, Goto, TypeOK, Engaged, Call
  <2>2. AnswerFor(ret[c], key[c]) /\ AnswerFor(calls'[pending[c]], key[c])
    BY <2>1 DEF LeaderState, Leading, AnswerFor
  <2>3. \A d \in Callers \ {c} : Leading(d) => pending[d] # pending[c]
    BY <2>1 DEF OneLeader, Leading
  <2>4. FlightHasLoader' /\ LoaderHasFlight' /\ OneLeader' /\ OnlyAnswersCached'
    BY <2>1 DEF FlightHasLoader, LoaderHasFlight, OneLeader, OnlyAnswersCached,
                InLoad, Leading
  <2>5. AnswerBelongsToKey'
    BY <2>1, <2>2 DEF AnswerBelongsToKey, AnswerFor
  <2>6. LeaderState'
    BY <2>1, <2>3 DEF LeaderState, AnswerFor, Leading, Engaged
  <2>7. WaiterState'
    <3>1. SUFFICES ASSUME NEW d \in Callers, pc'[d] = "waiting"
                   PROVE  IF calls'[pending'[d]].done
                          THEN AnswerFor(calls'[pending'[d]], key[d])
                          ELSE \E f \in Callers : /\ Leading(f)'
                                                  /\ pending'[f] = pending'[d]
                                                  /\ key[f] = key[d]
      BY <2>1 DEF WaiterState, AnswerFor
    <3>2. d # c /\ pc[d] = "waiting" /\ pending'[d] = pending[d] /\ pending[d] \in Calls
      BY <2>1, <3>1 DEF Engaged
    <3>3. CASE pending[d] = pending[c]
      <4>1. PICK f \in Callers : Leading(f) /\ pending[f] = pending[d] /\ key[f] = key[d]
        BY <2>1, <3>2, <3>3 DEF WaiterState, LeaderState, Leading
      <4>2. f = c
        BY <2>3, <3>3, <4>1
      <4>3. QED
        BY <2>1, <2>2, <3>2, <3>3, <4>1, <4>2
    <3>4. CASE pending[d] # pending[c]
      <4>1. calls'[pending[d]] = calls[pending[d]]
        BY <2>1, <3>2, <3>4
      <4>2. CASE calls[pending[d]].done
        BY <3>2, <4>1, <4>2 DEF WaiterState
      <4>3. CASE ~calls[pending[d]].done
        <5>1. PICK f \in Callers : Leading(f) /\ pending[f] = pending[d] /\ key[f] = key[d]
          BY <3>2, <4>3 DEF WaiterState
        <5>2. f # c
          BY <3>4, <5>1
        <5>3. Leading(f)' /\ pending'[f] = pending'[d]
          BY <2>1, <3>2, <5>1, <5>2 DEF Leading
        <5>4. QED
          BY <3>2, <4>1, <4>3, <5>1, <5>3
      <4>4. QED
        BY <4>2, <4>3
    <3>5. QED
      BY <3>3, <3>4
  <2>8. QED
    BY <2>4, <2>5, <2>6, <2>7
<1>9. ASSUME NEW c \in Callers, NEW v, NEW e, AnswerFor([value |-> v, err |-> e], key[c]),
             Goto(c, "waiting", "idle"), Returns(c, v, 0, e),
             pending' = [pending EXCEPT ![c] = None],
             UNCHANGED <<items, inflight, calls, key>>
      PROVE FlightInv'
  <2>1. /\ pc[c] = "waiting" /\ pc'[c] = "idle"
        /\ ret'[c].value = v /\ ret'[c].err = e
        /\ \A d \in Callers \ {c} : /\ pc'[d] = pc[d]
                                    /\ pending'[d] = pending[d]
                                    /\ ret'[d] = ret[d]
    BY <1>9 DEF Goto, Returns, TypeOK
  <2>2. FlightHasLoader' /\ LoaderHasFlight' /\ OneLeader' /\ OnlyAnswersCached'
    BY <1>9, <2>1 DEF FlightHasLoader, LoaderHasFlight, OneLeader, OnlyAnswersCached,
                      InLoad, Leading
  <2>3. AnswerBelongsToKey'
    BY <1>9, <2>1 DEF AnswerBelongsToKey, AnswerFor
  <2>4. LeaderState'
    BY <1>9, <2>1 DEF LeaderState, AnswerFor, Leading
  <2>5. WaiterState'
    <3>1. \A f \in Callers : Leading(f) => f # c /\ Leading(f)' /\ pending'[f] = pending[f]
      BY <2>1 DEF Leading
    <3>2. QED
      BY <1>9, <2>1, <3>1 DEF WaiterState, AnswerFor
  <2>6. QED
    BY <2>2, <2>3, <2>4, <2>5
<1>10. ASSUME NEW c \in Callers, WaiterReceives(c) PROVE FlightInv'
  <2>1. AnswerFor(calls[pending[c]], key[c])
    BY <1>10 DEF WaiterReceives, Goto, WaiterState
  <2>2. QED
    BY <1>9, <1>10, <2>1 DEF WaiterReceives, AnswerFor
<1>11. ASSUME NEW c \in Callers, WaiterGivesUp(c) PROVE FlightInv'
  BY <1>9, <1>11 DEF WaiterGivesUp, AnswerFor
<1>12. ASSUME OnlyAnswersCached', UNCHANGED <<inflight, calls, pc, key, pending, ret>>
       PROVE FlightInv'
  BY <1>12 DEF FlightHasLoader, LoaderHasFlight, OneLeader, LeaderState, WaiterState,
               AnswerBelongsToKey, AnswerFor, InLoad, Leading
<1>13. ASSUME NEW k \in Keys, NEW d \in Payloads, NEW ttl \in TTLs,
              Set(k, [key |-> k, data |-> d], ttl)
       PROVE FlightInv'
  <2>1. [key |-> k, data |-> d] \in Value
    BY DEF Value
  <2>2. OnlyAnswersCached'
    BY <1>13, <2>1, SetLockedKeepsAnswers DEF Set
  <2>3. QED
    BY <1>12, <1>13, <2>2 DEF Set, ExceptItems
<1>14. ASSUME NEW k \in Keys, Get(k) PROVE FlightInv'
  <2>1. OnlyAnswersCached'
    BY <1>14 DEF Get, AfterGet, OnlyAnswersCached, TypeOK
  <2>2. QED
    BY <1>12, <1>14, <2>1 DEF Get, ExceptItems
<1>15. ASSUME NEW matching \in SUBSET Keys, DeleteFunc(matching) PROVE FlightInv'
  <2>1. OnlyAnswersCached'
    BY <1>15 DEF DeleteFunc, OnlyAnswersCached
  <2>2. QED
    BY <1>12, <1>15, <2>1 DEF DeleteFunc, ExceptItems
<1>16. ASSUME NEW k \in Keys, Delete(k) PROVE FlightInv'
  BY <1>15, <1>16 DEF Delete
<1>17. ASSUME UNCHANGED <<items, inflight, calls, pc, key, pending, ret>> PROVE FlightInv'
  BY <1>12, <1>17 DEF OnlyAnswersCached
<1>18. QED
  BY <1>1, <1>2, <1>3, <1>5, <1>6, <1>7, <1>8, <1>10, <1>11, <1>13, <1>14,
     <1>15, <1>16, <1>17 DEF Next, Step, CancelContext, Tick, vars

\* Two goroutines are never inside the load of one key: the call a loader leads
\* is the one registered for its key, and it has one leader.
THEOREM OneLoadPerKey == Spec => []SingleFlight
<1>1. TypeInv /\ FlightInv => SingleFlight
  BY DEF FlightInv, LoaderHasFlight, OneLeader, SingleFlight, InLoad, Leading
<1>2. QED
  BY TypeInvInit, TypeInvNext, FlightInvInit, FlightInvNext, <1>1, PTL DEF Spec

\* A Load that reports no error returns a value of its own key, whoever ran the
\* load it waited for.
THEOREM AnswersBelongToTheirKey == Spec => []AnswerBelongsToKey
<1>1. FlightInv => AnswerBelongsToKey
  BY DEF FlightInv
<1>2. QED
  BY TypeInvInit, TypeInvNext, FlightInvInit, FlightInvNext, <1>1, PTL DEF Spec

\* A failed, panicked or cancelled load never leaves an entry behind: what the
\* map holds was stored by Set or by a load that answered, and for that key.
THEOREM OnlyAnswersAreCached == Spec => []OnlyAnswersCached
<1>1. FlightInv => OnlyAnswersCached
  BY DEF FlightInv
<1>2. QED
  BY TypeInvInit, TypeInvNext, FlightInvInit, FlightInvNext, <1>1, PTL DEF Spec

\* What Load and Get answer is always what some load of that very key returned without an
\* error: never another key's value, never a failure kept.
THEOREM AnswersAreFaithful == Spec => []AnswersFaithful
<1>1. AnswerBelongsToKey /\ OnlyAnswersCached => AnswersFaithful
  BY DEF AnswersFaithful
<1>2. QED
  BY AnswersBelongToTheirKey, OnlyAnswersAreCached, <1>1, PTL

(* ----------------------- Nobody waits in vain -------------------------- *)

\* A waiter's call is answered, or some goroutine still on its way through Load leads it.
NoOrphan ==
    \A c \in Callers : pc[c] = "waiting" /\ ~calls[pending[c]].done
        => \E d \in Callers : Leading(d) /\ pending[d] = pending[c] /\ key[d] = key[c]

\* The steps a leader has left: load ends, Settle, Publish, CloseDone.
Left == [loading |-> 4, returned |-> 3, settled |-> 2, published |-> 1, idle |-> 0, waiting |-> 0]

\* Whoever waits keeps waiting for the same call, and its leader goes through its steps in their
\* order and leaves only by closing it: no panic, error, invalidation or other caller turns it back.
LeaderGoesOn ==
    \A c, d \in Callers :
        pc[c] = "waiting" /\ Leading(d) /\ pending[d] = pending[c]
            => /\ pc'[c] = "waiting" => pending'[c] = pending[c]
               /\ \/ pc'[d] = pc[d] /\ pending'[d] = pending[d]
                  \/ Leading(d)' /\ Left[pc'[d]] = Left[pc[d]] - 1 /\ pending'[d] = pending[d]
                  \/ pc[d] = "published" /\ pc'[d] = "idle" /\ calls'[pending[c]].done

LEMMA LeaderGoesOnNext == TypeInv /\ [Next]_vars => [LeaderGoesOn]_vars
<1> SUFFICES ASSUME TypeInv, [Next]_vars, NEW c \in Callers, NEW d \in Callers,
                    pc[c] = "waiting", Leading(d), pending[d] = pending[c]
             PROVE  /\ pc'[c] = "waiting" => pending'[c] = pending[c]
                    /\ \/ pc'[d] = pc[d] /\ pending'[d] = pending[d]
                       \/ Leading(d)' /\ Left[pc'[d]] = Left[pc[d]] - 1 /\ pending'[d] = pending[d]
                       \/ pc[d] = "published" /\ pc'[d] = "idle" /\ calls'[pending[c]].done
  BY DEF LeaderGoesOn
<1> USE DEF TypeInv, TypeOK, Engaged, Leading, Left, Goto
<1>1. c # d /\ pending[c] \in Calls
  OBVIOUS
<1>2. ASSUME UNCHANGED <<pc, pending>>
      PROVE  pending'[c] = pending[c] /\ pc'[d] = pc[d] /\ pending'[d] = pending[d]
  BY <1>2
<1>3. ASSUME NEW e \in Callers, NEW k \in Keys, LoadHit(e, k)
      PROVE  pc'[d] = pc[d] /\ pending' = pending
  BY <1>3 DEF LoadHit
<1>4. ASSUME NEW e \in Callers, NEW k \in Keys, LoadJoin(e, k) \/ LoadLead(e, k)
      PROVE  pc'[d] = pc[d] /\ pending'[d] = pending[d] /\ pending'[c] = pending[c]
  BY <1>1, <1>4 DEF LoadJoin, LoadLead
<1>5. ASSUME NEW e \in Callers, LoadEnds(e)
      PROVE  /\ pending' = pending
             /\ e # d => pc'[d] = pc[d]
             /\ e = d => Leading(d)' /\ Left[pc'[d]] = Left[pc[d]] - 1
  <2>1. pc[e] = "loading" /\ pc' = [pc EXCEPT ![e] = "returned"] /\ pending' = pending
    BY <1>5 DEF LoadEnds, LoadPanics, LoadReturns
  <2>2. QED
    BY <2>1
<1>6. ASSUME NEW e \in Callers, Settle(e) \/ Publish(e)
      PROVE  /\ pending' = pending
             /\ e # d => pc'[d] = pc[d]
             /\ e = d => Leading(d)' /\ Left[pc'[d]] = Left[pc[d]] - 1
  BY <1>6 DEF Settle, Publish
<1>7. ASSUME NEW e \in Callers, CloseDone(e)
      PROVE  /\ pending'[c] = pending[c]
             /\ e # d => pc'[d] = pc[d] /\ pending'[d] = pending[d]
             /\ e = d => pc[d] = "published" /\ pc'[d] = "idle" /\ calls'[pending[c]].done
  BY <1>1, <1>7 DEF CloseDone, Call
<1>8. ASSUME NEW e \in Callers, WaiterReceives(e) \/ WaiterGivesUp(e)
      PROVE  /\ pc'[c] = "waiting" => pending'[c] = pending[c]
             /\ pc'[d] = pc[d] /\ pending'[d] = pending[d]
  BY <1>1, <1>8 DEF WaiterReceives, WaiterGivesUp
<1>9. ASSUME NEW e \in Callers, CancelContext(e) PROVE UNCHANGED <<pc, pending>>
  BY <1>9 DEF CancelContext
<1>10. ASSUME \/ \E k \in Keys, p \in Payloads, ttl \in TTLs : Set(k, [key |-> k, data |-> p], ttl)
              \/ \E k \in Keys : Get(k) \/ Delete(k)
              \/ \E matching \in SUBSET Keys : DeleteFunc(matching)
              \/ Tick \/ UNCHANGED vars
       PROVE  UNCHANGED <<pc, pending>>
  BY <1>10 DEF Set, Get, Delete, DeleteFunc, ExceptItems, Tick, vars
<1>11. QED
  BY <1>2, <1>3, <1>4, <1>5, <1>6, <1>7, <1>8, <1>9, <1>10 DEF Next, Step

\* Nobody waits in vain: whoever waits for a call waits for an answer that is there or for a
\* goroutine that has four steps left at most and takes no others, also when load panics. What
\* WaitersReleased needs beside fairness.
THEOREM NobodyWaitsInVain == Spec => []NoOrphan /\ [][LeaderGoesOn]_vars
<1>1. FlightInv => NoOrphan
  BY DEF FlightInv, WaiterState, NoOrphan
<1>2. QED
  BY TypeInvInit, TypeInvNext, FlightInvInit, FlightInvNext, LeaderGoesOnNext, <1>1, PTL DEF Spec

(* --------------------- The promise of SingleFlightMap ------------------- *)

\* A key that is not live has no value in the memo; a live one has its value.
LEMMA MemoOf ==
    \A k \in Keys : Memo[k] = IF Live(k) THEN items[k].value ELSE None
BY DEF Memo

LEMMA PromiseInit == Init => Promise!Init
<1> SUFFICES ASSUME Init PROVE Promise!Init
  OBVIOUS
<1>1. Memo = [k \in Keys |-> None]
  BY DEF Init, Memo, Live
<1>2. LoadingPairs = {}
  BY DEF Init, LoadingPairs, InLoad
<1>3. QED
  BY <1>1, <1>2 DEF Promise!Init

\* The loads in progress depend on who is in the load and of which key.
LEMMA LoadingUnchanged ==
    ASSUME \A c \in Callers : InLoad(c)' = InLoad(c),
           \A c \in Callers : InLoad(c) => key'[c] = key[c]
    PROVE  UNCHANGED LoadingPairs
BY DEF LoadingPairs

LEMMA MemoUnchanged ==
    ASSUME UNCHANGED <<now, items>>
    PROVE  UNCHANGED Memo
BY DEF Memo, Live

\* Dropping entries, or letting them expire, loses values and nothing else.
LEMMA DroppingLoses ==
    ASSUME now \in Int, now' \in Int, now <= now',
           items \in [Keys -> Item \cup {None}],
           \A k \in Keys : items'[k] = items[k] \/ items'[k] = None,
           UNCHANGED LoadingPairs
    PROVE  \E lost \in SUBSET Keys : Promise!Lose(lost)
<1> DEFINE lost == {k \in Keys : ~Live(k)'}
<1>1. \A k \in Keys \ lost : Live(k) /\ items'[k] = items[k]
  BY DEF Live, Item
<1>2. Memo' = [k \in Keys |-> IF k \in lost THEN None ELSE Memo[k]]
  BY <1>1 DEF Memo
<1>3. lost \in SUBSET Keys
  OBVIOUS
<1> HIDE DEF lost
<1>4. QED
  BY <1>2, <1>3 DEF Promise!Lose

\* getLocked deletes only what has expired, so it changes no value.
LEMMA AfterGetKeepsMemo ==
    ASSUME TypeOK, NEW k \in Keys, items' = AfterGet(k), UNCHANGED now
    PROVE  UNCHANGED Memo
<1>1. \A j \in Keys : Live(j)' = Live(j) /\ (Live(j) => items'[j] = items[j])
  BY DEF AfterGet, Live, TypeOK
<1>2. QED
  BY <1>1 DEF Memo

\* setLocked stores its value, and whatever room it makes loses values.
LEMMA SetLockedStores ==
    ASSUME TypeOK, UNCHANGED now,
           NEW k \in Keys, NEW v \in Value, NEW ttl \in Int, ttl > 0,
           SetLocked(k, v, ttl)
    PROVE  Promise!Stores(k, v)
<1>1. PICK r \in MadeRoom(items, k) :
          items' = [r EXCEPT ![k] = [value |-> v, expiresAt |-> now + ttl]]
  BY DEF SetLocked
<1>2. /\ r \in [Keys -> Item \cup {None}]
      /\ \A j \in Keys : r[j] # None => r[j] = items[j]
  BY <1>1, MadeRoomKeeps
<1>3. [value |-> v, expiresAt |-> now + ttl] \in Item
  BY DEF TypeOK, Item
<1>4. items'[k] = [value |-> v, expiresAt |-> now + ttl] /\ items'[k] # None
  BY <1>1, <1>2, <1>3, NoneIsNoItem
<1>5. Memo'[k] = v
  BY <1>4 DEF Memo, Live, TypeOK
<1> DEFINE lost == {j \in Keys \ {k} : items'[j] = None}
<1>6. \A j \in Keys \ {k} : j \in lost \/ items'[j] = items[j]
  BY <1>1, <1>2
<1>7. \A j \in Keys \ {k} : Memo'[j] = IF j \in lost THEN None ELSE Memo[j]
  BY <1>6 DEF Memo, Live
<1>8. Memo' = [j \in Keys |-> IF j = k THEN v
                               ELSE IF j \in lost THEN None ELSE Memo[j]]
  BY <1>5, <1>7 DEF Memo
<1>9. lost \in SUBSET (Keys \ {k})
  OBVIOUS
<1> HIDE DEF lost
<1>10. QED
  BY <1>8, <1>9 DEF Promise!Stores

\* Every step of the cache is a step of SingleFlightMap or changes nothing of it.
LEMMA PromiseNext ==
    TypeInv /\ FlightInv /\ [Next]_vars
        => Promise!Next \/ UNCHANGED <<Memo, LoadingPairs>>
<1> SUFFICES ASSUME TypeInv, FlightInv, [Next]_vars
             PROVE  Promise!Next \/ UNCHANGED <<Memo, LoadingPairs>>
  OBVIOUS
<1> USE DEF TypeInv
<1>1. ASSUME NEW c \in Callers, NEW k \in Keys, LoadHit(c, k)
      PROVE  UNCHANGED <<Memo, LoadingPairs>>
  <2>1. \A d \in Callers : InLoad(d) => key'[d] = key[d]
    BY <1>1 DEF LoadHit, Enter, InLoad, TypeOK
  <2>2. QED
    BY <1>1, <2>1, LoadingUnchanged, MemoUnchanged DEF LoadHit, InLoad
<1>2. ASSUME NEW c \in Callers, NEW k \in Keys, LoadJoin(c, k)
      PROVE  UNCHANGED <<Memo, LoadingPairs>>
  <2>1. \A d \in Callers : InLoad(d)' = InLoad(d) /\ (InLoad(d) => key'[d] = key[d])
    BY <1>2 DEF LoadJoin, Goto, Enter, InLoad, TypeOK
  <2>2. UNCHANGED LoadingPairs
    BY <2>1, LoadingUnchanged
  <2>3. QED
    BY <1>2, <2>2, AfterGetKeepsMemo DEF LoadJoin
<1>3. ASSUME NEW c \in Callers, NEW k \in Keys, LoadLead(c, k)
      PROVE  Promise!Begin(c, k)
  <2>1. Memo[k] = None
    BY <1>3 DEF LoadLead, Memo
  <2>2. \A d \in Callers : ~(InLoad(d) /\ key[d] = k)
    BY <1>3, NoneAssumption
       DEF LoadLead, InFlight, FlightInv, LoaderHasFlight, InLoad, Engaged
  <2>3. \A d \in Callers : <<d, k>> \notin LoadingPairs
    BY <2>2 DEF LoadingPairs
  <2>4. /\ InLoad(c)' /\ ~InLoad(c) /\ key'[c] = k
        /\ \A d \in Callers \ {c} : InLoad(d)' = InLoad(d) /\ key'[d] = key[d]
    BY <1>3 DEF LoadLead, Goto, Enter, InLoad, TypeOK
  <2>5. LoadingPairs' = LoadingPairs \cup {<<c, k>>}
    BY <2>4 DEF LoadingPairs
  <2>6. UNCHANGED Memo
    BY <1>3, AfterGetKeepsMemo DEF LoadLead
  <2>7. QED
    BY <2>1, <2>3, <2>5, <2>6 DEF Promise!Begin
<1>4. ASSUME NEW c \in Callers, LoadEnds(c)
      PROVE  UNCHANGED <<Memo, LoadingPairs>>
  <2>1. Goto(c, "loading", "returned") /\ UNCHANGED <<now, items, key>>
    BY <1>4 DEF LoadEnds, LoadPanics, LoadReturns
  <2>2. \A d \in Callers : InLoad(d)' = InLoad(d)
    BY <2>1 DEF Goto, InLoad, TypeOK
  <2>3. QED
    BY <2>1, <2>2, LoadingUnchanged, MemoUnchanged
<1>5. ASSUME NEW c \in Callers, Settle(c)
      PROVE  Promise!Finish(c, key[c]) /\ key[c] \in Keys
  <2>1. /\ pc[c] = "returned" /\ key[c] \in Keys /\ UNCHANGED <<now, key>>
        /\ InLoad(c) /\ ~InLoad(c)'
        /\ \A d \in Callers \ {c} : InLoad(d)' = InLoad(d)
    BY <1>5 DEF Settle, Goto, InLoad, TypeOK, Engaged
  <2>2. <<c, key[c]>> \in LoadingPairs
    BY <2>1 DEF LoadingPairs
  <2>3. LoadingPairs' = LoadingPairs \ {<<c, key[c]>>}
    BY <2>1 DEF LoadingPairs
  <2>4. UNCHANGED Memo \/ \E v \in Value : v.key = key[c] /\ Promise!Stores(key[c], v)
    <3>1. CASE Storable(ret[c])
      <4>1. ret[c].value \in Value /\ ret[c].value.key = key[c]
        BY <2>1, <3>1 DEF Storable, Loaded
      <4>2. ret[c].ttl \in Int /\ ret[c].ttl > 0
        <5>1. ret[c].ttl \in TTLs \cup {0}
          BY DEF TypeOK, Result
        <5>2. QED
          BY <3>1, <5>1, TTLsAreIntegers DEF Storable
      <4>3. SetLocked(key[c], ret[c].value, ret[c].ttl)
        BY <1>5, <3>1 DEF Settle
      <4>4. Promise!Stores(key[c], ret[c].value)
        BY <2>1, <4>1, <4>2, <4>3, SetLockedStores
      <4>5. QED
        BY <4>1, <4>4
    <3>2. CASE ~Storable(ret[c])
      BY <1>5, <3>2, MemoUnchanged DEF Settle
    <3>3. QED
      BY <3>1, <3>2
  <2>5. QED
    BY <2>1, <2>2, <2>3, <2>4 DEF Promise!Finish
<1>6. ASSUME NEW c \in Callers,
             Publish(c) \/ CloseDone(c) \/ WaiterReceives(c) \/ WaiterGivesUp(c)
      PROVE  UNCHANGED <<Memo, LoadingPairs>>
  <2>1. /\ UNCHANGED <<now, items, key>>
        /\ \A d \in Callers : InLoad(d)' = InLoad(d)
    BY <1>6 DEF Publish, CloseDone, WaiterReceives, WaiterGivesUp, Goto, InLoad, TypeOK
  <2>2. QED
    BY <2>1, LoadingUnchanged, MemoUnchanged
<1>7. ASSUME UNCHANGED <<now, items, pc, key>>
      PROVE  UNCHANGED <<Memo, LoadingPairs>>
  BY <1>7, LoadingUnchanged, MemoUnchanged DEF InLoad
<1>8. ASSUME NEW k \in Keys, NEW d \in Payloads, NEW ttl \in TTLs,
             Set(k, [key |-> k, data |-> d], ttl)
      PROVE  Promise!Put(k)
  <2> DEFINE v == [key |-> k, data |-> d]
  <2>1. v \in Value /\ v.key = k /\ ttl \in Int /\ ttl > 0
    BY <1>8, NumbersAssumption DEF Value, Set
  <2>2. SetLocked(k, v, ttl) /\ UNCHANGED <<now, pc, key>>
    BY <1>8 DEF Set, ExceptItems
  <2> HIDE DEF v
  <2>3. Promise!Stores(k, v)
    BY <2>1, <2>2, SetLockedStores
  <2>4. UNCHANGED LoadingPairs
    BY <2>2, LoadingUnchanged DEF InLoad
  <2>5. QED
    BY <2>1, <2>3, <2>4 DEF Promise!Put
<1>9. ASSUME NEW k \in Keys, Get(k) PROVE UNCHANGED <<Memo, LoadingPairs>>
  <2>1. UNCHANGED LoadingPairs
    BY <1>9, LoadingUnchanged DEF Get, ExceptItems, InLoad
  <2>2. QED
    BY <1>9, <2>1, AfterGetKeepsMemo DEF Get, ExceptItems
<1>10. ASSUME NEW matching \in SUBSET Keys, DeleteFunc(matching) PROVE Promise!Next
  <2>1. UNCHANGED LoadingPairs
    BY <1>10, LoadingUnchanged DEF DeleteFunc, ExceptItems, InLoad
  <2>2. \A k \in Keys : items'[k] = items[k] \/ items'[k] = None
    BY <1>10 DEF DeleteFunc
  <2>3. QED
    BY <1>10, <2>1, <2>2, DroppingLoses DEF DeleteFunc, ExceptItems, TypeOK, Promise!Next
<1>11. ASSUME NEW k \in Keys, Delete(k) PROVE Promise!Next
  BY <1>10, <1>11 DEF Delete
<1>12. ASSUME Tick PROVE Promise!Next
  <2>1. UNCHANGED LoadingPairs
    BY <1>12, LoadingUnchanged DEF Tick, InLoad
  <2>2. now \in Int /\ now' \in Int /\ now <= now'
    BY <1>12 DEF Tick, TypeOK
  <2>3. QED
    BY <1>12, <2>1, <2>2, DroppingLoses DEF Tick, TypeOK, Promise!Next
<1>13. QED
  BY <1>1, <1>2, <1>3, <1>4, <1>5, <1>6, <1>7, <1>8, <1>9, <1>10, <1>11, <1>12
     DEF Next, Step, CancelContext, vars, Promise!Next

\* The cache implements SingleFlightMap: with its clock, its capacity and its
\* goroutines hidden, it is a memo that may lose a value but never invents or
\* resurrects one, with at most one load per key.
THEOREM RefinesSingleFlightMap == Spec => ImplementsSingleFlightMap
<1>1. QED
  BY TypeInvInit, TypeInvNext, FlightInvInit, FlightInvNext, PromiseInit, PromiseNext, PTL
     DEF Spec, ImplementsSingleFlightMap, Promise!Spec
=============================================================================
