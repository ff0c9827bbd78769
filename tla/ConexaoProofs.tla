--------------------------- MODULE ConexaoProofs ----------------------------
(***************************************************************************)
(* Theorems about Conexao, for any number of connections and callbacks.    *)
(***************************************************************************)
EXTENDS Conexao, TLAPS

(* ------------------- The elements of a list of callbacks ---------------- *)

LEMMA ToSetType ==
    ASSUME NEW S, NEW s \in Seq(S)
    PROVE  ToSet(s) \subseteq S
BY DEF ToSet

LEMMA ToSetAppend ==
    ASSUME NEW S, NEW s \in Seq(S), NEW e \in S
    PROVE  Append(s, e) \in Seq(S) /\ ToSet(s) \subseteq ToSet(Append(s, e))
<1>1. ASSUME NEW i \in DOMAIN s
      PROVE  i \in DOMAIN Append(s, e) /\ Append(s, e)[i] = s[i]
  BY <1>1
<1>2. QED
  BY <1>1 DEF ToSet

LEMMA ToSetHeadTail ==
    ASSUME NEW S, NEW s \in Seq(S), s # <<>>
    PROVE  /\ Head(s) \in S /\ Tail(s) \in Seq(S)
           /\ ToSet(s) \subseteq {Head(s)} \cup ToSet(Tail(s))
<1>1. Head(s) \in S /\ Tail(s) \in Seq(S)
  OBVIOUS
<1>2. ASSUME NEW i \in DOMAIN s, i # 1
      PROVE  i - 1 \in DOMAIN Tail(s) /\ Tail(s)[i - 1] = s[i]
  BY <1>2
<1>3. Head(s) = s[1]
  OBVIOUS
<1>4. QED
  BY <1>1, <1>2, <1>3 DEF ToSet

(* -------------------------- Type correctness -------------------------- *)

\* The lists are lists of callbacks, and what is about to be stored is a connection.
TypeInv ==
    /\ ConexaoTypeOK
    /\ onConn \in Seq(Callbacks)
    /\ toCall \in Seq(Callbacks)
    /\ monitor = "store" => dialed \in Conns

LEMMA TypeInvInit == ConexaoInit => TypeInv
<1> SUFFICES ASSUME ConexaoInit PROVE TypeInv
  OBVIOUS
<1>1. <<>> \in Seq(Callbacks)
  OBVIOUS
<1>2. ToSet(<<>>) \subseteq Callbacks
  BY <1>1, ToSetType
<1>3. onConn = <<>> /\ toCall = <<>> /\ monitor = "off"
  BY DEF ConexaoInit
<1>4. backoff \in 1..backoffMaximo /\ failures \in 0..MaxFailures
  BY DEF ConexaoInit, backoffInicial, backoffMaximo, MaxFailures
<1>5. called \subseteq Callbacks \X Conns /\ due \subseteq Callbacks
  BY DEF ConexaoInit
<1>6. ConexaoTypeOK
  BY <1>2, <1>3, <1>4, <1>5 DEF ConexaoInit, ConexaoTypeOK
<1>7. QED
  BY <1>1, <1>3, <1>6 DEF TypeInv

LEMMA TypeInvNext == TypeInv /\ [ConexaoNext]_conexaoVars => TypeInv'
<1> SUFFICES ASSUME TypeInv, [ConexaoNext]_conexaoVars PROVE TypeInv'
  OBVIOUS
<1> USE DEF TypeInv, ConexaoTypeOK, external, history, Moves
<1>1. CASE Start \/ ReadConn \/ Register \/ NoticeClosed \/ Return \/ Timer
  BY <1>1 DEF Start, ReadConn, Register, NoticeOf, NoticeClosed, Return, Timer
<1>2. CASE Lost
  BY <1>2 DEF Lost, backoffInicial, backoffMaximo, MaxFailures
<1>3. CASE DialFails
  BY <1>3 DEF DialFails, NextBackoff, Min2, fatorMultiplic, backoffMaximo, MaxFailures
<1>4. CASE DialSucceeds
  BY <1>4 DEF DialSucceeds
<1>5. CASE Store
  <2>1. ToSet(onConn) \subseteq Callbacks
    BY ToSetType
  <2>2. QED
    BY <1>5, <2>1 DEF Store, Ends
<1>6. CASE CopyCallbacks
  BY <1>6 DEF CopyCallbacks
<1>7. CASE CallNext
  <2>1. Head(toCall) \in Callbacks /\ Tail(toCall) \in Seq(Callbacks)
    BY <1>7, ToSetHeadTail DEF CallNext
  <2>2. ToSet(Tail(toCall)) \subseteq Callbacks
    BY <2>1, ToSetType
  <2>3. QED
    BY <1>7, <2>1, <2>2 DEF CallNext, Notified
<1>8. CASE AllCalled
  BY <1>8 DEF AllCalled
<1>9. CASE \E f \in Callbacks : OnReconexao(f)
  <2>1. PICK f \in Callbacks : OnReconexao(f)
    BY <1>9
  <2>2. onConn' \in Seq(Callbacks)
    BY <2>1, ToSetAppend DEF OnReconexao
  <2>3. ToSet(onConn') \subseteq Callbacks
    BY <2>2, ToSetType
  <2>4. QED
    BY <2>1, <2>2, <2>3 DEF OnReconexao
<1>10. CASE \E i \in Conns : ConnectionLost(i)
  BY <1>10 DEF ConnectionLost, Ends
<1>11. CASE CloseConexao
  BY <1>11 DEF CloseConexao, Ends
<1>12. CASE BrokerChanges \/ Cancel
  <2>1. /\ UNCHANGED <<state, conn, onConn, monitor, watched, notice, dialed, backoff, toCall>>
        /\ UNCHANGED <<closeCalled, called, due, failures>>
        /\ brokerUp' \in BOOLEAN /\ ctxDone' \in BOOLEAN
    BY <1>12 DEF BrokerChanges, Cancel
  <2>2. QED
    BY <2>1
<1>13. CASE UNCHANGED conexaoVars
  BY <1>13 DEF conexaoVars
<1>14. QED
  BY <1>1, <1>2, <1>3, <1>4, <1>5, <1>6, <1>7, <1>8, <1>9, <1>10, <1>11, <1>12, <1>13
     DEF ConexaoNext, Monitor

\* Every variable keeps its type, whatever the monitor, the network and the callers of Close,
\* OnReconexao and cancel do.
THEOREM TypeCorrect == ConexaoSpec => []ConexaoTypeOK
<1>1. TypeInv => ConexaoTypeOK
  BY DEF TypeInv
<1>2. QED
  BY TypeInvInit, TypeInvNext, <1>1, PTL DEF ConexaoSpec

(* ------------------------- One open connection ------------------------ *)

\* Where an open connection can be found: none while the monitor waits or dials after a loss, and
\* then, until it is stored, only the one just dialled. For the first half, the monitor leaves
\* "watch" only when told of an error, by which time the connection it watches, which is g.conn,
\* has ended.
OpenInv ==
    /\ \A i \in Conns : state[i] = "open" =>
          /\ monitor \notin {"backoff", "dial"}
          /\ i = IF monitor = "store" THEN dialed ELSE conn
    /\ monitor \in {"register", "watch"} => watched = conn
    /\ monitor \in {"off", "read", "register", "backoff", "dial", "store", "copy", "notify"} => notice = "none"
    /\ monitor = "watch" /\ notice = "error" => state[conn] # "open"

LEMMA OpenInvInit == ConexaoInit => OpenInv
BY DEF ConexaoInit, OpenInv

LEMMA OpenInvNext == TypeInv /\ OpenInv /\ [ConexaoNext]_conexaoVars => OpenInv'
<1> SUFFICES ASSUME TypeInv, OpenInv, [ConexaoNext]_conexaoVars PROVE OpenInv'
  OBVIOUS
<1> USE DEF TypeInv, ConexaoTypeOK, OpenInv, external, history, Moves
<1>1. CASE Start \/ ReadConn
  BY <1>1 DEF Start, ReadConn
<1>2. CASE Register
  BY <1>2 DEF Register, NoticeOf
<1>3. CASE Lost
  BY <1>3 DEF Lost, LostNotice
<1>4. CASE NoticeClosed \/ Return
  BY <1>4 DEF NoticeClosed, Return, Cancelled
<1>5. CASE Timer \/ DialFails
  BY <1>5 DEF Timer, DialFails
<1>6. CASE DialSucceeds
  BY <1>6 DEF DialSucceeds
<1>7. CASE Store
  \* What g.conn was has ended: there is nothing to close.
  <2>1. state[conn] = "open" => conn = dialed
    BY <1>7 DEF Store
  <2>2. QED
    BY <1>7, <2>1 DEF Store, Ends
<1>8. CASE CopyCallbacks \/ CallNext \/ AllCalled
  BY <1>8 DEF CopyCallbacks, CallNext, AllCalled
<1>9. CASE \E f \in Callbacks : OnReconexao(f)
  BY <1>9 DEF OnReconexao
<1>10. CASE \E i \in Conns : ConnectionLost(i)
  BY <1>10 DEF ConnectionLost, Ends
<1>11. CASE CloseConexao
  BY <1>11 DEF CloseConexao, Ends
<1>12. CASE BrokerChanges \/ Cancel
  BY <1>12 DEF BrokerChanges, Cancel
<1>13. CASE UNCHANGED conexaoVars
  BY <1>13 DEF conexaoVars
<1>14. QED
  BY <1>1, <1>2, <1>3, <1>4, <1>5, <1>6, <1>7, <1>8, <1>9, <1>10, <1>11, <1>12, <1>13
     DEF ConexaoNext, Monitor

\* The manager never holds two open connections at the broker, not even while a new one is
\* dialled and not yet stored.
THEOREM AtMostOneOpenConnection == ConexaoSpec => []OneOpenConnection
<1>1. OpenInv => OneOpenConnection
  BY DEF OpenInv, OneOpenConnection
<1>2. QED
  BY TypeInvInit, TypeInvNext, OpenInvInit, OpenInvNext, <1>1, PTL DEF ConexaoSpec

(* ------------------------- An orderly reconnection ---------------------- *)

\* A callback that is due is in the list still to be copied, in the copy, or has been called with
\* the connection that was stored. The list only grows, so it cannot get lost in between.
DueInv ==
    /\ monitor = "off" => due = {}
    /\ monitor = "copy" => due \subseteq ToSet(onConn)
    /\ monitor = "notify" => \A f \in due : <<f, conn>> \in called \/ f \in ToSet(toCall)
    /\ CallbacksGetTheNewConnection

LEMMA DueInvInit == ConexaoInit => DueInv
BY DEF ConexaoInit, DueInv, CallbacksGetTheNewConnection

LEMMA DueInvNext == TypeInv /\ DueInv /\ [ConexaoNext]_conexaoVars => DueInv'
<1> SUFFICES ASSUME TypeInv, DueInv, [ConexaoNext]_conexaoVars PROVE DueInv'
  OBVIOUS
<1> USE DEF TypeInv, ConexaoTypeOK, DueInv, CallbacksGetTheNewConnection, external, history, Moves
<1>1. CASE Start \/ ReadConn \/ Register
  BY <1>1 DEF Start, ReadConn, Register
<1>2. CASE Lost \/ NoticeClosed \/ Return \/ Timer \/ DialFails \/ DialSucceeds
  BY <1>2 DEF Lost, NoticeClosed, Return, Cancelled, Timer, DialFails, DialSucceeds
<1>3. CASE Store
  BY <1>3 DEF Store
<1>4. CASE CopyCallbacks
  BY <1>4 DEF CopyCallbacks
<1>5. CASE CallNext
  <2>1. ToSet(toCall) \subseteq {Head(toCall)} \cup ToSet(toCall')
    BY <1>5, ToSetHeadTail DEF CallNext
  <2>2. <<Head(toCall), conn>> \in called' /\ called \subseteq called'
    BY <1>5 DEF CallNext, Notified
  <2>3. monitor = "notify" /\ monitor' = monitor /\ conn' = conn /\ due' = due
    BY <1>5 DEF CallNext
  <2>4. QED
    BY <2>1, <2>2, <2>3
<1>6. CASE AllCalled
  <2>1. ToSet(toCall) = {}
    BY <1>6, ToSetType DEF AllCalled, ToSet
  <2>2. QED
    BY <1>6, <2>1 DEF AllCalled
<1>7. CASE \E f \in Callbacks : OnReconexao(f)
  <2>1. PICK f \in Callbacks : OnReconexao(f)
    BY <1>7
  <2>2. ToSet(onConn) \subseteq ToSet(onConn')
    BY <2>1, ToSetAppend DEF OnReconexao
  <2>3. QED
    BY <2>1, <2>2 DEF OnReconexao
<1>8. CASE \E i \in Conns : ConnectionLost(i)
  BY <1>8 DEF ConnectionLost, Ends
<1>9. CASE CloseConexao
  BY <1>9 DEF CloseConexao, Ends
<1>10. CASE BrokerChanges \/ Cancel
  BY <1>10 DEF BrokerChanges, Cancel
<1>11. CASE UNCHANGED conexaoVars
  BY <1>11 DEF conexaoVars
<1>12. QED
  BY <1>1, <1>2, <1>3, <1>4, <1>5, <1>6, <1>7, <1>8, <1>9, <1>10, <1>11 DEF ConexaoNext, Monitor

\* One more failed attempt is one more doubling, up to the ceiling.
LEMMA BackoffStep ==
    ASSUME ConexaoTypeOK, BackoffFollowsFailures, DialFails
    PROVE  BackoffFollowsFailures'
<1> DEFINE waits == <<2, 4, 8, 16, 32, 60, 60>>
<1>1. monitor' = "backoff" /\ backoff = waits[failures + 1] /\ failures \in 0..6
  BY DEF DialFails, Moves, BackoffFollowsFailures, ConexaoTypeOK, MaxFailures
<1>2. backoff' = (IF backoff * 2 < 60 THEN backoff * 2 ELSE 60)
  BY DEF DialFails, NextBackoff, Min2, fatorMultiplic, backoffMaximo
<1>3. failures' = (IF failures + 1 < 6 THEN failures + 1 ELSE 6)
  BY DEF DialFails, Min2, MaxFailures
<1>4. backoff' = waits[failures' + 1]
  BY <1>1, <1>2, <1>3
<1>5. QED
  BY <1>4 DEF BackoffFollowsFailures

LEMMA BackoffInvNext == TypeInv /\ BackoffFollowsFailures /\ [ConexaoNext]_conexaoVars => BackoffFollowsFailures'
<1> SUFFICES ASSUME TypeInv, BackoffFollowsFailures, [ConexaoNext]_conexaoVars PROVE BackoffFollowsFailures'
  OBVIOUS
<1>1. CASE DialFails
  BY <1>1, BackoffStep DEF TypeInv
<1>2. CASE Lost
  BY <1>2 DEF Lost, Moves, BackoffFollowsFailures, backoffInicial
<1>3. CASE ~DialFails /\ ~Lost
  <2>1. backoff' = backoff /\ failures' = failures
    BY <1>3 DEF ConexaoNext, Monitor, Start, ReadConn, Register, NoticeClosed, Return, Timer, DialSucceeds, Store,
       CopyCallbacks, CallNext, AllCalled, OnReconexao, ConnectionLost, CloseConexao, BrokerChanges, Cancel,
       history, conexaoVars
  <2>2. monitor' \in {"backoff", "dial"} => monitor \in {"backoff", "dial"}
    BY <1>3 DEF ConexaoNext, Monitor, Start, ReadConn, Register, NoticeClosed, Return, Timer, DialSucceeds, Store,
       CopyCallbacks, CallNext, AllCalled, OnReconexao, ConnectionLost, CloseConexao, BrokerChanges, Cancel,
       Moves, conexaoVars
  <2>3. QED
    BY <2>1, <2>2 DEF BackoffFollowsFailures
<1>4. QED
  BY <1>1, <1>2, <1>3

\* A reconnection is paced by the failures before it, and every callback registered when the new
\* connection was stored gets that connection before the monitor goes on.
THEOREM ReconnectionInOrder == ConexaoSpec => []ReconnectsInOrder
<1>1. ConexaoInit => BackoffFollowsFailures
  BY DEF ConexaoInit, BackoffFollowsFailures
<1>2. DueInv /\ BackoffFollowsFailures => ReconnectsInOrder
  BY DEF DueInv, ReconnectsInOrder
<1>3. QED
  BY TypeInvInit, TypeInvNext, DueInvInit, DueInvNext, BackoffInvNext, <1>1, <1>2, PTL DEF ConexaoSpec

(* ------------------ What the monitor makes of an end --------------------- *)

\* What the monitor was told of the connection it watches, which is g.conn, is how that connection
\* ended; and it reconnects only when g.conn was lost.
ToldInv ==
    /\ monitor \in {"watch", "backoff", "dial", "store"} => watched = conn
    /\ monitor = "watch" =>
          /\ notice # "none"
          /\ notice = "empty" => state[conn] = "open"
          /\ notice = "error" => state[conn] = "lost"
          /\ notice = "closed" => state[conn] # "open"
    /\ monitor \in {"backoff", "dial", "store"} => state[conn] = "lost"

LEMMA ToldInvInit == ConexaoInit => ToldInv
BY DEF ConexaoInit, ToldInv

LEMMA ToldInvNext == TypeInv /\ OpenInv /\ ToldInv /\ [ConexaoNext]_conexaoVars => ToldInv'
<1> SUFFICES ASSUME TypeInv, OpenInv, ToldInv, [ConexaoNext]_conexaoVars PROVE ToldInv'
  OBVIOUS
<1> USE DEF TypeInv, ConexaoTypeOK, OpenInv, ToldInv, external, history, Moves
<1>1. CASE Start \/ ReadConn
  BY <1>1 DEF Start, ReadConn
<1>2. CASE Register
  BY <1>2 DEF Register, NoticeOf
<1>3. CASE Lost
  BY <1>3 DEF Lost, LostNotice
<1>4. CASE NoticeClosed \/ Return
  BY <1>4 DEF NoticeClosed, Return, Cancelled
<1>5. CASE Timer \/ DialFails
  BY <1>5 DEF Timer, DialFails
<1>6. CASE DialSucceeds
  BY <1>6 DEF DialSucceeds
<1>7. CASE Store
  BY <1>7 DEF Store
<1>8. CASE CopyCallbacks \/ CallNext \/ AllCalled
  BY <1>8 DEF CopyCallbacks, CallNext, AllCalled
<1>9. CASE \E f \in Callbacks : OnReconexao(f)
  BY <1>9 DEF OnReconexao
<1>10. CASE \E i \in Conns : ConnectionLost(i)
  BY <1>10 DEF ConnectionLost, Ends
<1>11. CASE CloseConexao
  BY <1>11 DEF CloseConexao, Ends
<1>12. CASE BrokerChanges \/ Cancel
  BY <1>12 DEF BrokerChanges, Cancel
<1>13. CASE UNCHANGED conexaoVars
  BY <1>13 DEF conexaoVars
<1>14. QED
  BY <1>1, <1>2, <1>3, <1>4, <1>5, <1>6, <1>7, <1>8, <1>9, <1>10, <1>11, <1>12, <1>13
     DEF ConexaoNext, Monitor

\* The monitor's way to its end, from a connection it has just stored.
Way == [copy |-> 7, notify |-> 6, off |-> 5, read |-> 4, register |-> 3, watch |-> 2, done |-> 1]

\* Once g.conn has been closed while open it stays, and so does the monitor's goal: each of its
\* steps takes it nearer to its return, by a place on its way or by a callback that it has called.
ClosedForGood ==
    state[conn] = "closed" =>
        /\ conn' = conn /\ state'[conn] = "closed"
        /\ monitor \in DOMAIN Way /\ monitor' \in DOMAIN Way
        /\ \/ Way[monitor'] < Way[monitor]
           \/ monitor' = monitor /\ (toCall' = toCall \/ Len(toCall') = Len(toCall) - 1)
        /\ Start \/ Monitor \/ Return =>
              Way[monitor'] < Way[monitor] \/ (monitor' = monitor /\ Len(toCall') = Len(toCall) - 1)

LEMMA ClosedForGoodNext == TypeInv /\ OpenInv /\ ToldInv /\ [ConexaoNext]_conexaoVars => [ClosedForGood]_conexaoVars
<1> SUFFICES ASSUME TypeInv, OpenInv, ToldInv, ConexaoNext, state[conn] = "closed"
             PROVE  /\ conn' = conn /\ state'[conn] = "closed"
                    /\ monitor \in DOMAIN Way /\ monitor' \in DOMAIN Way
                    /\ \/ Way[monitor'] < Way[monitor]
                       \/ monitor' = monitor /\ (toCall' = toCall \/ Len(toCall') = Len(toCall) - 1)
                    /\ Start \/ Monitor \/ Return =>
                          Way[monitor'] < Way[monitor] \/ (monitor' = monitor /\ Len(toCall') = Len(toCall) - 1)
  BY DEF ClosedForGood
<1> USE DEF TypeInv, ConexaoTypeOK, ToldInv, external, history, Moves, Way
<1>1. monitor \in DOMAIN Way
  OBVIOUS
<1>2. CASE CallNext
  <2>1. Len(toCall') = Len(toCall) - 1
    BY <1>2 DEF CallNext
  <2>2. QED
    BY <1>2, <2>1 DEF CallNext
<1>3. CASE Start \/ ReadConn \/ Register \/ NoticeClosed \/ Return
  BY <1>3, <1>1 DEF Start, ReadConn, Register, NoticeClosed, Return, Cancelled
<1>4. CASE CopyCallbacks \/ AllCalled
  BY <1>4 DEF CopyCallbacks, AllCalled
<1>5. CASE Lost \/ Timer \/ DialFails \/ DialSucceeds \/ Store
  BY <1>5 DEF Lost, LostNotice, Timer, DialFails, DialSucceeds, Store
<1>6. Start \/ Monitor \/ Return =>
        /\ conn' = conn /\ state'[conn] = "closed"
        /\ monitor' \in DOMAIN Way
        /\ Way[monitor'] < Way[monitor] \/ (monitor' = monitor /\ Len(toCall') = Len(toCall) - 1)
  BY <1>2, <1>3, <1>4, <1>5 DEF Monitor
<1>7. ASSUME NEW f \in Callbacks, OnReconexao(f)
      PROVE  conn' = conn /\ state' = state /\ monitor' = monitor /\ toCall' = toCall
  BY <1>7 DEF OnReconexao
<1>8. ASSUME NEW i \in Conns, ConnectionLost(i)
      PROVE  conn' = conn /\ state'[conn] = "closed" /\ monitor' = monitor /\ toCall' = toCall
  BY <1>8 DEF ConnectionLost, Ends
<1>9. CASE CloseConexao \/ BrokerChanges \/ Cancel
  <2>1. conn' = conn /\ state' = state /\ monitor' = monitor /\ toCall' = toCall
    BY <1>9 DEF CloseConexao, BrokerChanges, Cancel
  <2>2. QED
    BY <1>1, <1>6, <2>1
<1>10. QED
  BY <1>1, <1>6, <1>7, <1>8, <1>9 DEF ConexaoNext

\* What Close of an open connection leads to: g.conn remains that closed connection, so the
\* manager never reconnects after it, and the monitor is on its way to its return. What
\* ClosingOpenConnectionEndsMonitor needs beside fairness.
THEOREM CloseIsForGood == ConexaoSpec => [][ClosedForGood]_conexaoVars
BY TypeInvInit, TypeInvNext, OpenInvInit, OpenInvNext, ToldInvInit, ToldInvNext, ClosedForGoodNext, PTL DEF ConexaoSpec

\* A loss the monitor was told of, or is repairing, is what it goes on with until it has another
\* open connection, whatever Close, OnReconexao and the broker do, unless its context is done; and
\* an attempt fails only when the broker accepts no connections.
LossKept ==
    monitor \in {"backoff", "dial"} \/ (monitor = "watch" /\ notice = "error") =>
        /\ conn' = conn /\ state'[conn] = "lost"
        /\ \/ monitor' \in {"backoff", "dial"} \/ (monitor' = "watch" /\ notice' = "error")
           \/ monitor' = "store" /\ dialed' \in Conns \ {conn} /\ state'[dialed'] = "open"
           \/ monitor' = "done" /\ ctxDone
        /\ monitor = "dial" /\ monitor' = "backoff" => ~brokerUp

LEMMA LossKeptNext == TypeInv /\ OpenInv /\ ToldInv /\ [ConexaoNext]_conexaoVars => [LossKept]_conexaoVars
<1> SUFFICES ASSUME TypeInv, ToldInv, ConexaoNext,
                    monitor \in {"backoff", "dial"} \/ (monitor = "watch" /\ notice = "error")
             PROVE  /\ conn' = conn /\ state'[conn] = "lost"
                    /\ \/ monitor' \in {"backoff", "dial"} \/ (monitor' = "watch" /\ notice' = "error")
                       \/ monitor' = "store" /\ dialed' \in Conns \ {conn} /\ state'[dialed'] = "open"
                       \/ monitor' = "done" /\ ctxDone
                    /\ monitor = "dial" /\ monitor' = "backoff" => ~brokerUp
  BY DEF LossKept
<1> USE DEF TypeInv, ConexaoTypeOK, ToldInv, external, history, Moves
<1>1. CASE Start \/ ReadConn \/ Register \/ Store \/ CopyCallbacks \/ CallNext \/ AllCalled
  BY <1>1 DEF Start, ReadConn, Register, Store, CopyCallbacks, CallNext, AllCalled
<1>2. CASE Lost \/ NoticeClosed
  BY <1>2 DEF Lost, LostNotice, NoticeClosed
<1>3. CASE Return
  BY <1>3 DEF Return, Cancelled
<1>4. CASE Timer \/ DialFails
  BY <1>4 DEF Timer, DialFails
<1>5. CASE DialSucceeds
  BY <1>5 DEF DialSucceeds
<1>6. CASE \E f \in Callbacks : OnReconexao(f)
  BY <1>6 DEF OnReconexao
<1>7. CASE \E i \in Conns : ConnectionLost(i)
  BY <1>7 DEF ConnectionLost, Ends
<1>8. CASE CloseConexao
  BY <1>8 DEF CloseConexao, Ends
<1>9. CASE BrokerChanges \/ Cancel
  BY <1>9 DEF BrokerChanges, Cancel
<1>10. QED
  BY <1>1, <1>2, <1>3, <1>4, <1>5, <1>6, <1>7, <1>8, <1>9 DEF ConexaoNext, Monitor

\* The monitor never gives a loss up that it was told of. What NoticedLossIsRepaired needs beside
\* fairness and a broker that stays up.
THEOREM LossIsNotForgotten == ConexaoSpec => [][LossKept]_conexaoVars
BY TypeInvInit, TypeInvNext, OpenInvInit, OpenInvNext, ToldInvInit, ToldInvNext, LossKeptNext, PTL DEF ConexaoSpec
=============================================================================
