-------------------------- MODULE PublisherProofs ---------------------------
(***************************************************************************)
(* Theorems about Publisher, for any number of calls, whatever they ask    *)
(* for, and any number of channels.                                        *)
(***************************************************************************)
EXTENDS Publisher, TLAPS

(* -------------------------- At most one copy -------------------------- *)

Sending == {"lock", "channel", "open", "confirm", "declare", "send"}

\* The call has written its message and awaits the confirmation, or the end of the channel it gave up on.
Awaiting == {"wait", "discard"}

\* A call that may still send its message has not written it yet: what goes round the loop of
\* enviarLocked again is ErrClosed or a failed declaration, which wrote nothing.
CopyInv ==
    /\ DOMAIN pc = Tasks
    /\ onWire \in [Tasks -> Nat] /\ copies \in [Tasks -> Nat]
    /\ \A t \in Tasks :
        /\ onWire[t] + copies[t] <= 1
        /\ pc[t] \in Sending => onWire[t] = 0 /\ copies[t] = 0

LEMMA CopyInvInit == Init => CopyInv
BY DEF Init, CopyInv, Sending

\* A step that leaves the message alone, and does not go back to where it would be sent again.
LEMMA NothingWritten ==
    ASSUME CopyInv, NEW t \in Tasks, NEW to, pc' = [pc EXCEPT ![t] = to], UNCHANGED <<onWire, copies>>,
           to \in Sending => pc[t] \in Sending
    PROVE  CopyInv'
BY DEF CopyInv

LEMMA CopyInvNext == CopyInv /\ [Next]_vars => CopyInv'
<1> SUFFICES ASSUME CopyInv, [Next]_vars PROVE CopyInv'
  OBVIOUS
<1> USE DEF broker
<1>1. ASSUME NEW t \in Tasks,
             \/ Lock(t) \/ ChannelReady(t) \/ PublisherFechado(t) \/ ChannelUnusable(t)
             \/ ChannelOpens(t) \/ ChannelFails(t) \/ ConfirmMode(t) \/ ConfirmModeFails(t)
      PROVE  CopyInv'
  <2>1. UNCHANGED <<onWire, copies>> /\ pc[t] \in Sending
    BY <1>1 DEF Lock, ChannelReady, PublisherFechado, ChannelUnusable, ChannelOpens, ChannelFails,
       ConfirmMode, ConfirmModeFails, At, Sending
  <2>2. \E to : pc' = [pc EXCEPT ![t] = to]
    BY <1>1 DEF Lock, ChannelReady, PublisherFechado, ChannelUnusable, ChannelOpens, ChannelFails,
       ConfirmMode, ConfirmModeFails, Goto, Returns
  <2>3. QED
    BY <2>1, <2>2, NothingWritten
<1>2. ASSUME NEW t \in Tasks,
             AlreadyDeclared(t) \/ Declares(t) \/ DeclareFails(t) \/ SendOnClosed(t)
      PROVE  CopyInv'
  <2>1. UNCHANGED <<onWire, copies>> /\ pc[t] \in Sending
    BY <1>2 DEF AlreadyDeclared, Declares, DeclareFails, SendOnClosed, At, Sending
  <2>2. \E to : pc' = [pc EXCEPT ![t] = to]
    BY <1>2 DEF AlreadyDeclared, Declares, DeclareFails, SendOnClosed, AfterDeclare, NextAttempt, Goto, Returns
  <2>3. QED
    BY <2>1, <2>2, NothingWritten
<1>3. ASSUME NEW t \in Tasks, Confirmed(t) \/ Refused(t) \/ TimesOut(t) \/ Uncertain(t) \/ Finishes(t)
      PROVE  CopyInv'
  <2>1. /\ UNCHANGED <<onWire, copies>>
        /\ \E to \in {"discard", "returns", "done"} : pc' = [pc EXCEPT ![t] = to]
    BY <1>3 DEF Confirmed, Refused, TimesOut, Uncertain, Finishes, Goto, Returns
  <2>2. QED
    BY <2>1, NothingWritten DEF Sending
<1>4. ASSUME NEW t \in Tasks, Sends(t)
      PROVE  CopyInv'
  BY <1>4 DEF CopyInv, Sends, At, Goto, Sending
<1>5. ASSUME NEW t \in Tasks, SendFails(t)
      PROVE  CopyInv'
  <2>1. PICK written \in {0, 1} : onWire' = [onWire EXCEPT ![t] = @ + written]
    BY <1>5 DEF SendFails
  <2>2. pc[t] = "send" /\ pc' = [pc EXCEPT ![t] = "done"] /\ copies' = copies
    BY <1>5 DEF SendFails, At, GiveUp, Returns
  <2>3. QED
    BY <2>1, <2>2 DEF CopyInv, Sending
<1>6. ASSUME NEW t \in Tasks, BrokerTakes(t)
      PROVE  CopyInv'
  BY <1>6 DEF CopyInv, BrokerTakes, Sending
<1>7. ASSUME NEW t \in Tasks, ReturnArrives(t) \/ ConfirmationArrives(t)
      PROVE  CopyInv'
  BY <1>7 DEF CopyInv, ReturnArrives, ConfirmationArrives
<1>8. CASE Close \/ CloseEnds \/ (\E i \in Chans : ChannelEnds(i)) \/ UNCHANGED vars
  BY <1>8 DEF CopyInv, Close, CloseEnds, ChannelEnds, vars
<1>9. QED
  BY <1>1, <1>2, <1>3, <1>4, <1>5, <1>6, <1>7, <1>8 DEF Next, Proceeds

\* One call of Publicar never puts two copies of its message on the broker's side, whatever
\* enviarLocked retries and however often its channel is lost.
THEOREM NoSecondCopy == Spec => []AtMostOneCopy
<1>1. CopyInv => AtMostOneCopy
  BY DEF CopyInv, AtMostOneCopy
<1>2. QED
  BY CopyInvInit, CopyInvNext, <1>1, PTL DEF Spec

(* ------------------- Types, the mutex and the channel ------------------- *)

\* The broker returns a message before it confirms it, and answers one copy.
Replies == {<<>>, <<"ack">>, <<"nack">>, <<"return", "ack">>}

\* The buffer of returns holds one return at most.
Buffers == {<<>>} \cup {<<r.id>> : r \in Requests}

TypeInv ==
    /\ fechado \in BOOLEAN
    /\ canal \in Chans \cup {None} /\ opening \in Chans \cup {None}
    /\ declarado \subseteq {r.exchange : r \in Requests}
    /\ lock \in Tasks \cup {None}
    /\ pc \in [Tasks -> Sending \cup {"wait", "discard", "returns", "done"}]
    /\ req \in [Tasks -> Requests]
    /\ chan \in [Chans -> [state : {"unused", "open", "closed"},
                           declared : SUBSET {r.exchange : r \in Requests},
                           returned : Buffers]]
    /\ confirm \in [Tasks -> {"none", "pending", "ack", "nack"}]
    /\ via \in [Tasks -> Chans \cup {None}]
    /\ reply \in [Tasks -> Replies]

\* The mutex is held by the one call that is between its first and its last step.
LockInv == \A t \in Tasks : pc[t] \notin {"lock", "done"} <=> lock = t

\* What the holder of the mutex knows of the fields of the Publisher: nobody else writes them.
FieldInv ==
    /\ \A t \in Tasks :
        /\ pc[t] \in {"open", "confirm", "declare", "send", "wait", "discard", "returns"} => ~fechado
        /\ pc[t] \in {"open", "confirm"} => canal = None
        /\ pc[t] \in {"declare", "send", "wait", "discard", "returns"} => canal # None
        /\ pc[t] = "confirm" => opening # None
        /\ pc[t] = "send" /\ req[t].exchange # Default => req[t].exchange \in declarado
    /\ Closing => lock = None
    /\ opening # None => \E t \in Tasks : pc[t] = "confirm"
    /\ canal = None /\ ~fechado => declarado = {}
    /\ canal # None => declarado \subseteq chan[canal].declared
    /\ \A i \in Chans : Open(i) => i = canal \/ i = opening

\* Who awaits answers: the call that waits, over the open channel of the publisher, until its
\* confirmation is settled. A return in an open buffer is that of this call's message, and its
\* ack is the next answer.
AnswerInv ==
    /\ \A t \in Tasks :
        /\ via[t] # None => pc[t] \in Awaiting /\ via[t] = canal /\ Open(canal) /\ confirm[t] = "pending"
        /\ reply[t] # <<>> => via[t] # None /\ copies[t] > 0
    /\ \A i \in Chans : Open(i) /\ chan[i].returned # <<>> =>
        \E t \in Tasks :
            /\ i = canal /\ chan[i].returned = <<req[t].id>>
            /\ \/ pc[t] = "returns"
               \/ pc[t] \in Awaiting /\ (confirm[t] = "ack" \/ reply[t] = <<"ack">>)

PublisherInv == TypeInv /\ CopyInv /\ LockInv /\ FieldInv /\ AnswerInv

LEMMA PublisherInvInit == Init => PublisherInv
<1> SUFFICES ASSUME Init PROVE PublisherInv
  OBVIOUS
<1> USE PublisherAssumption DEF Init
<1>1. TypeInv
  BY DEF TypeInv, Sending, Replies, Buffers, Idle
<1>2. LockInv
  BY DEF LockInv
<1>3. FieldInv
  BY DEF FieldInv, Open, Idle
<1>4. AnswerInv
  BY DEF AnswerInv, Open, Idle
<1>5. QED
  BY <1>1, <1>2, <1>3, <1>4, CopyInvInit DEF PublisherInv

\* Descartar and the ends of channels: what they leave of the channels and of the answers.
LEMMA ShutEffect ==
    ASSUME TypeInv, NEW S \in SUBSET Chans, NEW to \in {"unused", "closed"}, Shut(S, to)
    PROVE  /\ chan' \in [Chans -> [state : {"unused", "open", "closed"},
                           declared : SUBSET {r.exchange : r \in Requests},
                           returned : Buffers]]
           /\ confirm' \in [Tasks -> {"none", "pending", "ack", "nack"}]
           /\ via' \in [Tasks -> Chans \cup {None}] /\ reply' \in [Tasks -> Replies]
           /\ \A i \in Chans :
                /\ chan'[i].declared = chan[i].declared /\ chan'[i].returned = chan[i].returned
                /\ chan'[i].state = IF i \in S THEN to ELSE chan[i].state
           /\ \A t \in Tasks :
                /\ via'[t] = IF via[t] \in S THEN None ELSE via[t]
                /\ reply'[t] = IF via[t] \in S THEN <<>> ELSE reply[t]
                /\ confirm'[t] = IF via[t] \in S /\ confirm[t] = "pending" THEN "nack" ELSE confirm[t]
<1>1. chan' = [i \in Chans |-> IF i \in S THEN [chan[i] EXCEPT !.state = to] ELSE chan[i]]
  BY DEF Shut
<1>2. \A i \in Chans :
        /\ chan'[i] \in [state : {"unused", "open", "closed"},
                         declared : SUBSET {r.exchange : r \in Requests},
                         returned : Buffers]
        /\ chan'[i].declared = chan[i].declared /\ chan'[i].returned = chan[i].returned
        /\ chan'[i].state = IF i \in S THEN to ELSE chan[i].state
  BY <1>1 DEF TypeInv
<1>3. chan' \in [Chans -> [state : {"unused", "open", "closed"},
                           declared : SUBSET {r.exchange : r \in Requests},
                           returned : Buffers]]
  BY <1>1, <1>2
<1>4. /\ confirm' \in [Tasks -> {"none", "pending", "ack", "nack"}]
      /\ via' \in [Tasks -> Chans \cup {None}] /\ reply' \in [Tasks -> Replies]
  BY DEF Shut, TypeInv, Replies
<1>5. QED
  BY <1>2, <1>3, <1>4 DEF Shut

\* Steps of the holder of the mutex that change nothing but where it is.
Moves(t) ==
    \/ Lock(t) \/ ChannelReady(t) \/ PublisherFechado(t) \/ ChannelFails(t)
    \/ AlreadyDeclared(t) \/ Confirmed(t) \/ Refused(t) \/ TimesOut(t)

\* Steps that discard the publisher's channel.
Discards(t) ==
    \/ ChannelUnusable(t) \/ DeclareFails(t) \/ SendOnClosed(t) \/ SendFails(t) \/ Uncertain(t)

LEMMA MovesEffect ==
    ASSUME TypeInv, NEW t \in Tasks, Moves(t)
    PROVE  /\ UNCHANGED <<fields, req, opening, chan, answers, broker>>
           /\ \E to \in Sending \cup {"wait", "discard", "returns", "done"} : pc' = [pc EXCEPT ![t] = to]
           /\ lock' = IF pc'[t] = "done" THEN None ELSE IF pc[t] = "lock" THEN t ELSE lock
           /\ \/ pc[t] = "lock" /\ lock = None /\ ~Closing /\ pc'[t] = "channel"
              \/ pc[t] = "channel" /\ pc'[t] = "declare" /\ ~fechado /\ Open(canal)
              \/ pc[t] \in {"channel", "open"} /\ pc'[t] = "done"
              \/ pc[t] = "declare" /\ pc'[t] \in {"send", "done"} /\ ~DeclareNeeded(t)
              \/ pc[t] = "wait" /\ confirm[t] = "ack" /\ pc'[t] = "returns"
              \/ pc[t] = "wait" /\ confirm[t] = "nack" /\ pc'[t] = "done"
              \/ pc[t] = "wait" /\ pc'[t] = "discard"
<1> USE DEF TypeInv, Sending, At, Goto, Returns
<1>1. CASE Lock(t)
  BY <1>1 DEF Lock
<1>2. CASE ChannelReady(t)
  BY <1>2 DEF ChannelReady
<1>3. CASE PublisherFechado(t) \/ ChannelFails(t)
  BY <1>3 DEF PublisherFechado, ChannelFails
<1>4. CASE AlreadyDeclared(t)
  BY <1>4 DEF AlreadyDeclared, AfterDeclare
<1>5. CASE Confirmed(t)
  BY <1>5 DEF Confirmed, Accepted
<1>6. CASE Refused(t)
  BY <1>6 DEF Refused
<1>7. CASE TimesOut(t)
  BY <1>7 DEF TimesOut
<1>8. QED
  BY <1>1, <1>2, <1>3, <1>4, <1>5, <1>6, <1>7 DEF Moves

LEMMA DiscardsEffect ==
    ASSUME TypeInv, NEW t \in Tasks, Discards(t)
    PROVE  /\ Shut({canal} \cap Chans, "unused") /\ canal' = None /\ declarado' = {}
           /\ UNCHANGED <<fechado, req, opening, copies>>
           /\ \E to \in {"open", "channel", "done"} : pc' = [pc EXCEPT ![t] = to]
           /\ lock' = IF pc'[t] = "done" THEN None ELSE lock
           /\ pc[t] \in {"channel", "declare", "send", "discard"}
           /\ pc'[t] = "open" => ~fechado
<1> USE DEF TypeInv, Sending, At, Goto, Returns, Descartar, broker
<1>1. CASE ChannelUnusable(t)
  BY <1>1 DEF ChannelUnusable
<1>2. CASE DeclareFails(t)
  BY <1>2 DEF DeclareFails, NextAttempt
<1>3. CASE SendOnClosed(t)
  BY <1>3 DEF SendOnClosed, NextAttempt
<1>4. CASE SendFails(t) \/ Uncertain(t)
  BY <1>4 DEF SendFails, GiveUp, Uncertain
<1>5. QED
  BY <1>1, <1>2, <1>3, <1>4 DEF Discards

\* What a call leaves in the buffer: nothing.
LEMMA DrainedIsEmpty ==
    ASSUME NEW t \in Tasks, chan[canal].returned \in Buffers
    PROVE  Drained(t) = <<>>
<1>1. CASE chan[canal].returned = <<>>
  BY <1>1 DEF Drained, AfterDrain, Returned, ToSet
<1>2. CASE chan[canal].returned = <<req[t].id>>
  <2> DEFINE I == {i \in 1..Len(chan[canal].returned) : chan[canal].returned[i] = req[t].id}
  <2>1. I = {1}
    BY <1>2
  <2>2. Min(I) = 1
    BY <2>1 DEF Min
  <2>3. Len(chan[canal].returned) = 1 /\ SubSeq(chan[canal].returned, 2, 1) = <<>>
    BY <1>2
  <2>4. Returned(t)
    BY <1>2 DEF Returned, ToSet
  <2>5. Drained(t) = SubSeq(chan[canal].returned, Min(I) + 1, Len(chan[canal].returned))
    <3> HIDE DEF I
    <3>1. I # {} /\ I = {i \in 1..Len(chan[canal].returned) : chan[canal].returned[i] = req[t].id}
      BY <2>1 DEF I
    <3>2. QED
      BY <2>4, <3>1, Zenon DEF Drained, AfterDrain, SelectInSeq
  <2>6. Drained(t) = SubSeq(chan[canal].returned, 2, 1)
    <3> HIDE DEF I
    <3>1. Min(I) + 1 = 2
      BY <2>2
    <3>2. QED
      BY <2>3, <2>5, <3>1
  <2>7. QED
    BY <2>3, <2>6
<1>3. CASE ~Returned(t)
  BY <1>3 DEF Drained, AfterDrain
<1>4. QED
  BY <1>1, <1>2, <1>3 DEF Returned, ToSet, Buffers

\* The return that arrives finds the buffer empty: it is the only one of the only call that waits.
LEMMA TheReturn ==
    ASSUME PublisherInv, NEW t \in Tasks, ReturnArrives(t)
    PROVE  /\ pc[t] \in Awaiting /\ canal \in Chans /\ via[t] = canal /\ copies[t] > 0
           /\ chan[canal].returned = <<>>
           /\ chan' = [chan EXCEPT ![canal].returned = <<req[t].id>>]
           /\ reply' = [reply EXCEPT ![t] = <<"ack">>]
           /\ UNCHANGED <<fields, lock, pc, req, opening, confirm, via, copies>>
<1> USE PublisherAssumption DEF PublisherInv, TypeInv, LockInv, AnswerInv, Open, Sending, Awaiting
<1>1. reply[t] = <<"return", "ack">>
  BY DEF ReturnArrives, Replies
<1>2. /\ pc[t] \in Awaiting /\ canal \in Chans /\ via[t] = canal /\ copies[t] > 0
      /\ Open(canal) /\ confirm[t] = "pending"
  <2>1. reply[t] # <<>>
    BY DEF ReturnArrives
  <2>2. QED
    BY <2>1
<1>3. chan[canal].returned = <<>>
  <2> SUFFICES ASSUME chan[canal].returned # <<>> PROVE FALSE
    OBVIOUS
  <2>1. PICK u \in Tasks : pc[u] = "returns" \/ (pc[u] \in Awaiting /\ (confirm[u] = "ack" \/ reply[u] = <<"ack">>))
    BY <1>2
  <2>2. u = t
    BY <1>2, <2>1
  <2>3. <<"return", "ack">> # <<"ack">>
    OBVIOUS
  <2>4. QED
    BY <1>1, <1>2, <2>1, <2>2, <2>3
<1>4. Append(<<>>, req[t].id) = <<req[t].id>> /\ Tail(<<"return", "ack">>) = <<"ack">>
  OBVIOUS
<1>5. /\ chan' = [chan EXCEPT ![canal].returned = Append(@, req[t].id)]
      /\ reply' = [reply EXCEPT ![t] = Tail(@)]
  BY <1>2 DEF ReturnArrives
<1>6. UNCHANGED <<fields, lock, pc, req, opening, confirm, via, copies>>
  BY DEF ReturnArrives, broker
<1>7. QED
  BY <1>1, <1>2, <1>3, <1>4, <1>5, <1>6

LEMMA TheConfirmation ==
    ASSUME PublisherInv, NEW t \in Tasks, ConfirmationArrives(t)
    PROVE  /\ pc[t] \in Awaiting /\ confirm[t] = "pending" /\ via' = [via EXCEPT ![t] = None]
           /\ reply' = [reply EXCEPT ![t] = <<>>]
           /\ \E c \in {"ack", "nack"} :
                reply[t] = <<c>> /\ confirm' = [confirm EXCEPT ![t] = c]
           /\ UNCHANGED <<fields, lock, pc, req, opening, chan, copies>>
<1>1. reply[t] \in Replies /\ reply[t] # <<>> /\ Head(reply[t]) \in {"ack", "nack"}
  BY DEF ConfirmationArrives, PublisherInv, TypeInv
<1>2. PICK c \in {"ack", "nack"} : reply[t] = <<c>>
  BY <1>1 DEF Replies
<1>3. Head(<<c>>) = c /\ Tail(<<c>>) = <<>>
  OBVIOUS
<1>4. pc[t] \in Awaiting /\ confirm[t] = "pending"
  BY <1>1 DEF PublisherInv, AnswerInv
<1>5. QED
  BY <1>2, <1>3, <1>4 DEF ConfirmationArrives, broker

\* A copy is answered once: the message the broker takes had no answer yet.
LEMMA TheAnswer ==
    ASSUME PublisherInv, NEW t \in Tasks, BrokerTakes(t)
    PROVE  /\ reply[t] = <<>> /\ copies'[t] > 0
           /\ \A u \in Tasks : u # t => copies'[u] = copies[u]
           /\ \E answer \in Replies : reply' = [reply EXCEPT ![t] = answer] /\ (via[t] = None => answer = <<>>)
           /\ UNCHANGED <<fields, lock, pc, req, opening, chan, confirm, via>>
<1> USE DEF PublisherInv, TypeInv, CopyInv
<1>1. onWire[t] > 0 /\ copies' = [copies EXCEPT ![t] = @ + 1]
  BY DEF BrokerTakes
<1>2. reply[t] = <<>>
  BY <1>1 DEF AnswerInv
<1>3. PICK outcome \in {"queued", "unroutable", "refused"} :
        reply' = [reply EXCEPT ![t] = IF via[t] = None THEN @ ELSE @ \o AnswerTo(outcome)]
  BY DEF BrokerTakes
<1>4. AnswerTo(outcome) \in Replies /\ <<>> \o AnswerTo(outcome) = AnswerTo(outcome)
  BY DEF AnswerTo, Replies
<1>5. <<>> \in Replies
  BY DEF Replies
<1>6. reply' = [reply EXCEPT ![t] = IF via[t] = None THEN <<>> ELSE AnswerTo(outcome)]
  BY <1>2, <1>3, <1>4
<1>7. copies'[t] > 0 /\ \A u \in Tasks : u # t => copies'[u] = copies[u]
  BY <1>1
<1>8. UNCHANGED <<fields, lock, pc, req, opening, chan, confirm, via>>
  BY DEF BrokerTakes
<1>9. QED
  BY <1>2, <1>4, <1>5, <1>6, <1>7, <1>8

LEMMA LockInvNext == TypeInv /\ LockInv /\ [Next]_vars => LockInv'
<1> SUFFICES ASSUME TypeInv, LockInv, [Next]_vars PROVE LockInv'
  OBVIOUS
<1> USE PublisherAssumption DEF TypeInv, LockInv, Sending
<1>1. ASSUME NEW t \in Tasks, Moves(t) PROVE LockInv'
  BY <1>1, MovesEffect
<1>2. ASSUME NEW t \in Tasks, Discards(t) PROVE LockInv'
  BY <1>2, DiscardsEffect
<1>3. ASSUME NEW t \in Tasks,
             ChannelOpens(t) \/ ConfirmMode(t) \/ ConfirmModeFails(t) \/ Declares(t) \/ Sends(t) \/ Finishes(t)
      PROVE  LockInv'
  BY <1>3 DEF ChannelOpens, ConfirmMode, ConfirmModeFails, Declares, AfterDeclare, Sends, Finishes, At, Goto, Returns
<1>4. CASE Close \/ CloseEnds \/ (\E i \in Chans : ChannelEnds(i)) \/ UNCHANGED vars
  BY <1>4 DEF Close, CloseEnds, ChannelEnds, vars
<1>5. ASSUME NEW t \in Tasks, BrokerTakes(t) \/ ReturnArrives(t) \/ ConfirmationArrives(t)
      PROVE  LockInv'
  BY <1>5 DEF BrokerTakes, ReturnArrives, ConfirmationArrives
<1>6. QED
  BY <1>1, <1>2, <1>3, <1>4, <1>5 DEF Next, Proceeds, Moves, Discards

LEMMA TypeInvNext == PublisherInv /\ [Next]_vars => TypeInv'
<1> SUFFICES ASSUME PublisherInv, [Next]_vars PROVE TypeInv'
  OBVIOUS
<1> TypeInv /\ LockInv /\ FieldInv
  BY DEF PublisherInv
<1> USE PublisherAssumption DEF TypeInv, Sending
<1>1. ASSUME NEW t \in Tasks, Moves(t) PROVE TypeInv'
  <2>1. /\ UNCHANGED <<fields, req, opening, chan, answers>>
        /\ \E to \in Sending \cup {"wait", "discard", "returns", "done"} : pc' = [pc EXCEPT ![t] = to]
        /\ lock' \in {None, t, lock}
    BY <1>1, MovesEffect
  <2>2. QED
    BY <2>1 DEF fields, answers
<1>2. ASSUME NEW t \in Tasks, Discards(t) PROVE TypeInv'
  BY <1>2, DiscardsEffect, ShutEffect
<1>3. ASSUME NEW t \in Tasks, ChannelOpens(t) PROVE TypeInv'
  BY <1>3 DEF ChannelOpens, Goto, fields, answers, Idle, Buffers
<1>4. ASSUME NEW t \in Tasks, ConfirmMode(t) PROVE TypeInv'
  BY <1>4 DEF ConfirmMode, Goto, answers
<1>5. ASSUME NEW t \in Tasks, ConfirmModeFails(t) PROVE TypeInv'
  <2>1. opening \in Chans
    BY <1>5 DEF ConfirmModeFails, At, FieldInv
  <2>2. Shut({opening}, "unused")
    BY <1>5 DEF ConfirmModeFails, Abandon
  <2>3. QED
    BY <1>5, <2>1, <2>2, ShutEffect DEF ConfirmModeFails, Returns, fields
<1>6. ASSUME NEW t \in Tasks, Declares(t) PROVE TypeInv'
  <2>1. canal \in Chans /\ req[t].exchange \in {r.exchange : r \in Requests}
    BY <1>6 DEF Declares, Open
  <2>2. QED
    BY <1>6, <2>1 DEF Declares, AfterDeclare, Goto, Returns, answers
<1>7. ASSUME NEW t \in Tasks, Sends(t) PROVE TypeInv'
  BY <1>7 DEF Sends, Goto, fields
<1>8. ASSUME NEW t \in Tasks, Finishes(t) PROVE TypeInv'
  <2>1. Drained(t) \in Buffers
    <3>1. canal \in Chans /\ chan[canal].returned \in Buffers
      BY <1>8 DEF Finishes, At, FieldInv
    <3>2. QED
      BY <3>1, DrainedIsEmpty DEF Buffers
  <2>2. QED
    BY <1>8, <2>1 DEF Finishes, Returns, fields, answers
<1>9. CASE Close \/ CloseEnds
  <2>1. CASE Close
    BY <2>1 DEF Close, answers
  <2>2. CASE CloseEnds
    BY <2>2, ShutEffect DEF CloseEnds, Closing, Release, answers
  <2>3. QED
    BY <1>9, <2>1, <2>2
<1>10. ASSUME NEW i \in Chans, ChannelEnds(i) PROVE TypeInv'
  BY <1>10, ShutEffect DEF ChannelEnds, fields
<1>11. ASSUME NEW t \in Tasks, BrokerTakes(t) PROVE TypeInv'
  BY <1>11, TheAnswer DEF fields
<1>12. ASSUME NEW t \in Tasks, ReturnArrives(t) PROVE TypeInv'
  <2>1. <<"ack">> \in Replies /\ <<req[t].id>> \in Buffers
    BY DEF Replies, Buffers
  <2>2. /\ UNCHANGED <<fields, lock, pc, req, opening, confirm, via>> /\ canal \in Chans
        /\ chan' = [chan EXCEPT ![canal].returned = <<req[t].id>>]
        /\ reply' = [reply EXCEPT ![t] = <<"ack">>]
    BY <1>12, TheReturn
  <2>3. QED
    BY <2>1, <2>2 DEF fields
<1>13. ASSUME NEW t \in Tasks, ConfirmationArrives(t) PROVE TypeInv'
  <2>1. <<>> \in Replies
    BY DEF Replies
  <2>2. /\ UNCHANGED <<fields, lock, pc, req, opening, chan>>
        /\ \E c \in {"ack", "nack"} : confirm' = [confirm EXCEPT ![t] = c]
        /\ via' = [via EXCEPT ![t] = None] /\ reply' = [reply EXCEPT ![t] = <<>>]
    BY <1>13, TheConfirmation
  <2>3. QED
    BY <2>1, <2>2 DEF fields
<1>14. CASE UNCHANGED vars
  BY <1>14 DEF vars, fields, answers
<1>15. QED
  BY <1>1, <1>2, <1>3, <1>4, <1>5, <1>6, <1>7, <1>8, <1>9, <1>10, <1>11, <1>12, <1>13, <1>14
     DEF Next, Proceeds, Moves, Discards

LEMMA FieldInvNext == PublisherInv /\ [Next]_vars => FieldInv'
<1> SUFFICES ASSUME PublisherInv, [Next]_vars PROVE FieldInv'
  OBVIOUS
<1> TypeInv /\ LockInv /\ FieldInv
  BY DEF PublisherInv
<1> USE PublisherAssumption DEF TypeInv, LockInv, FieldInv, Closing, Open, Sending
<1>1. ASSUME NEW t \in Tasks, Moves(t) PROVE FieldInv'
  BY <1>1, MovesEffect DEF fields, DeclareNeeded
<1>2. ASSUME NEW t \in Tasks, Discards(t) PROVE FieldInv'
  <2>1. /\ canal' = None /\ declarado' = {} /\ UNCHANGED <<fechado, req, opening>>
        /\ Shut({canal} \cap Chans, "unused")
        /\ \E to \in {"open", "channel", "done"} : pc' = [pc EXCEPT ![t] = to]
        /\ pc'[t] = "open" => ~fechado
        /\ pc[t] \in {"channel", "declare", "send", "discard"}
    BY <1>2, DiscardsEffect
  <2>2. opening = None /\ \A u \in Tasks : u # t => pc'[u] = pc[u] /\ pc[u] \in {"lock", "done"}
    BY <2>1
  <2>3. \A i \in Chans : chan'[i].state # "open"
    BY <2>1, <2>2, ShutEffect
  <2>4. QED
    BY <2>1, <2>2, <2>3
<1>3. ASSUME NEW t \in Tasks, ChannelOpens(t) PROVE FieldInv'
  BY <1>3 DEF ChannelOpens, At, Goto, fields, Idle
<1>4. ASSUME NEW t \in Tasks, ConfirmMode(t) PROVE FieldInv'
  BY <1>4 DEF ConfirmMode, At, Goto
<1>5. ASSUME NEW t \in Tasks, ConfirmModeFails(t) PROVE FieldInv'
  BY <1>5, ShutEffect DEF ConfirmModeFails, Abandon, At, Returns, fields
<1>6. ASSUME NEW t \in Tasks, Declares(t) PROVE FieldInv'
  BY <1>6 DEF Declares, AfterDeclare, DeclareNeeded, At, Goto, Returns
<1>7. ASSUME NEW t \in Tasks, Sends(t) PROVE FieldInv'
  BY <1>7 DEF Sends, At, Goto, fields
<1>8. ASSUME NEW t \in Tasks, Finishes(t) PROVE FieldInv'
  BY <1>8 DEF Finishes, At, Returns, fields
<1>9. CASE Close \/ CloseEnds
  <2>1. CASE Close
    BY <2>1 DEF Close
  <2>2. CASE CloseEnds
    BY <2>2, ShutEffect DEF CloseEnds, Closing, Release
  <2>3. QED
    BY <1>9, <2>1, <2>2
<1>10. ASSUME NEW i \in Chans, ChannelEnds(i) PROVE FieldInv'
  BY <1>10, ShutEffect DEF ChannelEnds, fields
<1>11. ASSUME NEW t \in Tasks, BrokerTakes(t) \/ ConfirmationArrives(t) PROVE FieldInv'
  BY <1>11 DEF BrokerTakes, ConfirmationArrives, fields
<1>12. ASSUME NEW t \in Tasks, ReturnArrives(t) PROVE FieldInv'
  BY <1>12 DEF ReturnArrives, fields
<1>13. CASE UNCHANGED vars
  BY <1>13 DEF vars, fields
<1>14. QED
  BY <1>1, <1>2, <1>3, <1>4, <1>5, <1>6, <1>7, <1>8, <1>9, <1>10, <1>11, <1>12, <1>13
     DEF Next, Proceeds, Moves, Discards

LEMMA AnswerInvNext == PublisherInv /\ [Next]_vars => AnswerInv'
<1> SUFFICES ASSUME PublisherInv, [Next]_vars PROVE AnswerInv'
  OBVIOUS
<1> TypeInv /\ LockInv /\ FieldInv /\ AnswerInv
  BY DEF PublisherInv
<1> USE PublisherAssumption DEF TypeInv, LockInv, FieldInv, AnswerInv, Open, Sending, Awaiting, broker
<1> <<"ack">> # <<>>
  OBVIOUS
<1>1. ASSUME NEW t \in Tasks, Moves(t) PROVE AnswerInv'
  <2>1. /\ UNCHANGED <<canal, req, chan, confirm, via, reply, copies>>
        /\ \A u \in Tasks : u # t => pc'[u] = pc[u]
        /\ \/ pc[t] = "wait" /\ pc'[t] = "discard"
           \/ via[t] = None /\ (pc[t] \in Awaiting => confirm[t] = "nack" \/ pc'[t] = "returns")
        /\ pc[t] # "returns"
    <3>1. /\ UNCHANGED <<canal, req, chan, confirm, via, reply, copies>>
          /\ \A u \in Tasks : u # t => pc'[u] = pc[u]
          /\ pc[t] # "returns"
          /\ \/ pc[t] \notin Awaiting
             \/ pc[t] = "wait" /\ confirm[t] = "ack" /\ pc'[t] = "returns"
             \/ pc[t] = "wait" /\ confirm[t] = "nack" /\ pc'[t] = "done"
             \/ pc[t] = "wait" /\ pc'[t] = "discard"
      BY <1>1, MovesEffect DEF fields, answers
    <3>2. QED
      BY <3>1
  <2>2. reply[t] # <<>> => via[t] # None
    OBVIOUS
  <2>3. \A u \in Tasks :
            /\ via'[u] # None => pc'[u] \in Awaiting /\ via'[u] = canal' /\ Open(canal)' /\ confirm'[u] = "pending"
            /\ reply'[u] # <<>> => via'[u] # None /\ copies'[u] > 0
    BY <2>1, <2>2
  <2>4. ASSUME NEW i \in Chans, Open(i)', chan'[i].returned # <<>>
        PROVE  \E u \in Tasks :
                  /\ i = canal' /\ chan'[i].returned = <<req'[u].id>>
                  /\ \/ pc'[u] = "returns"
                     \/ pc'[u] \in Awaiting /\ (confirm'[u] = "ack" \/ reply'[u] = <<"ack">>)
    <3>1. PICK u \in Tasks :
            /\ i = canal /\ chan[i].returned = <<req[u].id>>
            /\ \/ pc[u] = "returns"
               \/ pc[u] \in Awaiting /\ (confirm[u] = "ack" \/ reply[u] = <<"ack">>)
      BY <2>1, <2>4
    <3>2. CASE u = t
      BY <2>1, <2>2, <2>4, <3>1, <3>2
    <3>3. CASE u # t
      BY <2>1, <2>4, <3>1, <3>3
    <3>4. QED
      BY <3>2, <3>3
  <2>5. QED
    BY <2>3, <2>4
<1>2. ASSUME NEW t \in Tasks, Discards(t) PROVE AnswerInv'
  BY <1>2, DiscardsEffect, ShutEffect
<1>3. ASSUME NEW t \in Tasks, ChannelOpens(t) PROVE AnswerInv'
  BY <1>3 DEF ChannelOpens, At, Goto, fields, answers, Idle
<1>4. ASSUME NEW t \in Tasks, ConfirmMode(t) PROVE AnswerInv'
  BY <1>4 DEF ConfirmMode, At, Goto, answers
<1>5. ASSUME NEW t \in Tasks, ConfirmModeFails(t) PROVE AnswerInv'
  BY <1>5, ShutEffect DEF ConfirmModeFails, Abandon, At, Returns, fields
<1>6. ASSUME NEW t \in Tasks, Declares(t) PROVE AnswerInv'
  BY <1>6 DEF Declares, AfterDeclare, At, Goto, Returns, answers
<1>7. ASSUME NEW t \in Tasks, Sends(t) PROVE AnswerInv'
  BY <1>7 DEF Sends, At, Goto, fields
<1>8. ASSUME NEW t \in Tasks, Finishes(t) PROVE AnswerInv'
  BY <1>8, DrainedIsEmpty DEF Finishes, At, Returns, fields, answers
<1>9. CASE Close \/ CloseEnds
  <2>1. CASE Close
    BY <2>1 DEF Close, answers
  <2>2. CASE CloseEnds
    BY <2>2, ShutEffect DEF CloseEnds, Closing, Release, answers
  <2>3. QED
    BY <1>9, <2>1, <2>2
<1>10. ASSUME NEW i \in Chans, ChannelEnds(i) PROVE AnswerInv'
  BY <1>10, ShutEffect DEF ChannelEnds, fields
<1>11. ASSUME NEW t \in Tasks, BrokerTakes(t) PROVE AnswerInv'
  <2>1. /\ UNCHANGED <<canal, req, chan, confirm, via, pc>>
        /\ reply[t] = <<>> /\ copies'[t] > 0
        /\ \A u \in Tasks : u # t => reply'[u] = reply[u] /\ copies'[u] = copies[u]
        /\ via[t] = None => reply'[t] = <<>>
    BY <1>11, TheAnswer DEF fields
  <2>2. \A u \in Tasks :
            /\ via'[u] # None => pc'[u] \in Awaiting /\ via'[u] = canal' /\ Open(canal)' /\ confirm'[u] = "pending"
            /\ reply'[u] # <<>> => via'[u] # None /\ copies'[u] > 0
    BY <2>1
  <2>3. ASSUME NEW i \in Chans, Open(i)', chan'[i].returned # <<>>
        PROVE  \E u \in Tasks :
                  /\ i = canal' /\ chan'[i].returned = <<req'[u].id>>
                  /\ \/ pc'[u] = "returns"
                     \/ pc'[u] \in Awaiting /\ (confirm'[u] = "ack" \/ reply'[u] = <<"ack">>)
    <3>1. PICK u \in Tasks :
            /\ i = canal /\ chan[i].returned = <<req[u].id>>
            /\ \/ pc[u] = "returns"
               \/ pc[u] \in Awaiting /\ (confirm[u] = "ack" \/ reply[u] = <<"ack">>)
      BY <2>1, <2>3
    <3>2. pc[u] = "returns" \/ confirm[u] = "ack" \/ u # t
      BY <2>1, <3>1
    <3>3. QED
      BY <2>1, <2>3, <3>1, <3>2
  <2>4. QED
    BY <2>2, <2>3
<1>12. ASSUME NEW t \in Tasks, ReturnArrives(t) PROVE AnswerInv'
  <2>1. /\ UNCHANGED <<canal, pc, req, confirm, via, copies>> /\ canal \in Chans
        /\ pc[t] \in Awaiting /\ via[t] # None /\ copies[t] > 0
        /\ \A u \in Tasks : u # t => reply'[u] = reply[u]
        /\ \A i \in Chans : chan'[i].state = chan[i].state /\ (i # canal => chan'[i].returned = chan[i].returned)
        /\ chan'[canal].returned = <<req[t].id>> /\ reply'[t] = <<"ack">>
    BY <1>12, TheReturn DEF fields
  <2>2. \A u \in Tasks :
            /\ via'[u] # None => pc'[u] \in Awaiting /\ via'[u] = canal' /\ Open(canal)' /\ confirm'[u] = "pending"
            /\ reply'[u] # <<>> => via'[u] # None /\ copies'[u] > 0
    BY <2>1
  <2>3. \A i \in Chans : Open(i) /\ i # canal => chan[i].returned = <<>>
    OBVIOUS
  <2>4. QED
    BY <2>1, <2>2, <2>3
<1>13. ASSUME NEW t \in Tasks, ConfirmationArrives(t) PROVE AnswerInv'
  <2>1. PICK c \in {"ack", "nack"} : reply[t] = <<c>> /\ confirm' = [confirm EXCEPT ![t] = c]
    BY <1>13, TheConfirmation
  <2>2. /\ via' = [via EXCEPT ![t] = None] /\ reply' = [reply EXCEPT ![t] = <<>>]
        /\ UNCHANGED <<canal, pc, req, chan, copies>>
    BY <1>13, TheConfirmation DEF fields
  <2>3. reply[t] = <<"ack">> => confirm'[t] = "ack"
    BY <2>1
  <2>4. \A u \in Tasks :
            /\ via'[u] # None => pc'[u] \in Awaiting /\ via'[u] = canal' /\ Open(canal)' /\ confirm'[u] = "pending"
            /\ reply'[u] # <<>> => via'[u] # None /\ copies'[u] > 0
    BY <2>1, <2>2
  <2>5. ASSUME NEW u \in Tasks
        PROVE  confirm[u] = "ack" \/ reply[u] = <<"ack">> => confirm'[u] = "ack" \/ reply'[u] = <<"ack">>
    <3>1. confirm[t] = "pending"
      BY <1>13, TheConfirmation
    <3>2. u # t => confirm'[u] = confirm[u] /\ reply'[u] = reply[u]
      BY <2>1, <2>2
    <3>3. QED
      BY <2>3, <3>1, <3>2
  <2>6. ASSUME NEW i \in Chans, Open(i)', chan'[i].returned # <<>>
        PROVE  \E u \in Tasks :
                  /\ i = canal' /\ chan'[i].returned = <<req'[u].id>>
                  /\ \/ pc'[u] = "returns"
                     \/ pc'[u] \in Awaiting /\ (confirm'[u] = "ack" \/ reply'[u] = <<"ack">>)
    <3>1. PICK u \in Tasks :
              /\ i = canal /\ chan[i].returned = <<req[u].id>>
              /\ \/ pc[u] = "returns"
                 \/ pc[u] \in Awaiting /\ (confirm[u] = "ack" \/ reply[u] = <<"ack">>)
      BY <2>2, <2>6
    <3>2. QED
      BY <2>2, <2>5, <3>1
  <2>7. QED
    BY <2>4, <2>6
<1>14. CASE UNCHANGED vars
  <2>1. UNCHANGED <<canal, pc, req, chan, confirm, via, reply, copies>>
    BY <1>14 DEF vars, fields, answers
  <2>2. \A u \in Tasks :
            /\ via'[u] # None => pc'[u] \in Awaiting /\ via'[u] = canal' /\ Open(canal)' /\ confirm'[u] = "pending"
            /\ reply'[u] # <<>> => via'[u] # None /\ copies'[u] > 0
    BY <2>1
  <2>3. ASSUME NEW i \in Chans, chan'[i].state = "open", chan'[i].returned # <<>>
        PROVE  \E u \in Tasks :
                  /\ i = canal' /\ chan'[i].returned = <<req'[u].id>>
                  /\ \/ pc'[u] = "returns"
                     \/ pc'[u] \in Awaiting /\ (confirm'[u] = "ack" \/ reply'[u] = <<"ack">>)
    BY <2>1, <2>3
  <2>4. QED
    BY <2>2, <2>3
<1>15. QED
  BY <1>1, <1>2, <1>3, <1>4, <1>5, <1>6, <1>7, <1>8, <1>9, <1>10, <1>11, <1>12, <1>13, <1>14
     DEF Next, Proceeds, Moves, Discards

LEMMA PublisherInvNext == PublisherInv /\ [Next]_vars => PublisherInv'
BY TypeInvNext, CopyInvNext, LockInvNext, FieldInvNext, AnswerInvNext DEF PublisherInv

\* The open channel is the publisher's or the one canalLocked is about to store, what is sent goes to
\* an exchange declared on the channel that sends it, and no call finds the return of an earlier one.
THEOREM ChannelsInOrder == Spec => []ChannelInOrder
<1>1. PublisherInv => NoChannelLeaks
  BY DEF PublisherInv, TypeInv, FieldInv, NoChannelLeaks, Open
<1>2. PublisherInv => DeclaredOnThisChannel
  BY DEF PublisherInv, FieldInv, DeclaredOnThisChannel
<1>3. PublisherInv => ReturnsAreDrained
  BY PublisherAssumption DEF PublisherInv, TypeInv, LockInv, AnswerInv, ReturnsAreDrained, Open, Awaiting
<1>4. PublisherInv => ChannelInOrder
  BY <1>1, <1>2, <1>3 DEF ChannelInOrder
<1>5. QED
  BY PublisherInvInit, PublisherInvNext, <1>4, PTL DEF Spec

(* ------------------------- Types of the history ------------------------- *)

HistoryTypes ==
    /\ attempt \in [Tasks -> 0..Tentativas - 1]
    /\ result \in [Tasks -> Results]
    /\ fate \in [Tasks -> {"none", "queued", "unroutable", "refused"}]

LEMMA HistoryTypesNext == HistoryTypes /\ [Next]_vars => HistoryTypes'
<1> SUFFICES ASSUME HistoryTypes, [Next]_vars PROVE HistoryTypes'
  OBVIOUS
<1> USE DEF HistoryTypes, Tentativas, Results, Goto, Returns, broker
<1>1. ASSUME NEW t \in Tasks, Moves(t) PROVE HistoryTypes'
  BY <1>1 DEF Moves, Lock, ChannelReady, PublisherFechado, ChannelFails, AlreadyDeclared, AfterDeclare, Confirmed, Refused, TimesOut
<1>2. ASSUME NEW t \in Tasks, Discards(t) PROVE HistoryTypes'
  BY <1>2 DEF Discards, ChannelUnusable, DeclareFails, SendOnClosed, SendFails, Uncertain, NextAttempt, GiveUp
<1>3. ASSUME NEW t \in Tasks,
             ChannelOpens(t) \/ ConfirmMode(t) \/ ConfirmModeFails(t) \/ Declares(t) \/ Sends(t) \/ Finishes(t)
      PROVE  HistoryTypes'
  BY <1>3 DEF ChannelOpens, ConfirmMode, ConfirmModeFails, Declares, AfterDeclare, Sends, Finishes
<1>4. ASSUME NEW t \in Tasks, BrokerTakes(t) \/ ReturnArrives(t) \/ ConfirmationArrives(t)
      PROVE  HistoryTypes'
  BY <1>4 DEF BrokerTakes, ReturnArrives, ConfirmationArrives
<1>5. CASE Close \/ CloseEnds \/ (\E i \in Chans : ChannelEnds(i)) \/ UNCHANGED vars
  BY <1>5 DEF Close, CloseEnds, ChannelEnds, vars
<1>6. QED
  BY <1>1, <1>2, <1>3, <1>4, <1>5 DEF Next, Proceeds, Moves, Discards

LEMMA HistoryTypesInit == Init => HistoryTypes
BY DEF Init, HistoryTypes, Tentativas, Results

\* Every field of the Publisher, every call, channel and answer keeps its type, whatever the
\* calls, the broker and the network do.
THEOREM TypeCorrect == Spec => []TypeOK
<1>1. PublisherInv /\ HistoryTypes => TypeOK
  <2> SUFFICES ASSUME PublisherInv, HistoryTypes PROVE TypeOK
    OBVIOUS
  <2> USE DEF PublisherInv, TypeInv
  <2>1. \A i \in Chans : ToSet(chan[i].returned) \subseteq {r.id : r \in Requests}
    BY DEF ToSet, Buffers
  <2>2. \A t \in Tasks : ToSet(reply[t]) \subseteq {"return", "ack", "nack"}
    BY DEF ToSet, Replies
  <2>3. QED
    BY <2>1, <2>2 DEF TypeOK, HistoryTypes, CopyInv, Sending
<1>2. QED
  BY PublisherInvInit, PublisherInvNext, HistoryTypesInit, HistoryTypesNext, <1>1, PTL DEF Spec

(* -------------------------- The outcome is true ------------------------- *)

\* The ack for t is underway or there: the broker took the message, and its return, if it had no
\* route, is in the buffer.
Answered(t) ==
    /\ copies[t] > 0
    /\ \/ fate[t] = "queued" /\ chan[canal].returned = <<>>
       \/ fate[t] = "unroutable" /\ chan[canal].returned = <<req[t].id>>

\* nil or ErrNaoRoteada from Publicar: there was an answer, and it was that.
Told(t) ==
    /\ pc[t] = "done" /\ copies[t] > 0
    /\ result[t] = "nil" => fate[t] = "queued" \/ (fate[t] = "unroutable" /\ req[t].permit)
    /\ result[t] = "naoRoteada" => fate[t] = "unroutable" /\ ~req[t].permit

\* What the answers on their way to t, and those that are there, say of its message.
Waits(t) ==
    /\ confirm[t] = "pending" => via[t] # None
    /\ pc[t] \in Awaiting /\ confirm[t] = "pending" /\ reply[t] # <<"ack">> => chan[canal].returned = <<>>
    /\ reply[t] = <<"return", "ack">> => fate[t] = "unroutable"
    /\ pc[t] \in Awaiting \cup {"returns"} /\ (reply[t] = <<"ack">> \/ confirm[t] = "ack") => Answered(t)
    /\ pc[t] = "returns" => confirm[t] = "ack"

OutcomeInv ==
    \A t \in Tasks :
        Waits(t) /\ (req[t].op = "publicar" /\ result[t] \in {"nil", "naoRoteada"} => Told(t))

\* A step of t that gives it no answer leaves the answers given as they were.
NoAnswer(t) ==
    /\ pc[t] # "done" /\ UNCHANGED <<req, copies, fate>>
    /\ \A u \in Tasks : u # t => pc'[u] = pc[u] /\ result'[u] = result[u]
    /\ req[t].op = "publicar" => result'[t] = result[t] \/ result'[t] \notin {"nil", "naoRoteada"}

LEMMA MovesAnswer ==
    ASSUME TypeInv, HistoryTypes, NEW t \in Tasks, Moves(t)
    PROVE  NoAnswer(t)
<1> USE DEF TypeInv, HistoryTypes, NoAnswer, At, Goto, Returns, broker
<1>1. CASE Lock(t) \/ ChannelReady(t) \/ PublisherFechado(t) \/ ChannelFails(t)
  BY <1>1 DEF Lock, ChannelReady, PublisherFechado, ChannelFails
<1>2. CASE AlreadyDeclared(t) \/ Confirmed(t) \/ Refused(t) \/ TimesOut(t)
  BY <1>2 DEF AlreadyDeclared, AfterDeclare, Confirmed, Refused, TimesOut
<1>3. QED
  BY <1>1, <1>2 DEF Moves

LEMMA DiscardsAnswer ==
    ASSUME TypeInv, HistoryTypes, NEW t \in Tasks, Discards(t)
    PROVE  NoAnswer(t)
BY DEF TypeInv, HistoryTypes, NoAnswer, At, Goto, Returns, broker, Discards, ChannelUnusable, DeclareFails,
   SendOnClosed, SendFails, Uncertain, NextAttempt, GiveUp

LEMMA TheOutcome ==
    ASSUME PublisherInv, HistoryTypes, NEW t \in Tasks, BrokerTakes(t)
    PROVE  /\ copies[t] = 0 /\ UNCHANGED result
           /\ \A u \in Tasks : u # t => fate'[u] = fate[u] /\ reply'[u] = reply[u]
           /\ \/ via[t] = None /\ reply'[t] = <<>>
              \/ via[t] # None /\ fate'[t] = "queued" /\ reply'[t] = <<"ack">>
              \/ via[t] # None /\ fate'[t] = "unroutable" /\ reply'[t] = <<"return", "ack">>
              \/ via[t] # None /\ fate'[t] = "refused" /\ reply'[t] = <<"nack">>
<1>1. copies[t] = 0
  BY DEF BrokerTakes, PublisherInv, CopyInv
<1>2. PICK outcome \in {"queued", "unroutable", "refused"} :
        /\ fate' = [fate EXCEPT ![t] = outcome]
        /\ reply' = [reply EXCEPT ![t] = IF via[t] = None THEN @ ELSE @ \o AnswerTo(outcome)]
  BY DEF BrokerTakes
<1>3. reply[t] = <<>> /\ DOMAIN reply = Tasks
  BY TheAnswer DEF PublisherInv, TypeInv
<1>4. <<>> \o AnswerTo(outcome) = AnswerTo(outcome)
  BY DEF AnswerTo
<1>5. reply' = [reply EXCEPT ![t] = IF via[t] = None THEN <<>> ELSE AnswerTo(outcome)]
  BY <1>2, <1>3, <1>4
<1>6. UNCHANGED result
  BY DEF BrokerTakes
<1>7. QED
  BY <1>1, <1>2, <1>3, <1>5, <1>6 DEF AnswerTo, HistoryTypes

LEMMA ShutOutcome ==
    ASSUME TypeInv, OutcomeInv, NEW S \in SUBSET Chans, NEW to \in {"unused", "closed"}, Shut(S, to)
    PROVE  /\ \A i \in Chans : chan'[i].returned = chan[i].returned
           /\ \A u \in Tasks :
                /\ confirm'[u] = "pending" => confirm[u] = "pending" /\ via'[u] # None
                /\ confirm'[u] = "ack" => confirm[u] = "ack"
                /\ reply'[u] \in {<<>>, reply[u]}
<1>1. \A u \in Tasks : confirm[u] = "pending" => via[u] # None
  BY DEF OutcomeInv, Waits
<1>2. QED
  BY <1>1, ShutEffect, PublisherAssumption

LEMMA OutcomeInvInit == Init => OutcomeInv
BY DEF Init, OutcomeInv, Waits

LEMMA OutcomeInvNext == PublisherInv /\ HistoryTypes /\ OutcomeInv /\ [Next]_vars => OutcomeInv'
<1> SUFFICES ASSUME PublisherInv, HistoryTypes, OutcomeInv, [Next]_vars PROVE OutcomeInv'
  OBVIOUS
<1> TypeInv /\ LockInv /\ FieldInv /\ AnswerInv
  BY DEF PublisherInv
<1> <<"ack">> # <<>> /\ <<"return", "ack">> # <<"ack">> /\ <<"nack">> # <<"ack">>
    /\ <<"return", "ack">> # <<"nack">> /\ <<"return", "ack">> # <<>>
  OBVIOUS
<1> USE PublisherAssumption DEF OutcomeInv, Waits, Answered, Told, Awaiting
<1>1. ASSUME NEW t \in Tasks, Moves(t) PROVE OutcomeInv'
  <2>1. /\ UNCHANGED <<canal, req, chan, confirm, via, reply, copies>>
        /\ pc'[t] = "returns" => confirm[t] = "ack"
        /\ pc'[t] \in Awaiting \cup {"returns"} => pc[t] = "wait"
    BY <1>1, MovesEffect DEF fields, answers, broker
  <2>2. NoAnswer(t)
    BY <1>1, MovesAnswer
  <2>3. QED
    BY <2>1, <2>2 DEF NoAnswer
<1>2. ASSUME NEW t \in Tasks, Discards(t) PROVE OutcomeInv'
  <2>1. NoAnswer(t)
    BY <1>2, DiscardsAnswer
  <2>2. /\ Shut({canal} \cap Chans, "unused") /\ pc[t] \notin {"lock", "done"}
        /\ pc'[t] \notin Awaiting \cup {"returns"}
    <3>1. /\ Shut({canal} \cap Chans, "unused")
          /\ \E to \in {"open", "channel", "done"} : pc' = [pc EXCEPT ![t] = to]
          /\ pc[t] \in {"channel", "declare", "send", "discard"}
      BY <1>2, DiscardsEffect
    <3>2. QED
      BY <3>1 DEF TypeInv
  <2>3. \A u \in Tasks : pc'[u] \notin Awaiting \cup {"returns"}
    <3>1. \A u \in Tasks : u # t => pc[u] \in {"lock", "done"}
      BY <2>2 DEF LockInv
    <3>2. QED
      BY <2>1, <2>2, <3>1 DEF NoAnswer
  <2>4. \A u \in Tasks :
            /\ confirm'[u] = "pending" => via'[u] # None
            /\ reply'[u] \in {<<>>, reply[u]}
    BY <2>2, ShutOutcome
  <2>5. ASSUME NEW u \in Tasks PROVE Waits(u)'
    BY <2>1, <2>3, <2>4 DEF NoAnswer, HistoryTypes
  <2>6. ASSUME NEW u \in Tasks, req'[u].op = "publicar", result'[u] \in {"nil", "naoRoteada"}
        PROVE  Told(u)'
    BY <2>1, <2>6 DEF NoAnswer
  <2>7. QED
    BY <2>5, <2>6
<1>3. ASSUME NEW t \in Tasks, ChannelOpens(t) PROVE OutcomeInv'
  BY <1>3 DEF ChannelOpens, At, Goto, fields, answers, broker, Idle, FieldInv
<1>4. ASSUME NEW t \in Tasks, ConfirmMode(t) PROVE OutcomeInv'
  BY <1>4 DEF ConfirmMode, At, Goto, answers, broker, FieldInv
<1>5. ASSUME NEW t \in Tasks, ConfirmModeFails(t) PROVE OutcomeInv'
  BY <1>5, ShutEffect DEF ConfirmModeFails, Abandon, At, Returns, fields, broker, TypeInv, FieldInv, AnswerInv
<1>6. ASSUME NEW t \in Tasks, Declares(t) PROVE OutcomeInv'
  BY <1>6 DEF Declares, AfterDeclare, At, Goto, Returns, answers, broker, TypeInv, HistoryTypes
<1>7. ASSUME NEW t \in Tasks, Sends(t) PROVE OutcomeInv'
  <2>1. canal \in Chans /\ chan[canal].returned = <<>> /\ reply[t] = <<>>
    <3>1. pc[t] = "send" /\ Open(canal) /\ canal \in Chans /\ lock = t
      BY <1>7 DEF Sends, At, TypeInv, LockInv, Open
    <3>2. \A u \in Tasks : pc[u] \notin Awaiting \cup {"returns"}
      BY <3>1 DEF LockInv
    <3>3. QED
      BY <3>1, <3>2 DEF AnswerInv
  <2>2. /\ pc[t] = "send" /\ UNCHANGED <<canal, req, chan, reply, result, copies, fate>>
        /\ pc' = [pc EXCEPT ![t] = "wait"] /\ via' = [via EXCEPT ![t] = canal]
        /\ confirm' = [confirm EXCEPT ![t] = "pending"]
    BY <1>7 DEF Sends, At, Goto, fields
  <2>3. Waits(t)'
    BY <2>1, <2>2 DEF TypeInv
  <2>4. QED
    BY <2>2, <2>3 DEF TypeInv
<1>8. ASSUME NEW t \in Tasks, Finishes(t) PROVE OutcomeInv'
  <2>1. Answered(t)
    BY <1>8 DEF Finishes, At
  <2>2. Returned(t) <=> fate[t] = "unroutable"
    BY <2>1 DEF Returned, ToSet
  <2>3. Told(t)'
    BY <1>8, <2>1, <2>2 DEF Finishes, Returns, broker, TypeInv, HistoryTypes
  <2>4. QED
    BY <1>8, <2>3 DEF Finishes, At, Returns, fields, answers, broker, LockInv
<1>9. CASE CloseEnds
  <2>1. \A u \in Tasks : pc[u] \notin Awaiting \cup {"returns"}
    BY <1>9 DEF CloseEnds, TypeInv, LockInv, FieldInv, Sending
  <2>2. Shut({canal}, "unused") /\ UNCHANGED <<pc, req, result, copies, fate>> /\ canal \in Chans
    BY <1>9 DEF CloseEnds, Closing, Release, broker, TypeInv
  <2>3. QED
    BY <2>1, <2>2, ShutOutcome
<1>10. ASSUME NEW i \in Chans, ChannelEnds(i) PROVE OutcomeInv'
  <2>1. Shut({i}, "closed") /\ UNCHANGED <<canal, pc, req, result, copies, fate>>
    BY <1>10 DEF ChannelEnds, fields, broker
  <2>2. /\ \A j \in Chans : chan'[j].returned = chan[j].returned
        /\ \A u \in Tasks :
             /\ confirm'[u] = "pending" => confirm[u] = "pending" /\ via'[u] # None
             /\ confirm'[u] = "ack" => confirm[u] = "ack"
             /\ reply'[u] \in {<<>>, reply[u]}
    BY <2>1, ShutOutcome
  <2>3. \A u \in Tasks : pc[u] = "returns" => confirm'[u] = "ack"
    BY <2>1, ShutEffect
  <2>4. ASSUME NEW u \in Tasks, pc[u] \in Awaiting \cup {"returns"}
        PROVE  chan'[canal].returned = chan[canal].returned
    BY <2>2, <2>4 DEF TypeInv, FieldInv
  \* The ack has not come: were it still underway, it would have been lost with the channel.
  <2>5. \A u \in Tasks : pc[u] \in Awaiting /\ confirm'[u] = "pending" => reply'[u] = reply[u]
    BY <2>1, <2>2, ShutEffect
  <2>6. ASSUME NEW u \in Tasks PROVE Waits(u)'
    BY <2>1, <2>2, <2>3, <2>4, <2>5
  <2>7. ASSUME NEW u \in Tasks, req'[u].op = "publicar", result'[u] \in {"nil", "naoRoteada"}
        PROVE  Told(u)'
    BY <2>1, <2>7
  <2>8. QED
    BY <2>6, <2>7
<1>11. ASSUME NEW t \in Tasks, BrokerTakes(t) PROVE OutcomeInv'
  <2>1. /\ UNCHANGED <<canal, pc, req, chan, confirm, via>>
        /\ reply[t] = <<>> /\ copies'[t] > 0
        /\ \A u \in Tasks : u # t => copies'[u] = copies[u]
    BY <1>11, TheAnswer DEF fields
  <2>2. /\ copies[t] = 0 /\ UNCHANGED result
        /\ \A u \in Tasks : u # t => fate'[u] = fate[u] /\ reply'[u] = reply[u]
        /\ \/ via[t] = None /\ reply'[t] = <<>>
           \/ via[t] # None /\ fate'[t] = "queued" /\ reply'[t] = <<"ack">>
           \/ via[t] # None /\ fate'[t] = "unroutable" /\ reply'[t] = <<"return", "ack">>
           \/ via[t] # None /\ fate'[t] = "refused" /\ reply'[t] = <<"nack">>
    BY <1>11, TheOutcome
  \* t was not answered, nor told anything, before.
  <2>3. ~Told(t) /\ ~Answered(t)
    BY <2>2
  <2>4. ASSUME NEW u \in Tasks PROVE Waits(u)'
    <3>1. CASE u = t
      <4>1. via[t] # None => pc[t] \in Awaiting /\ confirm[t] = "pending" /\ chan[canal].returned = <<>>
        BY <2>1 DEF AnswerInv
      <4>2. QED
        BY <2>1, <2>2, <2>3, <3>1, <4>1
    <3>2. CASE u # t
      BY <2>1, <2>2, <3>2
    <3>3. QED
      BY <3>1, <3>2
  <2>5. ASSUME NEW u \in Tasks, req'[u].op = "publicar", result'[u] \in {"nil", "naoRoteada"}
        PROVE  Told(u)'
    BY <2>1, <2>2, <2>3, <2>5
  <2>6. QED
    BY <2>4, <2>5
<1>12. ASSUME NEW t \in Tasks, ReturnArrives(t) PROVE OutcomeInv'
  <2>1. reply[t] = <<"return", "ack">> /\ UNCHANGED <<result, fate>>
    BY <1>12 DEF ReturnArrives, broker, Replies, TypeInv
  <2>2. /\ pc[t] \in Awaiting /\ copies[t] > 0 /\ UNCHANGED <<canal, pc, req, confirm, via, copies>>
        /\ chan'[canal].returned = <<req[t].id>> /\ reply'[t] = <<"ack">>
        /\ \A u \in Tasks : u # t => reply'[u] = reply[u]
    BY <1>12, TheReturn DEF fields, TypeInv
  \* Nobody else waits.
  <2>3. \A u \in Tasks : pc[u] \in Awaiting \cup {"returns"} => u = t
    BY <2>2 DEF LockInv
  <2>4. QED
    BY <2>1, <2>2, <2>3
<1>13. ASSUME NEW t \in Tasks, ConfirmationArrives(t) PROVE OutcomeInv'
  <2>1. UNCHANGED <<result, fate>>
    BY <1>13 DEF ConfirmationArrives, broker
  <2>2. /\ pc[t] \in Awaiting /\ UNCHANGED <<canal, pc, req, chan, copies>>
        /\ \A u \in Tasks : u # t => via'[u] = via[u] /\ reply'[u] = reply[u] /\ confirm'[u] = confirm[u]
        /\ via'[t] = None /\ reply'[t] = <<>> /\ confirm'[t] # "pending"
        /\ confirm'[t] = "ack" => reply[t] = <<"ack">>
    BY <1>13, TheConfirmation DEF fields, TypeInv
  <2>3. ASSUME NEW u \in Tasks PROVE Waits(u)'
    BY <2>1, <2>2
  <2>4. ASSUME NEW u \in Tasks, req'[u].op = "publicar", result'[u] \in {"nil", "naoRoteada"}
        PROVE  Told(u)'
    BY <2>1, <2>2, <2>4
  <2>5. QED
    BY <2>3, <2>4
<1>14. CASE Close \/ UNCHANGED vars
  BY <1>14 DEF Close, vars, fields, answers, broker
<1>15. QED
  BY <1>1, <1>2, <1>3, <1>4, <1>5, <1>6, <1>7, <1>8, <1>9, <1>10, <1>11, <1>12, <1>13, <1>14
     DEF Next, Proceeds, Moves, Discards

\* What Publicar answers is what became of its message, also when another call publishes the same
\* MessageId, the channel is lost, or an answer comes after the call gave up.
THEOREM OutcomeTrue == Spec => []OutcomeIsTrue
<1>1. OutcomeInv => OutcomeIsTrue
  BY DEF OutcomeInv, Told, OutcomeIsTrue
<1>2. QED
  BY PublisherInvInit, PublisherInvNext, HistoryTypesInit, HistoryTypesNext, OutcomeInvInit, OutcomeInvNext, <1>1, PTL
     DEF Spec

\* The answers are true, and no call has its message sent twice.
THEOREM DeliveryFaithful == Spec => []EntregaFiel
<1>1. OutcomeIsTrue /\ AtMostOneCopy => EntregaFiel
  BY DEF EntregaFiel
<1>2. QED
  BY NoSecondCopy, OutcomeTrue, <1>1, PTL

(* ------------------ What the callers are promised ------------------- *)

\* A call has no result before it returns, and has written its message once it waits for the answer.
CallInv ==
    \A t \in Tasks :
        /\ pc[t] # "done" => result[t] = "none"
        /\ pc[t] \in Awaiting \cup {"returns"} => onWire[t] + copies[t] = 1
        /\ pc[t] \in Awaiting \cup {"send", "returns"} => req[t].op # "declarar"

LEMMA CallInvInit == Init => CallInv
BY DEF Init, CallInv, Awaiting

\* A call that gets its result returns, any other goes to a place its message allows it to be at.
LEMMA CallGoesOn ==
    ASSUME TypeInv, HistoryTypes, CallInv, NEW t \in Tasks, NEW to,
           pc[t] # "done", pc' = [pc EXCEPT ![t] = to], UNCHANGED <<req, onWire, copies>>,
           \/ to = "done" /\ \E r : result' = [result EXCEPT ![t] = r]
           \/ result' = result,
           to \in Awaiting \cup {"returns"} => pc[t] \in Awaiting \cup {"returns"},
           to \in Awaiting \cup {"send", "returns"} => req[t].op # "declarar"
    PROVE  CallInv'
BY DEF CallInv, TypeInv, HistoryTypes, Awaiting

LEMMA CallInvNext == TypeInv /\ CopyInv /\ HistoryTypes /\ CallInv /\ [Next]_vars => CallInv'
<1> SUFFICES ASSUME TypeInv, CopyInv, HistoryTypes, CallInv, [Next]_vars PROVE CallInv'
  OBVIOUS
<1> USE DEF broker, Awaiting
<1>1. ASSUME NEW t \in Tasks,
             \/ Lock(t) \/ ChannelReady(t) \/ PublisherFechado(t) \/ ChannelUnusable(t)
             \/ ChannelOpens(t) \/ ChannelFails(t) \/ ConfirmMode(t) \/ ConfirmModeFails(t)
      PROVE  CallInv'
  <2>1. /\ pc[t] # "done" /\ UNCHANGED <<req, onWire, copies>>
        /\ \E to \in {"channel", "declare", "open", "confirm", "done"} :
              /\ pc' = [pc EXCEPT ![t] = to]
              /\ \/ to = "done" /\ \E r : result' = [result EXCEPT ![t] = r]
                 \/ result' = result
    BY <1>1 DEF Lock, ChannelReady, PublisherFechado, ChannelUnusable, ChannelOpens, ChannelFails,
       ConfirmMode, ConfirmModeFails, At, Goto, Returns
  <2>2. QED
    BY <2>1, CallGoesOn
<1>2. ASSUME NEW t \in Tasks,
             AlreadyDeclared(t) \/ Declares(t) \/ DeclareFails(t) \/ SendOnClosed(t)
      PROVE  CallInv'
  <2>1. /\ pc[t] # "done" /\ UNCHANGED <<req, onWire, copies>>
        /\ \E to \in {"send", "channel", "done"} :
              /\ pc' = [pc EXCEPT ![t] = to]
              /\ \/ to = "done" /\ \E r : result' = [result EXCEPT ![t] = r]
                 \/ result' = result
              /\ to = "send" => req[t].op # "declarar"
    BY <1>2 DEF AlreadyDeclared, Declares, DeclareFails, SendOnClosed, AfterDeclare, NextAttempt, At, Goto, Returns
  <2>2. QED
    BY <2>1, CallGoesOn
<1>3. ASSUME NEW t \in Tasks, Confirmed(t) \/ Refused(t) \/ TimesOut(t) \/ Uncertain(t) \/ Finishes(t)
      PROVE  CallInv'
  <2>1. /\ pc[t] \in Awaiting \cup {"returns"} /\ UNCHANGED <<req, onWire, copies>>
        /\ \E to \in {"discard", "returns", "done"} :
              /\ pc' = [pc EXCEPT ![t] = to]
              /\ \/ to = "done" /\ \E r : result' = [result EXCEPT ![t] = r]
                 \/ result' = result
    BY <1>3 DEF Confirmed, Refused, TimesOut, Uncertain, Finishes, At, Goto, Returns
  <2>2. req[t].op # "declarar"
    BY <2>1 DEF CallInv
  <2>3. QED
    BY <2>1, <2>2, CallGoesOn
<1>4. ASSUME NEW t \in Tasks, Sends(t)
      PROVE  CallInv'
  BY <1>4 DEF CallInv, CopyInv, TypeInv, Sending, Sends, At, Goto
<1>5. ASSUME NEW t \in Tasks, SendFails(t)
      PROVE  CallInv'
  <2>1. /\ pc' = [pc EXCEPT ![t] = "done"] /\ result' = [result EXCEPT ![t] = "publicar"]
        /\ \E written \in {0, 1} : onWire' = [onWire EXCEPT ![t] = @ + written]
        /\ UNCHANGED <<req, copies>>
    BY <1>5 DEF SendFails, GiveUp, Returns
  <2>2. QED
    BY <2>1 DEF CallInv, CopyInv, TypeInv, HistoryTypes
<1>6. ASSUME NEW t \in Tasks, BrokerTakes(t)
      PROVE  CallInv'
  BY <1>6 DEF CallInv, CopyInv, BrokerTakes
<1>7. ASSUME NEW t \in Tasks, ReturnArrives(t) \/ ConfirmationArrives(t)
      PROVE  CallInv'
  BY <1>7 DEF CallInv, ReturnArrives, ConfirmationArrives
<1>8. CASE Close \/ CloseEnds \/ (\E i \in Chans : ChannelEnds(i)) \/ UNCHANGED vars
  BY <1>8 DEF CallInv, Close, CloseEnds, ChannelEnds, vars
<1>9. QED
  BY <1>1, <1>2, <1>3, <1>4, <1>5, <1>6, <1>7, <1>8 DEF Next, Proceeds

LEMMA PublicacaoInit == Init => Promise!Init
BY DEF Init, Promise!Init, Copia

\* A step that leaves the message alone leaves its place alone.
LEMMA CopiaStays == ASSUME UNCHANGED <<onWire, copies>> PROVE Copia' = Copia
BY DEF Copia

LEMMA CopiaGoes ==
    ASSUME NEW t \in Tasks, NEW to,
           \A u \in Tasks : u # t => onWire'[u] = onWire[u] /\ copies'[u] = copies[u],
           to = IF copies'[t] > 0 THEN "entregue" ELSE IF onWire'[t] > 0 THEN "aCaminho" ELSE "nenhuma"
    PROVE  Copia' = [Copia EXCEPT ![t] = to]
<1>1. Copia' = [u \in Tasks |-> IF u = t THEN to ELSE Copia[u]]
  BY DEF Copia
<1>2. DOMAIN Copia = Tasks
  BY DEF Copia
<1>3. QED
  BY <1>1, <1>2

\* A step that returns r, which is what the caller may be told.
Answers(t) ==
    \E r \in Promise!Respostas :
        Promise!Cabe(t, r) /\ result' = [result EXCEPT ![t] = r]

LEMMA AnswersResponds ==
    ASSUME NEW t \in Tasks, result[t] = "none", Answers(t), UNCHANGED <<req, onWire, copies, fate>>
    PROVE  Promise!Next
BY CopiaStays DEF Answers, Promise!Responde, Promise!Roda, Promise!Next

\* Before it has written its message a call may say so, with any of the errors of the way there.
LEMMA NothingLeft ==
    ASSUME CopyInv, NEW t \in Tasks, pc[t] \in Sending,
           NEW r, r \in {"fechado", "canal", "declarar"} \/ (r = "publicar" /\ req[t].op # "declarar"),
           result' = [result EXCEPT ![t] = r]
    PROVE  Answers(t)
<1>1. Copia[t] = "nenhuma"
  BY DEF CopyInv, Copia
<1>2. QED
  BY <1>1 DEF Answers, Promise!Respostas, Promise!Cabe, Promise!NadaSaiu

LEMMA SomethingLeft ==
    ASSUME CopyInv, CallInv, NEW t \in Tasks, pc[t] \in Awaiting \cup {"returns"}
    PROVE  Copia[t] # "nenhuma" /\ req[t].op # "declarar"
<1>1. onWire[t] + copies[t] = 1 /\ onWire[t] \in Nat /\ copies[t] \in Nat
  BY DEF CopyInv, CallInv
<1>2. QED
  BY <1>1 DEF Copia, CallInv

\* Every step of the Publisher is one of the promise's, or changes nothing the callers see.
LEMMA PublicacaoNext ==
    PublisherInv /\ HistoryTypes /\ OutcomeInv /\ CallInv /\ [Next]_vars
        => Promise!Next \/ UNCHANGED <<req, result, Copia, fate>>
<1> SUFFICES ASSUME PublisherInv, HistoryTypes, OutcomeInv, CallInv, [Next]_vars
             PROVE  Promise!Next \/ UNCHANGED <<req, result, Copia, fate>>
  OBVIOUS
<1> CopyInv /\ TypeInv
  BY DEF PublisherInv
<1> USE DEF broker
<1>1. ASSUME NEW t \in Tasks, pc[t] # "done", UNCHANGED <<req, onWire, copies, fate>>,
             result' = result \/ Answers(t)
      PROVE  Promise!Next \/ UNCHANGED <<req, result, Copia, fate>>
  BY <1>1, AnswersResponds, CopiaStays DEF CallInv
<1>2. ASSUME NEW t \in Tasks,
             \/ Lock(t) \/ ChannelReady(t) \/ PublisherFechado(t) \/ ChannelUnusable(t)
             \/ ChannelOpens(t) \/ ChannelFails(t) \/ ConfirmMode(t) \/ ConfirmModeFails(t)
      PROVE  Promise!Next \/ UNCHANGED <<req, result, Copia, fate>>
  <2>1. /\ pc[t] \in Sending /\ UNCHANGED <<req, onWire, copies, fate>>
        /\ result' = result \/ \E r \in {"fechado", "canal"} : result' = [result EXCEPT ![t] = r]
    BY <1>2 DEF Lock, ChannelReady, PublisherFechado, ChannelUnusable, ChannelOpens, ChannelFails,
       ConfirmMode, ConfirmModeFails, At, Goto, Returns, Sending
  <2>2. QED
    BY <1>1, <2>1, NothingLeft DEF Sending
<1>3. ASSUME NEW t \in Tasks,
             AlreadyDeclared(t) \/ Declares(t) \/ DeclareFails(t) \/ SendOnClosed(t)
      PROVE  Promise!Next \/ UNCHANGED <<req, result, Copia, fate>>
  <2>1. /\ pc[t] \in {"declare", "send"} /\ UNCHANGED <<req, onWire, copies, fate>>
        /\ \/ result' = result
           \/ req[t].op = "declarar" /\ result' = [result EXCEPT ![t] = "nil"]
           \/ result' = [result EXCEPT ![t] = "declarar"]
           \/ pc[t] = "send" /\ result' = [result EXCEPT ![t] = "publicar"]
    BY <1>3 DEF AlreadyDeclared, Declares, DeclareFails, SendOnClosed, AfterDeclare, NextAttempt, At, Goto, Returns
  <2>2. req[t].op = "declarar" => Promise!Cabe(t, "nil")
    BY DEF Promise!Cabe
  <2>3. pc[t] = "send" => req[t].op # "declarar"
    BY DEF CallInv
  <2>4. result' = result \/ Answers(t)
    <3>1. CASE req[t].op = "declarar" /\ result' = [result EXCEPT ![t] = "nil"]
      BY <2>2, <3>1 DEF Answers, Promise!Respostas
    <3>2. CASE result' = [result EXCEPT ![t] = "declarar"]
      BY <2>1, <3>2, NothingLeft DEF Sending
    <3>3. CASE pc[t] = "send" /\ result' = [result EXCEPT ![t] = "publicar"]
      BY <2>1, <2>3, <3>3, NothingLeft DEF Sending
    <3>4. QED
      BY <2>1, <3>1, <3>2, <3>3
  <2>5. QED
    BY <1>1, <2>1, <2>4
<1>4. ASSUME NEW t \in Tasks, Confirmed(t) \/ TimesOut(t)
      PROVE  Promise!Next \/ UNCHANGED <<req, result, Copia, fate>>
  BY <1>4, CopiaStays DEF Confirmed, TimesOut, Goto
<1>5. ASSUME NEW t \in Tasks, Refused(t) \/ Uncertain(t)
      PROVE  Promise!Next \/ UNCHANGED <<req, result, Copia, fate>>
  <2>1. /\ pc[t] \in Awaiting /\ UNCHANGED <<req, onWire, copies, fate>>
        /\ \E r \in {"recusada", "incerta"} : result' = [result EXCEPT ![t] = r]
    BY <1>5 DEF Refused, Uncertain, At, Returns, Awaiting
  <2>2. Answers(t)
    BY <2>1, SomethingLeft DEF Answers, Promise!Respostas, Promise!Cabe, Promise!Saiu
  <2>3. QED
    BY <1>1, <2>1, <2>2 DEF Awaiting
<1>6. ASSUME NEW t \in Tasks, Finishes(t)
      PROVE  Promise!Next \/ UNCHANGED <<req, result, Copia, fate>>
  <2>1. /\ pc[t] = "returns" /\ UNCHANGED <<req, onWire, copies, fate>>
        /\ result' = [result EXCEPT ![t] = IF Returned(t) /\ ~req[t].permit THEN "naoRoteada" ELSE "nil"]
    BY <1>6 DEF Finishes, At, Returns
  <2>2. Answered(t) /\ req[t].op # "declarar"
    BY <2>1, SomethingLeft DEF OutcomeInv, Waits
  <2>3. Returned(t) <=> fate[t] = "unroutable"
    BY <2>2 DEF Answered, Returned, ToSet
  <2>4. fate[t] \in {"queued", "unroutable"}
    BY <2>2 DEF Answered
  <2>5. Answers(t)
    <3>1. CASE Returned(t) /\ ~req[t].permit
      BY <2>1, <2>2, <2>3, <3>1 DEF Answers, Promise!Respostas, Promise!Cabe
    <3>2. CASE ~(Returned(t) /\ ~req[t].permit)
      BY <2>1, <2>2, <2>3, <2>4, <3>2 DEF Answers, Promise!Respostas, Promise!Cabe
    <3>3. QED
      BY <3>1, <3>2
  <2>6. QED
    BY <1>1, <2>1, <2>5
<1>7. ASSUME NEW t \in Tasks, Sends(t)
      PROVE  Promise!Next
  <2>1. /\ pc[t] = "send" /\ UNCHANGED <<req, result, copies, fate>>
        /\ onWire' = [onWire EXCEPT ![t] = @ + 1]
    BY <1>7 DEF Sends, At, Goto
  <2>2. onWire[t] = 0 /\ copies[t] = 0 /\ onWire \in [Tasks -> Nat]
    BY <2>1 DEF CopyInv, Sending
  <2>3. Copia[t] = "nenhuma" /\ Copia' = [Copia EXCEPT ![t] = "aCaminho"]
    <3>1. Copia[t] = "nenhuma"
      BY <2>2 DEF Copia
    <3>2. onWire'[t] = 1 /\ copies'[t] = 0 /\ \A u \in Tasks : u # t => onWire'[u] = onWire[u]
      BY <2>1, <2>2
    <3>3. QED
      BY <2>1, <3>1, <3>2, CopiaGoes
  <2>4. result[t] = "none" /\ req[t].op # "declarar"
    BY <2>1 DEF CallInv
  <2>5. Promise!Escreve(t)
    BY <2>1, <2>3, <2>4 DEF Promise!Escreve, Promise!Roda
  <2>6. QED
    BY <2>5 DEF Promise!Next
<1>8. ASSUME NEW t \in Tasks, SendFails(t)
      PROVE  Promise!Next
  <2>1. PICK written \in {0, 1} : onWire' = [onWire EXCEPT ![t] = @ + written]
    BY <1>8 DEF SendFails
  <2>2. pc[t] = "send" /\ UNCHANGED <<req, copies, fate>> /\ result' = [result EXCEPT ![t] = "publicar"]
    BY <1>8 DEF SendFails, At, GiveUp, Returns
  <2>3. onWire[t] = 0 /\ copies[t] = 0 /\ onWire \in [Tasks -> Nat]
    BY <2>2 DEF CopyInv, Sending
  <2>4. Copia[t] = "nenhuma" /\ (Copia' = Copia \/ Copia' = [Copia EXCEPT ![t] = "aCaminho"])
    <3>1. Copia[t] = "nenhuma"
      BY <2>3 DEF Copia
    <3>2. CASE written = 0
      BY <2>1, <2>2, <2>3, <3>1, <3>2, CopiaStays
    <3>3. CASE written = 1
      <4>1. onWire'[t] = 1 /\ copies'[t] = 0 /\ \A u \in Tasks : u # t => onWire'[u] = onWire[u]
        BY <2>1, <2>2, <2>3, <3>3
      <4>2. QED
        BY <2>2, <3>1, <4>1, CopiaGoes
    <3>4. QED
      BY <3>2, <3>3
  <2>5. result[t] = "none" /\ req[t].op # "declarar"
    BY <2>2 DEF CallInv
  <2>6. Promise!Responde(t, "publicar")
    BY <2>2, <2>4, <2>5 DEF Promise!Responde, Promise!Roda, Promise!Cabe
  <2>7. QED
    BY <2>6 DEF Promise!Next, Promise!Respostas
<1>9. ASSUME NEW t \in Tasks, BrokerTakes(t)
      PROVE  Promise!Next
  <2>1. /\ onWire[t] > 0 /\ UNCHANGED <<req, result>>
        /\ onWire' = [onWire EXCEPT ![t] = @ - 1] /\ copies' = [copies EXCEPT ![t] = @ + 1]
        /\ \E f \in {"queued", "unroutable", "refused"} : fate' = [fate EXCEPT ![t] = f]
    BY <1>9 DEF BrokerTakes
  <2>2. onWire[t] = 1 /\ copies[t] = 0 /\ onWire \in [Tasks -> Nat] /\ copies \in [Tasks -> Nat]
    <3>1. onWire[t] > 0 /\ onWire[t] + copies[t] <= 1
      BY <2>1 DEF CopyInv
    <3>2. onWire \in [Tasks -> Nat] /\ copies \in [Tasks -> Nat]
      BY DEF CopyInv
    <3>3. onWire[t] \in Nat /\ copies[t] \in Nat
      BY <3>2
    <3>4. QED
      BY <3>1, <3>2, <3>3
  <2>3. Copia[t] = "aCaminho" /\ Copia' = [Copia EXCEPT ![t] = "entregue"]
    <3>1. Copia[t] = "aCaminho"
      BY <2>2 DEF Copia
    <3>2. /\ copies'[t] = 1
          /\ \A u \in Tasks : u # t => onWire'[u] = onWire[u] /\ copies'[u] = copies[u]
      BY <2>1, <2>2
    <3>3. QED
      BY <3>1, <3>2, CopiaGoes
  <2>4. Promise!Toma(t)
    BY <2>1, <2>3 DEF Promise!Toma
  <2>5. QED
    BY <2>4 DEF Promise!Next
<1>10. ASSUME NEW t \in Tasks, ReturnArrives(t) \/ ConfirmationArrives(t)
       PROVE  UNCHANGED <<req, result, Copia, fate>>
  BY <1>10, CopiaStays DEF ReturnArrives, ConfirmationArrives
<1>11. CASE Close \/ CloseEnds \/ (\E i \in Chans : ChannelEnds(i)) \/ UNCHANGED vars
  BY <1>11, CopiaStays DEF Close, CloseEnds, ChannelEnds, vars
<1>12. QED
  BY <1>2, <1>3, <1>4, <1>5, <1>6, <1>7, <1>8, <1>9, <1>10, <1>11 DEF Next, Proceeds

\* The Publisher, with its mutex, channels, attempts and the broker's answers hidden, is a set of
\* calls that do not disturb each other, each of which sends its message once at most and says of it
\* what is so.
THEOREM RefinesPublicacao == Spec => ImplementsPublicacao
<1>1. QED
  BY PublisherInvInit, PublisherInvNext, HistoryTypesInit, HistoryTypesNext, OutcomeInvInit, OutcomeInvNext,
     CallInvInit, CallInvNext, PublicacaoInit, PublicacaoNext, PTL
     DEF Spec, PublisherInv, ImplementsPublicacao, Promise!Spec
(* ------------------------- A call comes to an end ------------------------ *)

\* How many steps of its own a call has left at most: where it is, and the attempts it has left.
Lugar == [lock |-> 8, channel |-> 7, open |-> 6, confirm |-> 5, declare |-> 4,
          send |-> 3, wait |-> 2, discard |-> 1, returns |-> 1, done |-> 0]

Restam(t) == IF pc[t] = "done" THEN 0 ELSE Lugar[pc[t]] + 8 * (Tentativas - 1 - attempt[t])

\* Every step of a call brings it nearer to its end; no step of another call, of the broker or of
\* the network sends it back.
CallsAdvance ==
    \A t \in Tasks :
        /\ Restam(t)' <= Restam(t)
        /\ Lock(t) \/ Proceeds(t) => Restam(t)' < Restam(t)

LEMMA RestamBounded ==
    ASSUME TypeInv, HistoryTypes, NEW t \in Tasks
    PROVE  Restam(t) \in 0..16
<1>1. attempt[t] \in {0, 1} /\ pc[t] \in DOMAIN Lugar
  BY DEF TypeInv, HistoryTypes, Sending, Tentativas, Lugar
<1>2. QED
  BY <1>1 DEF Restam, Lugar, Tentativas

\* One step of a call: on to a later place in the same attempt, or back to the first one in the next.
LEMMA StepAdvances ==
    ASSUME TypeInv, HistoryTypes, NEW t \in Tasks, Lock(t) \/ Proceeds(t)
    PROVE  /\ \A u \in Tasks : u # t => pc'[u] = pc[u] /\ attempt'[u] = attempt[u]
           /\ Restam(t)' \in Int /\ Restam(t)' < Restam(t)
<1> USE DEF TypeInv, HistoryTypes, At, Goto, Returns
<1>1. \E to \in DOMAIN Lugar :
        /\ pc' = [pc EXCEPT ![t] = to]
        /\ \/ attempt' = attempt /\ Lugar[to] < Lugar[pc[t]]
           \/ attempt[t] = 0 /\ attempt' = [attempt EXCEPT ![t] = 1] /\ to = "channel" /\ pc[t] # "lock"
        /\ pc[t] # "done"
  <2>1. CASE Lock(t) \/ ChannelReady(t) \/ PublisherFechado(t) \/ ChannelUnusable(t)
    BY <2>1 DEF Lock, ChannelReady, PublisherFechado, ChannelUnusable, Lugar
  <2>2. CASE ChannelOpens(t) \/ ChannelFails(t) \/ ConfirmMode(t) \/ ConfirmModeFails(t)
    BY <2>2 DEF ChannelOpens, ChannelFails, ConfirmMode, ConfirmModeFails, Lugar
  <2>3. CASE AlreadyDeclared(t) \/ Declares(t)
    BY <2>3 DEF AlreadyDeclared, Declares, AfterDeclare, Lugar
  <2>4. CASE DeclareFails(t) \/ SendOnClosed(t)
    BY <2>4 DEF DeclareFails, SendOnClosed, NextAttempt, Tentativas, Lugar
  <2>5. CASE Sends(t) \/ SendFails(t)
    BY <2>5 DEF Sends, SendFails, GiveUp, Lugar
  <2>6. CASE Confirmed(t) \/ Refused(t) \/ TimesOut(t) \/ Uncertain(t) \/ Finishes(t)
    BY <2>6 DEF Confirmed, Refused, TimesOut, Uncertain, Finishes, Lugar
  <2>7. QED
    BY <2>1, <2>2, <2>3, <2>4, <2>5, <2>6 DEF Proceeds
<1>2. PICK to \in DOMAIN Lugar :
        /\ pc' = [pc EXCEPT ![t] = to]
        /\ \/ attempt' = attempt /\ Lugar[to] < Lugar[pc[t]]
           \/ attempt[t] = 0 /\ attempt' = [attempt EXCEPT ![t] = 1] /\ to = "channel" /\ pc[t] # "lock"
        /\ pc[t] # "done"
  BY <1>1
<1>3. attempt[t] \in {0, 1} /\ pc[t] \in DOMAIN Lugar
  BY DEF Sending, Tentativas, Lugar
<1>4. \A p \in DOMAIN Lugar : Lugar[p] \in 0..8 /\ (Lugar[p] = 0 <=> p = "done") /\ (Lugar[p] = 8 <=> p = "lock")
  BY DEF Lugar
<1>5. pc'[t] = to /\ attempt'[t] \in {0, 1}
  BY <1>2, <1>3
<1>6. Restam(t)' < Restam(t)
  <2>1. CASE attempt' = attempt /\ Lugar[to] < Lugar[pc[t]]
    BY <1>2, <1>3, <1>4, <1>5, <2>1 DEF Restam, Tentativas
  <2>2. CASE attempt[t] = 0 /\ attempt' = [attempt EXCEPT ![t] = 1] /\ to = "channel" /\ pc[t] # "lock"
    <3>1. attempt'[t] = 1 /\ Lugar["channel"] = 7 /\ Lugar[pc[t]] \in 1..7
      BY <1>2, <1>3, <1>4, <2>2 DEF Lugar
    <3>2. Restam(t)' = 7
      BY <1>5, <2>2, <3>1 DEF Restam, Tentativas
    <3>3. Restam(t) = Lugar[pc[t]] + 8
      BY <1>2, <2>2 DEF Restam, Tentativas
    <3>4. QED
      BY <3>1, <3>2, <3>3
  <2>3. QED
    BY <1>2, <2>1, <2>2
<1>7. Restam(t)' \in Int
  BY <1>4, <1>5 DEF Restam, Tentativas
<1>8. QED
  BY <1>2, <1>6, <1>7

LEMMA OthersStay ==
    ASSUME TypeInv, HistoryTypes, [Next]_vars
    PROVE  CallsAdvance
<1>1. ASSUME NEW t \in Tasks, Lock(t) \/ Proceeds(t) PROVE CallsAdvance
  <2>1. /\ \A u \in Tasks : u # t => pc'[u] = pc[u] /\ attempt'[u] = attempt[u]
        /\ Restam(t)' \in Int /\ Restam(t)' < Restam(t)
    BY <1>1, StepAdvances
  <2>2. ASSUME NEW u \in Tasks, u # t
        PROVE  Restam(u)' = Restam(u) /\ ~(Lock(u) \/ Proceeds(u))
    <3>1. Restam(u)' = Restam(u)
      BY <2>1, <2>2 DEF Restam
    <3>2. Lock(u) \/ Proceeds(u) => Restam(u)' < Restam(u)
      BY StepAdvances
    <3>3. Restam(u) \in 0..16
      BY RestamBounded
    <3>4. QED
      BY <3>1, <3>2, <3>3
  <2>3. ASSUME NEW u \in Tasks
        PROVE  Restam(u)' <= Restam(u) /\ (Lock(u) \/ Proceeds(u) => Restam(u)' < Restam(u))
    <3>1. Restam(u) \in 0..16
      BY RestamBounded
    <3>2. CASE u = t
      <4>1. Restam(t)' <= Restam(t)
        BY <2>1, <3>1, <3>2
      <4>2. QED
        BY <2>1, <3>2, <4>1
    <3>3. CASE u # t
      BY <2>2, <3>1, <3>3
    <3>4. QED
      BY <3>2, <3>3
  <2>4. QED
    BY <2>3 DEF CallsAdvance
<1>2. ASSUME UNCHANGED <<pc, attempt>> PROVE CallsAdvance
  <2>1. ASSUME NEW u \in Tasks
        PROVE  Restam(u)' <= Restam(u) /\ ~(Lock(u) \/ Proceeds(u))
    <3>1. Restam(u)' = Restam(u)
      BY <1>2 DEF Restam
    <3>2. Lock(u) \/ Proceeds(u) => Restam(u)' < Restam(u)
      BY StepAdvances
    <3>3. Restam(u) \in 0..16
      BY RestamBounded
    <3>4. QED
      BY <3>1, <3>2, <3>3
  <2>2. QED
    BY <2>1 DEF CallsAdvance
<1>3. CASE Close \/ CloseEnds \/ (\E i \in Chans : ChannelEnds(i)) \/ UNCHANGED vars
  BY <1>2, <1>3 DEF Close, CloseEnds, ChannelEnds, vars
<1>4. ASSUME NEW t \in Tasks, BrokerTakes(t) \/ ReturnArrives(t) \/ ConfirmationArrives(t) PROVE CallsAdvance
  BY <1>2, <1>4 DEF BrokerTakes, ReturnArrives, ConfirmationArrives
<1>5. QED
  BY <1>1, <1>3, <1>4 DEF Next

\* A call that waits for the mutex waits for calls each of which has sixteen steps to take at most,
\* Lock included, whatever the broker and the network do meanwhile: what EveryCallReturns needs
\* beside fairness and a broker that lets no remote call hang.
THEOREM CallsEnd == Spec => [](\A t \in Tasks : Restam(t) \in 0..16) /\ [][CallsAdvance]_vars
<1>1. TypeInv /\ HistoryTypes => \A t \in Tasks : Restam(t) \in 0..16
  BY RestamBounded
<1>2. TypeInv /\ HistoryTypes /\ [Next]_vars => [CallsAdvance]_vars
  BY OthersStay
<1>3. QED
  BY PublisherInvInit, PublisherInvNext, HistoryTypesInit, HistoryTypesNext, <1>1, <1>2, PTL
     DEF Spec, PublisherInv
=============================================================================
