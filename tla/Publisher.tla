----------------------------- MODULE Publisher ------------------------------
(***************************************************************************)
(* mensageria.Publisher: Publicar, DeclararExchange and Close, called by   *)
(* concurrent goroutines, over one AMQP channel in confirm mode.  Each     *)
(* task is one call; the mutex p.mu is held from its first to its last     *)
(* step, and what the broker and the network do happens in between.        *)
(*                                                                         *)
(* External, from how the code uses amqp091 (v1.10.0):                     *)
(*   - what is published on a channel is answered on that channel, a return *)
(*     before the ack of the message returned;                             *)
(*   - ErrClosed from a publication means that nothing was written; any    *)
(*     other error may come after the message was;                         *)
(*   - the end of a channel settles its pending confirmations as not acked; *)
(*   - the broker may take a message whose channel has ended since;        *)
(*   - a remote call (Channel, Confirm, ExchangeDeclare, Close) and a write *)
(*     have no deadline: only an answer or the channel's end lets them      *)
(*     return.  Calls on a channel that has ended return at once.           *)
(***************************************************************************)
EXTENDS Integers, Sequences, SequencesExt

CONSTANTS
    Tasks,          \* calls of Publicar and DeclararExchange, one each
    Requests,       \* what they may ask for: [op, exchange, id, permit]
    Chans,          \* channel objects; one is reused once unreferenced
    None,
    Default         \* the exchange ""

ASSUME PublisherAssumption == None \notin Chans \cup Tasks

VARIABLES
    fechado, canal, declarado,  \* fields of Publisher; retornos is chan[canal].returned
    lock,           \* the call that holds p.mu, or None
    pc, attempt,    \* of each task: where it is, and enviarLocked's tentativa
    req, result,    \* of each task: what it was asked, what it returned
    opening,        \* canalLocked's local canal, before it is stored
    chan,           \* of each channel: state, exchanges declared on it, NotifyReturn's buffer
    confirm,        \* the DeferredConfirmation: "none", "pending", "ack", "nack"
    via,            \* the channel that carries the answers to a publication
    reply,          \* answers of the broker still on their way
    onWire,         \* copies written and not yet taken by the broker
    copies, fate    \* history: copies the broker took and what became of the last

vars == <<fechado, canal, declarado, lock, pc, attempt, req, result, opening,
          chan, confirm, via, reply, onWire, copies, fate>>

fields == <<fechado, canal, declarado>>
answers == <<confirm, via, reply>>
broker == <<onWire, copies, fate>>

Tentativas == 2         \* enviarLocked's loop
BufferDeRetornos == 16  \* NotifyReturn's channel

Results == {"none", "nil", "fechado", "canal", "declarar", "publicar",
            "incerta", "recusada", "naoRoteada"}

Idle == [state |-> "unused", declared |-> {}, returned |-> <<>>]

Init ==
    /\ fechado = FALSE
    /\ canal = None
    /\ declarado = {}
    /\ lock = None
    /\ pc = [t \in Tasks |-> "lock"]
    /\ attempt = [t \in Tasks |-> 0]
    /\ req \in [Tasks -> Requests]
    /\ result = [t \in Tasks |-> "none"]
    /\ opening = None
    /\ chan = [i \in Chans |-> Idle]
    /\ confirm = [t \in Tasks |-> "none"]
    /\ via = [t \in Tasks |-> None]
    /\ reply = [t \in Tasks |-> <<>>]
    /\ onWire = [t \in Tasks |-> 0]
    /\ copies = [t \in Tasks |-> 0]
    /\ fate = [t \in Tasks |-> "none"]

Open(i) == i # None /\ chan[i].state = "open"

\* The channels of S end: their buffers and pending answers with them.
Shut(S, to) ==
    /\ chan' = [i \in Chans |-> IF i \in S THEN [chan[i] EXCEPT !.state = to] ELSE chan[i]]
    /\ confirm' = [t \in Tasks |-> IF via[t] \in S /\ confirm[t] = "pending"
                                   THEN "nack" ELSE confirm[t]]
    /\ via' = [t \in Tasks |-> IF via[t] \in S THEN None ELSE via[t]]
    /\ reply' = [t \in Tasks |-> IF via[t] \in S THEN <<>> ELSE reply[t]]

\* Mutant of Descartar: the exchanges declared on the old channel stay declared.
DescartarKeepingDeclarado ==
    /\ Shut({canal} \cap Chans, "unused")
    /\ canal' = None
    /\ UNCHANGED declarado

\* descartarLocked
Descartar ==
    /\ Shut({canal} \cap Chans, "unused")
    /\ canal' = None
    /\ declarado' = {}

At(t, from) == pc[t] = from
Goto(t, to) == pc' = [pc EXCEPT ![t] = to] /\ UNCHANGED <<result, lock>>

\* Close holds p.mu and waits for the channel's Close: canalLocked stores none in a closed publisher.
Closing == fechado /\ canal # None

\* The task returns r; the deferred Unlock runs.
Returns(t, r) ==
    /\ pc' = [pc EXCEPT ![t] = "done"]
    /\ result' = [result EXCEPT ![t] = r]
    /\ lock' = None

-----------------------------------------------------------------------------
(* ----------------------------- canalLocked ----------------------------- *)
Lock(t) ==
    /\ At(t, "lock")
    /\ lock = None /\ ~Closing
    /\ lock' = t
    /\ pc' = [pc EXCEPT ![t] = "channel"]
    /\ UNCHANGED <<fields, attempt, req, result, opening, chan, answers, broker>>

ChannelReady(t) ==
    /\ At(t, "channel")
    /\ ~fechado
    /\ Open(canal)
    /\ Goto(t, "declare")
    /\ UNCHANGED <<fields, attempt, req, opening, chan, answers, broker>>

PublisherFechado(t) ==
    /\ At(t, "channel")
    /\ fechado
    /\ Returns(t, "fechado")
    /\ UNCHANGED <<fields, attempt, req, opening, chan, answers, broker>>

ChannelUnusable(t) ==
    /\ At(t, "channel")
    /\ ~fechado
    /\ ~Open(canal)
    /\ Descartar
    /\ Goto(t, "open")
    /\ UNCHANGED <<fechado, attempt, req, opening, broker>>

ChannelOpens(t) ==
    /\ At(t, "open")
    /\ \E i \in Chans :
          /\ chan[i].state = "unused"
          /\ chan' = [chan EXCEPT ![i] = [Idle EXCEPT !.state = "open"]]
          /\ opening' = i
    /\ Goto(t, "confirm")
    /\ UNCHANGED <<fields, attempt, req, answers, broker>>

ChannelFails(t) ==
    /\ At(t, "open")
    /\ Returns(t, "canal")
    /\ UNCHANGED <<fields, attempt, req, opening, chan, answers, broker>>

ConfirmMode(t) ==
    /\ At(t, "confirm")
    /\ Open(opening)
    /\ canal' = opening
    /\ opening' = None
    /\ Goto(t, "declare")
    /\ UNCHANGED <<fechado, declarado, attempt, req, chan, answers, broker>>

Abandon(i) == Shut({i}, "unused")

ConfirmModeFails(t) ==
    /\ At(t, "confirm")
    /\ Abandon(opening)
    /\ opening' = None
    /\ Returns(t, "canal")
    /\ UNCHANGED <<fields, attempt, req, broker>>

(* ---------------------------- declararLocked --------------------------- *)
DeclareNeeded(t) == req[t].exchange # Default /\ req[t].exchange \notin declarado

AfterDeclare(t) ==
    IF req[t].op = "declarar" THEN Returns(t, "nil") ELSE Goto(t, "send")

AlreadyDeclared(t) ==
    /\ At(t, "declare")
    /\ ~DeclareNeeded(t)
    /\ AfterDeclare(t)
    /\ UNCHANGED <<fields, attempt, req, opening, chan, answers, broker>>

Declares(t) ==
    /\ At(t, "declare")
    /\ DeclareNeeded(t)
    /\ Open(canal)
    /\ declarado' = declarado \cup {req[t].exchange}
    /\ chan' = [chan EXCEPT ![canal].declared = @ \cup {req[t].exchange}]
    /\ AfterDeclare(t)
    /\ UNCHANGED <<fechado, canal, attempt, req, opening, answers, broker>>

\* Mutant of NextAttempt: one attempt too many.
NextAttemptOffByOne(t, error) ==
    IF attempt[t] < Tentativas
    THEN /\ attempt' = [attempt EXCEPT ![t] = @ + 1]
         /\ Goto(t, "channel")
    ELSE Returns(t, error) /\ UNCHANGED attempt

\* The loop of enviarLocked goes on, or ends with the error.
NextAttempt(t, error) ==
    IF attempt[t] + 1 < Tentativas
    THEN /\ attempt' = [attempt EXCEPT ![t] = @ + 1]
         /\ Goto(t, "channel")
    ELSE Returns(t, error) /\ UNCHANGED attempt

DeclareFails(t) ==
    /\ At(t, "declare")
    /\ DeclareNeeded(t)
    /\ Descartar
    /\ IF req[t].op = "declarar"
       THEN Returns(t, "declarar") /\ UNCHANGED attempt
       ELSE NextAttempt(t, "declarar")
    /\ UNCHANGED <<fechado, req, opening, broker>>

(* ----------------------------- enviarLocked ---------------------------- *)
Sends(t) ==
    /\ At(t, "send")
    /\ Open(canal)
    /\ onWire' = [onWire EXCEPT ![t] = @ + 1]
    /\ via' = [via EXCEPT ![t] = canal]
    /\ confirm' = [confirm EXCEPT ![t] = "pending"]
    /\ Goto(t, "wait")
    /\ UNCHANGED <<fields, attempt, req, opening, chan, reply, copies, fate>>

\* ErrClosed
SendOnClosed(t) ==
    /\ At(t, "send")
    /\ Descartar
    /\ NextAttempt(t, "publicar")
    /\ UNCHANGED <<fechado, req, opening, broker>>

\* Mutant of GiveUp: every error is retried, not only ErrClosed.
GiveUpLater(t) == NextAttempt(t, "publicar")

GiveUp(t) == Returns(t, "publicar") /\ UNCHANGED attempt

SendFails(t) ==
    /\ At(t, "send")
    /\ Open(canal)
    /\ \E written \in {0, 1} : onWire' = [onWire EXCEPT ![t] = @ + written]
    /\ Descartar
    /\ GiveUp(t)
    /\ UNCHANGED <<fechado, req, opening, copies, fate>>

(* ------------------------------- Publicar ------------------------------ *)
\* Mutant of Accepted: aceita is not looked at.
AcceptedAnyway(t) == confirm[t] \in {"ack", "nack"}

Accepted(t) == confirm[t] = "ack"

Confirmed(t) ==
    /\ At(t, "wait")
    /\ Accepted(t)
    /\ Goto(t, "returns")
    /\ UNCHANGED <<fields, attempt, req, opening, chan, answers, broker>>

Refused(t) ==
    /\ At(t, "wait")
    /\ confirm[t] = "nack"
    /\ Returns(t, "recusada")
    /\ UNCHANGED <<fields, attempt, req, opening, chan, answers, broker>>

\* Mutant of TimesOut: the wait for the confirmation has no deadline.
TimesOutNever(t) == FALSE /\ UNCHANGED vars

\* TempoConfirmacao or the caller's context ends the wait ...
TimesOut(t) ==
    /\ At(t, "wait")
    /\ Goto(t, "discard")
    /\ UNCHANGED <<fields, attempt, req, opening, chan, answers, broker>>

\* ... and the channel is closed, with p.mu held, before Publicar returns.
Uncertain(t) ==
    /\ At(t, "discard")
    /\ Descartar
    /\ Returns(t, "incerta")
    /\ UNCHANGED <<fechado, attempt, req, opening, broker>>

Returned(t) == req[t].id \in ToSet(chan[canal].returned)

\* The buffer after retornadaLocked: emptied up to the first return of the message.
AfterDrain(t) ==
    LET buffer == chan[canal].returned
        first == SelectInSeq(buffer, LAMBDA id : id = req[t].id)
    IN  IF Returned(t) THEN SubSeq(buffer, first + 1, Len(buffer)) ELSE <<>>

Drained(t) == AfterDrain(t)

Finishes(t) ==
    /\ At(t, "returns")
    /\ chan' = [chan EXCEPT ![canal].returned = Drained(t)]
    /\ Returns(t, IF Returned(t) /\ ~req[t].permit THEN "naoRoteada" ELSE "nil")
    /\ UNCHANGED <<fields, attempt, req, opening, answers, broker>>

(* -------------------------------- Close -------------------------------- *)
Release(S) == Shut(S, "unused")

\* One critical section, in two steps when there is a channel to close; declarado keeps its value.
Close ==
    /\ lock = None
    /\ ~fechado
    /\ fechado' = TRUE
    /\ UNCHANGED <<canal, declarado, lock, pc, attempt, req, result, opening, chan, answers, broker>>

CloseEnds ==
    /\ Closing
    /\ Release({canal})
    /\ canal' = None
    /\ UNCHANGED <<fechado, declarado, lock, pc, attempt, req, result, opening, broker>>

(* ----------------------- The broker and the network -------------------- *)
ChannelEnds(i) ==
    /\ Open(i)
    /\ Shut({i}, "closed")
    /\ UNCHANGED <<fields, lock, pc, attempt, req, result, opening, broker>>

AnswerTo(outcome) ==
    CASE outcome = "queued" -> <<"ack">>
      [] outcome = "unroutable" -> <<"return", "ack">>
      [] outcome = "refused" -> <<"nack">>

BrokerTakes(t) ==
    /\ onWire[t] > 0
    /\ onWire' = [onWire EXCEPT ![t] = @ - 1]
    /\ copies' = [copies EXCEPT ![t] = @ + 1]
    /\ \E outcome \in {"queued", "unroutable", "refused"} :
          /\ fate' = [fate EXCEPT ![t] = outcome]
          /\ reply' = [reply EXCEPT ![t] = IF via[t] = None THEN @ ELSE @ \o AnswerTo(outcome)]
    /\ UNCHANGED <<fields, lock, pc, attempt, req, result, opening, chan, confirm, via>>

\* The reader of the connection: it blocks while the buffer of returns is full.
ReturnArrives(t) ==
    /\ reply[t] # <<>>
    /\ Head(reply[t]) = "return"
    /\ Len(chan[via[t]].returned) < BufferDeRetornos
    /\ chan' = [chan EXCEPT ![via[t]].returned = Append(@, req[t].id)]
    /\ reply' = [reply EXCEPT ![t] = Tail(@)]
    /\ UNCHANGED <<fields, lock, pc, attempt, req, result, opening, confirm, via, broker>>

ConfirmationArrives(t) ==
    /\ reply[t] # <<>>
    /\ Head(reply[t]) \in {"ack", "nack"}
    /\ confirm' = [confirm EXCEPT ![t] = Head(reply[t])]
    /\ reply' = [reply EXCEPT ![t] = Tail(@)]
    /\ via' = [via EXCEPT ![t] = None]
    /\ UNCHANGED <<fields, lock, pc, attempt, req, result, opening, chan, broker>>

-----------------------------------------------------------------------------
\* The steps of a call that holds p.mu.
Proceeds(t) ==
    \/ ChannelReady(t) \/ PublisherFechado(t) \/ ChannelUnusable(t)
    \/ ChannelOpens(t) \/ ChannelFails(t) \/ ConfirmMode(t) \/ ConfirmModeFails(t)
    \/ AlreadyDeclared(t) \/ Declares(t) \/ DeclareFails(t)
    \/ Sends(t) \/ SendOnClosed(t) \/ SendFails(t)
    \/ Confirmed(t) \/ Refused(t) \/ TimesOut(t) \/ Uncertain(t) \/ Finishes(t)

Next ==
    \/ \E t \in Tasks : Lock(t) \/ Proceeds(t)
    \/ Close \/ CloseEnds
    \/ \E i \in Chans : ChannelEnds(i)
    \/ \E t \in Tasks : BrokerTakes(t) \/ ReturnArrives(t) \/ ConfirmationArrives(t)

Spec == Init /\ [][Next]_vars

\* A remote call or a write on an open channel keeps t, or Close, waiting: the broker need not
\* answer, however well the connection's heartbeats go.
AwaitsBroker(t) ==
    \/ At(t, "open")
    \/ At(t, "confirm") /\ Open(opening)
    \/ At(t, "declare") /\ DeclareNeeded(t) /\ Open(canal)
    \/ pc[t] \in {"send", "discard"} /\ Open(canal)
CloseAwaitsBroker == Closing /\ Open(canal)

\* sync.Mutex hands the lock to a goroutine that has waited long enough; one that holds it and
\* does not await the broker is scheduled, and its timer fires.
FairSpec ==
    /\ Spec
    /\ \A t \in Tasks : SF_vars(Lock(t)) /\ WF_vars(~AwaitsBroker(t) /\ Proceeds(t))
    /\ WF_vars(~CloseAwaitsBroker /\ CloseEnds)

-----------------------------------------------------------------------------
\* Type invariant.
TypeOK ==
    /\ fechado \in BOOLEAN
    /\ canal \in Chans \cup {None}
    /\ declarado \subseteq {r.exchange : r \in Requests}
    /\ lock \in Tasks \cup {None}
    /\ pc \in [Tasks -> {"lock", "channel", "open", "confirm", "declare", "send",
                         "wait", "discard", "returns", "done"}]
    /\ attempt \in [Tasks -> 0..Tentativas - 1]
    /\ req \in [Tasks -> Requests]
    /\ result \in [Tasks -> Results]
    /\ opening \in Chans \cup {None}
    /\ DOMAIN chan = Chans
    /\ \A i \in Chans :
          /\ chan[i].state \in {"unused", "open", "closed"}
          /\ chan[i].declared \subseteq {r.exchange : r \in Requests}
          /\ ToSet(chan[i].returned) \subseteq {r.id : r \in Requests}
    /\ confirm \in [Tasks -> {"none", "pending", "ack", "nack"}]
    /\ via \in [Tasks -> Chans \cup {None}]
    /\ \A t \in Tasks : ToSet(reply[t]) \subseteq {"return", "ack", "nack"}
    /\ onWire \in [Tasks -> Nat]
    /\ copies \in [Tasks -> Nat]
    /\ fate \in [Tasks -> {"none", "queued", "unroutable", "refused"}]

\* What Publicar answers is what happened, also when another call published the same
\* MessageId: nil for a message in a queue, or without a route and with
\* PermitirSemRota; ErrNaoRoteada for one without a route and without the permission.
OutcomeIsTrue ==
    \A t \in Tasks :
        req[t].op = "publicar" =>
            /\ result[t] = "nil" =>
                  fate[t] = "queued" \/ (fate[t] = "unroutable" /\ req[t].permit)
            /\ result[t] = "naoRoteada" => fate[t] = "unroutable" /\ ~req[t].permit

\* One call of Publicar never puts two copies of its message on the broker's side,
\* whatever enviarLocked retries.
AtMostOneCopy == \A t \in Tasks : onWire[t] + copies[t] <= 1

\* A call's answer can be relied on and its message is with the broker once at most, although a
\* reply, a lost channel and a deadline race for the answer and enviarLocked retries.
EntregaFiel == OutcomeIsTrue /\ AtMostOneCopy

\* What callers are promised: see Publicacao.
Copia == [t \in Tasks |-> IF copies[t] > 0 THEN "entregue"
                          ELSE IF onWire[t] > 0 THEN "aCaminho" ELSE "nenhuma"]
Promise == INSTANCE Publicacao WITH copia <- Copia
ImplementsPublicacao == Promise!Spec

\* An open channel is the publisher's, or the one canalLocked is about to store: no
\* error path and no Close leaves one behind.
NoChannelLeaks == \A i \in Chans : Open(i) => i = canal \/ (i = opening /\ ~fechado)

\* A message is sent to an exchange that was declared on the very channel that sends
\* it, although channels are replaced between the declaration and the sending.
DeclaredOnThisChannel ==
    \A t \in Tasks :
        pc[t] = "send" /\ req[t].exchange # Default => req[t].exchange \in chan[canal].declared

\* While nobody holds the lock, the buffer of returns of an open channel is empty:
\* no call sees the return of an earlier one, and the buffer never fills up.
ReturnsAreDrained == lock = None /\ Open(canal) => chan[canal].returned = <<>>

\* The publisher's channel is the only one it holds open, carries the declarations it relies on,
\* and is handed from call to call without leftovers.
ChannelInOrder == NoChannelLeaks /\ DeclaredOnThisChannel /\ ReturnsAreDrained

\* Every call returns, whatever publications stay unconfirmed, if no remote call is left hanging
\* for ever: the only thing that p.mu is ever held for without a deadline.
NoRemoteCallHangs == (\A t \in Tasks : []<>~AwaitsBroker(t)) /\ []<>~CloseAwaitsBroker
EveryCallReturns == NoRemoteCallHangs => \A t \in Tasks : <>(pc[t] = "done")

\* "Nack vira ErrRecusada; ausência de confirmação vira ErrConfirmacaoIncerta"
\* (docs/adr/0005-mensageria.md:10): ErrRecusada is the broker's word, so a message
\* it was answered for is in no queue.
RecusadaMeansRefused == \A t \in Tasks : result[t] = "recusada" => fate[t] # "queued"
=============================================================================
