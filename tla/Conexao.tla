------------------------------ MODULE Conexao -------------------------------
(***************************************************************************)
(* mensageria.GerenciadorConexao: one AMQP connection and the goroutine    *)
(* IniciarMonitoramento, which waits for NotifyClose and reconnects with   *)
(* exponential backoff.  Close, OnReconexao and the cancellation of the    *)
(* monitor's context come from other goroutines at any time.               *)
(*                                                                         *)
(* External, from how the code uses amqp091: an open connection ends       *)
(* "lost" (network, broker), which sends an error to the channels given to *)
(* NotifyClose, or "closed" (Close), which closes them without one.        *)
(* NotifyClose on a connection that has already ended closes the channel   *)
(* it is given at once.                                                    *)
(***************************************************************************)
EXTENDS Integers, Sequences, SequencesExt

CONSTANTS
    Conns,          \* connection objects; one is reused once unreferenced
    Callbacks,      \* functions given to OnReconexao, each at most once
    NoConn          \* a nil connection

VARIABLES
    brokerUp,       \* does the broker accept connections?
    state,          \* of each connection: "unused", "open", "lost", "closed"
    conn,           \* g.conn
    onConn,         \* g.onConn
    monitor,        \* where IniciarMonitoramento is
    watched,        \* the monitor's local conn
    notice,         \* its channel notifyClosed: "none", "empty", "error", "closed"
    dialed,         \* the connection conectar has dialled and not yet stored
    backoff,        \* in seconds
    toCall,         \* callbacks notificarReconexao has still to call
    ctxDone,        \* the monitor's context
    closeCalled,    \* history: has Close been called?
    called,         \* history: callbacks called since the last reconnection, and
                    \* the connection each was given
    due,            \* history: callbacks registered when it was stored
    failures        \* history: failed attempts since the connection was lost

conexaoVars == <<brokerUp, state, conn, onConn, monitor, watched, notice, dialed, backoff,
                 toCall, ctxDone, closeCalled, called, due, failures>>

external == <<brokerUp, ctxDone>>
history == <<closeCalled, called, due, failures>>

backoffInicial == 2
backoffMaximo == 60
fatorMultiplic == 2

MaxFailures == 6    \* bound on the history variable failures: 60 s from here on

Min2(a, b) == IF a < b THEN a ELSE b

-----------------------------------------------------------------------------
\* NovoGerenciadorConexao has connected.
ConexaoInit ==
    /\ brokerUp = TRUE
    /\ conn \in Conns
    /\ state = [i \in Conns |-> IF i = conn THEN "open" ELSE "unused"]
    /\ onConn = <<>>
    /\ monitor = "off"
    /\ watched = NoConn
    /\ notice = "none"
    /\ dialed = NoConn
    /\ backoff = backoffInicial
    /\ toCall = <<>>
    /\ ctxDone = FALSE
    /\ closeCalled = FALSE
    /\ called = {}
    /\ due = {}
    /\ failures = 0

Moves(from, to) == monitor = from /\ monitor' = to

\* The connection i ends as s, and the monitor's channel hears of it.
Ends(i, s, heard) ==
    /\ state' = [state EXCEPT ![i] = s]
    /\ notice' = IF i = watched /\ notice = "empty" THEN heard ELSE notice

(* ---------------------------- The monitor ------------------------------ *)
Start ==
    /\ Moves("off", "read")
    /\ UNCHANGED <<state, conn, onConn, watched, notice, dialed, backoff, toCall, external, history>>

ReadConn ==
    /\ Moves("read", "register")
    /\ watched' = conn
    /\ UNCHANGED <<state, conn, onConn, notice, dialed, backoff, toCall, external, history>>

NoticeOf(i) == IF state[i] = "open" THEN "empty" ELSE "closed"

Register ==
    /\ Moves("register", "watch")
    /\ notice' = NoticeOf(watched)
    /\ UNCHANGED <<state, conn, onConn, watched, dialed, backoff, toCall, external, history>>

\* Mutant of LostNotice: the monitor does not wait to be told.
LostNoticeAlways == TRUE

LostNotice == notice = "error"

\* The connection was lost: start over with the initial backoff.
Lost ==
    /\ LostNotice
    /\ Moves("watch", "backoff")
    /\ backoff' = backoffInicial
    /\ notice' = "none"
    /\ failures' = 0
    /\ UNCHANGED <<state, conn, onConn, watched, dialed, toCall, external, closeCalled, called, due>>

\* !ok: the channel was closed without an error.
NoticeClosed ==
    /\ notice = "closed"
    /\ Moves("watch", "done")
    /\ UNCHANGED <<state, conn, onConn, watched, notice, dialed, backoff, toCall, external, history>>

\* Mutant of Cancelled: the context is looked at in the outer select only.
CancelledWatching == ctxDone /\ monitor = "watch"

\* Both selects return when the context is done.
Cancelled == ctxDone /\ monitor \in {"watch", "backoff"}

Return ==
    /\ Cancelled
    /\ monitor' = "done"
    /\ UNCHANGED <<state, conn, onConn, watched, notice, dialed, backoff, toCall, external, history>>

Timer ==
    /\ Moves("backoff", "dial")
    /\ UNCHANGED <<state, conn, onConn, watched, notice, dialed, backoff, toCall, external, history>>

\* Mutant of NextBackoff: without the ceiling.
NextBackoffUncapped == IF backoff > 1000 THEN backoff ELSE backoff * fatorMultiplic

NextBackoff == Min2(backoff * fatorMultiplic, backoffMaximo)

\* Mutant of DialFails: the first failed attempt ends the monitor.
DialFailsForGood ==
    /\ ~brokerUp
    /\ Moves("dial", "done")
    /\ UNCHANGED <<state, conn, onConn, watched, notice, dialed, backoff, toCall, external, history>>

DialFails ==
    /\ ~brokerUp
    /\ Moves("dial", "backoff")
    /\ backoff' = NextBackoff
    /\ failures' = Min2(failures + 1, MaxFailures)
    /\ UNCHANGED <<state, conn, onConn, watched, notice, dialed, toCall, external, closeCalled, called, due>>

DialSucceeds ==
    /\ brokerUp
    /\ Moves("dial", "store")
    /\ \E i \in Conns \ {conn, watched} :
          /\ state' = [state EXCEPT ![i] = "open"]
          /\ dialed' = i
    /\ UNCHANGED <<conn, onConn, watched, notice, backoff, toCall, external, history>>

\* conectar's critical section: the previous connection is closed if open.
Store ==
    /\ Moves("store", "copy")
    /\ IF state[conn] = "open"
       THEN Ends(conn, "closed", "closed")
       ELSE UNCHANGED <<state, notice>>
    /\ conn' = dialed
    /\ dialed' = NoConn
    /\ called' = {}
    /\ due' = ToSet(onConn)
    /\ UNCHANGED <<onConn, watched, backoff, toCall, external, closeCalled, failures>>

\* notificarReconexao reads conn and copies the callbacks, then calls them.
CopyCallbacks ==
    /\ Moves("copy", "notify")
    /\ toCall' = onConn
    /\ UNCHANGED <<state, conn, onConn, watched, notice, dialed, backoff, external, history>>

\* Mutant of Notified: callbacks get the connection that was lost.
NotifiedWatched == watched

Notified == conn

CallNext ==
    /\ monitor = "notify"
    /\ toCall # <<>>
    /\ called' = called \cup {<<Head(toCall), Notified>>}
    /\ toCall' = Tail(toCall)
    /\ UNCHANGED <<state, conn, onConn, monitor, watched, notice, dialed, backoff, external, closeCalled, due, failures>>

AllCalled ==
    /\ toCall = <<>>
    /\ Moves("notify", "read")
    /\ UNCHANGED <<state, conn, onConn, watched, notice, dialed, backoff, toCall, external, history>>

Monitor ==
    \/ ReadConn \/ Register \/ Lost \/ NoticeClosed \/ Timer
    \/ DialFails \/ DialSucceeds \/ Store \/ CopyCallbacks \/ CallNext \/ AllCalled

(* ------------------------- Everyone else ------------------------------- *)
OnReconexao(f) ==
    /\ f \notin ToSet(onConn)
    /\ onConn' = Append(onConn, f)
    /\ UNCHANGED <<state, conn, monitor, watched, notice, dialed, backoff, toCall, external, history>>

CloseConexao ==
    /\ closeCalled' = TRUE
    /\ IF state[conn] = "open"
       THEN Ends(conn, "closed", "closed")
       ELSE UNCHANGED <<state, notice>>
    /\ UNCHANGED <<conn, onConn, monitor, watched, dialed, backoff, toCall, external, called, due, failures>>

ConnectionLost(i) ==
    /\ state[i] = "open"
    /\ Ends(i, "lost", "error")
    /\ UNCHANGED <<conn, onConn, monitor, watched, dialed, backoff, toCall, external, history>>

BrokerChanges ==
    /\ brokerUp' = ~brokerUp
    /\ UNCHANGED <<state, conn, onConn, monitor, watched, notice, dialed, backoff, toCall, ctxDone, history>>

Cancel ==
    /\ ~ctxDone
    /\ ctxDone' = TRUE
    /\ UNCHANGED <<state, conn, onConn, monitor, watched, notice, dialed, backoff, toCall, brokerUp, history>>

ConexaoNext ==
    \/ Start
    \/ Monitor
    \/ Return
    \/ \E f \in Callbacks : OnReconexao(f)
    \/ \E i \in Conns : ConnectionLost(i)
    \/ CloseConexao \/ BrokerChanges \/ Cancel

ConexaoSpec == ConexaoInit /\ [][ConexaoNext]_conexaoVars

\* The scheduler runs a started monitor, timers fire, dials and callbacks return; a
\* select that keeps finding its context done does not ignore it forever.
ConexaoFairSpec == ConexaoSpec /\ WF_conexaoVars(Monitor) /\ SF_conexaoVars(Return)

-----------------------------------------------------------------------------
\* Type invariant.
ConexaoTypeOK ==
    /\ brokerUp \in BOOLEAN
    /\ state \in [Conns -> {"unused", "open", "lost", "closed"}]
    /\ conn \in Conns
    /\ ToSet(onConn) \subseteq Callbacks
    /\ monitor \in {"off", "read", "register", "watch", "backoff", "dial", "store",
               "copy", "notify", "done"}
    /\ watched \in Conns \cup {NoConn}
    /\ notice \in {"none", "empty", "error", "closed"}
    /\ dialed \in Conns \cup {NoConn}
    /\ backoff \in 1..backoffMaximo
    /\ ToSet(toCall) \subseteq Callbacks
    /\ ctxDone \in BOOLEAN
    /\ closeCalled \in BOOLEAN
    /\ called \subseteq Callbacks \X Conns
    /\ due \subseteq Callbacks
    /\ failures \in 0..MaxFailures

\* The manager never holds two open connections at the broker, not even while a
\* new one is dialled and not yet stored.
OneOpenConnection == \A i, j \in Conns : state[i] = "open" /\ state[j] = "open" => i = j

\* Before the monitor watches a new connection, every callback registered when
\* it was stored has been called, with it and not with the one that was lost
\* (OnReconexao), although registrations run concurrently.
CallbacksGetTheNewConnection ==
    monitor \in {"read", "register"} => \A f \in due : <<f, conn>> \in called

\* The wait before an attempt grows with the failures since the loss: 2 seconds,
\* doubled by each, never above 60, and starting over at the next loss.
BackoffFollowsFailures ==
    monitor \in {"backoff", "dial"} => backoff = <<2, 4, 8, 16, 32, 60, 60>>[failures + 1]

\* A reconnection is paced by the failures before it and announced with its own connection.
ReconnectsInOrder == CallbacksGetTheNewConnection /\ BackoffFollowsFailures

\* A cancelled monitor returns, whatever it was doing.
CancelEndsMonitor == ctxDone /\ monitor # "off" ~> monitor = "done"

\* After a loss the monitor is told of, it dials until it gets a connection, once
\* the broker stays up, unless the context is cancelled: no number of failed
\* attempts makes it give up.
NoticedLossIsRepaired ==
    <>[]brokerUp =>
        (monitor = "watch" /\ notice = "error" ~> dialed # NoConn \/ ctxDone)

\* Close of an open connection ends the monitor: it never reconnects after it.
ClosingOpenConnectionEndsMonitor ==
    monitor # "off" /\ state[conn] = "closed" ~> monitor = "done"

\* The monitor returns when it is told to, by its context or by Close of an open connection.
MonitorReturns == CancelEndsMonitor /\ ClosingOpenConnectionEndsMonitor

\* "Mantém uma conexão AMQP ativa com reconexão automática" (reconexao.go:19):
\* with the monitor running, a lost connection is replaced once the broker stays
\* up, unless the context is cancelled or Close is called.
ReconexaoAutomatica ==
    <>[]brokerUp =>
        (monitor # "off" /\ state[conn] = "lost" ~> state[conn] = "open" \/ ctxDone \/ closeCalled)

\* "Close encerra a conexão atual; IniciarMonitoramento retorna em seguida"
\* (reconexao.go:146).
CloseEncerraMonitoramento == closeCalled /\ monitor # "off" ~> monitor = "done"
=============================================================================
