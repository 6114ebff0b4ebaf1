----------------------------- MODULE Collector -----------------------------
(***************************************************************************)
(* The process of the run command: the main loop of doRunCommand, one NSQ  *)
(* consumer with one handler goroutine per repository, the goroutines of   *)
(* monitorQueues and the RWMutex by which a periodic synchronization       *)
(* pauses the handlers.  What a handler does with a message and what a     *)
(* synchronization does are in LiveEvents and SyncJob; here they are busy  *)
(* for a while.  Durations are abstract: a timer that is armed may fire.   *)
(* A topic is served by one nsqd, which may have a message at any time.    *)
(***************************************************************************)
EXTENDS Naturals, FiniteSets

CONSTANTS
    Queues,        \* the configured repositories, each with a topic and a consumer
    MaxSignals     \* bound: signals sent to the process

ASSUME QueuesAssumption == IsFiniteSet(Queues) /\ Queues # {}
ASSUME BoundsAssumption == MaxSignals \in Nat

VARIABLES
    main,       \* main goroutine: in the select, in Lock(), synchronizing, returned;
                \* "panicked" when a goroutine takes the process down
    timer,      \* time.After of the current turn of the loop
    signals,    \* signals in the channel s
    sent,       \* signals sent so far
    handler,    \* handler goroutine of each queue
    inFlight,   \* messages the consumer has read and not responded to
    conn,       \* connection of each consumer to nsqd
    stopFlag,   \* has Stop been called?
    closed,     \* is incomingMessages closed?
    exitTimer,  \* the 30 seconds granted by Stop
    exiting,    \* has exit() been entered?
    stopChan,   \* is StopChan closed?
    monitored   \* queues whose monitoring goroutine has called wg.Done

mainVars  == <<main, timer, signals, sent>>
queueVars == <<handler, inFlight>>
stopVars  == <<conn, stopFlag, closed, exitTimer, exiting, stopChan, monitored>>
vars == <<mainVars, queueVars, stopVars>>

\* main has returned and with it the process, or the process has died.
Ended == main \in {"returned", "panicked"}

-----------------------------------------------------------------------------
(* sync.RWMutex.  A writer that has called Lock keeps new readers out, and   *)
(* gets the lock when the readers it found are gone; Unlock lets in the      *)
(* readers that were waiting before another writer can have it.              *)

Readers == {q \in Queues : handler[q] = "handling"}

\* Mutant: a lock that prefers readers.
WriterInside == main = "sync"

WriterPending == main \in {"lock", "sync"}

AfterUnlock == [q \in Queues |-> IF handler[q] = "blocked" THEN "handling" ELSE handler[q]]

-----------------------------------------------------------------------------
Init ==
    /\ main = "select"
    /\ timer = "armed"
    /\ signals = 0
    /\ sent = 0
    /\ handler = [q \in Queues |-> "idle"]
    /\ inFlight = [q \in Queues |-> 0]
    /\ conn = [q \in Queues |-> "open"]
    /\ stopFlag = [q \in Queues |-> FALSE]
    /\ closed = [q \in Queues |-> FALSE]
    /\ exitTimer = [q \in Queues |-> "off"]
    /\ exiting = [q \in Queues |-> FALSE]
    /\ stopChan = [q \in Queues |-> FALSE]
    /\ monitored = {}

-----------------------------------------------------------------------------
(* Consumer.Stop: without a connection the handler loop is ended, with one   *)
(* StartClose is sent and 30 seconds are granted.  A second call does nothing. *)
(* A connection that is being set up does not count as one.                   *)

Connected(q) == conn[q] \in {"open", "closing", "draining"}

\* Mutant: Stop does nothing without a connection.
StopsNothing(q) == FALSE

StopsHandlers(q) == ~stopFlag[q] /\ ~Connected(q)
StartClose(q) == IF ~stopFlag[q] /\ conn[q] = "open" THEN "closing" ELSE conn[q]
GrantTime(q) == IF ~stopFlag[q] /\ Connected(q) THEN "armed" ELSE exitTimer[q]

-----------------------------------------------------------------------------
(* The main loop.  Every turn evaluates time.After again. *)

\* A goroutine that is waiting for all the monitoring goroutines sends.
MainStop ==
    /\ main = "select" /\ monitored = Queues
    /\ main' = "returned"
    /\ UNCHANGED <<timer, signals, sent, queueVars, stopVars>>

\* Stop() on every consumer.
MainSignal ==
    /\ main = "select" /\ signals > 0
    /\ signals' = signals - 1
    /\ timer' = "armed"
    /\ stopFlag' = [q \in Queues |-> TRUE]
    /\ closed' = [q \in Queues |-> closed[q] \/ StopsHandlers(q)]
    /\ conn' = [q \in Queues |-> StartClose(q)]
    /\ exitTimer' = [q \in Queues |-> GrantTime(q)]
    /\ UNCHANGED <<main, sent, queueVars, exiting, stopChan, monitored>>

MainTick ==
    /\ main = "select" /\ timer = "fired"
    /\ main' = "lock"
    /\ UNCHANGED <<timer, signals, sent, queueVars, stopVars>>

\* Mutant: the synchronization does not pause the handlers.
MainSyncUnpaused ==
    /\ main = "lock"
    /\ main' = "sync"
    /\ UNCHANGED <<timer, signals, sent, queueVars, stopVars>>

\* Lock() returns and runPeriodicSync starts.
MainSync ==
    /\ main = "lock" /\ Readers = {}
    /\ main' = "sync"
    /\ UNCHANGED <<timer, signals, sent, queueVars, stopVars>>

\* Mutant: the lock is not released after the synchronization.
MainKeepsLock ==
    /\ main = "sync"
    /\ main' = "select"
    /\ timer' = "armed"
    /\ UNCHANGED <<signals, sent, queueVars, stopVars>>

\* runPeriodicSync returns, the next tick is computed, Unlock().
MainUnlock ==
    /\ main = "sync"
    /\ main' = "select"
    /\ timer' = "armed"
    /\ handler' = AfterUnlock
    /\ UNCHANGED <<signals, sent, inFlight, stopVars>>

-----------------------------------------------------------------------------
(* The handler goroutine of a queue, go-nsq's handlerLoop around              *)
(* HandleMessage.                                                             *)

Busy(q) == handler[q] \in {"blocked", "handling"}

\* A message comes in on incomingMessages, and HandleMessage calls RLock().
HandlerReceive(q) ==
    /\ ~Ended /\ handler[q] = "idle" /\ inFlight[q] > 0
    /\ handler' = [handler EXCEPT ![q] = IF WriterPending THEN "blocked" ELSE "handling"]
    /\ UNCHANGED <<mainVars, inFlight, stopVars>>

\* A message that has used up its attempts is finished without the handler being
\* called, and without the lock.  How many attempts it has had is left open here
\* (LiveEvents counts them).
HandlerGivesUp(q) ==
    /\ ~Ended /\ handler[q] = "idle" /\ inFlight[q] > 0
    /\ inFlight' = [inFlight EXCEPT ![q] = @ - 1]
    /\ UNCHANGED <<mainVars, handler, stopVars>>

\* HandleMessage returns, which releases the lock, and the message is finished
\* or requeued.
HandlerRespond(q) ==
    /\ ~Ended /\ handler[q] = "handling"
    /\ handler' = [handler EXCEPT ![q] = "idle"]
    /\ inFlight' = [inFlight EXCEPT ![q] = @ - 1]
    /\ UNCHANGED <<mainVars, stopVars>>

\* incomingMessages is closed: the handler loop ends, and calls exit().
HandlerExit(q) ==
    /\ ~Ended /\ handler[q] = "idle" /\ closed[q]
    /\ handler' = [handler EXCEPT ![q] = "exited"]
    /\ exiting' = [exiting EXCEPT ![q] = TRUE]
    /\ UNCHANGED <<mainVars, inFlight, conn, stopFlag, closed, exitTimer, stopChan, monitored>>

-----------------------------------------------------------------------------
(* The consumer's connection: set up by the lookup loop ("dialing"), open,    *)
(* asked to close by StartClose ("closing"), and read no more ("draining")    *)
(* until the messages it has delivered are responded to.                      *)

ConnFrame == UNCHANGED <<mainVars, queueVars, stopFlag, exitTimer, exiting, stopChan, monitored>>

\* The read loop hands a message over to the handler before it reads another.
ReaderFree(q) == inFlight[q] = IF Busy(q) THEN 1 ELSE 0

\* Mutant: messages are read ahead.
DeliverMore(q) ==
    /\ ~Ended /\ conn[q] \in {"open", "closing"} /\ ~closed[q]
    /\ inFlight' = [inFlight EXCEPT ![q] = @ + 1]
    /\ UNCHANGED <<mainVars, handler, stopVars>>

\* A message is read.  nsqd hands out one at a time (max_in_flight is 1), but
\* one that the handler has had for too long has timed out and does not count.
\* Sending it on a closed incomingMessages panics.
Deliver(q) ==
    /\ ~Ended /\ conn[q] \in {"open", "closing"} /\ ReaderFree(q)
    /\ IF closed[q]
       THEN main' = "panicked" /\ UNCHANGED inFlight
       ELSE inFlight' = [inFlight EXCEPT ![q] = @ + 1] /\ UNCHANGED main
    /\ UNCHANGED <<timer, signals, sent, handler, stopVars>>

\* nsqd answers StartClose with CLOSE_WAIT and sends no more messages.
CloseWait(q) ==
    /\ ~Ended /\ conn[q] = "closing" /\ ReaderFree(q)
    /\ conn' = [conn EXCEPT ![q] = "draining"]
    /\ UNCHANGED closed /\ ConnFrame

\* The connection breaks.
ConnLost(q) ==
    /\ ~Ended /\ conn[q] \in {"open", "closing"}
    /\ conn' = [conn EXCEPT ![q] = "draining"]
    /\ UNCHANGED closed /\ ConnFrame

\* Mutant: the connection does not wait for the messages it has delivered.
ConnClosedEarly(q) ==
    /\ ~Ended /\ conn[q] = "draining"
    /\ conn' = [conn EXCEPT ![q] = "closed"]
    /\ closed' = [closed EXCEPT ![q] = @ \/ stopFlag[q]]
    /\ ConnFrame

\* onConnClose, once the messages in flight are responded to: the last
\* connection of a consumer that is stopping ends its handler loop.
ConnClosed(q) ==
    /\ ~Ended /\ conn[q] = "draining" /\ inFlight[q] = 0
    /\ conn' = [conn EXCEPT ![q] = "closed"]
    /\ closed' = [closed EXCEPT ![q] = @ \/ stopFlag[q]]
    /\ ConnFrame

\* The lookup loop finds nsqd again and connects, unless Stop was called.
Dial(q) ==
    /\ ~Ended /\ conn[q] = "closed" /\ ~stopFlag[q]
    /\ conn' = [conn EXCEPT ![q] = "dialing"]
    /\ UNCHANGED closed /\ ConnFrame

\* Connecting fails or succeeds; Stop may have been called since.
DialEnds(q) ==
    /\ ~Ended /\ conn[q] = "dialing"
    /\ \E c \in {"open", "closed"} : conn' = [conn EXCEPT ![q] = c]
    /\ UNCHANGED closed /\ ConnFrame

-----------------------------------------------------------------------------
(* The end of a consumer. *)

\* 30 seconds after Stop: exit(), whatever the handler is doing.
ExitTimer(q) ==
    /\ ~Ended /\ exitTimer[q] = "armed"
    /\ exitTimer' = [exitTimer EXCEPT ![q] = "fired"]
    /\ exiting' = [exiting EXCEPT ![q] = TRUE]
    /\ UNCHANGED <<mainVars, queueVars, conn, stopFlag, closed, stopChan, monitored>>

\* exit() waits for the lookup loop and closes StopChan.
CloseStopChan(q) ==
    /\ ~Ended /\ exiting[q] /\ ~stopChan[q]
    /\ conn[q] # "dialing"
    /\ stopChan' = [stopChan EXCEPT ![q] = TRUE]
    /\ UNCHANGED <<mainVars, queueVars, conn, stopFlag, closed, exitTimer, exiting, monitored>>

\* Mutant: the monitoring goroutine does not wait for StopChan.
MonitorEarly(q) ==
    /\ ~Ended /\ stopFlag[q] /\ q \notin monitored
    /\ monitored' = monitored \cup {q}
    /\ UNCHANGED <<mainVars, queueVars, conn, stopFlag, closed, exitTimer, exiting, stopChan>>

\* The goroutine of monitorQueues that watches the queue.
Monitor(q) ==
    /\ ~Ended /\ stopChan[q] /\ q \notin monitored
    /\ monitored' = monitored \cup {q}
    /\ UNCHANGED <<mainVars, queueVars, conn, stopFlag, closed, exitTimer, exiting, stopChan>>

-----------------------------------------------------------------------------
(* The environment. *)

SendSignal ==
    /\ ~Ended /\ sent < MaxSignals
    /\ sent' = sent + 1
    /\ signals' = signals + 1
    /\ UNCHANGED <<main, timer, queueVars, stopVars>>

TimerFires ==
    /\ main = "select" /\ timer = "armed"
    /\ timer' = "fired"
    /\ UNCHANGED <<main, signals, sent, queueVars, stopVars>>

Exited == Ended /\ UNCHANGED vars

Main == MainStop \/ MainSignal \/ MainTick \/ MainSync \/ MainUnlock

Queue(q) ==
    \/ HandlerReceive(q) \/ HandlerGivesUp(q) \/ HandlerRespond(q) \/ HandlerExit(q)
    \/ Deliver(q) \/ CloseWait(q) \/ ConnLost(q) \/ ConnClosed(q) \/ Dial(q) \/ DialEnds(q)
    \/ ExitTimer(q) \/ CloseStopChan(q) \/ Monitor(q)

Next == Main \/ SendSignal \/ TimerFires \/ (\E q \in Queues : Queue(q)) \/ Exited

\* Go runs every goroutine that can run; a select chooses at random among the
\* cases that are ready, so a case that is ready over and over is chosen; a
\* handler comes back from GitHub and Elastic Search, a synchronization ends
\* (SyncJob), connecting ends, and an armed 30 seconds timer fires.  That a tick
\* comes, a message or a signal arrives or nsqd answers is not assumed.
Fairness ==
    /\ SF_vars(MainStop) /\ SF_vars(MainSignal) /\ SF_vars(MainTick)
    /\ WF_vars(MainSync) /\ WF_vars(MainUnlock)
    /\ \A q \in Queues :
        /\ WF_vars(HandlerReceive(q) \/ HandlerGivesUp(q))
        /\ WF_vars(HandlerRespond(q)) /\ WF_vars(HandlerExit(q))
        /\ WF_vars(ConnClosed(q)) /\ WF_vars(DialEnds(q))
        /\ WF_vars(ExitTimer(q)) /\ WF_vars(CloseStopChan(q)) /\ WF_vars(Monitor(q))

Spec == Init /\ [][Next]_vars /\ Fairness

-----------------------------------------------------------------------------
(* Properties. *)

TypeOK ==
    /\ main \in {"select", "lock", "sync", "returned", "panicked"}
    /\ timer \in {"armed", "fired"}
    /\ signals \in Nat
    /\ sent \in Nat
    /\ handler \in [Queues -> {"idle", "blocked", "handling", "exited"}]
    /\ inFlight \in [Queues -> 0..2]
    /\ conn \in [Queues -> {"closed", "dialing", "open", "closing", "draining"}]
    /\ stopFlag \in [Queues -> BOOLEAN]
    /\ closed \in [Queues -> BOOLEAN]
    /\ exitTimer \in [Queues -> {"off", "armed", "fired"}]
    /\ exiting \in [Queues -> BOOLEAN]
    /\ stopChan \in [Queues -> BOOLEAN]
    /\ monitored \subseteq Queues

\* "Take a write lock, which pauses all queue processing": no handler is
\* working on a message while the periodic synchronization runs.
PauseExcludesHandlers == main = "sync" => Readers = {}

\* No handler is left waiting for a lock that nobody holds or asks for.
NoLostWakeup == ~Ended => \A q \in Queues : handler[q] = "blocked" => main \in {"lock", "sync"}

\* incomingMessages is only closed when the read loop is not sending on it (that
\* send would panic) and no handler still has to respond.
ClosedAfterLastMessage == \A q \in Queues : closed[q] => inFlight[q] = 0

\* The process only exits when each handler goroutine has run to its end or was
\* given its 30 seconds.
ExitIsGraceful ==
    main = "returned" => \A q \in Queues : handler[q] = "exited" \/ exitTimer[q] = "fired"

\* A signal ends the process, even one that comes while a synchronization holds
\* the lock, and however many ticks and messages there are.
SignalEndsProcess == sent > 0 ~> Ended

\* A synchronization that is due gets the lock: handlers cannot keep it out.
SyncGetsLock == main = "lock" ~> main = "sync" \/ Ended

\* "Stop will initiate a graceful stop of the Consumer": it never makes the
\* process panic.  It does not hold: see the run.
NeverPanics == main # "panicked"

=============================================================================
