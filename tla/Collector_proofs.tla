------------------------- MODULE Collector_proofs -------------------------
(***************************************************************************)
(* Proofs about Collector for any finite set of repositories and any       *)
(* number of signals.                                                      *)
(***************************************************************************)
EXTENDS Collector, TLAPS

\* The RWMutex: who may be inside, and who may be waiting.
LockInv ==
    /\ main = "sync" => \A q \in Queues : handler[q] # "handling"
    /\ main \in {"select", "returned"} => \A q \in Queues : handler[q] # "blocked"

\* The life of a consumer: a message in flight needs its connection, a busy
\* handler has a message, and incomingMessages is only closed on the way out.
ConsumerInv ==
    \A q \in Queues :
        /\ conn[q] \in {"closed", "dialing"} => inFlight[q] = 0
        /\ Busy(q) => inFlight[q] >= 1
        /\ closed[q] => stopFlag[q] /\ inFlight[q] = 0

\* What has been seen of a StopChan that is closed.
StopInv ==
    /\ \A q \in Queues : stopChan[q] => exiting[q]
    /\ \A q \in Queues : exiting[q] => handler[q] = "exited" \/ exitTimer[q] = "fired"
    /\ \A q \in Queues : exitTimer[q] # "off" => stopFlag[q]
    /\ \A q \in monitored : stopChan[q]
    /\ main = "returned" => monitored = Queues

IInv == TypeOK /\ LockInv /\ ConsumerInv /\ StopInv

LEMMA InitIInv == Init => IInv
BY DEF Init, IInv, TypeOK, LockInv, ConsumerInv, StopInv, Busy

-----------------------------------------------------------------------------
\* ConsumerInv is what keeps the count of messages in flight within bounds.
LEMMA TypeOKStep == ASSUME TypeOK, ConsumerInv, [Next]_vars PROVE TypeOK'
<1> USE DEF TypeOK
<1>1. CASE Main
  <2>1. CASE MainStop \/ MainTick \/ MainSync
    BY <2>1 DEF MainStop, MainTick, MainSync, queueVars, stopVars
  <2>2. CASE MainSignal
    <3>1. /\ closed' \in [Queues -> BOOLEAN]
          /\ conn' \in [Queues -> {"closed", "dialing", "open", "closing", "draining"}]
          /\ exitTimer' \in [Queues -> {"off", "armed", "fired"}]
      BY <2>2 DEF MainSignal, StopsHandlers, StartClose, GrantTime
    <3> QED BY <2>2, <3>1 DEF MainSignal, queueVars
  <2>3. CASE MainUnlock
    BY <2>3 DEF MainUnlock, AfterUnlock, stopVars
  <2> QED BY <1>1, <2>1, <2>2, <2>3 DEF Main
<1>2. CASE SendSignal \/ TimerFires
  BY <1>2 DEF SendSignal, TimerFires, queueVars, stopVars
<1>3. ASSUME NEW q \in Queues, Queue(q) PROVE TypeOK'
  <2>1. CASE HandlerReceive(q)
    BY <2>1 DEF HandlerReceive, mainVars, stopVars
  <2>2. CASE HandlerRespond(q) \/ HandlerGivesUp(q)
    BY <2>2 DEF HandlerRespond, HandlerGivesUp, mainVars, stopVars, ConsumerInv, Busy
  <2>3. CASE HandlerExit(q)
    BY <2>3 DEF HandlerExit, mainVars
  <2>4. CASE Deliver(q)
    <3>1. inFlight[q] \in {0, 1}
      BY <2>4 DEF Deliver, ReaderFree
    <3> QED BY <2>4, <3>1 DEF Deliver, stopVars
  <2>5. CASE CloseWait(q) \/ ConnLost(q) \/ Dial(q)
    BY <2>5 DEF CloseWait, ConnLost, Dial, ConnFrame, mainVars, queueVars
  <2>6. CASE ConnClosed(q)
    BY <2>6 DEF ConnClosed, ConnFrame, mainVars, queueVars
  <2>7. CASE DialEnds(q)
    BY <2>7 DEF DialEnds, ConnFrame, mainVars, queueVars
  <2>8. CASE ExitTimer(q)
    BY <2>8 DEF ExitTimer, mainVars, queueVars
  <2>9. CASE CloseStopChan(q) \/ Monitor(q)
    BY <2>9 DEF CloseStopChan, Monitor, mainVars, queueVars
  <2> QED BY <1>3, <2>1, <2>2, <2>3, <2>4, <2>5, <2>6, <2>7, <2>8, <2>9 DEF Queue
<1>4. CASE UNCHANGED vars
  BY <1>4 DEF vars, mainVars, queueVars, stopVars
<1> QED BY <1>1, <1>2, <1>3, <1>4 DEF Next, Exited

LEMMA LockInvStep == ASSUME TypeOK, LockInv, [Next]_vars PROVE LockInv'
<1> USE DEF LockInv
<1>a. /\ handler \in [Queues -> {"idle", "blocked", "handling", "exited"}]
      /\ main \in {"select", "lock", "sync", "returned", "panicked"}
  BY DEF TypeOK
<1>1. CASE MainStop \/ MainSignal \/ MainTick \/ SendSignal \/ TimerFires
  BY <1>1 DEF MainStop, MainSignal, MainTick, SendSignal, TimerFires, queueVars
<1>2. CASE MainSync
  BY <1>2 DEF MainSync, Readers, queueVars
<1>3. CASE MainUnlock
  BY <1>3, <1>a DEF MainUnlock, AfterUnlock
<1>4. ASSUME NEW q \in Queues, Queue(q) PROVE LockInv'
  <2>1. CASE HandlerReceive(q)
    BY <2>1, <1>a DEF HandlerReceive, mainVars, WriterPending, Ended
  <2>2. CASE HandlerRespond(q) \/ HandlerExit(q)
    BY <2>2, <1>a DEF HandlerRespond, HandlerExit, mainVars
  <2>3. CASE Deliver(q)
    BY <2>3 DEF Deliver
  <2>4. CASE UNCHANGED <<main, handler>>
    BY <2>4
  <2> QED BY <1>4, <2>1, <2>2, <2>3, <2>4
          DEF Queue, HandlerGivesUp, CloseWait, ConnLost, ConnClosed, Dial, DialEnds, ConnFrame, ExitTimer,
              CloseStopChan, Monitor, mainVars, queueVars
<1>5. CASE UNCHANGED vars
  BY <1>5 DEF vars, mainVars, queueVars
<1> QED BY <1>1, <1>2, <1>3, <1>4, <1>5 DEF Next, Main, Exited

LEMMA ConsumerInvStep == ASSUME IInv, [Next]_vars PROVE ConsumerInv'
<1> USE DEF ConsumerInv, Busy
<1>a. TypeOK /\ ConsumerInv
  BY DEF IInv
<1>1. CASE MainStop \/ MainTick \/ MainSync \/ SendSignal \/ TimerFires
  BY <1>1, <1>a DEF MainStop, MainTick, MainSync, SendSignal, TimerFires, queueVars, stopVars
<1>2. CASE MainSignal
  BY <1>2, <1>a DEF MainSignal, StopsHandlers, Connected, StartClose, queueVars, TypeOK
<1>3. CASE MainUnlock
  BY <1>3, <1>a DEF MainUnlock, AfterUnlock, stopVars
<1>4. ASSUME NEW q \in Queues, Queue(q) PROVE ConsumerInv'
  <2> USE <1>a DEF TypeOK
  <2>1. CASE HandlerReceive(q)
    BY <2>1 DEF HandlerReceive, stopVars
  <2>2. CASE HandlerRespond(q) \/ HandlerGivesUp(q)
    BY <2>2 DEF HandlerRespond, HandlerGivesUp, stopVars
  <2>3. CASE HandlerExit(q)
    BY <2>3 DEF HandlerExit
  <2>4. CASE Deliver(q)
    <3>1. CASE closed[q]
      BY <2>4, <3>1 DEF Deliver, stopVars
    <3>2. CASE ~closed[q]
      BY <2>4, <3>2 DEF Deliver, stopVars
    <3> QED BY <3>1, <3>2
  <2>5. CASE CloseWait(q) \/ ConnLost(q)
    BY <2>5 DEF CloseWait, ConnLost, ConnFrame, queueVars
  <2>6. CASE ConnClosed(q)
    BY <2>6 DEF ConnClosed, ConnFrame, queueVars
  <2>7. CASE Dial(q) \/ DialEnds(q)
    BY <2>7 DEF Dial, DialEnds, ConnFrame, queueVars
  <2>8. CASE ExitTimer(q) \/ CloseStopChan(q) \/ Monitor(q)
    BY <2>8 DEF ExitTimer, CloseStopChan, Monitor, queueVars
  <2> QED BY <1>4, <2>1, <2>2, <2>3, <2>4, <2>5, <2>6, <2>7, <2>8 DEF Queue
<1>5. CASE UNCHANGED vars
  BY <1>5, <1>a DEF vars, queueVars, stopVars
<1> QED BY <1>1, <1>2, <1>3, <1>4, <1>5 DEF Next, Main, Exited

LEMMA StopInvStep == ASSUME IInv, [Next]_vars PROVE StopInv'
<1> USE DEF StopInv
<1>a. TypeOK /\ StopInv
  BY DEF IInv
<1>1. CASE MainStop \/ MainTick \/ MainSync \/ SendSignal \/ TimerFires
  BY <1>1, <1>a DEF MainStop, MainTick, MainSync, SendSignal, TimerFires, queueVars, stopVars
<1>2. CASE MainSignal
  BY <1>2, <1>a DEF MainSignal, GrantTime, Connected, queueVars, TypeOK
<1>3. CASE MainUnlock
  BY <1>3, <1>a DEF MainUnlock, AfterUnlock, stopVars
<1>4. ASSUME NEW q \in Queues, Queue(q) PROVE StopInv'
  <2> USE <1>a DEF TypeOK, Ended
  <2>1. CASE HandlerReceive(q)
    BY <2>1 DEF HandlerReceive, mainVars, stopVars
  <2>2. CASE HandlerRespond(q) \/ HandlerGivesUp(q)
    BY <2>2 DEF HandlerRespond, HandlerGivesUp, mainVars, stopVars
  <2>3. CASE HandlerExit(q)
    BY <2>3 DEF HandlerExit, mainVars
  <2>4. CASE Deliver(q)
    BY <2>4 DEF Deliver, stopVars
  <2>5. CASE CloseWait(q) \/ ConnLost(q) \/ ConnClosed(q) \/ Dial(q) \/ DialEnds(q)
    BY <2>5 DEF CloseWait, ConnLost, ConnClosed, Dial, DialEnds, ConnFrame, mainVars, queueVars
  <2>6. CASE ExitTimer(q)
    BY <2>6 DEF ExitTimer, mainVars, queueVars
  <2>7. CASE CloseStopChan(q)
    BY <2>7 DEF CloseStopChan, mainVars, queueVars
  <2>8. CASE Monitor(q)
    BY <2>8 DEF Monitor, mainVars, queueVars
  <2> QED BY <1>4, <2>1, <2>2, <2>3, <2>4, <2>5, <2>6, <2>7, <2>8 DEF Queue
<1>5. CASE UNCHANGED vars
  BY <1>5, <1>a DEF vars, mainVars, queueVars, stopVars
<1> QED BY <1>1, <1>2, <1>3, <1>4, <1>5 DEF Next, Main, Exited

-----------------------------------------------------------------------------
\* The inductive invariant of the run command's process.
THEOREM Invariant == Spec => []IInv
<1>1. IInv /\ [Next]_vars => IInv'
  BY TypeOKStep, LockInvStep, ConsumerInvStep, StopInvStep DEF IInv
<1> QED BY InitIInv, <1>1, PTL DEF Spec

\* Type correctness: a consumer never holds more than two messages, one with
\* its handler and one in the hands of the read loop.
THEOREM TypeCorrect == Spec => []TypeOK
<1>1. IInv => TypeOK
  BY DEF IInv
<1> QED BY <1>1, Invariant, PTL

\* The write lock really pauses all queue processing during a synchronization.
THEOREM MutualExclusion == Spec => []PauseExcludesHandlers
<1>1. IInv => PauseExcludesHandlers
  BY DEF IInv, LockInv, PauseExcludesHandlers, Readers
<1> QED BY <1>1, Invariant, PTL

\* A paused handler always has a writer to wait for.
THEOREM NoHandlerForgotten == Spec => []NoLostWakeup
<1>1. IInv => NoLostWakeup
  BY DEF IInv, TypeOK, LockInv, NoLostWakeup, Ended
<1> QED BY <1>1, Invariant, PTL

\* Stopping a consumer never closes the channel under a message it has read.
THEOREM CloseIsSafe == Spec => []ClosedAfterLastMessage
<1>1. IInv => ClosedAfterLastMessage
  BY DEF IInv, ConsumerInv, ClosedAfterLastMessage
<1> QED BY <1>1, Invariant, PTL

\* The process returns only after every handler has ended or timed out.
THEOREM GracefulExit == Spec => []ExitIsGraceful
<1>1. IInv => ExitIsGraceful
  BY DEF IInv, StopInv, ExitIsGraceful
<1> QED BY <1>1, Invariant, PTL
=============================================================================
