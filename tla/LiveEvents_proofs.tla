------------------------- MODULE LiveEvents_proofs -------------------------
(***************************************************************************)
(* Proofs about LiveEvents, for any items and any number of events,        *)
(* attempts, faults and synchronizations.                                  *)
(***************************************************************************)
EXTENDS LiveEvents, SequenceTheorems, TLAPS

-----------------------------------------------------------------------------
(* The inductive invariant. *)

\* GitHub's versions, and that only what has had an event is open.
World ==
    /\ \A i \in Items : github[i] > 0 => <<i, github[i]>> \in Event
    /\ \A i \in open : github[i] > 0

\* What the handler has done when it is at a step of the cascade.
Cascade ==
    /\ pc \in {"labels", "live", "state", "snapshot"} => Kind[Item] # "ignored"
    /\ pc \in {"state", "snapshot"} => Kind[Item] # "other" /\ current[1] \in live
    /\ pc = "snapshot" => current[1] \in stateEver

\* A synchronization keeps the handler out, and nothing is left of one that has ended.
\* What it still has to read, and what it has read, are different items, each in one
\* version.
SyncAlone ==
    /\ sync => ~Inside
    /\ ~sync => unread = {} /\ todo = {} /\ synced = {}
    /\ unread \subseteq Tracked
    /\ \A r \in todo \cup synced : r[1] \notin unread
    /\ \A r, q \in todo \cup synced : r[1] = q[1] => r = q

\* Only what has happened is delivered, handled or read.
Known ==
    /\ \A e \in Event : nsqd[e] # "unpublished" => e[2] <= github[e[1]]
    /\ \A k \in 1..Len(arrived) : nsqd[arrived[k][1]] # "unpublished"
    /\ pc # "idle" => nsqd[current[1]] # "unpublished"
    /\ \A r \in todo : r[2] <= github[r[1]]

\* Nothing comes between a handler's write into the state index and the next one.
StateIsCurrent == pc = "snapshot" => state[Item] = Version

\* The handler has been through an attempt at the event.
Tried(e) == Stored(e) \/ e \in failed

\* It is the handler's, now.
Handling(e) == pc # "idle" /\ current[1] = e

\* There has been an attempt, or the first delivery is in the handler's hand or among
\* the first n that have arrived and wait.
Came(e, n) ==
    \/ Tried(e)
    \/ Handling(e)
    \/ \E k \in 1..Len(arrived) : k <= n /\ arrived[k] = <<e, 1>>

\* As long as the process lives, the first delivery of an event comes before all
\* others: when it neither waits nor is being handled, there has been an attempt.
FirstComesFirst ==
    crashes = 0 =>
        \A e \in Event :
            /\ attempts[e] > 0 => \E n \in Nat : Came(e, n)
            /\ \A k \in 1..Len(arrived) : arrived[k][1] = e => Came(e, k)

IInv ==
    /\ TypeOK
    /\ World
    /\ Cascade
    /\ SyncAlone
    /\ Known
    /\ StateIsCurrent
    /\ SyncNotOverwritten
    /\ FinishedIsStored
    /\ FirstComesFirst
    /\ NeverDroppedUntried

-----------------------------------------------------------------------------
(* Facts about the operators of the model. *)

LEMMA EventType ==
    /\ \A e \in Event : e[1] \in Items /\ e[2] \in 1..MaxVersion /\ e = <<e[1], e[2]>>
    /\ \A e \in Event : Kind[e[1]] \in Kinds
    /\ Tracked \subseteq Items
BY ConstantsAssumption DEF Event, Tracked

LEMMA TrackedEvent == ASSUME NEW i \in Items, NEW v, <<i, v>> \in Event PROVE v \in 1..MaxVersion
BY EventType

\* The handler's steps leave alone what does not belong to it.
LEMMA HandlerFrames ==
    Handler => HandlerFrame
BY DEF Handler, Take, Lock, FetchLabels, StoreLive, StoreState, StoreSnapshot

\* A delivery that the consumer takes from the front.
LEMMA TakeFirst ==
    ASSUME TypeOK, arrived # <<>>
    PROVE  /\ Head(arrived) = arrived[1]
           /\ Head(arrived) \in Event \X Nat
           /\ Tail(arrived) \in Seq(Event \X Nat)
           /\ Len(arrived) \in Nat \ {0}
           /\ Len(Tail(arrived)) = Len(arrived) - 1
           /\ \A k \in 1..Len(Tail(arrived)) : Tail(arrived)[k] = arrived[k + 1]
<1>1. arrived \in Seq(Event \X Nat)
  BY DEF TypeOK
<1> QED BY <1>1, HeadTailProperties, EmptySeq

\* A version of an item is, or is not, written into an index.
LEMMA VersionWritten ==
    ASSUME NEW index \in [Items -> 0..MaxVersion], NEW i \in Items, NEW v \in 1..MaxVersion,
           NEW written, written = index \/ written = [index EXCEPT ![i] = v]
    PROVE  written \in [Items -> 0..MaxVersion]
<1>1. v \in 0..MaxVersion
  BY ConstantsAssumption
<1> QED BY <1>1

\* What the handler holds.
LEMMA InHand ==
    ASSUME TypeOK, pc # "idle"
    PROVE  /\ current \in Event \X Nat /\ current[1] \in Event
           /\ Item \in Items /\ Version \in 1..MaxVersion
           /\ current[1] = <<Item, Version>>
           /\ Kind[Item] \in Kinds
BY EventType DEF TypeOK, Item, Version

-----------------------------------------------------------------------------
(* Type correctness. *)

LEMMA InitType == Init => TypeOK
<1> SUFFICES ASSUME Init PROVE TypeOK
  OBVIOUS
<1>1. github \in [Items -> 0..MaxVersion] /\ state \in [Items -> 0..MaxVersion] /\ snapshot \in [Items -> 0..MaxVersion]
  BY ConstantsAssumption DEF Init
<1>2. attempts \in [Event -> Nat] /\ nsqd \in [Event -> {"unpublished", "queued", "inFlight", "finished"}]
  BY DEF Init
<1>3. arrived \in Seq(Event \X Nat)
  BY DEF Init
<1> QED BY <1>1, <1>2, <1>3 DEF Init, TypeOK, NoDelivery

LEMMA TypeStep == ASSUME TypeOK, World, Cascade, SyncAlone, [Next]_vars PROVE TypeOK'
<1> USE ConstantsAssumption, EventType
<1> USE DEF worldVars, nsqVars, workVars, esVars, syncVars, histVars
<1>1. ASSUME NEW i \in Items, Happens(i) PROVE TypeOK'
  <2>1. github[i] + 1 \in 1..MaxVersion /\ <<i, github[i] + 1>> \in Event
    BY <1>1, TrackedEvent DEF Happens
  <2>2. github' \in [Items -> 0..MaxVersion] /\ open' \subseteq Items
    <3>1. github' = [github EXCEPT ![i] = github[i] + 1] /\ open' \subseteq Items
      BY <1>1 DEF Happens, TypeOK
    <3> QED BY SMTT(30), <2>1, <3>1 DEF TypeOK
  <2>3. nsqd' \in [Event -> {"unpublished", "queued", "inFlight", "finished"}]
    BY <1>1, <2>1 DEF Happens, TypeOK
  <2> QED BY <1>1, <2>2, <2>3 DEF Happens, TypeOK
<1>2. ASSUME NEW e \in Event, Deliver(e) PROVE TypeOK'
  <2>1. attempts' \in [Event -> Nat] /\ attempts'[e] \in Nat
    BY SMTT(30), <1>2 DEF Deliver, TypeOK
  <2>2. arrived' \in Seq(Event \X Nat)
    BY <1>2, <2>1, AppendProperties DEF Deliver, TypeOK
  <2> QED BY <1>2, <2>1, <2>2 DEF Deliver, TypeOK
<1>3. ASSUME NEW e \in Event, Timeout(e) PROVE TypeOK'
  <2>1. timeouts' \in Nat
    BY SMTT(30), <1>3 DEF Timeout, TypeOK
  <2>2. nsqd' \in [Event -> {"unpublished", "queued", "inFlight", "finished"}]
    BY <1>3 DEF Timeout, TypeOK
  <2> QED BY <1>3, <2>1, <2>2 DEF Timeout, TypeOK
<1>4. ASSUME Handler PROVE TypeOK'
  <2> USE DEF HandlerFrame
  <2>1. CASE Take
    <3>1. Head(arrived) \in Event \X Nat /\ Tail(arrived) \in Seq(Event \X Nat) /\ Head(arrived)[1] \in Event
      BY <2>1, TakeFirst DEF Take
    <3> QED BY <2>1, <3>1 DEF Take, Finish, TypeOK
  <2>2. ASSUME pc # "idle" PROVE current \in Event \X Nat /\ current[1] \in Event /\ Item \in Items /\ Version \in 1..MaxVersion
    BY <2>2, InHand
  <2>3. CASE Lock
    BY <2>2, <2>3 DEF Lock, Succeed, Finish, GoTo, NoDelivery, TypeOK
  <2>4. CASE FetchLabels
    BY <2>2, <2>4 DEF FetchLabels, Fail, Requeue, GoTo, NoDelivery, TypeOK
  <2>5. CASE StoreLive
    BY <2>2, <2>5 DEF StoreLive, Succeed, Fail, Finish, Requeue, GoTo, NoDelivery, TypeOK
  <2>6. CASE StoreState
    <3>0. pc # "idle"
      BY <2>6 DEF StoreState
    <3>a. state' = state \/ state' = [state EXCEPT ![Item] = Version]
      BY <2>6 DEF StoreState, WriteState
    <3>b. state' \in [Items -> 0..MaxVersion]
      <4>1. state \in [Items -> 0..MaxVersion]
        BY DEF TypeOK
      <4>2. Item \in Items /\ Version \in 1..MaxVersion
        BY <2>2, <3>0
      <4> QED BY <3>a, <4>1, <4>2, VersionWritten, Zenon
    <3>c. stateEver' \subseteq Event
      BY <2>2, <2>6, <3>0 DEF StoreState, WriteState, TypeOK
    <3>1. state' \in [Items -> 0..MaxVersion] /\ stateEver' \subseteq Event
      BY <3>b, <3>c
    <3>2. GoTo("snapshot") \/ Fail
      BY <2>6 DEF StoreState
    <3> QED BY <2>2, <2>6, <3>1, <3>2 DEF StoreState, Fail, Requeue, GoTo, NoDelivery, TypeOK
  <2>7. CASE StoreSnapshot
    <3>0. pc # "idle"
      BY <2>7 DEF StoreSnapshot
    <3>a. snapshot' = snapshot \/ snapshot' = [snapshot EXCEPT ![Item] = Version]
      BY <2>7 DEF StoreSnapshot, WriteSnapshot
    <3>b. snapshot' \in [Items -> 0..MaxVersion]
      <4>1. snapshot \in [Items -> 0..MaxVersion]
        BY DEF TypeOK
      <4>2. Item \in Items /\ Version \in 1..MaxVersion
        BY <2>2, <3>0
      <4> QED BY <3>a, <4>1, <4>2, VersionWritten, Zenon
    <3>c. snapshotEver' \subseteq Event
      BY <2>2, <2>7, <3>0 DEF StoreSnapshot, WriteSnapshot, TypeOK
    <3>1. snapshot' \in [Items -> 0..MaxVersion] /\ snapshotEver' \subseteq Event
      BY <3>b, <3>c
    <3>2. Succeed \/ Fail
      BY <2>7 DEF StoreSnapshot
    <3> QED BY <2>2, <2>7, <3>1, <3>2 DEF StoreSnapshot, Succeed, Fail, Finish, Requeue, NoDelivery, TypeOK
  <2> QED BY <1>4, <2>1, <2>3, <2>4, <2>5, <2>6, <2>7 DEF Handler
<1>5. ASSUME Crash PROVE TypeOK'
  <2>1. nsqd' \in [Event -> {"unpublished", "queued", "inFlight", "finished"}]
    BY <1>5 DEF Crash, TypeOK
  <2>2. arrived' \in Seq(Event \X Nat) /\ crashes' \in Nat
    BY <1>5 DEF Crash, TypeOK
  <2> QED BY <1>5, <2>1, <2>2 DEF Crash, NoDelivery, TypeOK
<1>6. ASSUME SyncStart PROVE TypeOK'
  BY SMTT(30), <1>6 DEF SyncStart, SyncFrame, TypeOK
<1>7. ASSUME NEW i \in Items, SyncRead(i) PROVE TypeOK'
  <2>1. i \in open => <<i, github[i]>> \in Event
    BY DEF World
  <2> QED BY <1>7, <2>1 DEF SyncRead, SyncFrame, TypeOK
<1>8. ASSUME NEW r \in Event, SyncStore(r) PROVE TypeOK'
  <2>0. r[1] \in Items /\ r[2] \in 1..MaxVersion
    OBVIOUS
  <2>a. state' = state \/ state' = [state EXCEPT ![r[1]] = r[2]]
    BY <1>8 DEF SyncStore
  <2>b. snapshot' = snapshot \/ snapshot' = [snapshot EXCEPT ![r[1]] = r[2]]
    BY <1>8 DEF SyncStore
  <2>1. state' \in [Items -> 0..MaxVersion] /\ snapshot' \in [Items -> 0..MaxVersion]
    <3>1. state \in [Items -> 0..MaxVersion] /\ snapshot \in [Items -> 0..MaxVersion]
      BY DEF TypeOK
    <3> QED BY <2>0, <2>a, <2>b, <3>1, VersionWritten, Zenon
  <2>2. stateEver' \subseteq Event /\ snapshotEver' \subseteq Event /\ synced' \subseteq Event
    BY <1>8 DEF SyncStore, TypeOK
  <2> QED BY <1>8, <2>1, <2>2 DEF SyncStore, SyncFrame, TypeOK
<1>9. ASSUME SyncEnd PROVE TypeOK'
  BY <1>9 DEF SyncEnd, SyncFrame, TypeOK
<1>10. ASSUME UNCHANGED vars PROVE TypeOK'
  BY <1>10 DEF vars, TypeOK
<1> QED BY <1>1, <1>2, <1>3, <1>4, <1>5, <1>6, <1>7, <1>8, <1>9, <1>10 DEF Next, Sync, Done

-----------------------------------------------------------------------------
(* What a step does to what the properties are about. *)

\* Indices and histories only grow.
LEMMA Grows ==
    ASSUME TypeOK, [Next]_vars
    PROVE  /\ live \subseteq live' /\ stateEver \subseteq stateEver' /\ snapshotEver \subseteq snapshotEver'
           /\ failed \subseteq failed' /\ dropped \subseteq dropped'
           /\ crashes' >= crashes /\ crashes \in Nat /\ crashes' \in Nat
<1> USE DEF worldVars, nsqVars, workVars, esVars, syncVars, histVars
<1>1. ASSUME NEW i \in Items, Happens(i) PROVE UNCHANGED <<esVars, histVars, crashes>>
  BY <1>1 DEF Happens
<1>2. ASSUME NEW e \in Event, Deliver(e) \/ Timeout(e) PROVE UNCHANGED <<esVars, histVars, crashes>>
  BY <1>2 DEF Deliver, Timeout
<1>3. ASSUME Handler
      PROVE  /\ live \subseteq live' /\ stateEver \subseteq stateEver' /\ snapshotEver \subseteq snapshotEver'
             /\ failed \subseteq failed' /\ dropped \subseteq dropped' /\ crashes' = crashes
  <2>1. crashes' = crashes
    BY <1>3, HandlerFrames DEF HandlerFrame
  <2>2. CASE Take
    BY <2>1, <2>2 DEF Take
  <2>3. CASE Lock
    BY <2>1, <2>3 DEF Lock, Succeed, GoTo
  <2>4. CASE FetchLabels
    BY <2>1, <2>4 DEF FetchLabels, Fail, GoTo
  <2>5. CASE StoreLive
    BY <2>1, <2>5 DEF StoreLive, Succeed, Fail, GoTo
  <2>6. CASE StoreState
    BY <2>1, <2>6 DEF StoreState, WriteState, Fail, GoTo
  <2>7. CASE StoreSnapshot
    BY <2>1, <2>7 DEF StoreSnapshot, WriteSnapshot, Succeed, Fail
  <2> QED BY <1>3, <2>2, <2>3, <2>4, <2>5, <2>6, <2>7 DEF Handler
<1>4. ASSUME Crash PROVE UNCHANGED <<esVars, histVars>> /\ crashes' = crashes + 1
  BY <1>4 DEF Crash
<1>5. ASSUME SyncStart \/ Sync
      PROVE  /\ live' = live /\ stateEver \subseteq stateEver' /\ snapshotEver \subseteq snapshotEver'
             /\ UNCHANGED <<histVars, crashes>>
  BY <1>5 DEF SyncStart, Sync, SyncRead, SyncStore, SyncEnd, SyncFrame
<1>6. crashes \in Nat
  BY DEF TypeOK
<1> QED BY <1>1, <1>2, <1>3, <1>4, <1>5, <1>6 DEF Next, Done, vars

\* What is stored stays stored, and what was tried stays tried.
LEMMA StaysStored ==
    ASSUME TypeOK, [Next]_vars, NEW e \in Event
    PROVE  (Stored(e) => Stored(e)') /\ (Tried(e) => Tried(e)')
BY Grows DEF Stored, Tried

\* A handler at work goes on with the delivery in hand, answers it with an error, or
\* answers it after all the indices it is for have had it.
LEMMA AtWork ==
    ASSUME TypeOK, Cascade, Handler, pc # "idle", NEW e \in Event, e = current[1]
    PROVE  /\ UNCHANGED <<arrived, attempts, dropped>>
           /\ \/ pc' # "idle" /\ UNCHANGED <<current, nsqd>>
              \/ pc' = "idle" /\ e \in failed' /\ Requeue(e)
              \/ pc' = "idle" /\ Stored(e)' /\ Finish(e)
<1> USE DEF workVars, esVars, histVars
<1>1. e[1] = Item /\ Kind[Item] \in Kinds
  BY InHand DEF Item
<1>2. attempts' = attempts
  BY HandlerFrames DEF HandlerFrame
<1>3. CASE Lock
  BY <1>1, <1>2, <1>3 DEF Lock, Succeed, GoTo, Stored
<1>4. CASE FetchLabels
  BY <1>2, <1>4 DEF FetchLabels, Fail, GoTo
<1>5. CASE StoreLive
  <2>1. arrived' = arrived
    BY <1>5 DEF StoreLive
  <2>2. CASE Fail
    BY <1>2, <2>1, <2>2 DEF Fail
  <2>3. CASE live' = live \cup {current[1]} /\ Kind[Item] = "other" /\ Succeed
    BY <1>1, <1>2, <2>1, <2>3 DEF Succeed, Stored
  <2>4. CASE GoTo("state")
    BY <1>2, <2>1, <2>4 DEF GoTo
  <2> QED BY <1>5, <2>2, <2>3, <2>4 DEF StoreLive
<1>6. CASE StoreState
  BY <1>2, <1>6 DEF StoreState, Fail, GoTo
<1>7. CASE StoreSnapshot
  <2>1. arrived' = arrived /\ live' = live /\ stateEver' = stateEver /\ e \in live /\ e \in stateEver
    BY <1>7 DEF StoreSnapshot, Cascade
  <2>2. CASE Fail
    BY <1>2, <2>1, <2>2 DEF Fail
  <2>3. CASE WriteSnapshot /\ Succeed
    BY <1>2, <2>1, <2>3 DEF WriteSnapshot, Succeed, Stored
  <2> QED BY <1>7, <2>2, <2>3 DEF StoreSnapshot
<1> QED BY <1>3, <1>4, <1>5, <1>6, <1>7 DEF Handler, Take

-----------------------------------------------------------------------------
(* Every step keeps the invariant. *)

LEMMA WorldStep == ASSUME TypeOK, World, [Next]_vars PROVE World'
<1> USE DEF worldVars, nsqVars, workVars, esVars, syncVars, histVars
<1>1. ASSUME NEW i \in Items, Happens(i) PROVE World'
  <2>1. github' = [github EXCEPT ![i] = github[i] + 1] /\ <<i, github[i] + 1>> \in Event
    BY <1>1 DEF Happens
  <2>2. \A j \in Items : github[j] \in Nat
    BY ConstantsAssumption DEF TypeOK
  <2>3. open' \subseteq open \cup {i} /\ open \subseteq Items
    BY <1>1 DEF Happens, TypeOK
  <2>4. github'[i] = github[i] + 1 /\ \A j \in Items \ {i} : github'[j] = github[j]
    BY <2>1 DEF TypeOK
  <2> QED BY <2>1, <2>2, <2>3, <2>4 DEF World
<1>2. ASSUME ~ \E i \in Items : Happens(i) PROVE worldVars' = worldVars
  <2>1. Handler => worldVars' = worldVars
    BY HandlerFrames DEF HandlerFrame
  <2> QED BY <1>2, <2>1 DEF Next, Done, vars, Deliver, Timeout, Crash, SyncStart, Sync, SyncRead, SyncStore, SyncEnd, SyncFrame
<1> QED BY <1>1, <1>2 DEF World

LEMMA CascadeStep == ASSUME TypeOK, Cascade, [Next]_vars PROVE Cascade'
<1> USE DEF worldVars, nsqVars, workVars, esVars, syncVars, histVars
<1>1. live \subseteq live' /\ stateEver \subseteq stateEver'
  BY Grows
<1>2. ASSUME UNCHANGED workVars PROVE Cascade'
  BY <1>1, <1>2 DEF Cascade, Item
<1>3. ASSUME Handler PROVE Cascade'
  <2>1. CASE Take
    BY <1>2, <2>1 DEF Take, Cascade
  <2>2. CASE Lock
    BY <2>2 DEF Lock, Succeed, GoTo, Cascade, Item
  <2>3. CASE FetchLabels
    <3>1. Kind[Item] # "ignored"
      BY <2>3 DEF FetchLabels, Cascade
    <3> QED BY <2>3, <3>1 DEF FetchLabels, Fail, GoTo, Cascade, Item
  <2>4. CASE StoreLive
    BY <2>4 DEF StoreLive, Succeed, Fail, GoTo, Cascade, Item
  <2>5. CASE StoreState
    BY <2>5 DEF StoreState, WriteState, Fail, GoTo, Cascade, Item
  <2>6. CASE StoreSnapshot
    BY <2>6 DEF StoreSnapshot, Succeed, Fail, Cascade
  <2> QED BY <1>3, <2>1, <2>2, <2>3, <2>4, <2>5, <2>6 DEF Handler
<1>4. CASE Crash
  BY <1>4 DEF Crash, Cascade
<1>5. ASSUME ~Handler, ~Crash PROVE UNCHANGED workVars
  BY <1>5 DEF Next, Done, vars, Happens, Deliver, Timeout, SyncStart, Sync, SyncRead, SyncStore, SyncEnd, SyncFrame
<1> QED BY <1>2, <1>3, <1>4, <1>5

\* No step of the handler writes while a synchronization runs, nor lets it in.
LEMMA HandlerOutside ==
    ASSUME TypeOK, SyncAlone, Handler
    PROVE  /\ UNCHANGED syncVars
           /\ sync => ~Inside' /\ state' = state /\ snapshot' = snapshot
<1> USE DEF workVars, esVars
<1>1. UNCHANGED syncVars
  BY HandlerFrames DEF HandlerFrame
<1>2. CASE Take
  BY <1>1, <1>2 DEF Take, SyncAlone, Inside
<1>3. CASE ~Take
  <2>1. ~sync
    BY <1>3 DEF Handler, Lock, FetchLabels, StoreLive, StoreState, StoreSnapshot, SyncAlone, Inside
  <2> QED BY <1>1, <2>1
<1> QED BY <1>2, <1>3

LEMMA SyncStep ==
    ASSUME TypeOK, SyncAlone, SyncNotOverwritten, [Next]_vars
    PROVE  SyncAlone' /\ SyncNotOverwritten'
<1> USE DEF worldVars, nsqVars, workVars, esVars, syncVars, histVars
<1>1. ASSUME UNCHANGED <<workVars, syncVars, state, snapshot>> PROVE SyncAlone' /\ SyncNotOverwritten'
  BY <1>1 DEF SyncAlone, SyncNotOverwritten, Inside
<1>2. CASE Handler
  <2>1. ~sync => synced = {}
    BY DEF SyncAlone
  <2> QED BY <1>2, <2>1, HandlerOutside DEF SyncAlone, SyncNotOverwritten
<1>3. CASE Crash
  BY <1>3 DEF Crash, SyncAlone, SyncNotOverwritten
<1>4. CASE SyncStart
  <2>1. UNCHANGED <<workVars, state, snapshot, todo, synced>> /\ sync' /\ ~Inside /\ unread' = Tracked
    BY <1>4 DEF SyncStart, SyncFrame
  <2>2. todo = {} /\ synced = {}
    BY <1>4 DEF SyncStart, SyncAlone
  <2> QED BY <2>1, <2>2 DEF SyncAlone, SyncNotOverwritten, Inside
<1>5. ASSUME NEW i \in Items, SyncRead(i) PROVE SyncAlone' /\ SyncNotOverwritten'
  <2>1. UNCHANGED <<workVars, state, snapshot, sync, synced>> /\ i \in unread /\ unread' = unread \ {i}
    BY <1>5 DEF SyncRead, SyncFrame
  <2>2. todo' = todo \/ todo' = todo \cup {<<i, github[i]>>}
    BY <1>5 DEF SyncRead
  <2>3. sync
    BY <2>1 DEF SyncAlone
  <2>4. \A r \in todo \cup synced : r[1] # i
    BY <2>1 DEF SyncAlone
  <2>5. <<i, github[i]>>[1] = i
    OBVIOUS
  <2>6. SyncNotOverwritten'
    BY <2>1 DEF SyncNotOverwritten
  <2>7. \A r \in (todo \cup synced)' : r \in todo \cup synced \/ r = <<i, github[i]>>
    BY <2>1, <2>2
  <2>8. \A r \in (todo \cup synced)' : r[1] \notin unread'
    BY <2>1, <2>5, <2>7 DEF SyncAlone
  <2>9. \A r, q \in (todo \cup synced)' : r[1] = q[1] => r = q
    BY <2>4, <2>5, <2>7 DEF SyncAlone
  <2> QED BY <2>1, <2>3, <2>6, <2>8, <2>9 DEF SyncAlone, Inside
<1>6. ASSUME NEW r \in Event, SyncStore(r) PROVE SyncAlone' /\ SyncNotOverwritten'
  <2>1. UNCHANGED <<workVars, sync, unread>> /\ r \in todo /\ todo' = todo \ {r}
    BY <1>6 DEF SyncStore, SyncFrame
  <2>2. state' = state \/ state' = [state EXCEPT ![r[1]] = r[2]]
    BY <1>6 DEF SyncStore
  <2>3. \/ snapshot' = snapshot /\ synced' = synced
        \/ snapshot' = [snapshot EXCEPT ![r[1]] = r[2]] /\ state'[r[1]] = r[2] /\ synced' = synced \cup {r}
    BY <1>6 DEF SyncStore
  <2>4. (todo \cup synced)' \subseteq todo \cup synced
    BY <2>1, <2>3
  <2>5. sync
    BY <2>1 DEF SyncAlone
  <2>6. SyncAlone'
    BY <2>1, <2>4, <2>5 DEF SyncAlone, Inside
  <2>7. state \in [Items -> 0..MaxVersion] /\ snapshot \in [Items -> 0..MaxVersion] /\ r[1] \in Items
    BY EventType DEF TypeOK
  <2>8. ASSUME NEW q \in synced PROVE state'[q[1]] = q[2] /\ snapshot'[q[1]] = q[2]
    <3>1. q[1] = r[1] => q = r
      BY <2>1 DEF SyncAlone
    <3>2. state[q[1]] = q[2] /\ snapshot[q[1]] = q[2] /\ q[1] \in Items
      BY EventType DEF SyncNotOverwritten, TypeOK
    <3> QED BY <2>2, <2>3, <2>7, <3>1, <3>2
  <2>9. ASSUME r \in synced' PROVE state'[r[1]] = r[2] /\ snapshot'[r[1]] = r[2]
    BY <2>3, <2>7, <2>8, <2>9
  <2> QED BY <2>3, <2>6, <2>8, <2>9 DEF SyncNotOverwritten
<1>7. CASE SyncEnd
  BY <1>7 DEF SyncEnd, SyncFrame, SyncAlone, SyncNotOverwritten
<1>8. ASSUME NEW i \in Items, Happens(i) PROVE UNCHANGED <<workVars, syncVars, state, snapshot>>
  BY <1>8 DEF Happens
<1>9. ASSUME NEW e \in Event, Deliver(e) \/ Timeout(e) PROVE UNCHANGED <<workVars, syncVars, state, snapshot>>
  BY <1>9 DEF Deliver, Timeout
<1> QED BY <1>1, <1>2, <1>3, <1>4, <1>5, <1>6, <1>7, <1>8, <1>9 DEF Next, Sync, Done, vars

\* Once published a message stays so.
LEMMA StaysPublished ==
    ASSUME TypeOK, [Next]_vars, NEW e \in Event, nsqd[e] # "unpublished"
    PROVE  nsqd'[e] # "unpublished"
<1> USE DEF worldVars, nsqVars, workVars, esVars, syncVars, histVars
<1>0. nsqd \in [Event -> {"unpublished", "queued", "inFlight", "finished"}]
  BY DEF TypeOK
<1>1. ASSUME NEW i \in Items, Happens(i) PROVE nsqd'[e] # "unpublished"
  <2>1. <<i, github[i] + 1>> \in Event /\ nsqd' = [nsqd EXCEPT ![<<i, github'[i]>>] = "queued"]
    BY <1>1 DEF Happens
  <2> QED BY <1>0, <2>1
<1>2. ASSUME NEW d \in Event, Deliver(d) \/ Timeout(d) PROVE nsqd'[e] # "unpublished"
  BY <1>0, <1>2 DEF Deliver, Timeout
<1>3. ASSUME NEW d, Finish(d) \/ Requeue(d) PROVE nsqd'[e] # "unpublished"
  BY <1>0, <1>3 DEF Finish, Requeue
<1>4. CASE Handler
  <2>1. nsqd' = nsqd \/ \E d : Finish(d) \/ Requeue(d)
    BY <1>4 DEF Handler, Take, Lock, FetchLabels, StoreLive, StoreState, StoreSnapshot, Succeed, Fail, GoTo
  <2> QED BY <1>3, <2>1
<1>5. CASE Crash
  BY <1>0, <1>5 DEF Crash
<1>6. ASSUME SyncStart \/ Sync \/ UNCHANGED vars PROVE nsqd' = nsqd
  BY <1>6 DEF vars, SyncStart, Sync, SyncRead, SyncStore, SyncEnd, SyncFrame
<1> QED BY <1>1, <1>2, <1>4, <1>5, <1>6 DEF Next, Done

\* The version of an item only grows.
LEMMA VersionsGrow ==
    ASSUME TypeOK, [Next]_vars, NEW i \in Items
    PROVE  github[i] \in Nat /\ github'[i] \in Nat /\ github[i] <= github'[i]
<1> USE DEF worldVars, nsqVars, workVars, esVars, syncVars, histVars
<1>0. github \in [Items -> 0..MaxVersion] /\ github[i] \in Nat
  BY ConstantsAssumption DEF TypeOK
<1>1. ASSUME NEW j \in Items, Happens(j) PROVE github'[i] = github[i] \/ github'[i] = github[i] + 1
  BY <1>0, <1>1 DEF Happens
<1>2. ASSUME ~ \E j \in Items : Happens(j) PROVE github' = github
  <2>1. Handler => github' = github
    BY HandlerFrames DEF HandlerFrame
  <2> QED BY <1>2, <2>1 DEF Next, Done, vars, Deliver, Timeout, Crash, SyncStart, Sync, SyncRead, SyncStore, SyncEnd, SyncFrame
<1> QED BY <1>0, <1>1, <1>2

LEMMA KnownStep == ASSUME TypeOK, World, Cascade, Known, [Next]_vars PROVE Known'
<1> USE DEF worldVars, nsqVars, workVars, esVars, syncVars, histVars
<1>0. nsqd \in [Event -> {"unpublished", "queued", "inFlight", "finished"}] /\ github \in [Items -> 0..MaxVersion]
  BY DEF TypeOK
<1>1. ASSUME NEW e \in Event, nsqd'[e] # "unpublished" PROVE e[2] <= github'[e[1]]
  <2>1. e[1] \in Items /\ e[2] \in Nat
    BY EventType, ConstantsAssumption
  <2>2. CASE nsqd[e] # "unpublished"
    <3>1. e[2] <= github[e[1]]
      BY <2>2 DEF Known
    <3> QED BY <2>1, <3>1, VersionsGrow
  <2>3. CASE nsqd[e] = "unpublished"
    <3>1. ASSUME NEW i \in Items, Happens(i) PROVE e[2] <= github'[e[1]]
      <4>1. nsqd' = [nsqd EXCEPT ![<<i, github'[i]>>] = "queued"]
        BY <3>1 DEF Happens
      <4>2. e = <<i, github'[i]>>
        BY <1>0, <1>1, <2>3, <4>1
      <4> QED BY <2>1, <4>2
    <3>2. ASSUME NEW d \in Event, Deliver(d) \/ Timeout(d) PROVE FALSE
      BY <1>0, <1>1, <2>3, <3>2 DEF Deliver, Timeout
    <3>3. ASSUME NEW d, Finish(d) \/ Requeue(d) PROVE FALSE
      BY <1>0, <1>1, <2>3, <3>3 DEF Finish, Requeue
    <3>4. CASE Handler
      <4>1. nsqd' = nsqd \/ \E d : Finish(d) \/ Requeue(d)
        BY <3>4 DEF Handler, Take, Lock, FetchLabels, StoreLive, StoreState, StoreSnapshot, Succeed, Fail, GoTo
      <4> QED BY <1>1, <2>3, <3>3, <4>1
    <3>5. CASE Crash
      BY <1>0, <1>1, <2>3, <3>5 DEF Crash
    <3>6. ASSUME SyncStart \/ Sync \/ UNCHANGED vars PROVE nsqd' = nsqd
      BY <3>6 DEF vars, SyncStart, Sync, SyncRead, SyncStore, SyncEnd, SyncFrame
    <3> QED BY <1>1, <2>3, <3>1, <3>2, <3>4, <3>5, <3>6 DEF Next, Done
  <2> QED BY <2>2, <2>3
<1>2. ASSUME NEW k \in 1..Len(arrived') PROVE nsqd'[arrived'[k][1]] # "unpublished"
  <2>0. arrived \in Seq(Event \X Nat) /\ Len(arrived) \in Nat
    BY LenProperties DEF TypeOK
  <2>1. ASSUME NEW j \in 1..Len(arrived) PROVE nsqd'[arrived[j][1]] # "unpublished"
    <3>1. arrived[j][1] \in Event /\ nsqd[arrived[j][1]] # "unpublished"
      BY <2>0 DEF Known
    <3> QED BY <3>1, StaysPublished
  <2>2. ASSUME NEW e \in Event, Deliver(e) PROVE nsqd'[arrived'[k][1]] # "unpublished"
    <3>1. PICK n : n = attempts'[e]
      OBVIOUS
    <3>2. arrived' = Append(arrived, <<e, n>>) /\ nsqd'[e] = "inFlight" /\ n \in Nat
      BY <1>0, <2>2, <3>1 DEF Deliver, TypeOK
    <3>3. /\ Len(arrived') = Len(arrived) + 1 /\ arrived'[Len(arrived) + 1] = <<e, n>>
          /\ \A j \in 1..Len(arrived) : arrived'[j] = arrived[j]
      BY <2>0, <3>2, AppendProperties
    <3>4. k \in 1..Len(arrived) \/ k = Len(arrived) + 1
      BY <2>0, <3>3
    <3> QED BY <2>1, <3>2, <3>3, <3>4
  <2>3. CASE Take
    <3>1. Len(arrived') = Len(arrived) - 1 /\ arrived'[k] = arrived[k + 1] /\ k + 1 \in 1..Len(arrived)
      BY <2>0, <2>3, TakeFirst DEF Take
    <3> QED BY <2>1, <3>1
  <2>4. CASE Crash
    BY <2>4 DEF Crash
  <2>5. ASSUME ~Take, ~Crash, ~ \E e \in Event : Deliver(e) PROVE arrived' = arrived
    BY <2>5 DEF Next, Done, vars, Happens, Timeout, SyncStart, Sync, SyncRead, SyncStore, SyncEnd, SyncFrame,
                Handler, Lock, FetchLabels, StoreLive, StoreState, StoreSnapshot
  <2> QED BY <2>1, <2>2, <2>3, <2>4, <2>5
<1>3. ASSUME pc' # "idle" PROVE nsqd'[current'[1]] # "unpublished"
  <2>1. CASE Take
    <3>1. \/ current' = arrived[1] /\ arrived[1][1] \in Event /\ nsqd[arrived[1][1]] # "unpublished"
          \/ UNCHANGED workVars /\ pc = "idle"
      <4>1. Head(arrived) = arrived[1] /\ arrived[1][1] \in Event /\ nsqd[arrived[1][1]] # "unpublished"
        BY <2>1, TakeFirst DEF Take, Known
      <4> QED BY <2>1, <4>1 DEF Take
    <3> QED BY <1>3, <3>1, StaysPublished
  <2>2. CASE ~Take
    <3>1. pc # "idle" /\ current' = current
      <4>1. CASE Handler
        BY <1>3, <2>2, <4>1 DEF Handler, Lock, FetchLabels, StoreLive, StoreState, StoreSnapshot, Succeed, Fail, GoTo
      <4>2. CASE ~Handler
        BY <1>3, <4>2 DEF Next, Done, vars, Happens, Deliver, Timeout, Crash, SyncStart, Sync, SyncRead, SyncStore,
                          SyncEnd, SyncFrame
      <4> QED BY <4>1, <4>2
    <3>2. current[1] \in Event /\ nsqd[current[1]] # "unpublished"
      BY <3>1, InHand DEF Known
    <3> QED BY <3>1, <3>2, StaysPublished
  <2> QED BY <2>1, <2>2
<1>4. ASSUME NEW r \in todo' PROVE r[2] <= github'[r[1]]
  <2>1. ASSUME r \in todo PROVE r[2] <= github'[r[1]]
    <3>1. r \in Event /\ r[1] \in Items /\ r[2] \in Nat /\ r[2] <= github[r[1]]
      BY <2>1, EventType, ConstantsAssumption DEF TypeOK, Known
    <3> QED BY <3>1, VersionsGrow
  <2>2. ASSUME NEW i \in Items, SyncRead(i), r \notin todo PROVE r[2] <= github'[r[1]]
    <3>1. r = <<i, github[i]>> /\ github' = github
      BY <1>4, <2>2 DEF SyncRead, SyncFrame
    <3> QED BY <1>0, <3>1, VersionsGrow
  <2>3. ASSUME ~ \E i \in Items : SyncRead(i) PROVE todo' \subseteq todo
    <3>1. Handler => todo' = todo
      BY HandlerFrames DEF HandlerFrame
    <3> QED BY <2>3, <3>1 DEF Next, Done, vars, Happens, Deliver, Timeout, Crash, SyncStart, Sync, SyncStore, SyncEnd, SyncFrame
  <2> QED BY <1>4, <2>1, <2>2, <2>3
<1> QED BY <1>1, <1>2, <1>3, <1>4 DEF Known

LEMMA CurrentStep ==
    ASSUME TypeOK, SyncAlone, StateIsCurrent, [Next]_vars
    PROVE  StateIsCurrent'
<1> USE DEF worldVars, nsqVars, workVars, esVars, syncVars, histVars
<1> SUFFICES ASSUME pc' = "snapshot" PROVE state'[Item'] = Version'
  BY DEF StateIsCurrent
<1>1. CASE StoreState
  <2>0. pc = "state" /\ Item \in Items
    BY <1>1, InHand DEF StoreState
  <2>1. GoTo("snapshot") /\ state' = [state EXCEPT ![Item] = Version]
    BY <1>1 DEF StoreState, WriteState, Fail
  <2>2. current' = current
    BY <2>1 DEF GoTo
  <2>3. state'[Item] = Version
    BY <2>0, <2>1 DEF TypeOK
  <2> QED BY <2>2, <2>3 DEF Item, Version
<1>2. CASE Handler /\ ~StoreState
  BY <1>2 DEF Handler, Take, Lock, FetchLabels, StoreLive, StoreSnapshot, Succeed, Fail, GoTo, StateIsCurrent, Item, Version
<1>3. CASE ~Handler
  <2>1. UNCHANGED workVars
    BY <1>3 DEF Next, Done, vars, Happens, Deliver, Timeout, Crash, SyncStart, Sync, SyncRead, SyncStore, SyncEnd, SyncFrame
  <2>2. Inside
    BY <2>1 DEF Inside
  <2>3. ~sync /\ todo = {}
    BY <2>2 DEF SyncAlone
  <2>4. state' = state
    BY <1>3, <2>3 DEF Next, Done, vars, Happens, Deliver, Timeout, Crash, SyncStart, Sync, SyncRead, SyncStore, SyncEnd
  <2> QED BY <2>1, <2>4 DEF StateIsCurrent, Item, Version
<1> QED BY <1>1, <1>2, <1>3

LEMMA FinishedStep ==
    ASSUME TypeOK, World, Cascade, FinishedIsStored, [Next]_vars
    PROVE  FinishedIsStored'
<1> USE DEF worldVars, nsqVars, workVars, esVars, syncVars, histVars
<1> SUFFICES ASSUME NEW e \in Event, nsqd'[e] = "finished" PROVE Stored(e)' \/ e \in dropped'
  BY DEF FinishedIsStored
<1>1. CASE nsqd[e] = "finished"
  <2>1. Stored(e) \/ e \in dropped
    BY <1>1 DEF FinishedIsStored
  <2> QED BY <2>1, StaysStored, Grows
<1>2. CASE nsqd[e] # "finished"
  <2>1. nsqd \in [Event -> {"unpublished", "queued", "inFlight", "finished"}]
    BY DEF TypeOK
  <2>2. ASSUME NEW i \in Items, Happens(i) PROVE FALSE
    <3>1. <<i, github[i] + 1>> \in Event /\ nsqd' = [nsqd EXCEPT ![<<i, github'[i]>>] = "queued"]
      BY <2>2 DEF Happens
    <3> QED BY <1>2, <2>1, <3>1
  <2>3. ASSUME NEW d \in Event, Deliver(d) \/ Timeout(d) PROVE FALSE
    BY <1>2, <2>1, <2>3 DEF Deliver, Timeout
  <2>4. CASE Take
    <3>1. Head(arrived)[1] \in Event /\ (nsqd' = nsqd \/ (Finish(Head(arrived)[1]) /\ dropped' = dropped \cup {Head(arrived)[1]}))
      BY <2>4, TakeFirst DEF Take
    <3> QED BY <1>2, <2>1, <3>1 DEF Finish
  <2>5. CASE Handler /\ ~Take
    <3>1. pc # "idle"
      BY <2>5 DEF Handler, Lock, FetchLabels, StoreLive, StoreState, StoreSnapshot
    <3>2. PICK d \in Event : d = current[1]
      BY <3>1, InHand
    <3>3. nsqd' = nsqd \/ Requeue(d) \/ (Stored(d)' /\ Finish(d))
      BY <2>5, <3>1, <3>2, AtWork
    <3> QED BY <1>2, <2>1, <3>3 DEF Requeue, Finish
  <2>6. CASE Crash
    BY <1>2, <2>1, <2>6 DEF Crash
  <2>7. ASSUME SyncStart \/ Sync \/ UNCHANGED vars PROVE nsqd' = nsqd
    BY <2>7 DEF vars, SyncStart, Sync, SyncRead, SyncStore, SyncEnd, SyncFrame
  <2> QED BY <1>2, <2>2, <2>3, <2>4, <2>5, <2>6, <2>7 DEF Next, Done
<1> QED BY <1>1, <1>2

\* Who came first stays first, when deliveries are added behind or the handler goes on.
LEMMA CameStays ==
    ASSUME TypeOK, [Next]_vars, NEW e \in Event, NEW n \in Nat, Came(e, n),
           \/ arrived' = arrived
           \/ \E d \in Event \X Nat : arrived' = Append(arrived, d),
           Handling(e) => Handling(e)' \/ Tried(e)'
    PROVE  Came(e, n)'
<1>1. arrived \in Seq(Event \X Nat) /\ Len(arrived) \in Nat
  BY LenProperties DEF TypeOK
<1>2. /\ Len(arrived') \in Nat /\ Len(arrived) <= Len(arrived')
      /\ \A k \in 1..Len(arrived) : arrived'[k] = arrived[k]
  <2>1. CASE arrived' = arrived
    BY <1>1, <2>1
  <2>2. ASSUME NEW d \in Event \X Nat, arrived' = Append(arrived, d)
        PROVE  /\ Len(arrived') = Len(arrived) + 1
               /\ \A k \in 1..Len(arrived) : arrived'[k] = arrived[k]
    BY <1>1, <2>2, AppendProperties
  <2> QED BY <1>1, <2>1, <2>2
<1>3. CASE Tried(e) \/ Handling(e)
  BY <1>3, StaysStored DEF Came
<1>4. CASE \E k \in 1..Len(arrived) : k <= n /\ arrived[k] = <<e, 1>>
  <2>1. PICK k \in 1..Len(arrived) : k <= n /\ arrived[k] = <<e, 1>>
    BY <1>4
  <2>2. k \in 1..Len(arrived') /\ arrived'[k] = <<e, 1>>
    BY <1>1, <1>2, <2>1
  <2> QED BY <2>1, <2>2 DEF Came
<1> QED BY <1>3, <1>4 DEF Came

\* When the handler takes a delivery the others move up by one; the one it takes is the
\* first of its event, or there has been an attempt.
LEMMA CameTaken ==
    ASSUME TypeOK, FirstComesFirst, Take, crashes = 0, [Next]_vars,
           NEW e \in Event, NEW n \in Nat, Came(e, n + 1)
    PROVE  Came(e, n)'
<1> USE DEF workVars
<1>1. /\ Head(arrived) = arrived[1] /\ arrived[1] \in Event \X Nat
      /\ Len(arrived) \in Nat \ {0} /\ Len(arrived') = Len(arrived) - 1
      /\ \A k \in 1..Len(arrived') : arrived'[k] = arrived[k + 1]
      /\ pc = "idle"
  BY TakeFirst DEF Take
<1>2. CASE Tried(e)
  BY <1>2, StaysStored DEF Came
<1>3. ASSUME NEW k \in 1..Len(arrived), k <= n + 1, k # 1, arrived[k] = <<e, 1>> PROVE Came(e, n)'
  <2>1. k - 1 \in 1..Len(arrived') /\ k - 1 <= n /\ arrived'[k - 1] = <<e, 1>>
    BY <1>1, <1>3
  <2> QED BY <2>1 DEF Came
<1>4. CASE arrived[1] = <<e, 1>>
  <2>1. pc' = "taken" /\ current' = <<e, 1>>
    BY <1>1, <1>4, ConstantsAssumption DEF Take
  <2> QED BY <2>1 DEF Came, Handling
<1> QED BY <1>1, <1>2, <1>3, <1>4 DEF Came, Handling

LEMMA FirstStep ==
    ASSUME TypeOK, Cascade, FirstComesFirst, [Next]_vars
    PROVE  FirstComesFirst'
<1> USE DEF worldVars, nsqVars, workVars, esVars, syncVars, histVars
<1> SUFFICES ASSUME crashes' = 0, NEW e \in Event
             PROVE  /\ attempts'[e] > 0 => \E n \in Nat : Came(e, n)'
                    /\ \A k \in 1..Len(arrived') : arrived'[k][1] = e => Came(e, k)'
  BY DEF FirstComesFirst
<1>1. /\ crashes = 0
      /\ attempts[e] > 0 => \E n \in Nat : Came(e, n)
      /\ \A k \in 1..Len(arrived) : arrived[k][1] = e => Came(e, k)
  BY Grows DEF FirstComesFirst
<1>2. ASSUME UNCHANGED <<arrived, attempts>>, Handling(e) => Handling(e)' \/ Tried(e)'
      PROVE  /\ attempts'[e] > 0 => \E n \in Nat : Came(e, n)'
             /\ \A k \in 1..Len(arrived') : arrived'[k][1] = e => Came(e, k)'
  BY <1>1, <1>2, CameStays
<1>3. ASSUME NEW d \in Event, Deliver(d)
      PROVE  /\ attempts'[e] > 0 => \E n \in Nat : Came(e, n)'
             /\ \A k \in 1..Len(arrived') : arrived'[k][1] = e => Came(e, k)'
  <2>1. /\ attempts' = [attempts EXCEPT ![d] = @ + 1] /\ attempts \in [Event -> Nat]
        /\ arrived \in Seq(Event \X Nat)
        /\ UNCHANGED workVars
    BY <1>3 DEF Deliver, TypeOK
  <2>2. arrived' = Append(arrived, <<d, attempts[d] + 1>>) /\ <<d, attempts[d] + 1>> \in Event \X Nat
    BY <1>3, <2>1 DEF Deliver
  <2>3. Handling(e) => Handling(e)'
    BY <2>1 DEF Handling
  <2>4. \A n \in Nat : Came(e, n) => Came(e, n)'
    BY <2>2, <2>3, CameStays
  <2>5. /\ Len(arrived') = Len(arrived) + 1 /\ Len(arrived) \in Nat
        /\ \A k \in 1..Len(arrived) : arrived'[k] = arrived[k]
        /\ arrived'[Len(arrived) + 1] = <<d, attempts[d] + 1>>
    BY <2>1, <2>2, AppendProperties, LenProperties
  <2>6. PICK m \in Nat : m = Len(arrived) + 1
    BY <2>5
  <2>7. ASSUME d = e, attempts[e] = 0 PROVE Came(e, m)'
    <3>1. m \in 1..Len(arrived') /\ arrived'[m] = <<e, 1>>
      BY <2>5, <2>6, <2>7
    <3> QED BY <3>1 DEF Came
  <2>8. attempts[e] > 0 => \E n \in Nat : Came(e, n)'
    BY <1>1, <2>4
  <2>9. attempts'[e] > 0 => \E n \in Nat : Came(e, n)'
    <3>1. attempts[e] \in Nat /\ (d # e => attempts'[e] = attempts[e])
      BY <2>1
    <3> QED BY <2>7, <2>8, <3>1
  <2>10. ASSUME NEW k \in 1..Len(arrived'), arrived'[k][1] = e PROVE Came(e, k)'
    <3>1. CASE k \in 1..Len(arrived)
      BY <1>1, <2>4, <2>5, <2>10, <3>1
    <3>2. CASE k = m /\ attempts[e] = 0
      BY <2>2, <2>5, <2>6, <2>7, <2>10, <3>2
    <3>3. CASE k = m /\ attempts[e] > 0
      <4>1. PICK n \in Nat : Came(e, n)
        BY <1>1, <3>3
      <4>2. Came(e, m)
        BY <2>5, <2>6, <4>1 DEF Came
      <4> QED BY <2>4, <3>3, <4>2
    <3> QED BY <2>1, <2>5, <2>6, <3>1, <3>2, <3>3
  <2> QED BY <2>9, <2>10
<1>4. ASSUME Take
      PROVE  /\ attempts'[e] > 0 => \E n \in Nat : Came(e, n)'
             /\ \A k \in 1..Len(arrived') : arrived'[k][1] = e => Came(e, k)'
  <2>1. attempts' = attempts
    BY <1>4, HandlerFrames DEF Handler, HandlerFrame
  <2>2. \A n \in Nat : Came(e, n + 1) => Came(e, n)'
    BY <1>1, <1>4, CameTaken
  <2>3. \A n \in Nat : Came(e, n) => Came(e, n + 1)
    BY DEF Came
  <2>4. /\ Len(arrived') = Len(arrived) - 1 /\ Len(arrived) \in Nat \ {0}
        /\ \A k \in 1..Len(arrived') : arrived'[k] = arrived[k + 1]
    BY <1>4, TakeFirst DEF Take
  <2>5. attempts'[e] > 0 => \E n \in Nat : Came(e, n)'
    BY <1>1, <2>1, <2>2, <2>3
  <2>6. ASSUME NEW k \in 1..Len(arrived'), arrived'[k][1] = e PROVE Came(e, k)'
    <3>1. k \in Nat /\ k + 1 \in 1..Len(arrived) /\ arrived[k + 1][1] = e
      BY <2>4, <2>6
    <3> QED BY <1>1, <2>2, <3>1
  <2> QED BY <2>5, <2>6
<1>5. CASE Handler /\ ~Take
  <2>1. pc # "idle"
    BY <1>5 DEF Handler, Lock, FetchLabels, StoreLive, StoreState, StoreSnapshot
  <2>2. PICK d \in Event : d = current[1]
    BY <2>1, InHand
  <2>3. UNCHANGED <<arrived, attempts>> /\ ((pc' # "idle" /\ current' = current) \/ d \in failed' \/ Stored(d)')
    BY <1>5, <2>1, <2>2, AtWork
  <2>4. Handling(e) => Handling(e)' \/ Tried(e)'
    BY <2>2, <2>3 DEF Handling, Tried
  <2> QED BY <1>2, <2>3, <2>4
<1>6. ASSUME ~Handler, ~Crash, ~ \E d \in Event : Deliver(d)
      PROVE  UNCHANGED <<arrived, attempts, workVars>>
  BY <1>6 DEF Next, Done, vars, Happens, Timeout, SyncStart, Sync, SyncRead, SyncStore, SyncEnd, SyncFrame
<1>7. ~Crash
  BY <1>1 DEF Crash
<1>8. ASSUME UNCHANGED workVars PROVE Handling(e) => Handling(e)'
  BY <1>8 DEF Handling
<1> QED BY <1>2, <1>3, <1>4, <1>5, <1>6, <1>7, <1>8

LEMMA DroppedStep ==
    ASSUME TypeOK, Cascade, FirstComesFirst, NeverDroppedUntried, [Next]_vars
    PROVE  NeverDroppedUntried'
<1> USE DEF worldVars, nsqVars, workVars, esVars, syncVars, histVars
<1>1. ASSUME NEW e \in dropped PROVE Stored(e)' \/ e \in failed' \/ crashes' > 0
  <2>1. e \in Event /\ (Tried(e) \/ crashes > 0)
    BY <1>1 DEF NeverDroppedUntried, TypeOK, Tried
  <2>2. crashes > 0 => crashes' > 0
    BY Grows
  <2> QED BY <2>1, <2>2, Grows, StaysStored DEF Tried
<1>2. CASE Take
  <2>1. PICK d \in Event, n \in Nat : arrived[1] = <<d, n>> /\ Head(arrived) = arrived[1] /\ Len(arrived) \in Nat \ {0}
    BY <1>2, TakeFirst DEF Take
  <2>2. CASE n <= MaxAttempts
    BY <1>1, <1>2, <2>1, <2>2, ConstantsAssumption DEF Take, NeverDroppedUntried
  <2>3. CASE n > MaxAttempts /\ crashes = 0
    <3>1. Came(d, 1)
      BY <2>1, <2>3 DEF FirstComesFirst
    <3>2. arrived[1] # <<d, 1>>
      BY <2>1, <2>3, ConstantsAssumption
    <3>3. ~Handling(d)
      BY <1>2 DEF Take, Handling
    <3>4. Tried(d)
      BY <3>1, <3>2, <3>3, <2>1 DEF Came
    <3>5. Stored(d)' \/ d \in failed'
      BY <3>4, StaysStored DEF Tried
    <3>6. dropped' = dropped \cup {d}
      BY <1>2, <2>1, <2>3, ConstantsAssumption DEF Take
    <3> QED BY <1>1, <3>5, <3>6 DEF NeverDroppedUntried
  <2>4. CASE crashes # 0
    <3>1. crashes' > 0
      BY <2>4, Grows
    <3> QED BY <3>1 DEF NeverDroppedUntried
  <2> QED BY <2>2, <2>3, <2>4, <2>1, ConstantsAssumption
<1>3. CASE Handler /\ ~Take
  <2>1. pc # "idle"
    BY <1>3 DEF Handler, Lock, FetchLabels, StoreLive, StoreState, StoreSnapshot
  <2>2. dropped' = dropped
    BY <1>3, <2>1, InHand, AtWork
  <2> QED BY <1>1, <2>2 DEF NeverDroppedUntried
<1>4. ASSUME ~Handler PROVE dropped' = dropped
  BY <1>4 DEF Next, Done, vars, Happens, Deliver, Timeout, Crash, SyncStart, Sync, SyncRead, SyncStore, SyncEnd, SyncFrame
<1> QED BY <1>1, <1>2, <1>3, <1>4 DEF NeverDroppedUntried

-----------------------------------------------------------------------------
(* The refinement of LivePromise. *)

\* An event is complete for the promise when it is stored for the code.
LEMMA CompleteIsStored == \A e \in Event : Promise!Complete(e) <=> Stored(e)
<1> SUFFICES ASSUME NEW e \in Event PROVE Promise!Complete(e) <=> Stored(e)
  OBVIOUS
<1>1. e[1] \in Items /\ Kind[e[1]] \in Kinds
  BY EventType
<1> QED BY <1>1 DEF Promise!Complete, Stored, Ignored, Tracked, Kinds

\* What has been published has happened.
LEMMA HappenedFacts ==
    ASSUME TypeOK, Known
    PROVE  /\ \A e \in Event : nsqd[e] # "unpublished" => Promise!Happened(e)
           /\ \A r \in todo : Promise!Happened(r)
           /\ pc # "idle" => Promise!Happened(current[1])
           /\ \A k \in 1..Len(arrived) : Promise!Happened(arrived[k][1])
<1>1. ASSUME NEW e \in Event, e[2] <= github[e[1]] PROVE Promise!Happened(e)
  <2>1. e[1] \in Items /\ e[2] \in 1..MaxVersion /\ github[e[1]] \in Nat
    BY EventType, ConstantsAssumption DEF TypeOK
  <2> QED BY <1>1, <2>1, ConstantsAssumption DEF Promise!Happened
<1>2. \A e \in Event : nsqd[e] # "unpublished" => Promise!Happened(e)
  BY <1>1 DEF Known
<1>3. \A r \in todo : Promise!Happened(r)
  BY <1>1 DEF Known, TypeOK
<1>4. pc # "idle" => Promise!Happened(current[1])
  BY <1>2, InHand DEF Known
<1>5. ASSUME NEW k \in 1..Len(arrived) PROVE Promise!Happened(arrived[k][1])
  <2>1. arrived[k][1] \in Event
    BY DEF TypeOK
  <2> QED BY <1>2, <2>1 DEF Known
<1> QED BY <1>2, <1>3, <1>4, <1>5

\* What finishing, requeueing and anything else that nsqd does is to the promise.
LEMMA FinishedBy ==
    ASSUME TypeOK, NEW e \in Event
    PROVE  /\ nsqd' = nsqd => Finished' = Finished
           /\ Requeue(e) => Finished' = Finished
           /\ Finish(e) => Finished' = Finished \/ Finished' = Finished \cup {e}
<1>0. nsqd \in [Event -> {"unpublished", "queued", "inFlight", "finished"}]
  BY DEF TypeOK
<1>1. nsqd' = nsqd => Finished' = Finished
  BY DEF Finished
<1>2. ASSUME Requeue(e) PROVE Finished' = Finished
  <2>1. \A d \in Event : nsqd'[d] = "finished" <=> nsqd[d] = "finished"
    BY <1>0, <1>2 DEF Requeue
  <2> QED BY <2>1 DEF Finished
<1>3. ASSUME Finish(e) PROVE Finished' = Finished \/ Finished' = Finished \cup {e}
  <2>1. \A d \in Event : d # e => nsqd'[d] = nsqd[d]
    BY <1>0, <1>3 DEF Finish
  <2>2. nsqd[e] = "finished" => nsqd'[e] = "finished"
    BY <1>0, <1>3 DEF Finish
  <2> QED BY <2>1, <2>2 DEF Finished
<1> QED BY <1>1, <1>2, <1>3

\* How the handler goes on after a step, or the answer it gives, is an answer.
LEMMA AnswerFits ==
    ASSUME TypeOK, NEW e \in Event, UNCHANGED crashes,
           \/ GoTo("live") \/ GoTo("state") \/ GoTo("snapshot") \/ GoTo("labels")
           \/ current[1] = e /\ Fail
           \/ current[1] = e /\ Succeed /\ Stored(e)'
    PROVE  Promise!Answer(e)
<1> USE DEF histVars
<1>1. ASSUME UNCHANGED <<nsqd, histVars>> PROVE Promise!Answer(e)
  <2>1. Finished' = Finished /\ Troubled' = Troubled
    BY <1>1, FinishedBy DEF Troubled
  <2> QED BY <2>1 DEF Promise!Answer
<1>2. ASSUME current[1] = e, Fail PROVE Promise!Answer(e)
  <2>1. Finished' = Finished
    BY <1>2, FinishedBy DEF Fail
  <2>2. Troubled' = Troubled \cup {e}
    BY <1>2 DEF Fail, Troubled
  <2> QED BY <2>1, <2>2 DEF Promise!Answer
<1>3. ASSUME current[1] = e, Succeed, Stored(e)' PROVE Promise!Answer(e)
  <2>1. Finished' = Finished \/ Finished' = Finished \cup {e}
    BY <1>3, FinishedBy DEF Succeed
  <2>2. Troubled' = Troubled
    BY <1>3 DEF Succeed, Troubled
  <2>3. Promise!Complete(e)'
    <3>1. e[1] \in Items /\ Kind[e[1]] \in Kinds
      BY EventType
    <3> QED BY <1>3, <3>1 DEF Promise!Complete, Stored, Ignored, Tracked, Kinds
  <2> QED BY <2>1, <2>2, <2>3 DEF Promise!Answer
<1> QED BY <1>1, <1>2, <1>3 DEF GoTo

\* A step of the handler that answers an event, or goes on with it, and writes what the
\* promise allows.
LEMMA HandlerStep ==
    ASSUME TypeOK, Cascade, SyncAlone, Known, StateIsCurrent, NeverDroppedUntried', Handler
    PROVE  Promise!Next \/ UNCHANGED Promise!vars
<1> USE DEF workVars, esVars, histVars, worldVars
<1>0. /\ UNCHANGED <<github, sync, Unsynced, crashes>>
      /\ nsqd \in [Event -> {"unpublished", "queued", "inFlight", "finished"}]
  BY HandlerFrames DEF HandlerFrame, syncVars, Unsynced, TypeOK
<1>1. CASE Take
  <2>1. PICK e \in Event : e = Head(arrived)[1] /\ e = arrived[1][1] /\ 1 \in 1..Len(arrived)
    BY <1>1, TakeFirst DEF Take
  <2>2. UNCHANGED <<live, state, snapshot, stateEver, snapshotEver, failed>>
    BY <1>1 DEF Take
  <2>3. UNCHANGED Troubled
    BY <1>0, <2>2 DEF Troubled
  <2>4. CASE Finished' = Finished
    BY <1>0, <2>2, <2>3, <2>4 DEF Promise!vars
  <2>5. CASE Finish(e) /\ dropped' = dropped \cup {e} /\ Finished' = Finished \cup {e}
    <3>1. Stored(e)' \/ e \in failed' \/ crashes' > 0
      BY <2>5 DEF NeverDroppedUntried
    <3>2. Stored(e) \/ e \in Troubled
      BY <1>0, <2>2, <3>1 DEF Stored, Troubled
    <3>3. Promise!Complete(e) \/ e \in Troubled
      BY <3>2, CompleteIsStored
    <3>4. Promise!Happened(e)
      BY <2>1, HappenedFacts
    <3> QED BY <1>0, <2>2, <2>3, <2>5, <3>3, <3>4 DEF Promise!Next, Promise!GiveUp, Promise!NoWrite
  <2>6. nsqd' = nsqd \/ (Finish(e) /\ dropped' = dropped \cup {e})
    BY <1>1, <2>1 DEF Take
  <2> QED BY <2>4, <2>5, <2>6, FinishedBy
<1>2. CASE ~Take
  <2>1. pc # "idle" /\ ~sync
    BY <1>2 DEF Handler, Lock, FetchLabels, StoreLive, StoreState, StoreSnapshot, SyncAlone, Inside
  <2>2. PICK e \in Event : e = current[1] /\ e = <<Item, Version>> /\ e[1] = Item /\ e[2] = Version
                          /\ Item \in Items /\ Kind[Item] \in Kinds
    BY <2>1, InHand DEF Item, Version
  <2>3. Promise!Happened(e)
    BY <2>1, <2>2, HappenedFacts
  <2>4. ASSUME Promise!Answer(e),
               \/ Promise!Store(e) \/ Promise!BecomeState(e) \/ Promise!BecomeSnapshot(e) \/ Promise!NoWrite
        PROVE  Promise!Next
    <3>1. Promise!Handle(e)
      BY <1>0, <2>1, <2>3, <2>4 DEF Promise!Handle
    <3> QED BY <3>1 DEF Promise!Next
  <2>5. CASE Lock
    <3>1. Promise!NoWrite
      BY <2>5 DEF Lock, Promise!NoWrite
    <3>2. Succeed => Stored(e)'
      BY <2>2, <2>5 DEF Lock, Stored, GoTo, Succeed
    <3>3. Promise!Answer(e)
      BY <1>0, <2>2, <2>5, <3>2, AnswerFits DEF Lock
    <3> QED BY <2>4, <3>1, <3>3
  <2>6. CASE FetchLabels
    <3>1. Promise!NoWrite
      BY <2>6 DEF FetchLabels, Promise!NoWrite
    <3>2. Promise!Answer(e)
      BY <1>0, <2>2, <2>6, AnswerFits DEF FetchLabels
    <3> QED BY <2>4, <3>1, <3>2
  <2>7. CASE StoreLive
    <3>1. UNCHANGED <<state, snapshot, stateEver, snapshotEver>> /\ live' \in {live, live \cup {e}} /\ e[1] \notin Ignored
      BY <2>2, <2>7 DEF StoreLive, Cascade, Ignored
    <3>2. Promise!Store(e) \/ Promise!NoWrite
      BY <3>1 DEF Promise!Store, Promise!NoWrite
    <3>3. GoTo("state") \/ Fail \/ (Succeed /\ Stored(e)')
      BY <2>2, <2>7 DEF StoreLive, Stored
    <3>4. Promise!Answer(e)
      BY <1>0, <2>2, <3>3, AnswerFits
    <3> QED BY <2>4, <3>2, <3>4
  <2>8. CASE StoreState
    <3>1. UNCHANGED <<live, snapshot, snapshotEver>> /\ (WriteState \/ UNCHANGED <<state, stateEver>>)
      BY <2>8 DEF StoreState
    <3>2. e[1] \in Tracked /\ e \in live
      BY <2>2, <2>8 DEF StoreState, Cascade, Tracked, Kinds
    <3>3. Promise!BecomeState(e) \/ Promise!NoWrite
      BY <2>2, <3>1, <3>2 DEF WriteState, Promise!BecomeState, Promise!NoWrite
    <3>4. Promise!Answer(e)
      BY <1>0, <2>2, <2>8, AnswerFits DEF StoreState
    <3> QED BY <2>4, <3>3, <3>4
  <2>9. CASE StoreSnapshot
    <3>1. UNCHANGED <<live, state, stateEver>> /\ (WriteSnapshot \/ UNCHANGED <<snapshot, snapshotEver>>)
      BY <2>9 DEF StoreSnapshot
    <3>2. e[1] \in Tracked /\ e \in live \cap stateEver /\ e[2] = state[e[1]]
      BY <2>2, <2>9 DEF StoreSnapshot, Cascade, StateIsCurrent, Tracked, Kinds
    <3>3. Promise!BecomeSnapshot(e) \/ Promise!NoWrite
      BY <2>2, <3>1, <3>2 DEF WriteSnapshot, Promise!BecomeSnapshot, Promise!NoWrite
    <3>4. Fail \/ (Succeed /\ Stored(e)')
      <4>1. CASE WriteSnapshot /\ Succeed
        BY <2>2, <3>1, <3>2, <4>1 DEF WriteSnapshot, Stored
      <4> QED BY <2>9, <4>1 DEF StoreSnapshot
    <3>5. Promise!Answer(e)
      BY <1>0, <2>2, <3>4, AnswerFits
    <3> QED BY <2>4, <3>3, <3>5
  <2> QED BY <1>2, <2>5, <2>6, <2>7, <2>8, <2>9, Zenon DEF Handler
<1> QED BY <1>1, <1>2

\* A step of a synchronization.
LEMMA SyncFits ==
    ASSUME TypeOK, SyncAlone, Known, SyncStart \/ Sync
    PROVE  Promise!Next \/ UNCHANGED Promise!vars
<1> USE DEF worldVars, nsqVars, histVars, syncVars
<1>0. UNCHANGED <<github, live, Troubled, Finished>>
  BY DEF SyncStart, Sync, SyncRead, SyncStore, SyncEnd, SyncFrame, Troubled, Finished
<1>1. CASE SyncStart
  <2>1. ~sync /\ sync' = TRUE /\ Unsynced' = Tracked /\ UNCHANGED <<state, snapshot, stateEver, snapshotEver>>
    BY <1>1 DEF SyncStart, SyncAlone, Unsynced
  <2> QED BY <1>0, <2>1 DEF Promise!Next, Promise!SyncStart, Promise!NoWrite
<1>2. ASSUME NEW i \in Items, SyncRead(i) PROVE Promise!Next \/ UNCHANGED Promise!vars
  <2>1. /\ i \in unread /\ unread' = unread \ {i} /\ sync /\ i \notin {r[1] : r \in todo}
        /\ UNCHANGED <<sync, state, snapshot, stateEver, snapshotEver>>
    BY <1>2 DEF SyncRead, SyncAlone
  <2>2. CASE todo' = todo
    <3>1. Unsynced' = Unsynced \ {i}
      BY <2>1, <2>2 DEF Unsynced
    <3> QED BY <1>0, <2>1, <3>1 DEF Promise!Next, Promise!SyncSkip, Promise!NoWrite
  <2>3. CASE todo' = todo \cup {<<i, github[i]>>}
    <3>0. PICK p : p = <<i, github[i]>> /\ p[1] = i /\ todo' = todo \cup {p}
      BY <2>3
    <3>1. {r[1] : r \in todo'} = {r[1] : r \in todo} \cup {i}
      BY <3>0, Zenon
    <3>2. Unsynced' = Unsynced
      BY <2>1, <3>1 DEF Unsynced
    <3> QED BY <1>0, <2>1, <3>2 DEF Promise!vars
  <2> QED BY <1>2, <2>2, <2>3 DEF SyncRead
<1>3. ASSUME NEW r \in Event, SyncStore(r) PROVE Promise!Next
  <2>1. r \in todo /\ todo' = todo \ {r} /\ UNCHANGED <<sync, unread>> /\ sync
    BY <1>3 DEF SyncStore, SyncAlone
  <2>2. r[1] \in Items /\ state \in [Items -> 0..MaxVersion]
    BY EventType DEF TypeOK
  <2>3. Promise!Happened(r) /\ r[1] \in Unsynced
    BY <2>1, HappenedFacts DEF Unsynced
  <2>4. Unsynced' = Unsynced \ {r[1]}
    <3>1. r[1] \notin unread /\ \A q \in todo : q[1] = r[1] => q = r
      BY <2>1 DEF SyncAlone
    <3>2. {q[1] : q \in todo'} = {q[1] : q \in todo} \ {r[1]}
      BY <2>1, <3>1
    <3> QED BY <2>1, <3>1, <3>2 DEF Unsynced
  <2>5. \/ UNCHANGED <<state, stateEver>>
        \/ state' = [state EXCEPT ![r[1]] = r[2]] /\ stateEver' = stateEver \cup {r}
    BY <1>3 DEF SyncStore
  <2>6. \/ UNCHANGED <<snapshot, snapshotEver>>
        \/ /\ r \in stateEver' /\ state'[r[1]] = r[2]
           /\ snapshot' = [snapshot EXCEPT ![r[1]] = r[2]] /\ snapshotEver' = snapshotEver \cup {r}
    BY <1>3 DEF SyncStore
  <2>7. ASSUME UNCHANGED <<state, stateEver>>, r \in stateEver', state'[r[1]] = r[2]
        PROVE  state' = [state EXCEPT ![r[1]] = r[2]] /\ stateEver' = stateEver \cup {r}
    BY <2>2, <2>7
  <2>8. \/ UNCHANGED <<state, stateEver, snapshot, snapshotEver>>
        \/ /\ state' = [state EXCEPT ![r[1]] = r[2]] /\ stateEver' = stateEver \cup {r}
           /\ \/ UNCHANGED <<snapshot, snapshotEver>>
              \/ snapshot' = [snapshot EXCEPT ![r[1]] = r[2]] /\ snapshotEver' = snapshotEver \cup {r}
    BY <2>5, <2>6, <2>7
  <2>9. Promise!SyncItem(r)
    BY <1>0, <2>1, <2>3, <2>4, <2>8 DEF Promise!SyncItem
  <2> QED BY <2>9 DEF Promise!Next
<1>4. CASE SyncEnd
  <2>1. sync /\ sync' = FALSE /\ Unsynced = {} /\ Unsynced' = {} /\ UNCHANGED <<state, snapshot, stateEver, snapshotEver>>
    BY <1>4 DEF SyncEnd, Unsynced
  <2> QED BY <1>0, <2>1 DEF Promise!Next, Promise!SyncEnd, Promise!NoWrite
<1> QED BY <1>1, <1>2, <1>3, <1>4 DEF Sync

-----------------------------------------------------------------------------
(* The theorems. *)

LEMMA InitInvariant == Init => IInv
<1> SUFFICES ASSUME Init PROVE IInv
  OBVIOUS
<1>1. TypeOK
  BY InitType
<1>2. World /\ Cascade /\ SyncAlone /\ SyncNotOverwritten
  BY DEF Init, World, Cascade, SyncAlone, SyncNotOverwritten, Inside
<1>3. FinishedIsStored /\ NeverDroppedUntried
  BY DEF Init, FinishedIsStored, NeverDroppedUntried
<1>4. FirstComesFirst
  BY DEF Init, FirstComesFirst
<1>5. Known /\ StateIsCurrent
  BY DEF Init, Known, StateIsCurrent
<1> QED BY <1>1, <1>2, <1>3, <1>4, <1>5 DEF IInv

\* The inductive invariant, for any items, attempts, faults and synchronizations.
THEOREM Invariant == Spec => []IInv
<1>1. IInv /\ [Next]_vars => IInv'
  BY TypeStep, WorldStep, CascadeStep, SyncStep, KnownStep, CurrentStep, FinishedStep, FirstStep, DroppedStep DEF IInv
<1> QED BY InitInvariant, <1>1, PTL DEF Spec

\* Every variable has its type: what is delivered, stored or read is an event, and no
\* index has a version of an item that GitHub's events cannot have.
THEOREM TypeCorrect == Spec => []TypeOK
<1>1. IInv => TypeOK
  BY DEF IInv
<1> QED BY Invariant, <1>1, PTL

\* HandleMessage's answer can be relied on: a message leaves NSQ only when the indices
\* it is for have had its event, when it is not subscribed to, or after the attempts
\* are used up; timeouts, crashes and answers that come twice or late do not matter.
THEOREM AnswerMeansStored == Spec => []FinishedIsStored
<1>1. IInv => FinishedIsStored
  BY DEF IInv
<1> QED BY Invariant, <1>1, PTL

\* handlerLoop gives up a message on the number its delivery has: as long as the process
\* has not died, no message is given up that was not stored or did not fail, whatever
\* number of deliveries has timed out behind a synchronization.
THEOREM NoneGivenUpUntried == Spec => []NeverDroppedUntried
<1>1. IInv => NeverDroppedUntried
  BY DEF IInv
<1> QED BY Invariant, <1>1, PTL

\* The pause works: what a synchronization has stored is not changed before it ends.
THEOREM SyncUndisturbed == Spec => []SyncNotOverwritten
<1>1. IInv => SyncNotOverwritten
  BY DEF IInv
<1> QED BY Invariant, <1>1, PTL

\* The detailed specification implements LivePromise: whatever is delivered twice, late or
\* never answered, and whenever a synchronization or a crash comes between, every step is
\* one that the promise has, or none for it.
THEOREM KeepsPromise == Spec => Promise!SafeSpec
<1>1. Init => Promise!Init
  BY DEF Init, Promise!Init, Troubled, Finished, Unsynced
<1>2. IInv /\ IInv' /\ [Next]_vars => [Promise!Next]_(Promise!vars)
  <2> SUFFICES ASSUME IInv, IInv', [Next]_vars PROVE Promise!Next \/ UNCHANGED Promise!vars
    OBVIOUS
  <2> USE DEF IInv, worldVars, nsqVars, workVars, esVars, syncVars, histVars
  <2>0. nsqd \in [Event -> {"unpublished", "queued", "inFlight", "finished"}]
    BY DEF TypeOK
  <2>1. ASSUME NEW i \in Items, Happens(i) PROVE Promise!Next
    <3>1. PICK e \in Event : e = <<i, github[i] + 1>>
      BY <2>1 DEF Happens
    <3>2. github' = [github EXCEPT ![i] = @ + 1] /\ github[i] \in Nat
      BY <2>1, ConstantsAssumption DEF Happens, TypeOK
    <3>3. nsqd' = [nsqd EXCEPT ![e] = "queued"]
      BY <2>1, <3>1, <3>2 DEF Happens, TypeOK
    <3>4. nsqd[e] = "unpublished"
      <4>1. ~ (e[2] <= github[e[1]])
        BY <3>1, <3>2
      <4> QED BY <4>1 DEF Known
    <3>5. Finished' = Finished
      BY <2>0, <3>3, <3>4 DEF Finished
    <3>6. UNCHANGED <<esVars, Troubled, sync, Unsynced>>
      BY <2>1 DEF Happens, Troubled, Unsynced
    <3>7. Promise!Happens(i)
      BY <3>2, <3>5, <3>6 DEF Promise!Happens, Promise!NoWrite
    <3> QED BY <3>7 DEF Promise!Next
  <2>2. ASSUME NEW e \in Event, Deliver(e) \/ Timeout(e) PROVE UNCHANGED Promise!vars
    <3>1. Finished' = Finished
      BY <2>0, <2>2 DEF Deliver, Timeout, Finished
    <3>2. UNCHANGED <<github, esVars, Troubled, sync, Unsynced>>
      BY <2>2 DEF Deliver, Timeout, Troubled, Unsynced
    <3> QED BY <3>1, <3>2 DEF Promise!vars
  <2>3. CASE Handler
    BY <2>3, HandlerStep
  <2>4. CASE Crash
    <3>1. Finished' = Finished
      BY <2>0, <2>4 DEF Crash, Finished
    <3>2. Troubled' = Event
      BY <2>4 DEF Crash, Troubled, TypeOK
    <3>3. sync' = FALSE /\ Unsynced' = {} /\ UNCHANGED <<github, esVars>>
      BY <2>4 DEF Crash, Unsynced
    <3> QED BY <3>1, <3>2, <3>3 DEF Promise!Next, Promise!Crash, Promise!NoWrite
  <2>5. CASE SyncStart \/ Sync
    BY <2>5, SyncFits
  <2>6. CASE UNCHANGED vars
    <3>1. UNCHANGED <<github, esVars, Troubled, Finished, sync, Unsynced>>
      BY <2>6 DEF vars, Troubled, Finished, Unsynced
    <3> QED BY <3>1 DEF Promise!vars
  <2> QED BY <2>1, <2>2, <2>3, <2>4, <2>5, <2>6 DEF Next, Done
<1> QED BY <1>1, <1>2, Invariant, PTL DEF Spec, Promise!SafeSpec

=============================================================================
