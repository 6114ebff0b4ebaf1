----------------------------- MODULE LiveEvents -----------------------------
(***************************************************************************)
(* What one repository's handler does with the events of its NSQ topic,    *)
(* together with the periodic synchronization that pauses it: deliveries,  *)
(* HandleMessage, the cascade of writes of BlobStore.Store into the live,  *)
(* state and snapshot indices, and what NSQ makes of the answer.           *)
(*                                                                         *)
(* The content of an item is its version: the number of events it has had. *)
(* NSQ promises at least one delivery and no order: a message whose answer *)
(* is late, or whose consumer is gone, is delivered again.                 *)
(***************************************************************************)
EXTENDS Naturals, Sequences, FiniteSets

CONSTANTS
    Items,        \* things events are about
    Kind,         \* Kind[i]: what an event about i is to the handler, see Kinds
    MaxVersion,   \* bound: events per item
    MaxAttempts,  \* go-nsq's max_attempts
    MaxEvents,    \* bound: events in all
    MaxFaults,    \* bound: messages timing out at nsqd and crashes of the collector
    MaxSyncs      \* bound: periodic synchronizations

Kinds == {"pull_request",   \* subscribed, with an item to snapshot and labels to fetch
          "issue",          \* subscribed, with an item to snapshot
          "other",          \* subscribed, no item in it
          "ignored"}        \* not subscribed, or not JSON

ASSUME ConstantsAssumption ==
    /\ Kind \in [Items -> Kinds]
    /\ MaxVersion \in Nat \ {0} /\ MaxEvents \in Nat
    /\ MaxAttempts \in Nat \ {0}      \* go-nsq takes 0 for no limit; its default, which the collector has, is 5
    /\ MaxFaults \in Nat /\ MaxSyncs \in Nat

Tracked  == {i \in Items : Kind[i] \in {"pull_request", "issue"}}

\* Events, by item and version.  Versions tell events about tracked items apart; of
\* the others, one each will do.
Event    == (Tracked \X (1..MaxVersion)) \cup ((Items \ Tracked) \X {1})

VARIABLES
    github,     \* version of each item on GitHub
    open,       \* tracked items that are open on GitHub
    nsqd,       \* nsqd[e]: state of the message of an event
    attempts,   \* deliveries of the message so far
    arrived,    \* deliveries sent to the consumer and not taken by the handler
    pc,         \* where the handler is
    current,    \* the delivery it handles
    live,       \* live index: events in it
    state,      \* state index: version of each item, 0 for none
    snapshot,   \* snapshot index: version of each item, 0 for none
    sync,       \* is a synchronization running?
    unread,     \* items it has not read from GitHub yet
    todo,       \* what it has read and not stored: item and version
    synced,     \* what it has stored: item and version
    timeouts, crashes, syncs,  \* how often, for the bounds
    stateEver, snapshotEver,   \* history: events and synced versions ever written
    failed,     \* history: events HandleMessage has returned an error for
    dropped     \* history: events given up after MaxAttempts deliveries

worldVars == <<github, open>>
nsqVars   == <<nsqd, attempts>>
workVars  == <<pc, current>>
esVars    == <<live, state, snapshot, stateEver, snapshotEver>>
syncVars  == <<sync, unread, todo, synced, syncs>>
histVars  == <<failed, dropped>>
vars == <<worldVars, nsqVars, arrived, workVars, esVars, syncVars, timeouts, crashes, histVars>>

NoDelivery == <<>>

Init ==
    /\ github = [i \in Items |-> 0]
    /\ open = {}
    /\ nsqd = [e \in Event |-> "unpublished"]
    /\ attempts = [e \in Event |-> 0]
    /\ arrived = <<>>
    /\ pc = "idle"
    /\ current = NoDelivery
    /\ live = {}
    /\ state = [i \in Items |-> 0]
    /\ snapshot = [i \in Items |-> 0]
    /\ sync = FALSE
    /\ unread = {} /\ todo = {} /\ synced = {}
    /\ timeouts = 0 /\ crashes = 0 /\ syncs = 0
    /\ stateEver = {} /\ snapshotEver = {}
    /\ failed = {} /\ dropped = {}

-----------------------------------------------------------------------------
(* GitHub and nsqd. *)

\* Something happens to an item, which may open or close it if it is one that is
\* open or closed, and GitHub's webhook puts an event with its new version on the topic.
Happens(i) ==
    /\ <<i, github[i] + 1>> \in Event
    /\ Cardinality({e \in Event : nsqd[e] # "unpublished"}) < MaxEvents
    /\ github' = [github EXCEPT ![i] = @ + 1]
    /\ open' \in IF i \in Tracked THEN {open \cup {i}, open \ {i}} ELSE {open}
    /\ nsqd' = [nsqd EXCEPT ![<<i, github'[i]>>] = "queued"]
    /\ UNCHANGED <<attempts, arrived, workVars, esVars, syncVars, timeouts, crashes, histVars>>

\* With max_in_flight at 1, nsqd hands out a message when none is in flight.
Deliver(e) ==
    /\ nsqd[e] = "queued"
    /\ \A d \in Event : nsqd[d] # "inFlight"
    /\ nsqd' = [nsqd EXCEPT ![e] = "inFlight"]
    /\ attempts' = [attempts EXCEPT ![e] = @ + 1]
    /\ arrived' = Append(arrived, <<e, attempts'[e]>>)
    /\ UNCHANGED <<worldVars, workVars, esVars, syncVars, timeouts, crashes, histVars>>

\* The answer is late and the message goes back to the queue.  Its delivery
\* stays with the consumer.
Timeout(e) ==
    /\ timeouts + crashes < MaxFaults
    /\ nsqd[e] = "inFlight"
    /\ timeouts' = timeouts + 1
    /\ nsqd' = [nsqd EXCEPT ![e] = "queued"]
    /\ UNCHANGED <<worldVars, attempts, arrived, workVars, esVars, syncVars, crashes, histVars>>

\* FIN and REQ: nsqd refuses both for a message that is not in flight.
Finish(e)  == nsqd' = [nsqd EXCEPT ![e] = IF @ = "inFlight" THEN "finished" ELSE @]
Requeue(e) == nsqd' = [nsqd EXCEPT ![e] = IF @ = "inFlight" THEN "queued" ELSE @]

-----------------------------------------------------------------------------
(* The handler. *)

Item    == current[1][1]
Version == current[1][2]

\* Does the handler hold the read lock?
Inside == pc \notin {"idle", "taken"}

HandlerFrame == UNCHANGED <<worldVars, attempts, syncVars, timeouts, crashes>>

\* Mutant: the deliveries nsqd has counted by now, instead of the delivery's own number.
TakeByCount ==
    /\ pc = "idle" /\ arrived # <<>>
    /\ arrived' = Tail(arrived)
    /\ IF attempts[Head(arrived)[1]] > MaxAttempts
       THEN /\ Finish(Head(arrived)[1])
            /\ dropped' = dropped \cup {Head(arrived)[1]}
            /\ UNCHANGED workVars
       ELSE /\ pc' = "taken" /\ current' = Head(arrived)
            /\ UNCHANGED <<nsqd, dropped>>
    /\ UNCHANGED <<failed, esVars>> /\ HandlerFrame

\* handlerLoop takes the next delivery, and gives up a message that was
\* delivered too often without handling it.
Take ==
    /\ pc = "idle" /\ arrived # <<>>
    /\ arrived' = Tail(arrived)
    /\ IF Head(arrived)[2] > MaxAttempts
       THEN /\ Finish(Head(arrived)[1])
            /\ dropped' = dropped \cup {Head(arrived)[1]}
            /\ UNCHANGED workVars
       ELSE /\ pc' = "taken" /\ current' = Head(arrived)
            /\ UNCHANGED <<nsqd, dropped>>
    /\ UNCHANGED <<failed, esVars>> /\ HandlerFrame

\* Mutant: the handler goes back to its loop with the message in hand.
SucceedKeeps == pc' = "idle" /\ Finish(current[1]) /\ UNCHANGED <<current, histVars>>

\* HandleMessage returns nil and the message is finished.
Succeed ==
    /\ pc' = "idle" /\ current' = NoDelivery
    /\ Finish(current[1])
    /\ UNCHANGED histVars

\* Mutant: an error is logged and nil returned.
FailFinishes ==
    /\ pc' = "idle" /\ current' = NoDelivery
    /\ Finish(current[1])
    /\ failed' = failed \cup {current[1]}
    /\ UNCHANGED dropped

\* HandleMessage returns an error and the message is requeued.
Fail ==
    /\ pc' = "idle" /\ current' = NoDelivery
    /\ Requeue(current[1])
    /\ failed' = failed \cup {current[1]}
    /\ UNCHANGED dropped

GoTo(step) == pc' = step /\ UNCHANGED <<current, nsqd, histVars>>

\* RLock() returns.  An event that is not JSON or not subscribed to is done
\* with; a pull request without labels has them fetched.
Lock ==
    /\ pc = "taken" /\ ~sync
    /\ \/ Kind[Item] = "ignored" /\ Succeed
       \/ Kind[Item] = "pull_request" /\ GoTo("labels")
       \/ Kind[Item] \in {"issue", "other"} /\ GoTo("live")
    /\ UNCHANGED <<arrived, esVars>> /\ HandlerFrame

FetchLabels ==
    /\ pc = "labels"
    /\ GoTo("live") \/ Fail
    /\ UNCHANGED <<arrived, esVars>> /\ HandlerFrame

\* A step of the cascade: the write is done and acknowledged, and the handler
\* goes on with next; or an error ends it, and the write may still be done.
\* Transforming the event, before the first write, may fail as well.

\* The event goes into the live index; without a snapshot in it, that is all.
StoreLive ==
    /\ pc = "live"
    /\ \/ /\ live' = live \cup {current[1]}
          /\ IF Kind[Item] = "other" THEN Succeed ELSE GoTo("state")
       \/ live' \in {live, live \cup {current[1]}} /\ Fail
    /\ UNCHANGED <<arrived, state, snapshot, stateEver, snapshotEver>> /\ HandlerFrame

WriteState ==
    /\ state' = [state EXCEPT ![Item] = Version]
    /\ stateEver' = stateEver \cup {current[1]}

StoreState ==
    /\ pc = "state"
    /\ \/ WriteState /\ (GoTo("snapshot") \/ Fail)
       \/ UNCHANGED <<state, stateEver>> /\ Fail
    /\ UNCHANGED <<arrived, live, snapshot, snapshotEver>> /\ HandlerFrame

WriteSnapshot ==
    /\ snapshot' = [snapshot EXCEPT ![Item] = Version]
    /\ snapshotEver' = snapshotEver \cup {current[1]}

StoreSnapshot ==
    /\ pc = "snapshot"
    /\ \/ WriteSnapshot /\ (Succeed \/ Fail)
       \/ UNCHANGED <<snapshot, snapshotEver>> /\ Fail
    /\ UNCHANGED <<arrived, live, state, stateEver>> /\ HandlerFrame

\* The collector dies and is started again: a synchronization is not resumed,
\* the messages it had are delivered again.
Crash ==
    /\ timeouts + crashes < MaxFaults
    /\ crashes' = crashes + 1
    /\ pc' = "idle" /\ current' = NoDelivery
    /\ arrived' = <<>>
    /\ nsqd' = [e \in Event |-> IF nsqd[e] = "inFlight" THEN "queued" ELSE nsqd[e]]
    /\ sync' = FALSE /\ unread' = {} /\ todo' = {} /\ synced' = {}
    /\ UNCHANGED <<worldVars, attempts, esVars, syncs, timeouts, histVars>>

-----------------------------------------------------------------------------
(* The periodic synchronization, see SyncJob for its goroutines. *)

SyncFrame == UNCHANGED <<worldVars, nsqVars, arrived, workVars, live, timeouts, crashes, histVars>>

\* Mutant: the synchronization does not wait for the handler.
SyncStartUnpaused ==
    /\ ~sync /\ syncs < MaxSyncs
    /\ sync' = TRUE /\ syncs' = syncs + 1
    /\ unread' = Tracked
    /\ UNCHANGED <<todo, synced, state, snapshot, stateEver, snapshotEver>> /\ SyncFrame

\* Lock() returns, the synchronization starts.
SyncStart ==
    /\ ~sync /\ ~Inside /\ syncs < MaxSyncs
    /\ sync' = TRUE /\ syncs' = syncs + 1
    /\ unread' = Tracked
    /\ UNCHANGED <<todo, synced, state, snapshot, stateEver, snapshotEver>> /\ SyncFrame

\* An open item is listed, with its version of that moment; an item that is
\* closed is not, nor is one on a page that could not be fetched.
SyncRead(i) ==
    /\ i \in unread
    /\ unread' = unread \ {i}
    /\ \/ i \in open /\ todo' = todo \cup {<<i, github[i]>>}
       \/ UNCHANGED todo
    /\ UNCHANGED <<sync, synced, syncs, state, snapshot, stateEver, snapshotEver>> /\ SyncFrame

\* Mutant: it is stored as a snapshot only.
SyncStoreSnapshot(r) ==
    /\ r \in todo
    /\ todo' = todo \ {r}
    /\ \/ UNCHANGED <<snapshot, snapshotEver>>
       \/ snapshot' = [snapshot EXCEPT ![r[1]] = r[2]] /\ snapshotEver' = snapshotEver \cup {r}
    /\ UNCHANGED <<sync, unread, synced, syncs, state, stateEver>> /\ SyncFrame

\* indexingProc stores it as current state, and so as snapshot.  An error is logged,
\* it may come before or after the first write.
SyncStore(r) ==
    /\ r \in todo
    /\ todo' = todo \ {r}
    /\ \/ UNCHANGED <<state, stateEver>>
       \/ state' = [state EXCEPT ![r[1]] = r[2]] /\ stateEver' = stateEver \cup {r}
    /\ \/ UNCHANGED <<snapshot, snapshotEver, synced>>
       \/ /\ r \in stateEver' /\ state'[r[1]] = r[2]
          /\ snapshot' = [snapshot EXCEPT ![r[1]] = r[2]]
          /\ snapshotEver' = snapshotEver \cup {r}
          /\ synced' = synced \cup {r}
    /\ UNCHANGED <<sync, unread, syncs>> /\ SyncFrame

\* The synchronization returns, Unlock().
SyncEnd ==
    /\ sync /\ unread = {} /\ todo = {}
    /\ sync' = FALSE
    /\ synced' = {}
    /\ UNCHANGED <<unread, todo, syncs, state, snapshot, stateEver, snapshotEver>>
    /\ SyncFrame

Handler == Take \/ Lock \/ FetchLabels \/ StoreLive \/ StoreState \/ StoreSnapshot

Sync == (\E i \in Items : SyncRead(i)) \/ (\E r \in Event : SyncStore(r)) \/ SyncEnd

\* Every event is finished, and nothing else need happen.
Done ==
    /\ \A e \in Event : nsqd[e] \in {"unpublished", "finished"}
    /\ arrived = <<>> /\ pc = "idle" /\ ~sync
    /\ UNCHANGED vars

Next ==
    \/ \E i \in Items : Happens(i)
    \/ \E e \in Event : Deliver(e) \/ Timeout(e)
    \/ Handler
    \/ Crash
    \/ SyncStart \/ Sync
    \/ Done

\* nsqd delivers while something is queued, in any order; a handler that can run
\* does and its requests are answered, a synchronization ends.  No write has to
\* succeed.
Fairness ==
    /\ WF_vars(\E e \in Event : Deliver(e))
    /\ WF_vars(Handler)
    /\ WF_vars(Sync)

Spec == Init /\ [][Next]_vars /\ Fairness

-----------------------------------------------------------------------------
(* Properties. *)

TypeOK ==
    /\ github \in [Items -> 0..MaxVersion] /\ open \subseteq Items
    /\ nsqd \in [Event -> {"unpublished", "queued", "inFlight", "finished"}]
    /\ attempts \in [Event -> Nat]
    /\ arrived \in Seq(Event \X Nat)
    /\ pc \in {"idle", "taken", "labels", "live", "state", "snapshot"}
    /\ IF pc = "idle" THEN current = NoDelivery ELSE current \in Event \X Nat
    /\ live \subseteq Event /\ stateEver \subseteq Event /\ snapshotEver \subseteq Event
    /\ state \in [Items -> 0..MaxVersion] /\ snapshot \in [Items -> 0..MaxVersion]
    /\ sync \in BOOLEAN
    /\ unread \subseteq Items /\ todo \subseteq Event /\ synced \subseteq Event
    /\ timeouts \in Nat /\ crashes \in Nat /\ syncs \in Nat
    /\ failed \subseteq Event /\ dropped \subseteq Event

\* Has the event reached the indices it is meant for?
Stored(e) ==
    \/ Kind[e[1]] = "ignored"
    \/ Kind[e[1]] = "other" /\ e \in live
    \/ e \in live \cap stateEver \cap snapshotEver

\* The message of an event only leaves the queue when all three indices have had
\* the event, when it is of no interest, or when it has been given up: whatever
\* times out, dies or is answered twice.
FinishedIsStored ==
    \A e \in Event : nsqd[e] = "finished" => Stored(e) \/ e \in dropped

\* Time alone loses nothing: a message is only given up when it was stored, an
\* attempt to handle it has failed or the process has died, however often it
\* timed out behind a synchronization.
NeverDroppedUntried ==
    \A e \in dropped : Stored(e) \/ e \in failed \/ crashes > 0

\* While a synchronization runs nothing else writes: what it has stored stays.
SyncNotOverwritten ==
    \A r \in synced : state[r[1]] = r[2] /\ snapshot[r[1]] = r[2]

\* Whatever the queue, the handler, the lock and the synchronization do, seen from the
\* indices it is what LivePromise says: "when storing a live event, we always update
\* the next two indices", in this order; a snapshot is the current state of its item
\* copied, by a handler as by a synchronization; a synchronization that runs is alone
\* with the indices and writes an item once; and an event is done with when its indices
\* have had it, or after trouble.  When nothing more happens on GitHub, which MaxEvents
\* ensures, every event is done with some day, with writes that may fail, messages that
\* time out and a process that dies now and then (blobstore.go:115-154, live.go:50-60).
Ignored   == {i \in Items : Kind[i] = "ignored"}
Troubled  == failed \cup (IF crashes > 0 THEN Event ELSE {})
Finished  == {e \in Event : nsqd[e] = "finished"}
Unsynced  == unread \cup {r[1] : r \in todo}
Promise == INSTANCE LivePromise WITH version <- github, troubled <- Troubled, done <- Finished,
                                     syncing <- sync, pending <- Unsynced
PromiseSpec == Promise!Spec

\* "The index that always holds the latest version of all GitHub items", stated
\* for the moment when every event was handled and none was given up.
SnapshotLatest ==
    (/\ \A i \in Tracked, v \in 1..MaxVersion : nsqd[<<i, v>>] \in {"unpublished", "finished"}
     /\ arrived = <<>> /\ pc = "idle" /\ ~sync /\ dropped = {})
    => \A i \in Tracked : snapshot[i] = github[i]

=============================================================================
