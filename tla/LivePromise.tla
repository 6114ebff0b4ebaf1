---------------------------- MODULE LivePromise ----------------------------
(***************************************************************************)
(* What storing the events of a repository promises, with no message, no   *)
(* handler and no lock in it: an event goes through its indices in order,  *)
(* a snapshot is a copy of the current state, a synchronization has the    *)
(* indices to itself and writes an item once, and an event is done with    *)
(* when its indices have had it.                                           *)
(***************************************************************************)
EXTENDS Naturals

CONSTANTS
    Items,      \* things events are about
    Tracked,    \* those with a snapshot
    Ignored,    \* those whose events nobody subscribed to
    Event       \* events: item and version

VARIABLES
    version,    \* version of each item
    live,       \* events in the live index
    state,      \* version of each item in the state index, 0 for none
    snapshot,   \* version of each item in the snapshot index, 0 for none
    stateEver, snapshotEver,   \* versions these have ever had
    troubled,   \* events an attempt to handle has not come to its end for
    done,       \* events that have been done with
    syncing,    \* is a synchronization running?
    pending     \* items it has still to do

vars == <<version, live, state, snapshot, stateEver, snapshotEver, troubled, done, syncing, pending>>

Init ==
    /\ version = [i \in Items |-> 0]
    /\ live = {}
    /\ state = [i \in Items |-> 0] /\ snapshot = [i \in Items |-> 0]
    /\ stateEver = {} /\ snapshotEver = {}
    /\ troubled = {} /\ done = {}
    /\ syncing = FALSE /\ pending = {}

Happened(e) == e \in Event /\ e[2] \in 1..version[e[1]]

\* Have the indices that the event is meant for had it?
Complete(e) ==
    \/ e[1] \in Ignored
    \/ e \in live /\ (e[1] \in Tracked => e \in stateEver \cap snapshotEver)

NoWrite == UNCHANGED <<live, state, snapshot, stateEver, snapshotEver>>

Happens(i) ==
    /\ version' = [version EXCEPT ![i] = @ + 1]
    /\ NoWrite /\ UNCHANGED <<troubled, done, syncing, pending>>

-----------------------------------------------------------------------------
(* Events. *)

\* An attempt goes on, or ends: well, when the event is complete, or not.
Answer(e) ==
    \/ UNCHANGED <<troubled, done>>
    \/ troubled' = troubled \cup {e} /\ UNCHANGED done
    \/ Complete(e)' /\ done' = done \cup {e} /\ UNCHANGED troubled

\* A write of an attempt to handle the event, or none.
Store(e) ==
    /\ e[1] \notin Ignored
    /\ live' = live \cup {e}
    /\ UNCHANGED <<state, snapshot, stateEver, snapshotEver>>

\* The event becomes the current state of its item after it has become a live event.
BecomeState(e) ==
    /\ e[1] \in Tracked /\ e \in live
    /\ state' = [state EXCEPT ![e[1]] = e[2]] /\ stateEver' = stateEver \cup {e}
    /\ UNCHANGED <<live, snapshot, snapshotEver>>

\* What becomes the snapshot is the current state of that moment.
BecomeSnapshot(e) ==
    /\ e[1] \in Tracked /\ e \in live \cap stateEver /\ e[2] = state[e[1]]
    /\ snapshot' = [snapshot EXCEPT ![e[1]] = state[e[1]]] /\ snapshotEver' = snapshotEver \cup {e}
    /\ UNCHANGED <<live, state, stateEver>>

\* An event that has happened is handled outside of synchronizations.
Handle(e) ==
    /\ ~syncing /\ UNCHANGED <<version, syncing, pending>>
    /\ Happened(e)
    /\ Store(e) \/ BecomeState(e) \/ BecomeSnapshot(e) \/ NoWrite
    /\ Answer(e)

\* An event in trouble may be done with all the same; a synchronization may be running.
GiveUp(e) ==
    /\ Happened(e) /\ (e \in troubled \/ Complete(e))
    /\ done' = done \cup {e}
    /\ NoWrite /\ UNCHANGED <<version, troubled, syncing, pending>>

\* The process dies: any event may be in trouble, the indices stay as they are.
Crash ==
    /\ troubled' = Event
    /\ syncing' = FALSE /\ pending' = {}
    /\ NoWrite /\ UNCHANGED <<version, done>>

-----------------------------------------------------------------------------
(* Synchronizations. *)

SyncStart ==
    /\ ~syncing
    /\ syncing' = TRUE /\ pending' = Tracked
    /\ NoWrite /\ UNCHANGED <<version, troubled, done>>

\* An item is left out, or stored, in a version it has had: all of it, a part, or nothing.
SyncItem(e) ==
    /\ syncing
    /\ Happened(e) /\ e[1] \in pending
    /\ pending' = pending \ {e[1]}
    /\ \/ UNCHANGED <<state, stateEver, snapshot, snapshotEver>>
       \/ /\ state' = [state EXCEPT ![e[1]] = e[2]] /\ stateEver' = stateEver \cup {e}
          /\ \/ UNCHANGED <<snapshot, snapshotEver>>
             \/ snapshot' = [snapshot EXCEPT ![e[1]] = e[2]] /\ snapshotEver' = snapshotEver \cup {e}
    /\ UNCHANGED <<version, live, troubled, done, syncing>>
SyncSkip(i) ==
    /\ syncing
    /\ pending' = pending \ {i}
    /\ NoWrite /\ UNCHANGED <<version, troubled, done, syncing>>

SyncEnd ==
    /\ syncing /\ pending = {}
    /\ syncing' = FALSE
    /\ NoWrite /\ UNCHANGED <<version, troubled, done, pending>>

Next ==
    \/ \E i \in Items : Happens(i) \/ SyncSkip(i)
    \/ \E e \in Event : Handle(e) \/ GiveUp(e) \/ SyncItem(e)
    \/ Crash \/ SyncStart \/ SyncEnd

SafeSpec == Init /\ [][Next]_vars

\* Once nothing more happens, all that has happened is done with.
EventuallyDone == <>[](\A e \in Event : Happened(e) => e \in done)

Spec == SafeSpec /\ EventuallyDone
=============================================================================
