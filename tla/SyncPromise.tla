---------------------------- MODULE SyncPromise ----------------------------
(***************************************************************************)
(* What the comment on syncCmd.Run promises of a synchronization job, with *)
(* no goroutine and no channel in it: repositories are done one after the  *)
(* other, every entry GitHub listed is attempted once and not twice,       *)
(* isolated errors do not interrupt the job, and it does not move on before*)
(* all of it is done.  Pages are listed in their order, up to the last one *)
(* or to the first that cannot be listed.                                  *)
(***************************************************************************)
EXTENDS Naturals, Sequences

CONSTANTS
    NumRepos,   \* repositories to synchronize
    Entries,    \* the entries of all of them
    PagesOf     \* PagesOf[r]: what GitHub lists for repository r, a set of entries
                \* per page from the first page asked for

VARIABLES
    cur,        \* repository being synchronized
    listed,     \* entries listed so far
    attempts    \* how often an attempt to store an entry has been made

vars == <<cur, listed, attempts>>

\* The entries of the first n pages of repository r.
FirstPages(r, n) == UNION {PagesOf[r][k] : k \in 1..n}

Init ==
    /\ cur = 1
    /\ listed = {}
    /\ attempts = [e \in Entries |-> 0]

\* Another page is listed: those before it have been.
List ==
    /\ cur <= NumRepos
    /\ \E n \in 1..Len(PagesOf[cur]) : listed' = listed \cup FirstPages(cur, n)
    /\ UNCHANGED <<cur, attempts>>

\* Whether the attempt succeeds is left open: a failed one is only logged.
Attempt ==
    /\ cur <= NumRepos
    /\ \E e \in listed \cap FirstPages(cur, Len(PagesOf[cur])) :
          attempts[e] = 0 /\ attempts' = [attempts EXCEPT ![e] = 1]
    /\ UNCHANGED <<cur, listed>>

MoveOn ==
    /\ cur <= NumRepos
    /\ \A e \in listed : attempts[e] = 1
    /\ cur' = cur + 1
    /\ UNCHANGED <<listed, attempts>>

Next == List \/ Attempt \/ MoveOn

SafeSpec == Init /\ [][Next]_vars

Spec == SafeSpec /\ WF_vars(Attempt) /\ WF_vars(MoveOn)
=============================================================================
