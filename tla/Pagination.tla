----------------------------- MODULE Pagination -----------------------------
(***************************************************************************)
(* fetchRepositoryItems of github/sync.go against a repository that is in  *)
(* use: which issues and pull requests a job lists, given where it starts  *)
(* and what is opened, closed and reopened between two of its pages.       *)
(*                                                                         *)
(* An item is its number.  Numbers are given in the order of creation,     *)
(* which is also the order of the list, so the items are 1..count.         *)
(***************************************************************************)
EXTENDS Integers, FiniteSets

CONSTANTS
    PerPage,      \* items on a page
    StartIndex,   \* start_index in the configuration of the repository, 0 without
    FromFlags,    \* values given to the --from flag of the sync command
    MaxNumber,    \* bound: items ever opened
    MaxChanges    \* bound: items closed or reopened while the job lists

\* 100 in the code.  With pages of one item, From \div PerPage + 1 would skip
\* the first item even for the default start.
ASSUME PerPageAssumption == PerPage \in Nat /\ PerPage > 1
ASSUME IndexAssumption == StartIndex \in Nat /\ FromFlags \subseteq Nat
ASSUME BoundsAssumption == MaxNumber \in Nat /\ MaxChanges \in Nat

VARIABLES
    job,          \* options of the job
    count,        \* number of the newest item
    open,         \* items that are open
    page,         \* page to list next, 0 when done
    failed,       \* a page could not be listed
    listed,       \* how often each item was put on a channel
    untouched,    \* items that have been open ever since the job began
    closings,     \* times an item was closed, and
    reopenings    \* opened again, since then

vars == <<job, count, open, page, failed, listed, untouched, closings, reopenings>>
github == <<count, open, untouched, closings, reopenings>>

Numbers == 1..MaxNumber

-----------------------------------------------------------------------------
(* The job. *)

DefaultFrom == 1

\* A job is started by the main loop, or by the sync command with or without
\* --from, whose default is 1.
PeriodicJob  == [from |-> DefaultFrom, all |-> FALSE, given |-> FALSE]
CommandJob   == [from |-> 1, all |-> TRUE, given |-> FALSE]
FlagJobs     == [from : FromFlags, all : {TRUE}, given : {TRUE}]
Jobs         == {PeriodicJob, CommandJob} \cup FlagJobs

From == IF job.from = 0 THEN StartIndex ELSE job.from

\* Mutant: one page further.
FirstPageLate == From \div PerPage + 2

FirstPage == From \div PerPage + 1

-----------------------------------------------------------------------------
(* GitHub's list: what the state filter selects, in the order of creation. *)

Selected == IF job.all THEN 1..count ELSE open

Position(n) == Cardinality({m \in Selected : m <= n})

OnPage(p) == {n \in Selected : (p - 1) * PerPage < Position(n) /\ Position(n) <= p * PerPage}

\* Mutants: the last page is dropped when it has one item only; the end is told
\* by another number than the one the loop looks for.
NextPageShort(p) == IF Cardinality(Selected) > p * PerPage + 1 THEN p + 1 ELSE 0
NextPageMinus(p) == IF Cardinality(Selected) > p * PerPage THEN p + 1 ELSE -1

NextPage(p) == IF Cardinality(Selected) > p * PerPage THEN p + 1 ELSE 0

-----------------------------------------------------------------------------
Init ==
    /\ job \in Jobs
    /\ count \in 0..MaxNumber
    /\ open \in SUBSET (1..count)
    /\ page = FirstPage
    /\ failed = FALSE
    /\ listed = [n \in Numbers |-> 0]
    /\ untouched = open
    /\ closings = 0
    /\ reopenings = 0

\* One answer of GitHub has the items of the page and the number of the next one.
ListPage ==
    /\ page # 0
    /\ listed' = [n \in Numbers |-> IF n \in OnPage(page) THEN listed[n] + 1 ELSE listed[n]]
    /\ page' = NextPage(page)
    /\ UNCHANGED <<job, failed, github>>

\* The error ends the listing of the repository.
ListFails ==
    /\ page # 0
    /\ page' = 0
    /\ failed' = TRUE
    /\ UNCHANGED <<job, listed, github>>

OpenItem ==
    /\ page # 0
    /\ count < MaxNumber
    /\ count' = count + 1
    /\ open' = open \cup {count + 1}
    /\ UNCHANGED <<job, page, failed, listed, untouched, closings, reopenings>>

CloseItem(n) ==
    /\ page # 0
    /\ n \in open
    /\ closings + reopenings < MaxChanges
    /\ open' = open \ {n}
    /\ untouched' = untouched \ {n}
    /\ closings' = closings + 1
    /\ UNCHANGED <<job, count, page, failed, listed, reopenings>>

ReopenItem(n) ==
    /\ page # 0
    /\ n \in 1..count \ open
    /\ closings + reopenings < MaxChanges
    /\ open' = open \cup {n}
    /\ reopenings' = reopenings + 1
    /\ UNCHANGED <<job, count, page, failed, listed, untouched, closings>>

\* The listing is over; what happens on GitHub now is for the next job.
Over == page = 0 /\ UNCHANGED vars

Next ==
    \/ ListPage
    \/ ListFails
    \/ OpenItem
    \/ \E n \in Numbers : CloseItem(n) \/ ReopenItem(n)
    \/ Over

Spec == Init /\ [][Next]_vars

-----------------------------------------------------------------------------
(* Properties. *)

TypeOK ==
    /\ job \in Jobs
    /\ count \in 0..MaxNumber
    /\ open \subseteq 1..count
    /\ page \in Nat
    /\ failed \in BOOLEAN
    /\ listed \in [Numbers -> Nat]
    /\ untouched \subseteq open
    /\ closings \in Nat
    /\ reopenings \in Nat

Succeeded == page = 0 /\ ~failed

Missed   == {n \in untouched : listed[n] = 0}
Repeated == {n \in Numbers : listed[n] > 1}

\* What the flag and its comment say of a job over items in any state (the sync
\* command): "issue number to start from", "fetches all GitHub issues and pull
\* requests starting with the From index".  The code breaks it when From is a
\* multiple of the page size: item 200 is the last one of page 2, and a job from 200
\* starts on page 3 (sync.go:198).
CompleteFrom ==
    Succeeded /\ job.all => \A n \in 1..count : n >= From => listed[n] = 1

\* What such a job does do when it meets no error, whatever is opened, closed and
\* reopened meanwhile: it lists every item after From, none of them or of the others
\* twice, and none that is a whole page or more before From (sync.go:198-231).
CompleteAfterFrom ==
    Succeeded /\ job.all =>
        \A n \in 1..count : /\ listed[n] <= 1
                            /\ n > From => listed[n] = 1
                            /\ n + PerPage <= From => listed[n] = 0

\* A job over open items (the periodic synchronization) loses an item that is
\* open all along only to another one that is closed while it lists: one at most
\* for each (sync.go:199-207, where pages are positions in a list that moves).
MissesNeedClosings ==
    Succeeded /\ ~job.all => Cardinality(Missed) <= closings

\* Such a job stores an item twice only when one was opened again meanwhile.
RepeatsNeedReopenings ==
    ~job.all => Cardinality(Repeated) <= reopenings

\* Why these hold, and what is proved inductive.  In a list of all items the
\* position of an item is its number, and what is listed is a range.
ListedIsRange ==
    job.all /\ ~failed =>
        /\ page # 0 =>
             /\ FirstPage <= page
             /\ page > FirstPage => (page - 1) * PerPage < count
             /\ \A n \in Numbers :
                  listed[n] = IF (FirstPage - 1) * PerPage < n /\ n <= (page - 1) * PerPage
                              THEN 1 ELSE 0
        /\ page = 0 => \A n \in 1..count : listed[n] = IF n > (FirstPage - 1) * PerPage THEN 1 ELSE 0

\* In a list of open ones, items that moved up past the place the job has reached
\* without being listed, and items that will be or were listed again.
Boundary == (page - 1) * PerPage
Behind == {n \in Missed : Position(n) <= Boundary}
Again  == Repeated \cup {n \in open : listed[n] > 0 /\ Position(n) > Boundary}

\* Nothing is listed before it is opened.
NoneBeforeOpened == \A n \in Numbers : n > count => listed[n] = 0

CrossingsBounded ==
    ~job.all =>
        /\ page # 0 => Cardinality(Behind) <= closings /\ Cardinality(Again) <= reopenings
        /\ page = 0 => Cardinality(Repeated) <= reopenings
        /\ Succeeded => Cardinality(Missed) <= closings

=============================================================================
