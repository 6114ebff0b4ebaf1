------------------------------ MODULE SyncJob ------------------------------
(***************************************************************************)
(* One synchronization job, syncCmd.Run of github/sync.go: the goroutine   *)
(* that runs the job lists each repository page by page and feeds two      *)
(* bounded channels; fetching goroutines enrich pull requests; indexing    *)
(* goroutines write to Elastic Search.  The goroutines of a repository are *)
(* awaited before the next repository starts on fresh channels.            *)
(*                                                                         *)
(* A listing entry is identified by its repository, page and position, so  *)
(* GitHub may list one issue twice.  What the job handles is entries.      *)
(***************************************************************************)
EXTENDS Naturals, Sequences, FiniteSets

CONSTANTS
    NumRepos,     \* length of the slice of repositories given to Run
    Listing,      \* Listing[r][p][k]: is the k-th entry of page p of r a pull request?
    FetchProcs,   \* one element per fetching goroutine (options.NumFetchProcs of them)
    IndexProcs,   \* one element per indexing goroutine (options.NumIndexProcs of them)
    From,         \* options.From
    StartIndex,   \* StartIndex[r]: RepositoryConfig.StartIndex of repository r
    PerPage,      \* options.PerPage
    NoEntry       \* what a goroutine that holds no entry holds

Repos == 1..NumRepos

ASSUME NumReposAssumption == NumRepos \in Nat
ASSUME ListingAssumption  == Listing \in [Repos -> Seq(Seq(BOOLEAN))]
ASSUME ProcsAssumption    == /\ IsFiniteSet(FetchProcs) /\ FetchProcs # {}
                             /\ IsFiniteSet(IndexProcs) /\ IndexProcs # {}
ASSUME OptionsAssumption  == /\ From \in Nat
                             /\ PerPage \in Nat \ {0}
                             /\ StartIndex \in [Repos -> Nat]

VARIABLES
    main,         \* where the goroutine running Run is
    cur,          \* the repository of the current iteration; s.toFetch and s.toIndex
                  \* are the channels toFetch[cur] and toIndex[cur]
    page,         \* the next page to list, 0 after the last one
    iss,          \* entries of the current page not yet queued
    toFetch,      \* buffers of the channels made for each iteration
    toIndex,
    fetchClosed,  \* was close() called on the channel?
    indexClosed,
    wgFetch,      \* WaitGroup counters
    wgIndex,
    fpc,          \* per fetching goroutine <<repository, proc>>: where it is,
    fchan,        \*   the channel its range loop reads,
    fitem,        \*   the entry it holds
    ipc,          \* the same for each indexing goroutine
    ichan,
    iitem,
    listed,       \* history: entries GitHub has answered with
    attempts,     \* history: how often an indexing goroutine has disposed of an entry
    stored        \* documents written: repository of the index, entry, document type

mainVars  == <<main, cur, page, iss>>
chanVars  == <<toFetch, toIndex, fetchClosed, indexClosed, wgFetch, wgIndex>>
fetchVars == <<fpc, fchan, fitem>>
indexVars == <<ipc, ichan, iitem>>
histVars  == <<listed, attempts, stored>>
vars == <<mainVars, chanVars, fetchVars, indexVars, histVars>>

-----------------------------------------------------------------------------
(* Entries, documents and goroutines. *)

Entry    == [repo : Repos, page : Nat, pos : Nat, pr : BOOLEAN]
DocTypes == {"issue", "pull_request"}
Indexed  == [entry : Entry, type : DocTypes]     \* a githubIndexedItem

\* The entries GitHub answers with for a page; a page past the last is empty.
PageOf(r, p) ==
    IF p \in 1..Len(Listing[r])
    THEN [k \in 1..Len(Listing[r][p]) |->
            [repo |-> r, page |-> p, pos |-> k, pr |-> Listing[r][p][k]]]
    ELSE <<>>

Elements(s) == {s[k] : k \in 1..Len(s)}

Entries == UNION {UNION {Elements(PageOf(r, p)) : p \in 1..Len(Listing[r])} : r \in Repos}

\* Mutant: the loop over pages does not end with the last page.
NextPageEndless(r, p) == IF p <= Len(Listing[r]) THEN p + 1 ELSE p

NextPage(r, p) == IF p < Len(Listing[r]) THEN p + 1 ELSE 0

\* --from overrides the configuration of the repository.
FirstPage(r) == (IF From = 0 THEN StartIndex[r] ELSE From) \div PerPage + 1

Fetchers == Repos \X FetchProcs
Indexers == Repos \X IndexProcs
Channels == 1..(NumRepos + 1)

Live(pc) == pc \notin {"none", "done"}

\* Mutant: a Wait() that is missing.
NotAwaited == TRUE

\* When wgFetch.Wait() and wgIndex.Wait() return.
FetchersDone == wgFetch = 0
IndexersDone == wgIndex = 0

-----------------------------------------------------------------------------
Init ==
    /\ main = IF NumRepos = 0 THEN "done" ELSE "start"
    /\ cur = 1
    /\ page = 0
    /\ iss = <<>>
    /\ toFetch = [c \in Channels |-> <<>>]
    /\ toIndex = [c \in Channels |-> <<>>]
    /\ fetchClosed = [c \in Channels |-> FALSE]
    /\ indexClosed = [c \in Channels |-> FALSE]
    /\ wgFetch = 0
    /\ wgIndex = 0
    /\ fpc = [f \in Fetchers |-> "none"]
    /\ fchan = [f \in Fetchers |-> 0]
    /\ fitem = [f \in Fetchers |-> NoEntry]
    /\ ipc = [x \in Indexers |-> "none"]
    /\ ichan = [x \in Indexers |-> 0]
    /\ iitem = [x \in Indexers |-> NoEntry]
    /\ listed = {}
    /\ attempts = [e \in Entries |-> 0]
    /\ stored = {}

-----------------------------------------------------------------------------
(* The goroutine that runs the job. *)

\* Start the goroutines of the repository.  They block on empty channels until
\* this goroutine sends, so starting them all in one step hides nothing.
StartRepository ==
    /\ main = "start"
    /\ wgIndex' = wgIndex + Cardinality(IndexProcs)
    /\ wgFetch' = wgFetch + Cardinality(FetchProcs)
    /\ ipc' = [x \in Indexers |-> IF x[1] = cur THEN "spawned" ELSE ipc[x]]
    /\ fpc' = [f \in Fetchers |-> IF f[1] = cur THEN "spawned" ELSE fpc[f]]
    /\ page' = FirstPage(cur)
    /\ main' = "list"
    /\ UNCHANGED <<cur, iss, toFetch, toIndex, fetchClosed, indexClosed,
                   fchan, fitem, ichan, iitem, histVars>>

\* Issues.ListByRepo answers, and the page is ranged over.
ListPage ==
    /\ main = "list"
    /\ iss' = PageOf(cur, page)
    /\ listed' = listed \cup Elements(PageOf(cur, page))
    /\ main' = "send"
    /\ UNCHANGED <<cur, page, chanVars, fetchVars, indexVars, attempts, stored>>

\* Mutant: a page that fails is left out, and the next one is asked for.
ListFailsGoesOn ==
    /\ main = "list"
    /\ page' = NextPage(cur, page)
    /\ main' = IF NextPage(cur, page) = 0 THEN "closeFetch" ELSE "list"
    /\ UNCHANGED <<cur, iss, chanVars, fetchVars, indexVars, histVars>>

\* Issues.ListByRepo fails: Run logs the error and carries on with closing.
ListFails ==
    /\ main = "list"
    /\ main' = "closeFetch"
    /\ UNCHANGED <<cur, page, iss, chanVars, fetchVars, indexVars, histVars>>

SendIssue ==
    /\ main = "send" /\ iss # <<>>
    /\ ~Head(iss).pr
    /\ Len(toIndex[cur]) < Cardinality(IndexProcs)
    /\ toIndex' = [toIndex EXCEPT ![cur] =
                      Append(@, [entry |-> Head(iss), type |-> "issue"])]
    /\ iss' = Tail(iss)
    /\ UNCHANGED <<main, cur, page, toFetch, fetchClosed, indexClosed, wgFetch, wgIndex,
                   fetchVars, indexVars, histVars>>

SendPullRequest ==
    /\ main = "send" /\ iss # <<>>
    /\ Head(iss).pr
    /\ Len(toFetch[cur]) < Cardinality(FetchProcs)
    /\ toFetch' = [toFetch EXCEPT ![cur] = Append(@, Head(iss))]
    /\ iss' = Tail(iss)
    /\ UNCHANGED <<main, cur, page, toIndex, fetchClosed, indexClosed, wgFetch, wgIndex,
                   fetchVars, indexVars, histVars>>

\* page = resp.NextPage; the loop ends when it is 0.
PageDone ==
    /\ main = "send" /\ iss = <<>>
    /\ page' = NextPage(cur, page)
    /\ main' = IF NextPage(cur, page) = 0 THEN "closeFetch" ELSE "list"
    /\ UNCHANGED <<cur, iss, chanVars, fetchVars, indexVars, histVars>>

CloseFetch ==
    /\ main = "closeFetch"
    /\ fetchClosed' = [fetchClosed EXCEPT ![cur] = TRUE]
    /\ main' = "waitFetch"
    /\ UNCHANGED <<cur, page, iss, toFetch, toIndex, indexClosed, wgFetch, wgIndex,
                   fetchVars, indexVars, histVars>>

\* wgFetch.Wait() returns; close(s.toIndex).
CloseIndex ==
    /\ main = "waitFetch" /\ FetchersDone
    /\ indexClosed' = [indexClosed EXCEPT ![cur] = TRUE]
    /\ main' = "waitIndex"
    /\ UNCHANGED <<cur, page, iss, toFetch, toIndex, fetchClosed, wgFetch, wgIndex,
                   fetchVars, indexVars, histVars>>

\* wgIndex.Wait() returns; fresh channels for the next iteration.
FinishRepository ==
    /\ main = "waitIndex" /\ IndexersDone
    /\ cur' = cur + 1
    /\ main' = IF cur = NumRepos THEN "done" ELSE "start"
    /\ UNCHANGED <<page, iss, chanVars, fetchVars, indexVars, histVars>>

-----------------------------------------------------------------------------
(* fetchingProc *)

\* The range loop evaluates s.toFetch once, when the goroutine first runs.
FetcherStart(f) ==
    /\ fpc[f] = "spawned"
    /\ fchan' = [fchan EXCEPT ![f] = cur]
    /\ fpc' = [fpc EXCEPT ![f] = "range"]
    /\ UNCHANGED <<mainVars, chanVars, fitem, indexVars, histVars>>

FetcherReceive(f) ==
    /\ fpc[f] = "range"
    /\ toFetch[fchan[f]] # <<>>
    /\ fitem' = [fitem EXCEPT ![f] = Head(toFetch[fchan[f]])]
    /\ toFetch' = [toFetch EXCEPT ![fchan[f]] = Tail(@)]
    /\ fpc' = [fpc EXCEPT ![f] = "send"]
    /\ UNCHANGED <<mainVars, toIndex, fetchClosed, indexClosed, wgFetch, wgIndex,
                   fchan, indexVars, histVars>>

\* pullRequestFromIssue answers or fails; either way the entry goes on to
\* whichever channel s.toIndex is now, as a pull request or as the bare issue.
FetcherSend(f) ==
    /\ fpc[f] = "send"
    /\ Len(toIndex[cur]) < Cardinality(IndexProcs)
    /\ \E t \in DocTypes :
          toIndex' = [toIndex EXCEPT ![cur] = Append(@, [entry |-> fitem[f], type |-> t])]
    /\ fitem' = [fitem EXCEPT ![f] = NoEntry]
    /\ fpc' = [fpc EXCEPT ![f] = "range"]
    /\ UNCHANGED <<mainVars, toFetch, fetchClosed, indexClosed, wgFetch, wgIndex,
                   fchan, indexVars, histVars>>

FetcherExit(f) ==
    /\ fpc[f] = "range"
    /\ toFetch[fchan[f]] = <<>> /\ fetchClosed[fchan[f]]
    /\ wgFetch' = wgFetch - 1
    /\ fpc' = [fpc EXCEPT ![f] = "done"]
    /\ UNCHANGED <<mainVars, toFetch, toIndex, fetchClosed, indexClosed, wgIndex,
                   fchan, fitem, indexVars, histVars>>

-----------------------------------------------------------------------------
(* indexingProc *)

IndexerStart(x) ==
    /\ ipc[x] = "spawned"
    /\ ichan' = [ichan EXCEPT ![x] = cur]
    /\ ipc' = [ipc EXCEPT ![x] = "range"]
    /\ UNCHANGED <<mainVars, chanVars, fetchVars, iitem, histVars>>

IndexerReceive(x) ==
    /\ ipc[x] = "range"
    /\ toIndex[ichan[x]] # <<>>
    /\ iitem' = [iitem EXCEPT ![x] = Head(toIndex[ichan[x]])]
    /\ toIndex' = [toIndex EXCEPT ![ichan[x]] = Tail(@)]
    /\ ipc' = [ipc EXCEPT ![x] = "store"]
    /\ UNCHANGED <<mainVars, toFetch, fetchClosed, indexClosed, wgFetch, wgIndex,
                   fetchVars, ichan, histVars>>

\* Dispose of the entry held and go back to the range loop.
Disposed(x) ==
    /\ ipc[x] = "store"
    /\ attempts' = [attempts EXCEPT ![iitem[x].entry] = @ + 1]
    /\ iitem' = [iitem EXCEPT ![x] = NoEntry]
    /\ ipc' = [ipc EXCEPT ![x] = "range"]
    /\ UNCHANGED <<mainVars, chanVars, fetchVars, ichan, listed>>

\* Store succeeds: a document in an index of the repository the goroutine was
\* started for.
IndexerStore(x) ==
    /\ Disposed(x)
    /\ stored' = stored \cup {[repo |-> x[1], entry |-> iitem[x].entry, type |-> iitem[x].type]}

\* Marshaling, building the blob or Store fails: logged, and the entry is dropped.
IndexerFails(x) ==
    /\ Disposed(x)
    /\ UNCHANGED stored

\* Mutant: the goroutine goes on receiving from the closed channel.
IndexerExitsAgain(x) ==
    /\ ipc[x] = "range"
    /\ toIndex[ichan[x]] = <<>> /\ indexClosed[ichan[x]]
    /\ wgIndex' = wgIndex - 1
    /\ UNCHANGED <<mainVars, toFetch, toIndex, fetchClosed, indexClosed, wgFetch,
                   fetchVars, indexVars, histVars>>

IndexerExit(x) ==
    /\ ipc[x] = "range"
    /\ toIndex[ichan[x]] = <<>> /\ indexClosed[ichan[x]]
    /\ wgIndex' = wgIndex - 1
    /\ ipc' = [ipc EXCEPT ![x] = "done"]
    /\ UNCHANGED <<mainVars, toFetch, toIndex, fetchClosed, indexClosed, wgFetch,
                   fetchVars, ichan, iitem, histVars>>

-----------------------------------------------------------------------------
Main ==
    \/ StartRepository \/ ListPage \/ ListFails \/ SendIssue \/ SendPullRequest
    \/ PageDone \/ CloseFetch \/ CloseIndex \/ FinishRepository

Fetcher(f) == FetcherStart(f) \/ FetcherReceive(f) \/ FetcherSend(f) \/ FetcherExit(f)

Indexer(x) ==
    \/ IndexerStart(x) \/ IndexerReceive(x) \/ IndexerStore(x) \/ IndexerFails(x)
    \/ IndexerExit(x)

\* Run has returned: nothing is left to happen.
Returned == main = "done" /\ UNCHANGED vars

Next == Main \/ (\E f \in Fetchers : Fetcher(f)) \/ (\E x \in Indexers : Indexer(x)) \/ Returned

\* Go schedules every goroutine that can run, and every call to GitHub and to
\* Elastic Search answers or fails.
Fairness ==
    /\ WF_vars(Main)
    /\ \A f \in Fetchers : WF_vars(Fetcher(f))
    /\ \A x \in Indexers : WF_vars(Indexer(x))

Spec == Init /\ [][Next]_vars /\ Fairness

-----------------------------------------------------------------------------
(* Properties. *)

TypeOK ==
    /\ main \in {"start", "list", "send", "closeFetch", "waitFetch", "waitIndex", "done"}
    /\ cur \in Channels
    /\ page \in Nat
    /\ iss \in Seq(Entry)
    /\ toFetch \in [Channels -> Seq(Entry)]
    /\ toIndex \in [Channels -> Seq(Indexed)]
    /\ fetchClosed \in [Channels -> BOOLEAN]
    /\ indexClosed \in [Channels -> BOOLEAN]
    /\ wgFetch \in Nat
    /\ wgIndex \in Nat
    /\ fpc \in [Fetchers -> {"none", "spawned", "range", "send", "done"}]
    /\ fchan \in [Fetchers -> {0} \cup Channels]
    /\ fitem \in [Fetchers -> Entry \cup {NoEntry}]
    /\ ipc \in [Indexers -> {"none", "spawned", "range", "store", "done"}]
    /\ ichan \in [Indexers -> {0} \cup Channels]
    /\ iitem \in [Indexers -> Indexed \cup {NoEntry}]
    /\ listed \subseteq Entries
    /\ attempts \in [Entries -> Nat]
    /\ stored \subseteq [repo : Repos, entry : Entry, type : DocTypes]

\* A send on a closed channel panics and takes the process down.  The two
\* close() calls of Run are ordered after the last send on each channel: the
\* listing is over before toFetch is closed, and no fetching goroutine is left
\* to send, or to start, once toIndex is.
NoSendOnClosedChannel ==
    /\ main \in {"list", "send"} => ~fetchClosed[cur] /\ ~indexClosed[cur]
    /\ indexClosed[cur] => \A f \in Fetchers : ~Live(fpc[f])

\* The goroutines of a repository never outlive its iteration: while one of
\* them runs, it reads the channels of its own repository, so an entry is only
\* ever written to the indices of the repository it was listed for.
NoCrossRepository ==
    /\ \A f \in Fetchers : Live(fpc[f]) => f[1] = cur /\ fchan[f] \in {0, cur}
    /\ \A x \in Indexers : Live(ipc[x]) => x[1] = cur /\ ichan[x] \in {0, cur}
    /\ \A d \in stored : d.repo = d.entry.repo

\* Run "won't return until all job is done": at the end of an iteration, and so
\* when it returns, every entry GitHub listed has been attempted.
AllDoneAtReturn ==
    main \in {"start", "done"} => \A e \in listed : attempts[e] >= 1

\* The job is over, whatever fails, if goroutines are scheduled and calls answer.
Terminates == <>(main = "done")

\* The pages of each repository from the first one the job asks for.
PagesOf ==
    [r \in Repos |-> [k \in 1..(Len(Listing[r]) + 1 - FirstPage(r)) |->
                        Elements(PageOf(r, FirstPage(r) + k - 1))]]

\* The pipeline does what the comment on Run promises: every entry listed is
\* attempted once, however often goroutines hand it on; and when a page fails
\* nothing that comes after it is listed.
Promise == INSTANCE SyncPromise
PromiseSpec == Promise!Spec

=============================================================================
