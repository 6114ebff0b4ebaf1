-------------------------- MODULE SyncJob_proofs --------------------------
(***************************************************************************)
(* Proofs about SyncJob for any listing and any numbers of repositories,   *)
(* goroutines and channel slots.                                           *)
(***************************************************************************)
EXTENDS SyncJob, FiniteSetTheorems, SequenceTheorems, TLAPS

-----------------------------------------------------------------------------
(* The inductive invariant. *)

LiveFetchers == {f \in Fetchers : Live(fpc[f])}
LiveIndexers == {x \in Indexers : Live(ipc[x])}

\* Entries on their way: waiting to be queued, in a channel or held.
Queueing      == Elements(iss)
InFetchChan   == Elements(toFetch[cur])
HeldByFetcher == {fitem[f] : f \in {g \in Fetchers : fpc[g] = "send"}}
InIndexChan   == {d.entry : d \in Elements(toIndex[cur])}
HeldByIndexer == {iitem[x].entry : x \in {y \in Indexers : ipc[y] = "store"}}
Attempted     == {e \in Entries : attempts[e] > 0}
InFlight      == Queueing \cup InFetchChan \cup HeldByFetcher \cup InIndexChan \cup HeldByIndexer

\* Where Run is determines the current repository and what is being queued.
Position ==
    /\ main = "done" <=> cur = NumRepos + 1
    /\ iss # <<>> => main = "send"

\* Where Run is determines which channels are closed, and later ones are unused.
ChannelState ==
    /\ \A c \in Channels : fetchClosed[c] <=>
          (c < cur \/ (c = cur /\ main \in {"waitFetch", "waitIndex"}))
    /\ \A c \in Channels : indexClosed[c] <=>
          (c < cur \/ (c = cur /\ main = "waitIndex"))
    /\ \A c \in Channels : c > cur => toFetch[c] = <<>> /\ toIndex[c] = <<>>

\* Where the fetching goroutines of each repository can be.  One that has left
\* its loop has seen its channel closed and empty.
FetcherState ==
    /\ wgFetch = Cardinality(LiveFetchers)
    /\ \A f \in Fetchers :
        /\ Live(fpc[f]) => f[1] = cur /\ main \in {"list", "send", "closeFetch", "waitFetch"}
        /\ fpc[f] \in {"range", "send"} => fchan[f] = cur
        /\ fpc[f] \in {"none", "spawned"} => fchan[f] = 0
        /\ f[1] > cur => fpc[f] = "none"
        /\ f[1] = cur => (fpc[f] = "none" <=> main = "start")
        /\ f[1] = cur /\ fpc[f] = "done" => fetchClosed[cur] /\ toFetch[cur] = <<>>

IndexerState ==
    /\ wgIndex = Cardinality(LiveIndexers)
    /\ \A x \in Indexers :
        /\ Live(ipc[x]) => x[1] = cur /\ main \notin {"start", "done"}
        /\ ipc[x] \in {"range", "store"} => ichan[x] = cur
        /\ ipc[x] \in {"none", "spawned"} => ichan[x] = 0
        /\ x[1] > cur => ipc[x] = "none"
        /\ x[1] = cur => (ipc[x] = "none" <=> main = "start")
        /\ x[1] = cur /\ ipc[x] = "done" => indexClosed[cur] /\ toIndex[cur] = <<>>

\* An indexing goroutine that is storing holds something to store.
Holding == \A x \in Indexers : ipc[x] = "store" => iitem[x] \in Indexed

\* No entry appears from nowhere, moves to another repository or gets lost.
EntriesKept ==
    /\ InFlight \subseteq {e \in listed : e.repo = cur}
    /\ Attempted \subseteq listed
    /\ listed \subseteq InFlight \cup Attempted
    /\ main \in {"start", "done"} => InFlight = {}
    /\ \A d \in stored : d.repo = d.entry.repo

\* No two elements of s are equal, or are about one entry.
Distinct(s)      == \A i, j \in 1..Len(s) : s[i] = s[j] => i = j
DistinctItems(s) == \A i, j \in 1..Len(s) : s[i].entry = s[j].entry => i = j

\* No two of six sets have an element in common.
Apart(a, b, c, d, e, f) ==
    /\ a \cap (b \cup c \cup d \cup e \cup f) = {}
    /\ b \cap (c \cup d \cup e \cup f) = {}
    /\ c \cap (d \cup e \cup f) = {}
    /\ d \cap (e \cup f) = {}
    /\ e \cap f = {}

\* An entry is in one place at a time, once, and nowhere after it was attempted.
OneCopy ==
    /\ Distinct(iss) /\ Distinct(toFetch[cur]) /\ DistinctItems(toIndex[cur])
    /\ \A f, g \in Fetchers :
          fpc[f] = "send" /\ fpc[g] = "send" /\ fitem[f] = fitem[g] => f = g
    /\ \A x, y \in Indexers :
          ipc[x] = "store" /\ ipc[y] = "store" /\ iitem[x].entry = iitem[y].entry => x = y
    /\ Apart(Queueing, InFetchChan, HeldByFetcher, InIndexChan, HeldByIndexer, Attempted)
    /\ \A e \in Entries : attempts[e] <= 1

\* The last page that was listed, if any was.
LastListed == IF main = "list" THEN page - 1 ELSE page

\* While a repository is listed, what it has listed are the pages up to there.
PagesListed ==
    /\ \A e \in listed : e.repo <= cur /\ (e.repo = cur => main # "start")
    /\ \A e \in listed : e.page >= FirstPage(e.repo)
    /\ main \in {"list", "send"} =>
          /\ page >= FirstPage(cur)
          /\ \A p \in FirstPage(cur)..LastListed : Elements(PageOf(cur, p)) \subseteq listed
          /\ \A e \in listed : e.repo = cur => e.page <= LastListed

IInv ==
    /\ TypeOK
    /\ Position
    /\ ChannelState
    /\ FetcherState
    /\ IndexerState
    /\ Holding
    /\ EntriesKept
    /\ OneCopy
    /\ PagesListed

-----------------------------------------------------------------------------
(* Facts about the operators of the model. *)

\* Sending on a channel adds one element to its buffer.
LEMMA AppendElements ==
    ASSUME NEW S, NEW s \in Seq(S), NEW e \in S
    PROVE  Elements(Append(s, e)) = Elements(s) \cup {e}
BY DEF Elements

\* Receiving takes an element out, the first one.
LEMMA HeadTailElements ==
    ASSUME NEW S, NEW s \in Seq(S), s # <<>>
    PROVE  Elements(s) = {Head(s)} \cup Elements(Tail(s))
<1>1. /\ Tail(s) \in Seq(S)
      /\ Len(Tail(s)) = Len(s) - 1
      /\ \A k \in 1..Len(Tail(s)) : Tail(s)[k] = s[k + 1]
  BY HeadTailProperties
<1>2. Len(s) \in Nat \ {0} /\ Head(s) = s[1]
  BY EmptySeq
<1>3. Elements(s) \subseteq {Head(s)} \cup Elements(Tail(s))
  <2> SUFFICES ASSUME NEW k \in 1..Len(s), k # 1
               PROVE  s[k] \in Elements(Tail(s))
    BY <1>2 DEF Elements
  <2>1. k - 1 \in 1..Len(Tail(s)) /\ Tail(s)[k - 1] = s[k]
    BY <1>1, <1>2
  <2> QED BY <2>1 DEF Elements
<1>4. {Head(s)} \cup Elements(Tail(s)) \subseteq Elements(s)
  BY <1>1, <1>2 DEF Elements
<1> QED BY <1>3, <1>4

\* A page holds entries of the repository it was listed for.
LEMMA PageEntries ==
    ASSUME NEW r \in Repos, NEW p \in Nat
    PROVE  /\ PageOf(r, p) \in Seq(Entry)
           /\ Elements(PageOf(r, p)) \subseteq {e \in Entries : e.repo = r}
<1>1. CASE p \in 1..Len(Listing[r])
  <2> DEFINE flags == Listing[r][p]
  <2>1. flags \in Seq(BOOLEAN)
    BY <1>1, ListingAssumption
  <2>2. Len(flags) \in Nat /\ \A k \in 1..Len(flags) : flags[k] \in BOOLEAN
    BY <2>1
  <2>3. PageOf(r, p) =
          [k \in 1..Len(flags) |-> [repo |-> r, page |-> p, pos |-> k, pr |-> flags[k]]]
    BY <1>1 DEF PageOf
  <2> HIDE DEF flags
  <2>4. PageOf(r, p) \in Seq(Entry) /\ Len(PageOf(r, p)) = Len(flags)
    BY <2>2, <2>3 DEF Entry
  <2>5. \A e \in Elements(PageOf(r, p)) : e.repo = r
    BY <2>3, <2>4 DEF Elements
  <2>6. Elements(PageOf(r, p)) \subseteq Entries
    BY <1>1 DEF Entries
  <2> QED BY <2>4, <2>5, <2>6
<1>2. CASE p \notin 1..Len(Listing[r])
  <2>1. PageOf(r, p) = <<>>
    BY <1>2 DEF PageOf
  <2>2. Elements(<<>>) = {}
    BY DEF Elements
  <2> QED BY <2>1, <2>2
<1> QED BY <1>1, <1>2

LEMMA EntriesAreEntry == Entries \subseteq Entry
<1> SUFFICES ASSUME NEW r \in Repos, NEW p \in 1..Len(Listing[r])
             PROVE  Elements(PageOf(r, p)) \subseteq Entry
  BY DEF Entries
<1>1. p \in Nat
  BY ListingAssumption
<1>2. PageOf(r, p) \in Seq(Entry)
  BY <1>1, PageEntries
<1> QED BY <1>2 DEF Elements

LEMMA NextPageNat == ASSUME NEW r \in Repos, NEW p \in Nat PROVE NextPage(r, p) \in Nat
BY DEF NextPage

\* A sequence without repetition loses its head, and only that, to a receiver.
LEMMA TailDistinct ==
    ASSUME NEW S, NEW s \in Seq(S), s # <<>>, Distinct(s)
    PROVE  /\ Distinct(Tail(s))
           /\ Elements(Tail(s)) = Elements(s) \ {Head(s)}
<1>1. /\ Tail(s) \in Seq(S)
      /\ Len(Tail(s)) = Len(s) - 1
      /\ \A k \in 1..Len(Tail(s)) : Tail(s)[k] = s[k + 1]
  BY HeadTailProperties
<1>2. Len(s) \in Nat \ {0} /\ Head(s) = s[1]
  BY EmptySeq
<1>3. Distinct(Tail(s))
  <2> SUFFICES ASSUME NEW i \in 1..Len(Tail(s)), NEW j \in 1..Len(Tail(s)),
                      Tail(s)[i] = Tail(s)[j]
               PROVE  i = j
    BY DEF Distinct
  <2>1. i + 1 \in 1..Len(s) /\ j + 1 \in 1..Len(s) /\ s[i + 1] = s[j + 1]
    BY <1>1, <1>2
  <2>2. i + 1 = j + 1
    BY <2>1 DEF Distinct
  <2> QED BY <2>2
<1>4. Head(s) \notin Elements(Tail(s))
  <2> SUFFICES ASSUME NEW k \in 1..Len(Tail(s)) PROVE Tail(s)[k] # s[1]
    BY <1>2 DEF Elements
  <2>1. k + 1 \in 1..Len(s) /\ 1 \in 1..Len(s) /\ k + 1 # 1 /\ Tail(s)[k] = s[k + 1]
    BY <1>1, <1>2
  <2> QED BY <2>1 DEF Distinct
<1> QED BY <1>3, <1>4, HeadTailElements

\* What is sent and not in the buffer yet is then there once.
LEMMA AppendDistinct ==
    ASSUME NEW S, NEW s \in Seq(S), NEW e \in S, Distinct(s), e \notin Elements(s)
    PROVE  Distinct(Append(s, e))
BY DEF Distinct, Elements

\* The same of channels of items, of which the entries are looked at.
LEMMA TailDistinctItems ==
    ASSUME NEW s \in Seq(Indexed), s # <<>>, DistinctItems(s)
    PROVE  /\ DistinctItems(Tail(s))
           /\ {d.entry : d \in Elements(Tail(s))} =
                {d.entry : d \in Elements(s)} \ {Head(s).entry}
<1>1. /\ Tail(s) \in Seq(Indexed)
      /\ Len(Tail(s)) = Len(s) - 1
      /\ \A k \in 1..Len(Tail(s)) : Tail(s)[k] = s[k + 1]
  BY HeadTailProperties
<1>2. Len(s) \in Nat \ {0} /\ Head(s) = s[1]
  BY EmptySeq
<1>3. DistinctItems(Tail(s))
  <2> SUFFICES ASSUME NEW i \in 1..Len(Tail(s)), NEW j \in 1..Len(Tail(s)),
                      Tail(s)[i].entry = Tail(s)[j].entry
               PROVE  i = j
    BY DEF DistinctItems
  <2>1. i + 1 \in 1..Len(s) /\ j + 1 \in 1..Len(s) /\ s[i + 1].entry = s[j + 1].entry
    BY <1>1, <1>2
  <2>2. i + 1 = j + 1
    BY <2>1 DEF DistinctItems
  <2> QED BY <2>2
<1>4. ASSUME NEW d \in Elements(Tail(s)) PROVE d.entry # Head(s).entry
  <2>1. PICK k \in 1..Len(Tail(s)) : d = Tail(s)[k]
    BY DEF Elements
  <2>2. k + 1 \in 1..Len(s) /\ 1 \in 1..Len(s) /\ k + 1 # 1 /\ d = s[k + 1]
    BY <1>1, <1>2, <2>1
  <2> QED BY <1>2, <2>2 DEF DistinctItems
<1>5. Elements(s) = {Head(s)} \cup Elements(Tail(s))
  BY HeadTailElements
<1> QED BY <1>3, <1>4, <1>5

LEMMA AppendDistinctItems ==
    ASSUME NEW s \in Seq(Indexed), NEW d \in Indexed, DistinctItems(s),
           d.entry \notin {b.entry : b \in Elements(s)}
    PROVE  DistinctItems(Append(s, d))
BY DEF DistinctItems, Elements

\* The entries of a page are told apart by their positions.
LEMMA PageDistinct ==
    ASSUME NEW r \in Repos, NEW p \in Nat
    PROVE  /\ Distinct(PageOf(r, p))
           /\ \A e \in Elements(PageOf(r, p)) : e.repo = r /\ e.page = p
<1>1. CASE p \in 1..Len(Listing[r])
  <2> DEFINE flags == Listing[r][p]
  <2>1. Len(flags) \in Nat
    <3>1. flags \in Seq(BOOLEAN)
      BY <1>1, ListingAssumption
    <3> QED BY <3>1
  <2>2. PageOf(r, p) =
          [k \in 1..Len(flags) |-> [repo |-> r, page |-> p, pos |-> k, pr |-> flags[k]]]
    BY <1>1 DEF PageOf
  <2> HIDE DEF flags
  <2> QED BY <2>1, <2>2 DEF Distinct, Elements
<1>2. CASE p \notin 1..Len(Listing[r])
  <2>1. PageOf(r, p) = <<>>
    BY <1>2 DEF PageOf
  <2>2. Elements(<<>>) = {} /\ Distinct(<<>>)
    BY DEF Elements, Distinct
  <2> QED BY <2>1, <2>2
<1> QED BY <1>1, <1>2

LEMMA ListingLen == ASSUME NEW r \in Repos PROVE Len(Listing[r]) \in Nat
BY ListingAssumption

\* An entry is on the page it names.
LEMMA EntryOnPage ==
    ASSUME NEW e \in Entries
    PROVE  /\ e.repo \in Repos /\ e.page \in 1..Len(Listing[e.repo])
           /\ e \in Elements(PageOf(e.repo, e.page))
<1>0. PICK r \in Repos : \E p \in 1..Len(Listing[r]) : e \in Elements(PageOf(r, p))
  BY DEF Entries
<1>1. PICK p \in 1..Len(Listing[r]) : e \in Elements(PageOf(r, p))
  BY <1>0
<1>2. p \in Nat
  BY <1>1, ListingLen
<1>3. e.repo = r /\ e.page = p
  BY <1>1, <1>2, PageDistinct
<1> QED BY <1>1, <1>3

LEMMA FirstPageNat == ASSUME NEW r \in Repos PROVE FirstPage(r) \in Nat
BY OptionsAssumption DEF FirstPage

\* The pages of the promise are those of the listing from the first one on.
LEMMA PagesOfRepository ==
    ASSUME NEW r \in Repos, FirstPage(r) <= Len(Listing[r])
    PROVE  /\ Len(PagesOf[r]) = Len(Listing[r]) + 1 - FirstPage(r)
           /\ \A k \in 1..Len(PagesOf[r]) :
                 PagesOf[r][k] = Elements(PageOf(r, FirstPage(r) + k - 1))
BY FirstPageNat, ListingLen DEF PagesOf

\* Listing page p, when the pages before it are there, makes them the first pages.
LEMMA PagesUpTo ==
    ASSUME NEW r \in Repos, NEW p \in Nat, FirstPage(r) <= p, p <= Len(Listing[r]), NEW L,
           \A q \in FirstPage(r)..p :
              Elements(PageOf(r, q)) \subseteq L \cup Elements(PageOf(r, p))
    PROVE  \E n \in 1..Len(PagesOf[r]) :
              L \cup Elements(PageOf(r, p)) = L \cup Promise!FirstPages(r, n)
<1> DEFINE n == p + 1 - FirstPage(r)
<1>1. FirstPage(r) \in Nat /\ Len(Listing[r]) \in Nat
  BY FirstPageNat, ListingLen
<1>2. n \in 1..Len(PagesOf[r])
  BY <1>1, PagesOfRepository
<1>3. \A k \in 1..n : /\ PagesOf[r][k] = Elements(PageOf(r, FirstPage(r) + k - 1))
                      /\ FirstPage(r) + k - 1 \in FirstPage(r)..p
  <2> SUFFICES ASSUME NEW k \in 1..n
               PROVE  /\ PagesOf[r][k] = Elements(PageOf(r, FirstPage(r) + k - 1))
                      /\ FirstPage(r) + k - 1 \in FirstPage(r)..p
    OBVIOUS
  <2>1. FirstPage(r) <= Len(Listing[r])
    BY <1>1
  <2>2. Len(PagesOf[r]) \in Nat /\ k \in 1..Len(PagesOf[r])
    BY <2>1, <1>1, <1>2, PagesOfRepository
  <2>3. FirstPage(r) + k - 1 \in FirstPage(r)..p
    BY <1>1
  <2> QED BY <2>1, <2>2, <2>3, PagesOfRepository
<1>4. PagesOf[r][n] = Elements(PageOf(r, p))
  BY <1>1, <1>2, <1>3
<1>5. Promise!FirstPages(r, n) \subseteq L \cup Elements(PageOf(r, p))
  BY <1>3 DEF Promise!FirstPages
<1>6. Elements(PageOf(r, p)) \subseteq Promise!FirstPages(r, n)
  BY <1>1, <1>2, <1>4 DEF Promise!FirstPages
<1> QED BY <1>2, <1>5, <1>6

\* An entry from the first page on is in those pages.
LEMMA ListedInPages ==
    ASSUME NEW e \in Entries, e.page >= FirstPage(e.repo)
    PROVE  e \in Promise!FirstPages(e.repo, Len(PagesOf[e.repo]))
<1> DEFINE k == e.page + 1 - FirstPage(e.repo)
<1>1. /\ e.repo \in Repos /\ e.page \in 1..Len(Listing[e.repo])
      /\ e \in Elements(PageOf(e.repo, e.page))
      /\ FirstPage(e.repo) \in Nat /\ Len(Listing[e.repo]) \in Nat
  BY EntryOnPage, FirstPageNat, ListingLen
<1>2. FirstPage(e.repo) <= Len(Listing[e.repo])
  BY <1>1
<1>3. Len(PagesOf[e.repo]) = Len(Listing[e.repo]) + 1 - FirstPage(e.repo)
  BY <1>1, <1>2, PagesOfRepository
<1>4. k \in 1..Len(PagesOf[e.repo]) /\ FirstPage(e.repo) + k - 1 = e.page
  BY <1>1, <1>3
<1>5. PagesOf[e.repo][k] = Elements(PageOf(e.repo, FirstPage(e.repo) + k - 1))
  BY <1>1, <1>2, <1>4, PagesOfRepository
<1> HIDE DEF k
<1> QED BY <1>1, <1>4, <1>5 DEF Promise!FirstPages

\* The counters of the WaitGroups count finite sets of goroutines.
LEMMA FiniteGoroutines ==
    /\ IsFiniteSet(LiveFetchers)
    /\ IsFiniteSet(LiveIndexers)
    /\ IsFiniteSet(LiveFetchers)'
    /\ IsFiniteSet(LiveIndexers)'
<1>1. IsFiniteSet(Repos)
  BY NumReposAssumption, FS_Interval DEF Repos
<1>2. IsFiniteSet(Fetchers) /\ IsFiniteSet(Indexers)
  BY <1>1, ProcsAssumption, FS_Product DEF Fetchers, Indexers
<1> QED BY <1>2, FS_Subset DEF LiveFetchers, LiveIndexers

-----------------------------------------------------------------------------
(* The invariant holds initially. *)

LEMMA InitIInv == Init => IInv
<1> SUFFICES ASSUME Init PROVE IInv
  OBVIOUS
<1> USE DEF Init
<1>1. TypeOK
  BY NumReposAssumption DEF TypeOK, Channels, Repos
<1>2. Position
  BY NumReposAssumption DEF Position
<1>3. ChannelState
  BY NumReposAssumption DEF ChannelState, Channels
<1>4. LiveFetchers = {} /\ LiveIndexers = {}
  BY DEF LiveFetchers, LiveIndexers, Live
<1>5. FetcherState
  BY <1>4, FS_EmptySet, NumReposAssumption DEF FetcherState, Live, Fetchers, Repos
<1>6. IndexerState
  BY <1>4, FS_EmptySet, NumReposAssumption DEF IndexerState, Live, Indexers, Repos
<1>7. Elements(<<>>) = {}
  BY DEF Elements
<1>8. cur \in Channels
  BY <1>1 DEF TypeOK
<1>9. InFlight = {}
  BY <1>7, <1>8 DEF InFlight, Queueing, InFetchChan, HeldByFetcher, InIndexChan, HeldByIndexer
<1>10. EntriesKept
  BY <1>9 DEF EntriesKept, Attempted
<1>11. Holding
  BY DEF Holding
<1>12. OneCopy
  <2>1. Apart(Queueing, InFetchChan, HeldByFetcher, InIndexChan, HeldByIndexer, Attempted)
    BY <1>9 DEF Apart, InFlight
  <2> QED BY <2>1, <1>8 DEF OneCopy, Distinct, DistinctItems
<1>13. PagesListed
  BY DEF PagesListed
<1> QED BY <1>1, <1>2, <1>3, <1>5, <1>6, <1>10, <1>11, <1>12, <1>13 DEF IInv

-----------------------------------------------------------------------------
(* Every step preserves it, one part of the invariant at a time. *)

LEMMA PositionStep ==
    ASSUME IInv, [Next]_vars
    PROVE  Position'
<1> USE NumReposAssumption DEF IInv, TypeOK, Position, Channels, Repos
<1>1. CASE Main
  <2>1. CASE StartRepository BY <2>1 DEF StartRepository
  <2>2. CASE ListPage BY <2>2 DEF ListPage
  <2>3. CASE ListFails BY <2>3 DEF ListFails
  <2>4. CASE SendIssue BY <2>4 DEF SendIssue
  <2>5. CASE SendPullRequest BY <2>5 DEF SendPullRequest
  <2>6. CASE PageDone BY <2>6 DEF PageDone
  <2>7. CASE CloseFetch BY <2>7 DEF CloseFetch
  <2>8. CASE CloseIndex BY <2>8 DEF CloseIndex
  <2>9. CASE FinishRepository BY <2>9 DEF FinishRepository
  <2> QED BY <1>1, <2>1, <2>2, <2>3, <2>4, <2>5, <2>6, <2>7, <2>8, <2>9 DEF Main
<1>2. CASE UNCHANGED mainVars
  BY <1>2 DEF mainVars
<1>3. ASSUME NEW f \in Fetchers, Fetcher(f) PROVE UNCHANGED mainVars
  BY <1>3 DEF Fetcher, FetcherStart, FetcherReceive, FetcherSend, FetcherExit
<1>4. ASSUME NEW x \in Indexers, Indexer(x) PROVE UNCHANGED mainVars
  BY <1>4 DEF Indexer, IndexerStart, IndexerReceive, IndexerStore, IndexerFails, Disposed,
              IndexerExit
<1> QED BY <1>1, <1>2, <1>3, <1>4 DEF Next, Returned, vars

LEMMA ChannelStateStep ==
    ASSUME IInv, [Next]_vars
    PROVE  ChannelState'
<1> USE NumReposAssumption DEF ChannelState, Channels
<1> /\ IInv
    /\ cur \in Channels
    /\ toFetch \in [Channels -> Seq(Entry)]
    /\ toIndex \in [Channels -> Seq(Indexed)]
    /\ fetchClosed \in [Channels -> BOOLEAN]
    /\ indexClosed \in [Channels -> BOOLEAN]
  BY DEF IInv, TypeOK
<1> ChannelState
  BY DEF IInv
<1>1. CASE Main
  <2>1. CASE StartRepository BY <2>1 DEF StartRepository
  <2>2. CASE ListPage BY <2>2 DEF ListPage, chanVars
  <2>3. CASE ListFails BY <2>3 DEF ListFails, chanVars
  <2>4. CASE SendIssue
    <3>1. \A c \in Channels : c # cur => toIndex'[c] = toIndex[c]
      BY <2>4 DEF SendIssue
    <3>2. UNCHANGED <<main, cur, toFetch, fetchClosed, indexClosed>>
      BY <2>4 DEF SendIssue
    <3>3. \A c \in Channels : c > cur => c # cur
      OBVIOUS
    <3> QED BY <3>1, <3>2, <3>3
  <2>5. CASE SendPullRequest
    <3>1. \A c \in Channels : c # cur => toFetch'[c] = toFetch[c]
      BY <2>5 DEF SendPullRequest
    <3>2. UNCHANGED <<main, cur, toIndex, fetchClosed, indexClosed>>
      BY <2>5 DEF SendPullRequest
    <3> QED BY <3>1, <3>2
  <2>6. CASE PageDone BY <2>6 DEF PageDone, chanVars
  <2>7. CASE CloseFetch BY <2>7 DEF CloseFetch
  <2>8. CASE CloseIndex BY <2>8 DEF CloseIndex
  <2>9. CASE FinishRepository
    <3>1. /\ main = "waitIndex" /\ cur' = cur + 1
          /\ main' \in {"done", "start"}
          /\ UNCHANGED <<toFetch, toIndex, fetchClosed, indexClosed>>
      BY <2>9 DEF FinishRepository, chanVars
    <3> QED BY <3>1
  <2> QED BY <1>1, <2>1, <2>2, <2>3, <2>4, <2>5, <2>6, <2>7, <2>8, <2>9 DEF Main
<1>2. ASSUME NEW f \in Fetchers, Fetcher(f) PROVE ChannelState'
  <2>1. CASE FetcherStart(f) BY <2>1 DEF FetcherStart, mainVars, chanVars
  <2>2. CASE FetcherReceive(f)
    <3>1. fchan[f] = cur
      BY <2>2 DEF FetcherReceive, FetcherState, IInv
    <3>2. \A c \in Channels : c # cur => toFetch'[c] = toFetch[c]
      BY <2>2, <3>1 DEF FetcherReceive
    <3> QED BY <2>2, <3>2 DEF FetcherReceive, mainVars
  <2>3. CASE FetcherSend(f)
    <3>1. \A c \in Channels : c # cur => toIndex'[c] = toIndex[c]
      BY <2>3 DEF FetcherSend
    <3>2. UNCHANGED <<main, cur, toFetch, fetchClosed, indexClosed>>
      BY <2>3 DEF FetcherSend, mainVars
    <3>3. \A c \in Channels : c > cur => c # cur
      OBVIOUS
    <3> QED BY <3>1, <3>2, <3>3
  <2>4. CASE FetcherExit(f) BY <2>4 DEF FetcherExit, mainVars
  <2> QED BY <1>2, <2>1, <2>2, <2>3, <2>4 DEF Fetcher
<1>3. ASSUME NEW x \in Indexers, Indexer(x) PROVE ChannelState'
  <2>1. CASE IndexerStart(x) BY <2>1 DEF IndexerStart, mainVars, chanVars
  <2>2. CASE IndexerReceive(x)
    <3>1. ichan[x] = cur
      BY <2>2 DEF IndexerReceive, IndexerState, IInv
    <3>2. \A c \in Channels : c # cur => toIndex'[c] = toIndex[c]
      BY <2>2, <3>1 DEF IndexerReceive
    <3> QED BY <2>2, <3>2 DEF IndexerReceive, mainVars
  <2>3. CASE Disposed(x) BY <2>3 DEF Disposed, mainVars, chanVars
  <2>4. CASE IndexerExit(x) BY <2>4 DEF IndexerExit, mainVars
  <2> QED BY <1>3, <2>1, <2>2, <2>3, <2>4 DEF Indexer, IndexerStore, IndexerFails
<1>4. CASE UNCHANGED vars
  BY <1>4 DEF vars, mainVars, chanVars
<1> QED BY <1>1, <1>2, <1>3, <1>4 DEF Next, Returned

LEMMA FetcherStateStep ==
    ASSUME IInv, [Next]_vars
    PROVE  FetcherState'
<1> USE NumReposAssumption DEF Channels, Repos
<1>a. /\ cur \in Channels
      /\ toFetch \in [Channels -> Seq(Entry)]
      /\ fetchClosed \in [Channels -> BOOLEAN]
      /\ wgFetch \in Nat
      /\ fpc \in [Fetchers -> {"none", "spawned", "range", "send", "done"}]
      /\ fchan \in [Fetchers -> {0} \cup Channels]
      /\ main = "done" <=> cur = NumRepos + 1
  BY DEF IInv, TypeOK, Position
<1>b. /\ fetchClosed[cur] <=> main \in {"waitFetch", "waitIndex"}
      /\ FetcherState
  BY <1>a DEF IInv, ChannelState
<1>c. \A f \in Fetchers : f[1] \in Repos /\ f[2] \in FetchProcs
  BY DEF Fetchers
<1>d. LiveFetchers \subseteq Fetchers /\ IsFiniteSet(LiveFetchers)
  BY FiniteGoroutines DEF LiveFetchers
<1>1. CASE StartRepository
  <2>1. \A f \in Fetchers : ~Live(fpc[f])
    BY <1>1, <1>b DEF StartRepository, FetcherState
  <2>2. \A f \in Fetchers : fpc'[f] = IF f[1] = cur THEN "spawned" ELSE fpc[f]
    BY <1>1, <1>a DEF StartRepository
  <2>3. LiveFetchers' = {cur} \X FetchProcs
    <3>1. cur \in Repos
      BY <1>1, <1>a DEF StartRepository
    <3> QED BY <2>1, <2>2, <3>1 DEF LiveFetchers, Fetchers, Live
  <2>4. Cardinality(LiveFetchers') = Cardinality(FetchProcs)
    <3>1. Cardinality({cur}) = 1 /\ IsFiniteSet({cur})
      BY FS_Singleton
    <3>2. Cardinality(LiveFetchers') = 1 * Cardinality(FetchProcs)
      BY <2>3, <3>1, FS_Product, ProcsAssumption
    <3> QED BY <3>2, FS_CardinalityType, ProcsAssumption
  <2>5. wgFetch = 0
    BY <2>1, <1>b, FS_EmptySet DEF FetcherState, LiveFetchers
  <2>6. wgFetch' = Cardinality(LiveFetchers')
    BY <1>1, <2>4, <2>5, FS_CardinalityType, ProcsAssumption DEF StartRepository
  <2>7. /\ main = "start" /\ main' = "list"
        /\ UNCHANGED <<cur, toFetch, fetchClosed, fchan>>
    BY <1>1 DEF StartRepository
  <2>8. \A f \in Fetchers : f[1] = cur => fpc[f] = "none"
    BY <2>7, <1>b DEF FetcherState
  <2> QED BY <2>1, <2>2, <2>6, <2>7, <2>8, <1>a, <1>b, <1>c DEF FetcherState, Live
<1>2. CASE ListPage
  BY <1>2, <1>a, <1>b DEF ListPage, chanVars, fetchVars, FetcherState, LiveFetchers, Live
<1>3. CASE ListFails
  BY <1>3, <1>a, <1>b DEF ListFails, chanVars, fetchVars, FetcherState, LiveFetchers, Live
<1>4. CASE SendIssue
  BY <1>4, <1>a, <1>b DEF SendIssue, fetchVars, FetcherState, LiveFetchers, Live
<1>5. CASE SendPullRequest
  <2>1. \A f \in Fetchers : f[1] = cur => fpc[f] # "done"
    BY <1>5, <1>b DEF SendPullRequest, FetcherState
  <2> QED BY <2>1, <1>5, <1>a, <1>b
          DEF SendPullRequest, fetchVars, FetcherState, LiveFetchers, Live
<1>6. CASE PageDone
  BY <1>6, <1>a, <1>b DEF PageDone, chanVars, fetchVars, FetcherState, LiveFetchers, Live
<1>7. CASE CloseFetch
  BY <1>7, <1>a, <1>b DEF CloseFetch, fetchVars, FetcherState, LiveFetchers, Live
<1>8. CASE CloseIndex
  <2>1. LiveFetchers = {}
    BY <1>8, <1>b, <1>d, FS_EmptySet DEF CloseIndex, FetchersDone, FetcherState
  <2>2. \A f \in Fetchers : ~Live(fpc[f])
    BY <2>1 DEF LiveFetchers
  <2> QED BY <2>2, <1>8, <1>a, <1>b DEF CloseIndex, fetchVars, FetcherState, LiveFetchers, Live
<1>9. CASE FinishRepository
  <2>1. /\ main = "waitIndex" /\ cur' = cur + 1
        /\ main' = IF cur = NumRepos THEN "done" ELSE "start"
        /\ UNCHANGED <<toFetch, fetchClosed, wgFetch, fpc, fchan>>
    BY <1>9 DEF FinishRepository, chanVars, fetchVars
  <2>2. \A f \in Fetchers : ~Live(fpc[f])
    BY <2>1, <1>b DEF FetcherState
  <2>3. cur \in Repos
    BY <2>1, <1>a
  <2>4. LiveFetchers' = LiveFetchers
    BY <2>1 DEF LiveFetchers
  <2> QED BY SMTT(30), <2>1, <2>2, <2>3, <2>4, <1>a, <1>b, <1>c DEF FetcherState, Live
<1>10. ASSUME NEW f \in Fetchers, Fetcher(f) PROVE FetcherState'
  <2>1. CASE FetcherStart(f)
    <3>1. LiveFetchers' = LiveFetchers
      BY <2>1, <1>a DEF FetcherStart, LiveFetchers, Live
    <3> QED BY <2>1, <3>1, <1>a, <1>b DEF FetcherStart, mainVars, chanVars, FetcherState, Live
  <2>2. CASE FetcherReceive(f)
    <3>1. fchan[f] = cur /\ toFetch[cur] # <<>>
      BY <2>2, <1>b DEF FetcherReceive, FetcherState
    <3>2. LiveFetchers' = LiveFetchers
      BY <2>2, <1>a DEF FetcherReceive, LiveFetchers, Live
    <3>3. \A g \in Fetchers : g[1] = cur => fpc'[g] # "done"
      BY <3>1, <2>2, <1>a, <1>b DEF FetcherReceive, FetcherState
    <3>4. /\ UNCHANGED <<main, cur, wgFetch, fetchClosed, fchan>>
          /\ fpc[f] = "range" /\ fpc' = [fpc EXCEPT ![f] = "send"]
      BY <2>2 DEF FetcherReceive, mainVars
    <3> QED BY <3>2, <3>3, <3>4, <1>a, <1>b DEF FetcherState, Live
  <2>3. CASE FetcherSend(f)
    <3>1. LiveFetchers' = LiveFetchers
      BY <2>3, <1>a DEF FetcherSend, LiveFetchers, Live
    <3>2. /\ UNCHANGED <<main, cur, wgFetch, fetchClosed, fchan, toFetch>>
          /\ fpc[f] = "send" /\ fpc' = [fpc EXCEPT ![f] = "range"]
      BY <2>3 DEF FetcherSend, mainVars
    <3> QED BY <3>1, <3>2, <1>a, <1>b DEF FetcherState, Live
  <2>4. CASE FetcherExit(f)
    <3>1. /\ UNCHANGED <<main, cur, fetchClosed, fchan, toFetch>>
          /\ fpc[f] = "range" /\ fpc' = [fpc EXCEPT ![f] = "done"]
          /\ wgFetch' = wgFetch - 1
      BY <2>4 DEF FetcherExit, mainVars
    <3>2. toFetch[cur] = <<>> /\ fetchClosed[cur]
      BY <2>4, <1>b DEF FetcherExit, FetcherState
    <3>3. f \in LiveFetchers /\ LiveFetchers' = LiveFetchers \ {f}
      BY <3>1, <1>a DEF LiveFetchers, Live
    <3>4. wgFetch' = Cardinality(LiveFetchers')
      BY <3>1, <3>3, <1>b, <1>d, FS_RemoveElement DEF FetcherState
    <3> QED BY <3>1, <3>2, <3>4, <1>a, <1>b DEF FetcherState, Live
  <2> QED BY <1>10, <2>1, <2>2, <2>3, <2>4 DEF Fetcher
<1>11. ASSUME NEW x \in Indexers, Indexer(x) PROVE FetcherState'
  <2>1. UNCHANGED <<main, cur, toFetch, fetchClosed, wgFetch, fpc, fchan>>
    BY <1>11 DEF Indexer, IndexerStart, IndexerReceive, IndexerStore, IndexerFails, Disposed,
                 IndexerExit, mainVars, chanVars, fetchVars
  <2> QED BY <2>1, <1>b DEF FetcherState, LiveFetchers
<1>12. CASE UNCHANGED vars
  BY <1>12, <1>b DEF vars, mainVars, chanVars, fetchVars, FetcherState, LiveFetchers
<1> QED BY <1>1, <1>2, <1>3, <1>4, <1>5, <1>6, <1>7, <1>8, <1>9, <1>10, <1>11, <1>12
        DEF Next, Main, Returned

LEMMA IndexerStateStep ==
    ASSUME IInv, [Next]_vars
    PROVE  IndexerState'
<1> USE NumReposAssumption DEF Channels, Repos
<1>a. /\ cur \in Channels
      /\ toIndex \in [Channels -> Seq(Indexed)]
      /\ indexClosed \in [Channels -> BOOLEAN]
      /\ wgIndex \in Nat
      /\ ipc \in [Indexers -> {"none", "spawned", "range", "store", "done"}]
      /\ ichan \in [Indexers -> {0} \cup Channels]
      /\ main = "done" <=> cur = NumRepos + 1
  BY DEF IInv, TypeOK, Position
<1>b. /\ indexClosed[cur] <=> main = "waitIndex"
      /\ IndexerState
  BY <1>a DEF IInv, ChannelState
<1>c. \A x \in Indexers : x[1] \in Repos /\ x[2] \in IndexProcs
  BY DEF Indexers
<1>d. LiveIndexers \subseteq Indexers /\ IsFiniteSet(LiveIndexers)
  BY FiniteGoroutines DEF LiveIndexers
<1>1. CASE StartRepository
  <2>1. \A x \in Indexers : ~Live(ipc[x])
    BY <1>1, <1>b DEF StartRepository, IndexerState
  <2>2. \A x \in Indexers : ipc'[x] = IF x[1] = cur THEN "spawned" ELSE ipc[x]
    BY <1>1, <1>a DEF StartRepository
  <2>3. LiveIndexers' = {cur} \X IndexProcs
    <3>1. cur \in Repos
      BY <1>1, <1>a DEF StartRepository
    <3> QED BY <2>1, <2>2, <3>1 DEF LiveIndexers, Indexers, Live
  <2>4. Cardinality(LiveIndexers') = Cardinality(IndexProcs)
    <3>1. Cardinality({cur}) = 1 /\ IsFiniteSet({cur})
      BY FS_Singleton
    <3>2. Cardinality(LiveIndexers') = 1 * Cardinality(IndexProcs)
      BY <2>3, <3>1, FS_Product, ProcsAssumption
    <3> QED BY <3>2, FS_CardinalityType, ProcsAssumption
  <2>5. wgIndex = 0
    BY <2>1, <1>b, FS_EmptySet DEF IndexerState, LiveIndexers
  <2>6. wgIndex' = Cardinality(LiveIndexers')
    BY <1>1, <2>4, <2>5, FS_CardinalityType, ProcsAssumption DEF StartRepository
  <2>7. /\ main = "start" /\ main' = "list"
        /\ UNCHANGED <<cur, toIndex, indexClosed, ichan>>
    BY <1>1 DEF StartRepository
  <2>8. \A x \in Indexers : x[1] = cur => ipc[x] = "none"
    BY <2>7, <1>b DEF IndexerState
  <2> QED BY <2>1, <2>2, <2>6, <2>7, <2>8, <1>a, <1>b, <1>c DEF IndexerState, Live
<1>2. CASE ListPage
  BY <1>2, <1>a, <1>b DEF ListPage, chanVars, indexVars, IndexerState, LiveIndexers, Live
<1>3. CASE ListFails
  BY <1>3, <1>a, <1>b DEF ListFails, chanVars, indexVars, IndexerState, LiveIndexers, Live
<1>4. CASE SendIssue
  <2>1. \A x \in Indexers : x[1] = cur => ipc[x] # "done"
    BY <1>4, <1>b DEF SendIssue, IndexerState
  <2> QED BY <2>1, <1>4, <1>a, <1>b DEF SendIssue, indexVars, IndexerState, LiveIndexers, Live
<1>5. CASE SendPullRequest
  BY <1>5, <1>a, <1>b DEF SendPullRequest, indexVars, IndexerState, LiveIndexers, Live
<1>6. CASE PageDone
  BY <1>6, <1>a, <1>b DEF PageDone, chanVars, indexVars, IndexerState, LiveIndexers, Live
<1>7. CASE CloseFetch
  BY <1>7, <1>a, <1>b DEF CloseFetch, indexVars, IndexerState, LiveIndexers, Live
<1>8. CASE CloseIndex
  BY <1>8, <1>a, <1>b DEF CloseIndex, indexVars, IndexerState, LiveIndexers, Live
<1>9. CASE FinishRepository
  <2>1. /\ main = "waitIndex" /\ wgIndex = 0 /\ cur' = cur + 1
        /\ main' = IF cur = NumRepos THEN "done" ELSE "start"
        /\ UNCHANGED <<toIndex, indexClosed, wgIndex, ipc, ichan>>
    BY <1>9 DEF FinishRepository, IndexersDone, chanVars, indexVars
  <2>2. LiveIndexers = {}
    BY <2>1, <1>b, <1>d, FS_EmptySet DEF IndexerState
  <2>3. \A x \in Indexers : ~Live(ipc[x])
    BY <2>2 DEF LiveIndexers
  <2>4. cur \in Repos
    BY <2>1, <1>a
  <2>5. LiveIndexers' = LiveIndexers
    BY <2>1 DEF LiveIndexers
  <2> QED BY SMTT(30), <2>1, <2>3, <2>4, <2>5, <1>a, <1>b, <1>c DEF IndexerState, Live
<1>10. ASSUME NEW f \in Fetchers, Fetcher(f) PROVE IndexerState'
  <2>1. CASE FetcherSend(f)
    <3>1. main # "waitIndex"
      BY <2>1 DEF FetcherSend, IInv, FetcherState, Live
    <3>2. \A x \in Indexers : x[1] = cur => ipc[x] # "done"
      BY <3>1, <1>b DEF IndexerState
    <3>3. UNCHANGED <<main, cur, indexClosed, wgIndex, ipc, ichan>>
      BY <2>1 DEF FetcherSend, mainVars, indexVars
    <3> QED BY <3>2, <3>3, <1>b DEF IndexerState, LiveIndexers
  <2>2. CASE FetcherStart(f) \/ FetcherReceive(f) \/ FetcherExit(f)
    <3>1. UNCHANGED <<main, cur, toIndex, indexClosed, wgIndex, ipc, ichan>>
      BY <2>2 DEF FetcherStart, FetcherReceive, FetcherExit, mainVars, chanVars, indexVars
    <3> QED BY <3>1, <1>b DEF IndexerState, LiveIndexers
  <2> QED BY <1>10, <2>1, <2>2 DEF Fetcher
<1>11. ASSUME NEW x \in Indexers, Indexer(x) PROVE IndexerState'
  <2>1. CASE IndexerStart(x)
    <3>1. LiveIndexers' = LiveIndexers
      BY <2>1, <1>a DEF IndexerStart, LiveIndexers, Live
    <3> QED BY <2>1, <3>1, <1>a, <1>b DEF IndexerStart, mainVars, chanVars, IndexerState, Live
  <2>2. CASE IndexerReceive(x)
    <3>1. ichan[x] = cur /\ toIndex[cur] # <<>>
      BY <2>2, <1>b DEF IndexerReceive, IndexerState
    <3>2. LiveIndexers' = LiveIndexers
      BY <2>2, <1>a DEF IndexerReceive, LiveIndexers, Live
    <3>3. \A y \in Indexers : y[1] = cur => ipc'[y] # "done"
      BY <3>1, <2>2, <1>a, <1>b DEF IndexerReceive, IndexerState
    <3>4. /\ UNCHANGED <<main, cur, wgIndex, indexClosed, ichan>>
          /\ ipc[x] = "range" /\ ipc' = [ipc EXCEPT ![x] = "store"]
      BY <2>2 DEF IndexerReceive, mainVars
    <3> QED BY <3>2, <3>3, <3>4, <1>a, <1>b DEF IndexerState, Live
  <2>3. CASE Disposed(x)
    <3>1. LiveIndexers' = LiveIndexers
      BY <2>3, <1>a DEF Disposed, LiveIndexers, Live
    <3>2. /\ UNCHANGED <<main, cur, wgIndex, indexClosed, ichan, toIndex>>
          /\ ipc[x] = "store" /\ ipc' = [ipc EXCEPT ![x] = "range"]
      BY <2>3 DEF Disposed, mainVars, chanVars
    <3> QED BY <3>1, <3>2, <1>a, <1>b DEF IndexerState, Live
  <2>4. CASE IndexerExit(x)
    <3>1. /\ UNCHANGED <<main, cur, indexClosed, ichan, toIndex>>
          /\ ipc[x] = "range" /\ ipc' = [ipc EXCEPT ![x] = "done"]
          /\ wgIndex' = wgIndex - 1
      BY <2>4 DEF IndexerExit, mainVars
    <3>2. toIndex[cur] = <<>> /\ indexClosed[cur]
      BY <2>4, <1>b DEF IndexerExit, IndexerState
    <3>3. x \in LiveIndexers /\ LiveIndexers' = LiveIndexers \ {x}
      BY <3>1, <1>a DEF LiveIndexers, Live
    <3>4. wgIndex' = Cardinality(LiveIndexers')
      BY <3>1, <3>3, <1>b, <1>d, FS_RemoveElement DEF IndexerState
    <3> QED BY <3>1, <3>2, <3>4, <1>a, <1>b DEF IndexerState, Live
  <2> QED BY <1>11, <2>1, <2>2, <2>3, <2>4 DEF Indexer, IndexerStore, IndexerFails
<1>12. CASE UNCHANGED vars
  BY <1>12, <1>b DEF vars, mainVars, chanVars, indexVars, IndexerState, LiveIndexers
<1> QED BY <1>1, <1>2, <1>3, <1>4, <1>5, <1>6, <1>7, <1>8, <1>9, <1>10, <1>11, <1>12
        DEF Next, Main, Returned

LEMMA HoldingStep ==
    ASSUME IInv, [Next]_vars
    PROVE  Holding'
<1>a. /\ Holding
      /\ ipc \in [Indexers -> {"none", "spawned", "range", "store", "done"}]
      /\ ichan \in [Indexers -> {0} \cup Channels]
      /\ iitem \in [Indexers -> Indexed \cup {NoEntry}]
      /\ toIndex \in [Channels -> Seq(Indexed)]
      /\ cur \in Channels
  BY DEF IInv, TypeOK
<1>1. CASE StartRepository
  BY <1>1, <1>a DEF StartRepository, Holding
<1>2. CASE UNCHANGED indexVars
  BY <1>2, <1>a DEF indexVars, Holding
<1>3. ASSUME NEW x \in Indexers, Indexer(x) PROVE Holding'
  <2>1. CASE IndexerStart(x)
    BY <2>1, <1>a DEF IndexerStart, Holding
  <2>2. CASE IndexerReceive(x)
    <3>1. ichan[x] = cur
      BY <2>2 DEF IndexerReceive, IInv, IndexerState
    <3>2. Head(toIndex[ichan[x]]) \in Indexed
      BY <2>2, <3>1, <1>a DEF IndexerReceive
    <3> QED BY <2>2, <3>2, <1>a DEF IndexerReceive, Holding
  <2>3. CASE Disposed(x)
    BY <2>3, <1>a DEF Disposed, Holding
  <2>4. CASE IndexerExit(x)
    BY <2>4, <1>a DEF IndexerExit, Holding
  <2> QED BY <1>3, <2>1, <2>2, <2>3, <2>4 DEF Indexer, IndexerStore, IndexerFails
<1>4. ASSUME NEW f \in Fetchers, Fetcher(f) PROVE UNCHANGED indexVars
  BY <1>4 DEF Fetcher, FetcherStart, FetcherReceive, FetcherSend, FetcherExit
<1>5. CASE Main
  BY <1>1, <1>2, <1>5 DEF Main, ListPage, ListFails, SendIssue, SendPullRequest, PageDone,
                          CloseFetch, CloseIndex, FinishRepository
<1> QED BY <1>2, <1>3, <1>4, <1>5 DEF Next, Returned, vars

LEMMA EntriesKeptStep ==
    ASSUME IInv, [Next]_vars
    PROVE  EntriesKept'
<1> USE NumReposAssumption DEF Channels, Repos
<1>a. /\ TypeOK /\ Position /\ ChannelState /\ FetcherState /\ IndexerState /\ Holding
      /\ EntriesKept
  BY DEF IInv
<1>b. /\ cur \in Channels
      /\ iss \in Seq(Entry)
      /\ toFetch \in [Channels -> Seq(Entry)]
      /\ toIndex \in [Channels -> Seq(Indexed)]
      /\ fpc \in [Fetchers -> {"none", "spawned", "range", "send", "done"}]
      /\ fitem \in [Fetchers -> Entry \cup {NoEntry}]
      /\ ipc \in [Indexers -> {"none", "spawned", "range", "store", "done"}]
      /\ iitem \in [Indexers -> Indexed \cup {NoEntry}]
      /\ page \in Nat /\ listed \subseteq Entries
      /\ attempts \in [Entries -> Nat]
  BY <1>a DEF TypeOK
<1>c. toFetch[cur] \in Seq(Entry) /\ toIndex[cur] \in Seq(Indexed)
  BY <1>b
\* What is enough when entries only change places.
<1>d. ASSUME InFlight' = InFlight, UNCHANGED <<cur, histVars>>,
             main' \in {"start", "done"} => main' = main
      PROVE  EntriesKept'
  BY <1>d, <1>a DEF EntriesKept, Attempted, histVars
<1>1. CASE StartRepository
  <2>1. HeldByFetcher' = {} /\ HeldByIndexer' = {}
    <3>1. \A f \in Fetchers : fpc'[f] # "send"
      BY <1>1, <1>a, <1>b DEF StartRepository, FetcherState, Live
    <3>2. \A x \in Indexers : ipc'[x] # "store"
      BY <1>1, <1>a, <1>b DEF StartRepository, IndexerState, Live
    <3> QED BY <3>1, <3>2 DEF HeldByFetcher, HeldByIndexer
  <2>2. InFlight = {}
    BY <1>1, <1>a DEF StartRepository, EntriesKept
  <2>3. UNCHANGED <<Queueing, InFetchChan, InIndexChan, cur, histVars>> /\ main' = "list"
    BY <1>1 DEF StartRepository, Queueing, InFetchChan, InIndexChan
  <2>4. InFlight' = InFlight
    BY <2>1, <2>2, <2>3 DEF InFlight
  <2> QED BY <2>3, <2>4, <1>d
<1>2. CASE ListPage
  <2> DEFINE new == Elements(PageOf(cur, page))
  <2>1. /\ Queueing = {} /\ Queueing' = new
        /\ UNCHANGED <<InFetchChan, HeldByFetcher, InIndexChan, HeldByIndexer>>
    <3>1. iss = <<>> /\ Elements(<<>>) = {}
      BY <1>2, <1>a DEF ListPage, Position, Elements
    <3> QED BY <1>2, <3>1 DEF ListPage, chanVars, fetchVars, indexVars, Queueing, InFetchChan,
                              HeldByFetcher, InIndexChan, HeldByIndexer
  <2>2. InFlight' = InFlight \cup new
    BY <2>1 DEF InFlight
  <2>3. new \subseteq {e \in Entries : e.repo = cur}
    <3>1. cur \in Repos
      BY <1>2, <1>a, <1>b DEF ListPage, Position
    <3> QED BY <3>1, <1>b, PageEntries
  <2>4. /\ listed' = listed \cup new
        /\ UNCHANGED <<cur, attempts, stored>> /\ main' = "send"
    BY <1>2 DEF ListPage
  <2> HIDE DEF new
  <2> QED BY <2>2, <2>3, <2>4, <1>a DEF EntriesKept, Attempted
<1>3. CASE ListFails \/ PageDone \/ CloseFetch \/ CloseIndex
  <2>1. /\ UNCHANGED <<cur, iss, toFetch, toIndex, fpc, fitem, ipc, iitem, histVars>>
        /\ main' \notin {"start", "done"}
    BY <1>3 DEF ListFails, PageDone, CloseFetch, CloseIndex, chanVars, fetchVars, indexVars
  <2>2. InFlight' = InFlight
    BY <2>1 DEF InFlight, Queueing, InFetchChan, HeldByFetcher, InIndexChan, HeldByIndexer
  <2> QED BY <2>1, <2>2, <1>d
<1>4. CASE SendIssue
  <2> DEFINE doc == [entry |-> Head(iss), type |-> "issue"]
  <2>1. /\ iss # <<>> /\ iss' = Tail(iss)
        /\ toIndex' = [toIndex EXCEPT ![cur] = Append(@, doc)]
        /\ main' = main /\ main = "send"
        /\ UNCHANGED <<cur, toFetch, fpc, fitem, ipc, iitem, histVars>>
    BY <1>4 DEF SendIssue, fetchVars, indexVars
  <2>2. Queueing = {Head(iss)} \cup Queueing'
    BY <2>1, <1>b, HeadTailElements DEF Queueing
  <2>3. InIndexChan' = InIndexChan \cup {Head(iss)}
    <3>1. doc \in Indexed
      BY <2>1, <1>b DEF Indexed, DocTypes
    <3>2. Elements(Append(toIndex[cur], doc)) = Elements(toIndex[cur]) \cup {doc}
      BY <3>1, <1>c, AppendElements
    <3>3. toIndex'[cur'] = Append(toIndex[cur], doc)
      BY <2>1, <1>b
    <3>4. doc.entry = Head(iss)
      OBVIOUS
    <3> HIDE DEF doc
    <3> QED BY <3>2, <3>3, <3>4 DEF InIndexChan
  <2>4. UNCHANGED <<InFetchChan, HeldByFetcher, HeldByIndexer>>
    BY <2>1 DEF InFetchChan, HeldByFetcher, HeldByIndexer
  <2>5. InFlight' = InFlight
    BY <2>2, <2>3, <2>4 DEF InFlight
  <2> QED BY <2>1, <2>5, <1>d
<1>5. CASE SendPullRequest
  <2>1. /\ iss # <<>> /\ iss' = Tail(iss)
        /\ toFetch' = [toFetch EXCEPT ![cur] = Append(@, Head(iss))]
        /\ main' = main /\ main = "send"
        /\ UNCHANGED <<cur, toIndex, fpc, fitem, ipc, iitem, histVars>>
    BY <1>5 DEF SendPullRequest, fetchVars, indexVars
  <2>2. Queueing = {Head(iss)} \cup Queueing'
    BY <2>1, <1>b, HeadTailElements DEF Queueing
  <2>3. InFetchChan' = InFetchChan \cup {Head(iss)}
    <3>1. Head(iss) \in Entry /\ toFetch'[cur'] = Append(toFetch[cur], Head(iss))
      BY <2>1, <1>b
    <3> QED BY <3>1, <1>c, AppendElements DEF InFetchChan
  <2>4. UNCHANGED <<HeldByFetcher, InIndexChan, HeldByIndexer>>
    BY <2>1 DEF HeldByFetcher, InIndexChan, HeldByIndexer
  <2>5. InFlight' = InFlight
    BY <2>2, <2>3, <2>4 DEF InFlight
  <2> QED BY <2>1, <2>5, <1>d
<1>6. CASE FinishRepository
  <2>1. /\ main = "waitIndex" /\ wgIndex = 0 /\ cur' = cur + 1
        /\ UNCHANGED <<iss, toFetch, toIndex, fpc, fitem, ipc, iitem, histVars>>
    BY <1>6 DEF FinishRepository, IndexersDone, chanVars, fetchVars, indexVars
  <2>2. cur \in Repos
    BY <2>1, <1>a, <1>b DEF Position
  <2>3. \A f \in Fetchers : ~Live(fpc[f])
    BY <2>1, <1>a DEF FetcherState
  <2>4. \A x \in Indexers : ~Live(ipc[x])
    <3>1. LiveIndexers = {}
      BY <2>1, <1>a, FiniteGoroutines, FS_EmptySet DEF IndexerState
    <3> QED BY <3>1 DEF LiveIndexers
  <2>5. HeldByFetcher = {} /\ HeldByIndexer = {} /\ HeldByFetcher' = {} /\ HeldByIndexer' = {}
    BY <2>1, <2>3, <2>4 DEF HeldByFetcher, HeldByIndexer, Live
  <2>6. toFetch[cur] = <<>> /\ toIndex[cur] = <<>>
    <3>1. PICK p \in FetchProcs, q \in IndexProcs : TRUE
      BY ProcsAssumption
    <3>2. <<cur, p>> \in Fetchers /\ <<cur, q>> \in Indexers
      BY <2>2 DEF Fetchers, Indexers
    <3>3. fpc[<<cur, p>>] = "done" /\ ipc[<<cur, q>>] = "done"
      BY <2>1, <2>3, <2>4, <3>2, <1>a DEF FetcherState, IndexerState, Live
    <3> QED BY <3>2, <3>3, <1>a DEF FetcherState, IndexerState
  <2>7. iss = <<>> /\ toFetch'[cur'] = <<>> /\ toIndex'[cur'] = <<>>
    BY <2>1, <2>2, <1>a, <1>b DEF Position, ChannelState
  <2>8. InFlight = {} /\ InFlight' = {}
    <3>1. Elements(<<>>) = {}
      BY DEF Elements
    <3>2. Queueing = {} /\ InFetchChan = {} /\ InIndexChan = {}
      BY <2>6, <2>7, <3>1 DEF Queueing, InFetchChan, InIndexChan
    <3>3. Queueing' = {} /\ InFetchChan' = {} /\ InIndexChan' = {}
      BY <2>1, <2>7, <3>1 DEF Queueing, InFetchChan, InIndexChan
    <3> QED BY <2>5, <3>2, <3>3 DEF InFlight
  <2> QED BY <2>1, <2>8, <1>a DEF EntriesKept, Attempted, histVars
<1>7. ASSUME NEW f \in Fetchers, Fetcher(f) PROVE EntriesKept'
  <2>a. UNCHANGED <<main, cur, iss, ipc, iitem, histVars>>
    BY <1>7 DEF Fetcher, FetcherStart, FetcherReceive, FetcherSend, FetcherExit, mainVars, indexVars
  <2>b. UNCHANGED <<Queueing, HeldByIndexer>>
    BY <2>a DEF Queueing, HeldByIndexer
  <2>1. CASE FetcherStart(f) \/ FetcherExit(f)
    <3>1. UNCHANGED <<toFetch, toIndex, fitem>>
      BY <2>1 DEF FetcherStart, FetcherExit, chanVars
    <3>2. \A g \in Fetchers : fpc'[g] = "send" <=> fpc[g] = "send"
      BY <2>1, <1>b DEF FetcherStart, FetcherExit
    <3>3. UNCHANGED <<InFetchChan, HeldByFetcher, InIndexChan>>
      BY <2>a, <3>1, <3>2 DEF InFetchChan, HeldByFetcher, InIndexChan
    <3>4. InFlight' = InFlight
      BY <2>b, <3>3 DEF InFlight
    <3> QED BY <2>a, <3>4, <1>d
  <2>2. CASE FetcherReceive(f)
    <3> DEFINE e == Head(toFetch[cur])
    <3>1. /\ fpc[f] = "range" /\ toFetch[cur] # <<>>
          /\ fitem' = [fitem EXCEPT ![f] = e]
          /\ fpc' = [fpc EXCEPT ![f] = "send"]
          /\ toFetch' = [toFetch EXCEPT ![cur] = Tail(@)]
          /\ UNCHANGED toIndex
      BY <2>2, <1>a DEF FetcherReceive, FetcherState
    <3>2. InFetchChan = {e} \cup InFetchChan'
      <4>1. toFetch'[cur'] = Tail(toFetch[cur])
        BY <2>a, <3>1, <1>b
      <4> QED BY <3>1, <4>1, <1>c, HeadTailElements DEF InFetchChan
    <3>3. HeldByFetcher' = HeldByFetcher \cup {e}
      <4> HIDE DEF e
      <4>1. \A g \in Fetchers : g # f => fpc'[g] = fpc[g] /\ fitem'[g] = fitem[g]
        BY <3>1, <1>b
      <4>2. fpc'[f] = "send" /\ fitem'[f] = e
        BY <3>1, <1>b
      <4> QED BY <3>1, <4>1, <4>2 DEF HeldByFetcher
    <3>4. UNCHANGED InIndexChan
      BY <2>a, <3>1 DEF InIndexChan
    <3>5. InFlight' = InFlight
      BY <2>b, <3>2, <3>3, <3>4 DEF InFlight
    <3> QED BY <2>a, <3>5, <1>d
  <2>3. CASE FetcherSend(f)
    <3>1. PICK t \in DocTypes :
            toIndex' = [toIndex EXCEPT ![cur] = Append(@, [entry |-> fitem[f], type |-> t])]
      BY <2>3 DEF FetcherSend
    <3> DEFINE e == fitem[f]
               doc == [entry |-> e, type |-> t]
    <3>2. /\ fpc[f] = "send" /\ UNCHANGED toFetch
          /\ fitem' = [fitem EXCEPT ![f] = NoEntry]
          /\ fpc' = [fpc EXCEPT ![f] = "range"]
      BY <2>3 DEF FetcherSend
    <3>3. e \in HeldByFetcher
      BY <3>2 DEF HeldByFetcher
    <3>4. HeldByFetcher \subseteq HeldByFetcher' \cup {e} /\ HeldByFetcher' \subseteq HeldByFetcher
      <4> HIDE DEF e
      <4>1. \A g \in Fetchers : g # f => fpc'[g] = fpc[g] /\ fitem'[g] = fitem[g]
        BY <3>2, <1>b
      <4>2. fpc'[f] # "send" /\ fitem[f] = e
        BY <3>2, <1>b DEF e
      <4> QED BY <3>2, <4>1, <4>2 DEF HeldByFetcher
    <3>5. InIndexChan' = InIndexChan \cup {e}
      <4>1. e \in Entry
        BY <3>3, <1>a, <1>b, EntriesAreEntry DEF EntriesKept, InFlight
      <4>2. doc \in Indexed
        BY <4>1 DEF Indexed
      <4>3. Elements(Append(toIndex[cur], doc)) = Elements(toIndex[cur]) \cup {doc}
        BY <4>2, <1>c, AppendElements
      <4>4. toIndex'[cur'] = Append(toIndex[cur], doc)
        BY <2>a, <3>1, <1>b
      <4>5. doc.entry = e
        OBVIOUS
      <4> HIDE DEF doc
      <4> QED BY <4>3, <4>4, <4>5 DEF InIndexChan
    <3>6. UNCHANGED InFetchChan
      BY <2>a, <3>2 DEF InFetchChan
    <3> HIDE DEF e
    <3>7. InFlight' = InFlight
      BY <2>b, <3>3, <3>4, <3>5, <3>6 DEF InFlight
    <3> QED BY <2>a, <3>7, <1>d
  <2> QED BY <1>7, <2>1, <2>2, <2>3 DEF Fetcher
<1>8. ASSUME NEW x \in Indexers, Indexer(x) PROVE EntriesKept'
  <2>a. UNCHANGED <<main, cur, iss, toFetch, fpc, fitem, listed>>
    BY <1>8 DEF Indexer, IndexerStart, IndexerReceive, IndexerStore, IndexerFails, Disposed,
                IndexerExit, mainVars, chanVars, fetchVars, histVars
  <2>b. UNCHANGED <<Queueing, InFetchChan, HeldByFetcher>>
    BY <2>a DEF Queueing, InFetchChan, HeldByFetcher
  <2>1. CASE IndexerStart(x) \/ IndexerExit(x)
    <3>1. UNCHANGED <<toIndex, iitem, histVars>>
      BY <2>1 DEF IndexerStart, IndexerExit, chanVars
    <3>2. \A y \in Indexers : ipc'[y] = "store" <=> ipc[y] = "store"
      BY <2>1, <1>b DEF IndexerStart, IndexerExit
    <3>3. UNCHANGED <<InIndexChan, HeldByIndexer>>
      BY <2>a, <3>1, <3>2 DEF InIndexChan, HeldByIndexer
    <3>4. InFlight' = InFlight
      BY <2>b, <3>3 DEF InFlight
    <3> QED BY <2>a, <3>1, <3>4, <1>d
  <2>2. CASE IndexerReceive(x)
    <3> DEFINE d == Head(toIndex[cur])
    <3>1. /\ ipc[x] = "range" /\ toIndex[cur] # <<>>
          /\ iitem' = [iitem EXCEPT ![x] = d]
          /\ ipc' = [ipc EXCEPT ![x] = "store"]
          /\ toIndex' = [toIndex EXCEPT ![cur] = Tail(@)]
          /\ UNCHANGED histVars
      BY <2>2, <1>a DEF IndexerReceive, IndexerState
    <3>2. InIndexChan = {d.entry} \cup InIndexChan'
      <4>1. toIndex'[cur'] = Tail(toIndex[cur])
        BY <2>a, <3>1, <1>b
      <4>2. Elements(toIndex[cur]) = {d} \cup Elements(toIndex'[cur'])
        BY <3>1, <4>1, <1>c, HeadTailElements
      <4> HIDE DEF d
      <4> QED BY <4>2 DEF InIndexChan
    <3>3. HeldByIndexer' = HeldByIndexer \cup {d.entry}
      <4> HIDE DEF d
      <4>1. \A y \in Indexers : y # x => ipc'[y] = ipc[y] /\ iitem'[y] = iitem[y]
        BY <3>1, <1>b
      <4>2. ipc'[x] = "store" /\ iitem'[x] = d
        BY <3>1, <1>b
      <4> QED BY <3>1, <4>1, <4>2 DEF HeldByIndexer
    <3>4. InFlight' = InFlight
      BY <2>b, <3>2, <3>3 DEF InFlight
    <3> QED BY <2>a, <3>1, <3>4, <1>d
  <2>3. CASE Disposed(x)
    <3> DEFINE e == iitem[x].entry
    <3>1. /\ ipc[x] = "store" /\ UNCHANGED toIndex
          /\ attempts' = [attempts EXCEPT ![e] = @ + 1]
          /\ iitem' = [iitem EXCEPT ![x] = NoEntry]
          /\ ipc' = [ipc EXCEPT ![x] = "range"]
      BY <2>3 DEF Disposed, chanVars
    <3>2. e \in HeldByIndexer
      BY <3>1 DEF HeldByIndexer
    <3>3. e \in listed /\ e \in Entries /\ e.repo = cur
      BY <3>2, <1>a, <1>b DEF EntriesKept, InFlight
    <3>4. HeldByIndexer \subseteq HeldByIndexer' \cup {e} /\ HeldByIndexer' \subseteq HeldByIndexer
      <4>1. \A y \in Indexers : y # x => ipc'[y] = ipc[y] /\ iitem'[y] = iitem[y]
        BY <3>1, <1>b
      <4>2. ipc'[x] # "store"
        BY <3>1, <1>b
      <4> QED BY <3>1, <4>1, <4>2 DEF HeldByIndexer
    <3>5. UNCHANGED InIndexChan
      BY <2>a, <3>1 DEF InIndexChan
    <3>6. InFlight \subseteq InFlight' \cup {e} /\ InFlight' \subseteq InFlight
      BY <2>b, <3>4, <3>5 DEF InFlight
    <3>7. Attempted' = Attempted \cup {e}
      <4> HIDE DEF e
      <4> QED BY <3>1, <3>3, <1>b DEF Attempted
    <3>8. \A d \in stored' : d.repo = d.entry.repo
      <4>1. CASE stored' = stored
        BY <4>1, <1>a DEF EntriesKept
      <4>2. CASE stored' = stored \cup {[repo |-> x[1], entry |-> e, type |-> iitem[x].type]}
        <5>1. x[1] = cur
          BY <3>1, <1>a DEF IndexerState, Live
        <5> QED BY <4>2, <5>1, <3>3, <1>a DEF EntriesKept
      <4> QED BY <1>8, <3>1, <4>1, <4>2
              DEF Indexer, IndexerStart, IndexerReceive, IndexerStore, IndexerFails,
                  IndexerExit, histVars
    <3>9. main \notin {"start", "done"}
      BY <3>1, <1>a DEF IndexerState, Live
    <3> HIDE DEF e
    <3> QED BY <2>a, <3>3, <3>6, <3>7, <3>8, <3>9, <1>a DEF EntriesKept
  <2> QED BY <1>8, <2>1, <2>2, <2>3 DEF Indexer, IndexerStore, IndexerFails
<1>9. CASE UNCHANGED vars
  <2>1. UNCHANGED <<main, cur, iss, toFetch, toIndex, fpc, fitem, ipc, iitem, histVars>>
    BY <1>9 DEF vars, mainVars, chanVars, fetchVars, indexVars
  <2>2. InFlight' = InFlight
    BY <2>1 DEF InFlight, Queueing, InFetchChan, HeldByFetcher, InIndexChan, HeldByIndexer
  <2> QED BY <2>1, <2>2, <1>d
<1> QED BY <1>1, <1>2, <1>3, <1>4, <1>5, <1>6, <1>7, <1>8, <1>9 DEF Next, Main, Returned

LEMMA PagesListedStep ==
    ASSUME IInv, [Next]_vars
    PROVE  PagesListed'
<1>a. /\ PagesListed
      /\ main = "done" <=> cur = NumRepos + 1
      /\ main \in {"start", "list", "send", "closeFetch", "waitFetch", "waitIndex", "done"}
      /\ cur \in 1..(NumRepos + 1) /\ NumRepos \in Nat /\ page \in Nat
      /\ listed \subseteq Entries
  BY NumReposAssumption DEF IInv, TypeOK, Position, Channels
<1>b. \A e \in listed : e.repo \in Nat /\ e.page \in Nat
  BY <1>a, EntriesAreEntry DEF Entry, Repos
<1>c. main \notin {"done"} => cur \in Repos
  BY <1>a DEF Repos
\* Nothing is listed, and the listing is over if it is not where it was.
<1>d. ASSUME UNCHANGED <<cur, listed>>, main # "start",
             main' \notin {"start", "list", "send"} \/ UNCHANGED <<main, page>>
      PROVE  PagesListed'
  BY <1>a, <1>d DEF PagesListed, LastListed
<1>1. CASE StartRepository
  <2>1. /\ main = "start" /\ main' = "list" /\ page' = FirstPage(cur)
        /\ UNCHANGED <<cur, listed>>
    BY <1>1 DEF StartRepository, histVars
  <2>2. FirstPage(cur) \in Nat
    BY <2>1, <1>c, FirstPageNat
  <2>3. \A e \in listed : e.repo # cur
    BY <2>1, <1>a DEF PagesListed
  <2>4. FirstPage(cur)..LastListed' = {}
    BY <2>1, <2>2 DEF LastListed
  <2> QED BY <2>1, <2>2, <2>3, <2>4, <1>a DEF PagesListed
<1>2. CASE ListPage
  <2> DEFINE new == Elements(PageOf(cur, page))
  <2>1. /\ main = "list" /\ main' = "send" /\ listed' = listed \cup new
        /\ UNCHANGED <<cur, page>> /\ LastListed = page - 1 /\ LastListed' = page
    BY <1>2 DEF ListPage, LastListed
  <2>2. cur \in Repos /\ FirstPage(cur) \in Nat
    BY <2>1, <1>c, FirstPageNat
  <2>3. \A e \in new : e.repo = cur /\ e.page = page
    BY <2>2, <1>a, PageDistinct
  <2>4. page >= FirstPage(cur)
    BY <2>1, <1>a DEF PagesListed
  <2>5. \A p \in FirstPage(cur)..page : Elements(PageOf(cur, p)) \subseteq listed'
    <3> SUFFICES ASSUME NEW p \in FirstPage(cur)..page
                 PROVE  Elements(PageOf(cur, p)) \subseteq listed'
      OBVIOUS
    <3>1. CASE p = page
      BY <2>1, <3>1
    <3>2. CASE p # page
      <4>1. p \in FirstPage(cur)..(page - 1)
        BY <3>2, <2>2, <1>a
      <4> HIDE DEF new
      <4> QED BY <4>1, <2>1, <1>a DEF PagesListed
    <3> QED BY <3>1, <3>2
  <2>6. \A e \in listed' : e.repo = cur => e.page <= page
    <3>1. \A e \in listed : e.repo = cur => e.page <= page - 1
      BY <2>1, <1>a DEF PagesListed
    <3>2. \A e \in listed : e.repo = cur => e.page <= page
      BY <3>1, <1>b, <1>a
    <3> HIDE DEF new
    <3> QED BY <3>2, <2>3, <2>1, <1>a
  <2>7. \A e \in listed' : /\ e.repo <= cur /\ (e.repo = cur => main' # "start")
                           /\ e.page >= FirstPage(e.repo)
    <3> HIDE DEF new
    <3> QED BY <2>1, <2>3, <2>4, <1>a DEF PagesListed
  <2> HIDE DEF new
  <2> QED BY <2>1, <2>4, <2>5, <2>6, <2>7 DEF PagesListed
<1>3. CASE PageDone
  <2>1. /\ main = "send" /\ page' = NextPage(cur, page)
        /\ main' = IF NextPage(cur, page) = 0 THEN "closeFetch" ELSE "list"
        /\ UNCHANGED <<cur, listed>> /\ LastListed = page
    BY <1>3 DEF PageDone, histVars, LastListed
  <2>2. cur \in Repos /\ FirstPage(cur) \in Nat
    BY <2>1, <1>c, FirstPageNat
  <2>3. CASE NextPage(cur, page) = 0
    BY <2>1, <2>3, <1>d
  <2>4. CASE NextPage(cur, page) # 0
    <3>1. page' = page + 1 /\ main' = "list" /\ LastListed' = page
      BY <2>1, <2>4, <1>a DEF NextPage, LastListed
    <3> QED BY <2>1, <2>2, <3>1, <1>a DEF PagesListed
  <2> QED BY <2>3, <2>4
<1>4. CASE FinishRepository
  <2>1. /\ main = "waitIndex" /\ main' \in {"start", "done"} /\ cur' = cur + 1
        /\ UNCHANGED listed
    BY <1>4 DEF FinishRepository, histVars
  <2>2. \A e \in listed : e.repo <= cur' /\ e.repo # cur'
    BY <2>1, <1>a, <1>b DEF PagesListed
  <2> QED BY <2>1, <2>2, <1>a DEF PagesListed
<1>5. CASE ListFails \/ CloseFetch \/ CloseIndex
  BY <1>5, <1>d DEF ListFails, CloseFetch, CloseIndex, histVars
<1>6. CASE SendIssue \/ SendPullRequest
  BY <1>6, <1>d DEF SendIssue, SendPullRequest, histVars
<1>e. ASSUME UNCHANGED <<cur, listed, main, page>> PROVE PagesListed'
  BY <1>a, <1>e DEF PagesListed, LastListed
<1>7. ASSUME NEW f \in Fetchers, Fetcher(f) PROVE PagesListed'
  BY <1>7, <1>e DEF Fetcher, FetcherStart, FetcherReceive, FetcherSend, FetcherExit,
                    mainVars, histVars
<1>8. ASSUME NEW x \in Indexers, Indexer(x) PROVE PagesListed'
  BY <1>8, <1>e DEF Indexer, IndexerStart, IndexerReceive, IndexerStore, IndexerFails, Disposed,
                    IndexerExit, mainVars, histVars
<1>9. CASE UNCHANGED vars
  BY <1>9, <1>e DEF vars, mainVars, histVars
<1> QED BY <1>1, <1>2, <1>3, <1>4, <1>5, <1>6, <1>7, <1>8, <1>9 DEF Next, Main, Returned

LEMMA OneCopyStep ==
    ASSUME IInv, [Next]_vars
    PROVE  OneCopy'
<1> DEFINE Unique(pc, item) == \A f, g \in Fetchers :
              pc[f] = "send" /\ pc[g] = "send" /\ item[f] = item[g] => f = g
           UniqueItem(pc, item) == \A x, y \in Indexers :
              pc[x] = "store" /\ pc[y] = "store" /\ item[x].entry = item[y].entry => x = y
<1>a. /\ Position /\ FetcherState /\ IndexerState /\ Holding /\ EntriesKept /\ PagesListed
      /\ Distinct(iss) /\ Distinct(toFetch[cur]) /\ DistinctItems(toIndex[cur])
      /\ Unique(fpc, fitem) /\ UniqueItem(ipc, iitem)
      /\ Apart(Queueing, InFetchChan, HeldByFetcher, InIndexChan, HeldByIndexer, Attempted)
      /\ \A e \in Entries : attempts[e] <= 1
  BY DEF IInv, OneCopy
<1>b. /\ cur \in Channels
      /\ iss \in Seq(Entry)
      /\ toFetch \in [Channels -> Seq(Entry)]
      /\ toIndex \in [Channels -> Seq(Indexed)]
      /\ fpc \in [Fetchers -> {"none", "spawned", "range", "send", "done"}]
      /\ fitem \in [Fetchers -> Entry \cup {NoEntry}]
      /\ ipc \in [Indexers -> {"none", "spawned", "range", "store", "done"}]
      /\ iitem \in [Indexers -> Indexed \cup {NoEntry}]
      /\ page \in Nat /\ listed \subseteq Entries
      /\ attempts \in [Entries -> Nat]
  BY DEF IInv, TypeOK
<1>c. toFetch[cur] \in Seq(Entry) /\ toIndex[cur] \in Seq(Indexed)
  BY <1>b
<1>d. EntriesKept' /\ ChannelState' /\ PagesListed'
  BY EntriesKeptStep, ChannelStateStep, PagesListedStep
\* What is enough of the six places.
<1>e. ASSUME Distinct(iss'), Distinct(toFetch'[cur']), DistinctItems(toIndex'[cur']),
             Unique(fpc', fitem'), UniqueItem(ipc', iitem'),
             Apart(Queueing, InFetchChan, HeldByFetcher, InIndexChan, HeldByIndexer, Attempted)',
             \A e \in Entries : attempts'[e] <= 1
      PROVE  OneCopy'
  BY <1>e DEF OneCopy
<1>f. ASSUME UNCHANGED <<cur, iss, toFetch, toIndex, fitem, iitem, attempts>>,
             \A f \in Fetchers : fpc'[f] = "send" <=> fpc[f] = "send",
             \A x \in Indexers : ipc'[x] = "store" <=> ipc[x] = "store"
      PROVE  OneCopy'
  <2>1. UNCHANGED <<Queueing, InFetchChan, HeldByFetcher, InIndexChan, HeldByIndexer, Attempted>>
    BY <1>f DEF Queueing, InFetchChan, HeldByFetcher, InIndexChan, HeldByIndexer, Attempted
  <2> QED BY <2>1, <1>a, <1>e, <1>f
<1>1. CASE StartRepository
  <2>1. UNCHANGED <<cur, iss, toFetch, toIndex, fitem, iitem, attempts>>
    BY <1>1 DEF StartRepository, histVars
  <2>2. \A f \in Fetchers : fpc'[f] = "send" <=> fpc[f] = "send"
    BY <1>1, <1>a, <1>b DEF StartRepository, FetcherState, Live
  <2>3. \A x \in Indexers : ipc'[x] = "store" <=> ipc[x] = "store"
    BY <1>1, <1>a, <1>b DEF StartRepository, IndexerState, Live
  <2> QED BY <2>1, <2>2, <2>3, <1>f
<1>2. CASE ListPage
  <2> DEFINE new == Elements(PageOf(cur, page))
  <2>1. /\ main = "list" /\ iss' = PageOf(cur, page)
        /\ UNCHANGED <<cur, page, toFetch, toIndex, fpc, fitem, ipc, iitem, attempts>>
    BY <1>2 DEF ListPage, chanVars, fetchVars, indexVars
  <2>2. cur \in Repos
    BY <2>1, <1>a, <1>b, NumReposAssumption DEF Position, Channels, Repos
  <2>3. Distinct(iss') /\ \A e \in new : e.repo = cur /\ e.page = page
    BY <2>1, <2>2, <1>b, PageDistinct
  <2>4. Queueing = {} /\ Queueing' = new
    <3>1. iss = <<>> /\ Elements(<<>>) = {}
      BY <2>1, <1>a DEF Position, Elements
    <3> QED BY <2>1, <3>1 DEF Queueing
  <2>5. UNCHANGED <<InFetchChan, HeldByFetcher, InIndexChan, HeldByIndexer, Attempted>>
    BY <2>1 DEF InFetchChan, HeldByFetcher, InIndexChan, HeldByIndexer, Attempted
  <2>6. \A e \in listed : e \notin new
    <3>1. \A e \in listed : e.repo = cur => e.page \in Nat /\ e.page <= page - 1
      <4>1. \A e \in listed : e.page \in Nat
        BY <1>b, EntriesAreEntry DEF Entry
      <4> HIDE DEF new
      <4> QED BY <4>1, <2>1, <1>a DEF PagesListed, LastListed
    <3>2. ASSUME NEW e \in listed, e \in new PROVE FALSE
      <4>1. e.repo = cur /\ e.page = page
        BY <2>3, <3>2
      <4>2. e.page <= page - 1
        BY <3>1, <4>1
      <4> QED BY <4>1, <4>2, <1>b
    <3> QED BY <3>2
  <2> HIDE DEF new
  <2>7. InFlight \subseteq listed /\ Attempted \subseteq listed
    BY <1>a DEF EntriesKept
  <2>8. Apart(Queueing, InFetchChan, HeldByFetcher, InIndexChan, HeldByIndexer, Attempted)'
    BY <2>4, <2>5, <2>6, <2>7, <1>a DEF Apart, InFlight
  <2> QED BY <2>1, <2>3, <2>8, <1>a, <1>e
<1>3. CASE SendIssue
  <2> DEFINE e == Head(iss)
             d == [entry |-> e, type |-> "issue"]
  <2>1. /\ iss # <<>> /\ iss' = Tail(iss)
        /\ toIndex' = [toIndex EXCEPT ![cur] = Append(@, d)]
        /\ UNCHANGED <<cur, toFetch, fpc, fitem, ipc, iitem, attempts>>
    BY <1>3 DEF SendIssue, fetchVars, indexVars, histVars
  <2>2. e \in Entry /\ e \in Queueing /\ d \in Indexed
    BY <2>1, <1>b, HeadTailElements DEF Queueing, Indexed, DocTypes
  <2>3. Distinct(iss') /\ Queueing' = Queueing \ {e}
    BY <2>1, <1>a, <1>b, TailDistinct DEF Queueing
  <2>4. e \notin InIndexChan
    BY <2>2, <1>a DEF Apart
  <2>5. toIndex'[cur] = Append(toIndex[cur], d)
    BY <2>1, <1>b
  <2>6. DistinctItems(toIndex'[cur'])
    BY <2>1, <2>2, <2>4, <2>5, <1>a, <1>c, AppendDistinctItems DEF InIndexChan
  <2>7. InIndexChan' = InIndexChan \cup {e}
    <3>1. Elements(toIndex'[cur']) = Elements(toIndex[cur]) \cup {d}
      BY <2>1, <2>2, <2>5, <1>c, AppendElements
    <3>2. d.entry = e
      OBVIOUS
    <3> HIDE DEF d
    <3> QED BY <3>1, <3>2 DEF InIndexChan
  <2>8. UNCHANGED <<InFetchChan, HeldByFetcher, HeldByIndexer, Attempted>>
    BY <2>1 DEF InFetchChan, HeldByFetcher, HeldByIndexer, Attempted
  <2> HIDE DEF e
  <2>9. Apart(Queueing, InFetchChan, HeldByFetcher, InIndexChan, HeldByIndexer, Attempted)'
    BY <2>2, <2>3, <2>7, <2>8, <1>a DEF Apart
  <2> QED BY <2>1, <2>3, <2>6, <2>9, <1>a, <1>e
<1>4. CASE SendPullRequest
  <2> DEFINE e == Head(iss)
  <2>1. /\ iss # <<>> /\ iss' = Tail(iss)
        /\ toFetch' = [toFetch EXCEPT ![cur] = Append(@, e)]
        /\ UNCHANGED <<cur, toIndex, fpc, fitem, ipc, iitem, attempts>>
    BY <1>4 DEF SendPullRequest, fetchVars, indexVars, histVars
  <2>2. e \in Entry /\ e \in Queueing
    BY <2>1, <1>b, HeadTailElements DEF Queueing
  <2>3. Distinct(iss') /\ Queueing' = Queueing \ {e}
    BY <2>1, <1>a, <1>b, TailDistinct DEF Queueing
  <2>4. e \notin InFetchChan
    BY <2>2, <1>a DEF Apart
  <2>5. toFetch'[cur] = Append(toFetch[cur], e)
    BY <2>1, <1>b
  <2>6. Distinct(toFetch'[cur'])
    BY <2>1, <2>2, <2>4, <2>5, <1>a, <1>c, AppendDistinct DEF InFetchChan
  <2>7. InFetchChan' = InFetchChan \cup {e}
    BY <2>1, <2>2, <2>5, <1>c, AppendElements DEF InFetchChan
  <2>8. UNCHANGED <<InIndexChan, HeldByFetcher, HeldByIndexer, Attempted>>
    BY <2>1 DEF InIndexChan, HeldByFetcher, HeldByIndexer, Attempted
  <2> HIDE DEF e
  <2>9. Apart(Queueing, InFetchChan, HeldByFetcher, InIndexChan, HeldByIndexer, Attempted)'
    BY <2>2, <2>3, <2>7, <2>8, <1>a DEF Apart
  <2> QED BY <2>1, <2>3, <2>6, <2>9, <1>a, <1>e
<1>5. CASE ListFails \/ PageDone \/ CloseFetch \/ CloseIndex
  <2>1. UNCHANGED <<cur, iss, toFetch, toIndex, fpc, fitem, ipc, iitem, attempts>>
    BY <1>5 DEF ListFails, PageDone, CloseFetch, CloseIndex, chanVars, fetchVars, indexVars,
                histVars
  <2> QED BY <2>1, <1>f
<1>6. CASE FinishRepository
  <2>1. /\ cur' = cur + 1 /\ main' \in {"start", "done"} /\ main = "waitIndex"
        /\ UNCHANGED <<iss, toFetch, toIndex, fpc, fitem, ipc, iitem, attempts>>
    BY <1>6 DEF FinishRepository, chanVars, fetchVars, indexVars, histVars
  <2>2. InFlight' = {}
    BY <2>1, <1>d DEF EntriesKept
  <2>3. cur' \in Channels /\ cur' > cur
    BY <2>1, <1>a, <1>b, NumReposAssumption DEF Position, Channels
  <2>4. toFetch[cur'] = <<>> /\ toIndex[cur'] = <<>>
    BY <2>3 DEF IInv, ChannelState
  <2>5. Distinct(toFetch'[cur']) /\ DistinctItems(toIndex'[cur'])
    BY <2>1, <2>4 DEF Distinct, DistinctItems
  <2>6. Apart(Queueing, InFetchChan, HeldByFetcher, InIndexChan, HeldByIndexer, Attempted)'
    BY <2>2 DEF Apart, InFlight
  <2> QED BY <2>1, <2>5, <2>6, <1>a, <1>e
<1>7. ASSUME NEW f \in Fetchers, Fetcher(f) PROVE OneCopy'
  <2>1. CASE FetcherStart(f) \/ FetcherExit(f)
    <3>1. UNCHANGED <<cur, iss, toFetch, toIndex, fitem, ipc, iitem, attempts>>
      BY <2>1 DEF FetcherStart, FetcherExit, mainVars, chanVars, indexVars, histVars
    <3>2. \A g \in Fetchers : fpc'[g] = "send" <=> fpc[g] = "send"
      BY <2>1, <1>b DEF FetcherStart, FetcherExit
    <3> QED BY <3>1, <3>2, <1>f
  <2>2. CASE FetcherReceive(f)
    <3> DEFINE e == Head(toFetch[cur])
    <3>1. fchan[f] = cur
      BY <2>2, <1>a DEF FetcherReceive, FetcherState
    <3>2. /\ toFetch[cur] # <<>> /\ fpc[f] = "range"
          /\ fitem' = [fitem EXCEPT ![f] = e]
          /\ toFetch' = [toFetch EXCEPT ![cur] = Tail(@)]
          /\ fpc' = [fpc EXCEPT ![f] = "send"]
          /\ UNCHANGED <<cur, iss, toIndex, ipc, iitem, attempts>>
      BY <2>2, <3>1 DEF FetcherReceive, mainVars, indexVars, histVars
    <3>3. toFetch'[cur] = Tail(toFetch[cur])
      BY <3>2, <1>b
    <3>4. Distinct(toFetch'[cur']) /\ InFetchChan' = InFetchChan \ {e}
      BY <3>2, <3>3, <1>a, <1>c, TailDistinct DEF InFetchChan
    <3>5. e \in InFetchChan
      BY <3>2, <1>c, HeadTailElements DEF InFetchChan
    <3>6. e \notin HeldByFetcher
      BY <3>5, <1>a DEF Apart
    <3> HIDE DEF e
    <3>7. /\ fitem'[f] = e /\ fpc'[f] = "send"
          /\ \A g \in Fetchers : g # f => fitem'[g] = fitem[g] /\ fpc'[g] = fpc[g]
      BY <3>2, <1>b
    <3>8. HeldByFetcher' = HeldByFetcher \cup {e}
      BY <3>2, <3>7 DEF HeldByFetcher
    <3>9. Unique(fpc', fitem')
      BY <3>6, <3>7, <1>a DEF HeldByFetcher
    <3>10. UNCHANGED <<Queueing, InIndexChan, HeldByIndexer, Attempted>>
      BY <3>2 DEF Queueing, InIndexChan, HeldByIndexer, Attempted
    <3>11. Apart(Queueing, InFetchChan, HeldByFetcher, InIndexChan, HeldByIndexer, Attempted)'
      BY <3>4, <3>5, <3>8, <3>10, <1>a DEF Apart
    <3> QED BY <3>2, <3>4, <3>9, <3>11, <1>a, <1>e
  <2>3. CASE FetcherSend(f)
    <3> DEFINE e == fitem[f]
    <3>1. PICK t \in DocTypes :
            toIndex' = [toIndex EXCEPT ![cur] = Append(@, [entry |-> e, type |-> t])]
      BY <2>3 DEF FetcherSend
    <3> DEFINE d == [entry |-> e, type |-> t]
    <3>2. /\ fpc[f] = "send"
          /\ fitem' = [fitem EXCEPT ![f] = NoEntry]
          /\ fpc' = [fpc EXCEPT ![f] = "range"]
          /\ UNCHANGED <<cur, iss, toFetch, ipc, iitem, attempts>>
      BY <2>3 DEF FetcherSend, mainVars, indexVars, histVars
    <3>3. e \in HeldByFetcher
      BY <3>2 DEF HeldByFetcher
    <3>4. e \in Entry /\ d \in Indexed /\ e \notin InIndexChan
      <4>1. e \in Entries
        BY <3>3, <1>a, <1>b DEF EntriesKept, InFlight
      <4>2. e \in Entry
        BY <4>1, EntriesAreEntry
      <4> QED BY <4>2, <3>3, <1>a DEF Indexed, Apart
    <3>5. toIndex'[cur] = Append(toIndex[cur], d)
      BY <3>1, <1>b
    <3>6. DistinctItems(toIndex'[cur'])
      BY <3>2, <3>4, <3>5, <1>a, <1>c, AppendDistinctItems DEF InIndexChan
    <3>7. InIndexChan' = InIndexChan \cup {e}
      BY <3>2, <3>4, <3>5, <1>c, AppendElements DEF InIndexChan
    <3> HIDE DEF e
    <3>8. /\ fpc'[f] = "range"
          /\ \A g \in Fetchers : g # f => fitem'[g] = fitem[g] /\ fpc'[g] = fpc[g]
      BY <3>2, <1>b
    <3>9. \A g \in Fetchers : g # f /\ fpc[g] = "send" => fitem[g] # e
      BY <3>2, <1>a DEF e
    <3>10. HeldByFetcher' = HeldByFetcher \ {e}
      <4>1. \A g \in Fetchers : fpc'[g] = "send" <=> (fpc[g] = "send" /\ g # f)
        BY <3>8
      <4>2. \A g \in Fetchers : g = f => fitem[g] = e
        BY DEF e
      <4> QED BY <4>1, <4>2, <3>8, <3>9 DEF HeldByFetcher
    <3>11. Unique(fpc', fitem')
      BY <3>8, <1>a
    <3>12. UNCHANGED <<Queueing, InFetchChan, HeldByIndexer, Attempted>>
      BY <3>2 DEF Queueing, InFetchChan, HeldByIndexer, Attempted
    <3>13. Apart(Queueing, InFetchChan, HeldByFetcher, InIndexChan, HeldByIndexer, Attempted)'
      BY <3>3, <3>7, <3>10, <3>12, <1>a DEF Apart
    <3> QED BY <3>2, <3>6, <3>11, <3>13, <1>a, <1>e
  <2> QED BY <1>7, <2>1, <2>2, <2>3 DEF Fetcher
<1>8. ASSUME NEW x \in Indexers, Indexer(x) PROVE OneCopy'
  <2>1. CASE IndexerStart(x) \/ IndexerExit(x)
    <3>1. UNCHANGED <<cur, iss, toFetch, toIndex, fpc, fitem, iitem, attempts>>
      BY <2>1 DEF IndexerStart, IndexerExit, mainVars, chanVars, fetchVars, histVars
    <3>2. \A y \in Indexers : ipc'[y] = "store" <=> ipc[y] = "store"
      BY <2>1, <1>b DEF IndexerStart, IndexerExit
    <3> QED BY <3>1, <3>2, <1>f
  <2>2. CASE IndexerReceive(x)
    <3> DEFINE d == Head(toIndex[cur])
               e == d.entry
    <3>1. ichan[x] = cur
      BY <2>2, <1>a DEF IndexerReceive, IndexerState
    <3>2. /\ toIndex[cur] # <<>> /\ ipc[x] = "range"
          /\ iitem' = [iitem EXCEPT ![x] = d]
          /\ toIndex' = [toIndex EXCEPT ![cur] = Tail(@)]
          /\ ipc' = [ipc EXCEPT ![x] = "store"]
          /\ UNCHANGED <<cur, iss, toFetch, fpc, fitem, attempts>>
      BY <2>2, <3>1 DEF IndexerReceive, mainVars, fetchVars, histVars
    <3>3. toIndex'[cur] = Tail(toIndex[cur])
      BY <3>2, <1>b
    <3>4. DistinctItems(toIndex'[cur']) /\ InIndexChan' = InIndexChan \ {e}
      BY <3>2, <3>3, <1>a, <1>c, TailDistinctItems DEF InIndexChan
    <3>5. e \in InIndexChan
      BY <3>2, <1>c, HeadTailElements DEF InIndexChan
    <3>6. e \notin HeldByIndexer
      BY <3>5, <1>a DEF Apart
    <3> HIDE DEF d
    <3>7. /\ iitem'[x] = d /\ ipc'[x] = "store"
          /\ \A y \in Indexers : y # x => iitem'[y] = iitem[y] /\ ipc'[y] = ipc[y]
      BY <3>2, <1>b
    <3>8. HeldByIndexer' = HeldByIndexer \cup {e}
      BY <3>2, <3>7 DEF HeldByIndexer
    <3>9. UniqueItem(ipc', iitem')
      BY <3>6, <3>7, <1>a DEF HeldByIndexer
    <3>10. UNCHANGED <<Queueing, InFetchChan, HeldByFetcher, Attempted>>
      BY <3>2 DEF Queueing, InFetchChan, HeldByFetcher, Attempted
    <3>11. Apart(Queueing, InFetchChan, HeldByFetcher, InIndexChan, HeldByIndexer, Attempted)'
      BY <3>4, <3>5, <3>8, <3>10, <1>a DEF Apart
    <3> QED BY <3>2, <3>4, <3>9, <3>11, <1>a, <1>e
  <2>3. CASE Disposed(x)
    <3> DEFINE e == iitem[x].entry
    <3>1. /\ ipc[x] = "store"
          /\ attempts' = [attempts EXCEPT ![e] = @ + 1]
          /\ iitem' = [iitem EXCEPT ![x] = NoEntry]
          /\ ipc' = [ipc EXCEPT ![x] = "range"]
          /\ UNCHANGED <<cur, iss, toFetch, toIndex, fpc, fitem>>
      BY <2>3 DEF Disposed, mainVars, chanVars, fetchVars
    <3>2. e \in HeldByIndexer
      BY <3>1 DEF HeldByIndexer
    <3>3. e \in Entries /\ attempts[e] = 0
      <4>1. e \in Entries
        BY <3>2, <1>a, <1>b DEF EntriesKept, InFlight
      <4>2. e \notin Attempted
        BY <3>2, <1>a DEF Apart
      <4> QED BY <4>1, <4>2, <1>b DEF Attempted
    <3> HIDE DEF e
    <3>4. /\ attempts'[e] = 1 /\ \A b \in Entries : b # e => attempts'[b] = attempts[b]
      BY <3>1, <3>3, <1>b
    <3>5. Attempted' = Attempted \cup {e} /\ \A b \in Entries : attempts'[b] <= 1
      BY <3>3, <3>4, <1>a DEF Attempted
    <3>6. /\ ipc'[x] = "range"
          /\ \A y \in Indexers : y # x => iitem'[y] = iitem[y] /\ ipc'[y] = ipc[y]
      BY <3>1, <1>b
    <3>7. \A y \in Indexers : y # x /\ ipc[y] = "store" => iitem[y].entry # e
      BY <3>1, <1>a DEF e
    <3>8. HeldByIndexer' = HeldByIndexer \ {e}
      <4>1. \A y \in Indexers : ipc'[y] = "store" <=> (ipc[y] = "store" /\ y # x)
        BY <3>6
      <4>2. \A y \in Indexers : y = x => iitem[y].entry = e
        BY DEF e
      <4> QED BY <4>1, <4>2, <3>6, <3>7 DEF HeldByIndexer
    <3>9. UniqueItem(ipc', iitem')
      BY <3>6, <1>a
    <3>10. UNCHANGED <<Queueing, InFetchChan, HeldByFetcher, InIndexChan>>
      BY <3>1 DEF Queueing, InFetchChan, HeldByFetcher, InIndexChan
    <3>11. Apart(Queueing, InFetchChan, HeldByFetcher, InIndexChan, HeldByIndexer, Attempted)'
      BY <3>2, <3>5, <3>8, <3>10, <1>a DEF Apart
    <3> QED BY <3>1, <3>5, <3>9, <3>11, <1>a, <1>e
  <2> QED BY <1>8, <2>1, <2>2, <2>3 DEF Indexer, IndexerStore, IndexerFails
<1>9. CASE UNCHANGED vars
  <2>1. UNCHANGED <<cur, iss, toFetch, toIndex, fpc, fitem, ipc, iitem, attempts>>
    BY <1>9 DEF vars, mainVars, chanVars, fetchVars, indexVars, histVars
  <2> QED BY <2>1, <1>f
<1> QED BY <1>1, <1>2, <1>3, <1>4, <1>5, <1>6, <1>7, <1>8, <1>9 DEF Next, Main, Returned

LEMMA TypeOKStep ==
    ASSUME IInv, [Next]_vars
    PROVE  TypeOK'
<1> USE NumReposAssumption DEF Channels, Repos, TypeOK
<1>a. /\ TypeOK /\ Position /\ FetcherState /\ IndexerState /\ Holding /\ EntriesKept
  BY DEF IInv
\* The counters count finite sets.
<1>b. wgFetch' \in Nat /\ wgIndex' \in Nat
  BY FetcherStateStep, IndexerStateStep, FiniteGoroutines, FS_CardinalityType
     DEF FetcherState, IndexerState
<1>1. CASE StartRepository
  <2>1. page' \in Nat
    BY <1>1, <1>a, FirstPageNat DEF StartRepository, Position
  <2> QED BY <1>1, <1>a, <1>b, <2>1 DEF StartRepository, histVars
<1>2. CASE ListPage
  <2>1. cur \in Repos
    BY <1>2, <1>a DEF ListPage, Position
  <2>2. PageOf(cur, page) \in Seq(Entry) /\ Elements(PageOf(cur, page)) \subseteq Entries
    BY <1>a, <2>1, PageEntries
  <2> QED BY <1>2, <1>a, <2>2 DEF ListPage, chanVars, fetchVars, indexVars
<1>3. CASE ListFails
  BY <1>3, <1>a DEF ListFails, chanVars, fetchVars, indexVars, histVars
<1>4. CASE SendIssue
  <2>1. Head(iss) \in Entry /\ Tail(iss) \in Seq(Entry)
    BY <1>4, <1>a DEF SendIssue
  <2>2. [entry |-> Head(iss), type |-> "issue"] \in Indexed
    BY <2>1 DEF Indexed, DocTypes
  <2>3. toIndex' \in [Channels -> Seq(Indexed)]
    BY <1>4, <1>a, <2>2 DEF SendIssue
  <2> QED BY <1>4, <1>a, <2>1, <2>3 DEF SendIssue, fetchVars, indexVars, histVars
<1>5. CASE SendPullRequest
  <2>1. Head(iss) \in Entry /\ Tail(iss) \in Seq(Entry)
    BY <1>5, <1>a DEF SendPullRequest
  <2>2. toFetch' \in [Channels -> Seq(Entry)]
    BY <1>5, <1>a, <2>1 DEF SendPullRequest
  <2> QED BY <1>5, <1>a, <2>1, <2>2 DEF SendPullRequest, fetchVars, indexVars, histVars
<1>6. CASE PageDone
  <2>1. NextPage(cur, page) \in Nat
    <3>1. cur \in Repos
      BY <1>6, <1>a DEF PageDone, Position
    <3> QED BY <3>1, <1>a, NextPageNat
  <2> QED BY <1>6, <1>a, <2>1 DEF PageDone, chanVars, fetchVars, indexVars, histVars
<1>7. CASE CloseFetch
  BY <1>7, <1>a DEF CloseFetch, fetchVars, indexVars, histVars
<1>8. CASE CloseIndex
  BY <1>8, <1>a DEF CloseIndex, fetchVars, indexVars, histVars
<1>9. CASE FinishRepository
  <2>1. cur' \in Channels
    BY <1>9, <1>a DEF FinishRepository, Position
  <2> QED BY <1>9, <1>a, <2>1 DEF FinishRepository, chanVars, fetchVars, indexVars, histVars
<1>10. ASSUME NEW f \in Fetchers, Fetcher(f) PROVE TypeOK'
  <2>1. CASE FetcherStart(f)
    BY <2>1, <1>a DEF FetcherStart, mainVars, chanVars, indexVars, histVars
  <2>2. CASE FetcherReceive(f)
    <3>1. fchan[f] = cur /\ toFetch[cur] # <<>> /\ toFetch[cur] \in Seq(Entry)
      BY <2>2, <1>a DEF FetcherReceive, FetcherState
    <3>2. Head(toFetch[cur]) \in Entry /\ Tail(toFetch[cur]) \in Seq(Entry)
      BY <3>1
    <3>3. toFetch' \in [Channels -> Seq(Entry)] /\ fitem' \in [Fetchers -> Entry \cup {NoEntry}]
      BY <2>2, <3>1, <3>2, <1>a DEF FetcherReceive
    <3> QED BY <2>2, <1>a, <3>3 DEF FetcherReceive, mainVars, indexVars, histVars
  <2>3. CASE FetcherSend(f)
    <3>1. PICK t \in DocTypes :
            toIndex' = [toIndex EXCEPT ![cur] = Append(@, [entry |-> fitem[f], type |-> t])]
      BY <2>3 DEF FetcherSend
    <3>2. fitem[f] \in Entry
      <4>1. fitem[f] \in HeldByFetcher
        BY <2>3 DEF FetcherSend, HeldByFetcher
      <4> QED BY <4>1, <1>a, EntriesAreEntry DEF EntriesKept, InFlight
    <3>3. [entry |-> fitem[f], type |-> t] \in Indexed
      BY <3>2 DEF Indexed
    <3>4. toIndex' \in [Channels -> Seq(Indexed)]
      BY <3>1, <3>3, <1>a
    <3> QED BY <2>3, <1>a, <3>4 DEF FetcherSend, mainVars, indexVars, histVars
  <2>4. CASE FetcherExit(f)
    BY <2>4, <1>a, <1>b DEF FetcherExit, mainVars, indexVars, histVars
  <2> QED BY <1>10, <2>1, <2>2, <2>3, <2>4 DEF Fetcher
<1>11. ASSUME NEW x \in Indexers, Indexer(x) PROVE TypeOK'
  <2>1. CASE IndexerStart(x)
    BY <2>1, <1>a DEF IndexerStart, mainVars, chanVars, fetchVars, histVars
  <2>2. CASE IndexerReceive(x)
    <3>1. ichan[x] = cur /\ toIndex[cur] # <<>> /\ toIndex[cur] \in Seq(Indexed)
      BY <2>2, <1>a DEF IndexerReceive, IndexerState
    <3>2. Head(toIndex[cur]) \in Indexed /\ Tail(toIndex[cur]) \in Seq(Indexed)
      BY <3>1
    <3>3. toIndex' \in [Channels -> Seq(Indexed)] /\ iitem' \in [Indexers -> Indexed \cup {NoEntry}]
      BY <2>2, <3>1, <3>2, <1>a DEF IndexerReceive
    <3> QED BY <2>2, <1>a, <3>3 DEF IndexerReceive, mainVars, fetchVars, histVars
  <2>3. CASE IndexerStore(x) \/ IndexerFails(x)
    <3>1. iitem[x] \in Indexed /\ iitem[x].entry \in Entries
      <4>1. iitem[x].entry \in HeldByIndexer
        BY <2>3 DEF IndexerStore, IndexerFails, Disposed, HeldByIndexer
      <4> QED BY <2>3, <4>1, <1>a
              DEF IndexerStore, IndexerFails, Disposed, Holding, EntriesKept, InFlight
    <3>2. attempts' \in [Entries -> Nat]
      <4>1. attempts' = [attempts EXCEPT ![iitem[x].entry] = @ + 1]
        BY <2>3 DEF IndexerStore, IndexerFails, Disposed
      <4>2. attempts \in [Entries -> Nat]
        BY <1>a
      <4> HIDE DEF TypeOK
      <4> QED BY <4>1, <4>2, <3>1
    <3>3. [repo |-> x[1], entry |-> iitem[x].entry, type |-> iitem[x].type]
            \in [repo : Repos, entry : Entry, type : DocTypes]
      BY <3>1 DEF Indexed, Indexers
    <3>4. stored' \subseteq [repo : Repos, entry : Entry, type : DocTypes]
      BY <2>3, <3>3, <1>a DEF IndexerStore, IndexerFails
    <3> QED BY <2>3, <1>a, <3>2, <3>4
            DEF IndexerStore, IndexerFails, Disposed, mainVars, chanVars, fetchVars
  <2>4. CASE IndexerExit(x)
    BY <2>4, <1>a, <1>b DEF IndexerExit, mainVars, fetchVars, histVars
  <2> QED BY <1>11, <2>1, <2>2, <2>3, <2>4 DEF Indexer
<1>12. CASE UNCHANGED vars
  BY <1>12, <1>a DEF vars, mainVars, chanVars, fetchVars, indexVars, histVars
<1> QED BY <1>1, <1>2, <1>3, <1>4, <1>5, <1>6, <1>7, <1>8, <1>9, <1>10, <1>11, <1>12
        DEF Next, Main, Returned

-----------------------------------------------------------------------------
(* Theorems. *)

\* The inductive invariant holds in every reachable state of the job.
THEOREM Invariant == Spec => []IInv
<1>1. IInv /\ [Next]_vars => IInv'
  BY TypeOKStep, PositionStep, ChannelStateStep, FetcherStateStep, IndexerStateStep,
     HoldingStep, EntriesKeptStep, OneCopyStep, PagesListedStep DEF IInv
<1> QED BY InitIInv, <1>1, PTL DEF Spec

\* Type correctness of the job, the counters of its WaitGroups never negative.
THEOREM TypeCorrect == Spec => []TypeOK
<1>1. IInv => TypeOK
  BY DEF IInv
<1> QED BY <1>1, Invariant, PTL

\* Run never panics with a send on a closed channel.
THEOREM NoPanic == Spec => []NoSendOnClosedChannel
<1>1. IInv => NoSendOnClosedChannel
  <2> SUFFICES ASSUME IInv PROVE NoSendOnClosedChannel
    OBVIOUS
  <2>1. cur \in Channels
    BY DEF IInv, TypeOK
  <2>2. main \in {"list", "send"} => ~fetchClosed[cur] /\ ~indexClosed[cur]
    BY <2>1 DEF IInv, ChannelState, Channels
  <2>3. indexClosed[cur] => main = "waitIndex"
    BY <2>1 DEF IInv, ChannelState, Channels
  <2>4. main = "waitIndex" => \A f \in Fetchers : ~Live(fpc[f])
    BY DEF IInv, FetcherState
  <2> QED BY <2>2, <2>3, <2>4 DEF NoSendOnClosedChannel
<1> QED BY <1>1, Invariant, PTL

\* Goroutines never outlive the iteration that started them, and no document is
\* written to the index of another repository.
THEOREM Isolation == Spec => []NoCrossRepository
<1>1. IInv => NoCrossRepository
  <2> SUFFICES ASSUME IInv PROVE NoCrossRepository
    OBVIOUS
  <2>1. ASSUME NEW f \in Fetchers, Live(fpc[f]) PROVE f[1] = cur /\ fchan[f] \in {0, cur}
    <3>1. fpc[f] \in {"none", "spawned", "range", "send", "done"}
      BY DEF IInv, TypeOK
    <3> QED BY <2>1, <3>1 DEF IInv, FetcherState, Live
  <2>2. ASSUME NEW x \in Indexers, Live(ipc[x]) PROVE x[1] = cur /\ ichan[x] \in {0, cur}
    <3>1. ipc[x] \in {"none", "spawned", "range", "store", "done"}
      BY DEF IInv, TypeOK
    <3> QED BY <2>2, <3>1 DEF IInv, IndexerState, Live
  <2> QED BY <2>1, <2>2 DEF NoCrossRepository, IInv, EntriesKept
<1> QED BY <1>1, Invariant, PTL

\* Run does not return, nor start on another repository, before an attempt was
\* made to store every entry GitHub has listed.
THEOREM AllDone == Spec => []AllDoneAtReturn
<1>1. IInv => AllDoneAtReturn
  <2> SUFFICES ASSUME IInv, main \in {"start", "done"}, NEW e \in listed
               PROVE  attempts[e] >= 1
    BY DEF AllDoneAtReturn
  <2>1. e \in Attempted
    BY DEF IInv, EntriesKept
  <2> QED BY <2>1 DEF Attempted, IInv, TypeOK
<1> QED BY <1>1, Invariant, PTL

\* Every step of the pipeline is a step the promise allows, or changes nothing
\* the promise speaks of: the safety part of the refinement PromiseSpec.  An entry
\* is attempted once because it is in one place at a time, and pages are listed
\* without a gap.
THEOREM ImplementsPromise == Spec => Promise!SafeSpec
<1>1. Init => Promise!Init
  BY DEF Init, Promise!Init
<1>2. IInv /\ IInv' /\ [Next]_vars => [Promise!Next]_(Promise!vars)
  <2> SUFFICES ASSUME IInv, IInv', [Next]_vars
               PROVE  Promise!Next \/ UNCHANGED Promise!vars
    OBVIOUS
  <2>a. /\ cur \in 1..(NumRepos + 1) /\ NumRepos \in Nat /\ page \in Nat
        /\ main = "done" <=> cur = NumRepos + 1
        /\ EntriesKept
    BY NumReposAssumption DEF IInv, TypeOK, Position, Channels
  <2>b. ASSUME UNCHANGED <<cur, listed, attempts>> PROVE UNCHANGED Promise!vars
    BY <2>b DEF Promise!vars
  <2>1. CASE ListPage
    <3>1. cur \in Repos /\ cur <= NumRepos
      BY <2>1, <2>a DEF ListPage, Repos
    <3>2. /\ main = "list" /\ main' = "send"
          /\ listed' = listed \cup Elements(PageOf(cur, page))
          /\ UNCHANGED <<cur, page, attempts>>
      BY <2>1 DEF ListPage
    <3>3. page >= FirstPage(cur)
      BY <3>2 DEF IInv, PagesListed
    <3>4. CASE page > Len(Listing[cur])
      <4>1. PageOf(cur, page) = <<>> /\ Elements(<<>>) = {}
        BY <3>4, <2>a DEF PageOf, Elements
      <4> QED BY <3>2, <4>1, <2>b
    <3>5. CASE page <= Len(Listing[cur])
      <4>1. \A p \in FirstPage(cur)..page : Elements(PageOf(cur, p)) \subseteq listed'
        BY <3>2 DEF IInv, PagesListed, LastListed
      <4>2. PICK n \in 1..Len(PagesOf[cur]) :
              listed \cup Elements(PageOf(cur, page)) = listed \cup Promise!FirstPages(cur, n)
        <5>1. \A p \in FirstPage(cur)..page :
                Elements(PageOf(cur, p)) \subseteq listed \cup Elements(PageOf(cur, page))
          BY <3>2, <4>1
        <5> QED BY <3>1, <3>3, <3>5, <5>1, <2>a, PagesUpTo
      <4> QED BY <3>1, <3>2, <4>2 DEF Promise!Next, Promise!List
    <3> QED BY <3>4, <3>5, <3>1, <2>a, ListingLen
  <2>2. CASE FinishRepository
    <3>1. /\ cur' = cur + 1 /\ main' \in {"start", "done"} /\ main = "waitIndex"
          /\ UNCHANGED <<listed, attempts>>
      BY <2>2 DEF FinishRepository, histVars
    <3>2. InFlight' = {} /\ listed' \subseteq InFlight' \cup Attempted'
      BY <3>1 DEF IInv, EntriesKept
    <3>3. \A e \in listed : attempts[e] = 1
      <4> SUFFICES ASSUME NEW e \in listed PROVE attempts[e] = 1
        OBVIOUS
      <4>1. e \in Entries /\ attempts[e] > 0
        BY <3>1, <3>2 DEF Attempted
      <4> QED BY <4>1 DEF IInv, TypeOK, OneCopy
    <3>4. cur <= NumRepos
      BY <3>1, <2>a
    <3> QED BY <3>1, <3>3, <3>4 DEF Promise!Next, Promise!MoveOn
  <2>3. ASSUME NEW x \in Indexers, Disposed(x) PROVE Promise!Next
    <3> DEFINE e == iitem[x].entry
    <3>1. /\ ipc[x] = "store" /\ UNCHANGED <<cur, listed>>
          /\ attempts' = [attempts EXCEPT ![e] = @ + 1]
      BY <2>3 DEF Disposed, mainVars
    <3>2. e \in HeldByIndexer
      BY <3>1 DEF HeldByIndexer
    <3>3. e \in listed /\ e \in Entries /\ e.repo = cur
      BY <3>2 DEF IInv, TypeOK, EntriesKept, InFlight
    <3>4. attempts \in [Entries -> Nat] /\ attempts[e] = 0
      <4>1. e \notin Attempted
        BY <3>2 DEF IInv, OneCopy, Apart
      <4>2. attempts \in [Entries -> Nat]
        BY DEF IInv, TypeOK
      <4> HIDE DEF e
      <4> QED BY <3>3, <4>1, <4>2 DEF Attempted
    <3>5. cur \in Repos
      BY <3>1, <2>a DEF IInv, IndexerState, Live, Repos
    <3> HIDE DEF e
    <3>6. e \in Promise!FirstPages(cur, Len(PagesOf[cur]))
      <4>1. e.page >= FirstPage(e.repo)
        BY <3>3 DEF IInv, PagesListed
      <4> QED BY <3>3, <4>1, ListedInPages
    <3>7. attempts' = [attempts EXCEPT ![e] = 1]
      BY <3>1, <3>4
    <3>8. cur <= NumRepos
      BY <3>5, <2>a DEF Repos
    <3> QED BY <3>1, <3>3, <3>4, <3>6, <3>7, <3>8 DEF Promise!Next, Promise!Attempt
  <2>4. ASSUME Main PROVE Promise!Next \/ UNCHANGED Promise!vars
    BY <2>1, <2>2, <2>4, <2>b
       DEF Main, StartRepository, ListFails, SendIssue, SendPullRequest, PageDone, CloseFetch,
           CloseIndex, histVars
  <2>5. ASSUME NEW f \in Fetchers, Fetcher(f) PROVE UNCHANGED Promise!vars
    BY <2>5, <2>b DEF Fetcher, FetcherStart, FetcherReceive, FetcherSend, FetcherExit,
                      mainVars, histVars
  <2>6. ASSUME NEW x \in Indexers, Indexer(x) PROVE Promise!Next \/ UNCHANGED Promise!vars
    <3>1. CASE Disposed(x)
      BY <2>3, <3>1
    <3>2. CASE IndexerStart(x) \/ IndexerReceive(x) \/ IndexerExit(x)
      BY <3>2, <2>b DEF IndexerStart, IndexerReceive, IndexerExit, mainVars, histVars
    <3> QED BY <2>6, <3>1, <3>2 DEF Indexer, IndexerStore, IndexerFails
  <2>7. CASE UNCHANGED vars
    BY <2>7, <2>b DEF vars, mainVars, histVars
  <2> QED BY <2>4, <2>5, <2>6, <2>7 DEF Next, Returned
<1> QED BY <1>1, <1>2, Invariant, PTL DEF Spec, Promise!SafeSpec

=============================================================================
