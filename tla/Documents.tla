------------------------------ MODULE Documents ------------------------------
(***************************************************************************)
(* From the configuration file to the documents in Elastic Search: which   *)
(* files are accepted, which transformation a document goes through, and   *)
(* under which index, type and id it ends up, whether it comes from a live *)
(* event or from a synchronization; with the users index that user_data    *)
(* reads and the index templates of sync_mapping.                          *)
(*                                                                         *)
(* A transformation is a function from keys to templates, of the four      *)
(* shapes that matter to where a document goes.  The name of a repository  *)
(* or of an index is a sequence of words, those between the dashes.        *)
(***************************************************************************)
EXTENDS Naturals, Sequences

CONSTANTS
    Files,        \* configuration files
    Items,        \* issues and pull requests of every repository; an item is its number
    PullRequests, \* those that are pull requests
    Author,       \* Author[i]: login of the author as GitHub spells it
    UserFile,     \* logins in the file of sync_users, as spelled there
    MaxStores     \* bound: documents given to a BlobStore

ASSUME ConstantsAssumption ==
    /\ PullRequests \subseteq Items
    /\ MaxStores \in Nat

\* Names of repositories are sequences of words.
ASSUME NamesAssumption == \A f \in Files : DOMAIN f.repositories \subseteq Seq(STRING)

\* The nil Transformation.
NoTransformation == [nil |-> TRUE]

ASSUME TransformationsAssumption ==
    \A f \in Files : \A t \in DOMAIN f.transformations : f.transformations[t] # NoTransformation

\* Transformations are nested once, and a snapshot field that is there is an object.
ASSUME NestingAssumption ==
    \A f \in Files : \A t \in DOMAIN f.transformations : \A k \in DOMAIN f.transformations[t] :
        LET table == f.transformations[t] IN
        /\ table[k].op = "nested" /\ table[k].name \in DOMAIN f.transformations =>
             \A l \in DOMAIN f.transformations[table[k].name] :
                 f.transformations[table[k].name][l].op # "nested"
        /\ k = "_snapshot_field" /\ table[k].op = "text" /\ table[k].text \in DOMAIN table =>
             table[table[k].text].op \in {"nested", "author"}

\* The key "author" stands for the fields that user_data is asked for.
ASSUME AuthorsAssumption ==
    \A f \in Files : \A t \in DOMAIN f.transformations :
        "author" \in DOMAIN f.transformations[t] => f.transformations[t]["author"] = [op |-> "author"]

\* A login: whose it is, and whether it is spelled in lower case.
Login(p, lower) == [person |-> p, lower |-> lower]
ToLower(login)  == [login EXCEPT !.lower = TRUE]

ASSUME LoginsAssumption ==
    \A l \in UserFile \cup {Author[i] : i \in Items} : l.lower \in BOOLEAN /\ l = Login(l.person, l.lower)

VARIABLES
    file,       \* the configuration file
    phase,      \* "starting", "running", "rejected" by verify, or "fatal"
    eventSet,   \* eventSet[r]: the event set of repository r
    docs,       \* Elastic Search: the blobs put there, by index, type and id
    users,      \* Elastic Search: ids in the users index
    templates,  \* Elastic Search: index templates, patterns by name
    mapped,     \* Elastic Search: indices that were created with a mapping of ours
    stores,     \* how often, for the bound
    unfetched,  \* history: pull requests whose fetch has failed
    synced      \* history: has sync_mapping succeeded?

vars == <<file, phase, eventSet, docs, users, templates, mapped, stores, unfetched, synced>>

Empty == [x \in {} |-> 0]

Repositories == DOMAIN file.repositories

-----------------------------------------------------------------------------
(* Configuration. *)

GitHubTypeIssue         == "issue"
GitHubTypePullRequest   == "pull_request"
SnapshotIssueType       == "snapshot_issue"
SnapshotPullRequestType == "snapshot_pull_request"
MetaFields == {"_type", "_snapshot_id", "_snapshot_field"}

\* What toml.Decode makes of the event set a repository's section names: the
\* field is not exported, and a field the decoder does not see is left alone.
DecodedEvents(section) == ""

EventSetName(section) ==
    IF DecodedEvents(section) = "" THEN "default" ELSE DecodedEvents(section)

\* Mutant: only the names of transformations are looked at.
VerifyEventSetNames(f) ==
    \A set \in DOMAIN f.event_set :
        \A e \in DOMAIN f.event_set[set] : f.event_set[set][e] \in DOMAIN f.transformations

VerifyEventSet(f) ==
    \A set \in DOMAIN f.event_set :
        /\ \A e \in DOMAIN f.event_set[set] : f.event_set[set][e] \in DOMAIN f.transformations
        /\ {SnapshotIssueType, SnapshotPullRequestType} \subseteq DOMAIN f.event_set[set]

VerifyRepositories(f) ==
    /\ \A r \in DOMAIN f.repositories : EventSetName(f.repositories[r]) \in DOMAIN f.event_set
    /\ \A r, s \in DOMAIN f.repositories : f.repositories[r].topic = f.repositories[s].topic => r = s

VerifyTransformations(f) ==
    \A t \in DOMAIN f.transformations :
        "_snapshot_id" \in DOMAIN f.transformations[t] <=> "_snapshot_field" \in DOMAIN f.transformations[t]

Verify(f) == VerifyEventSet(f) /\ VerifyRepositories(f) /\ VerifyTransformations(f)

\* Transformations.Get: nil for a name that is not there.
Get(f, name) == IF name \in DOMAIN f.transformations THEN f.transformations[name] ELSE NoTransformation

\* Transformations.Load: every template of every transformation parses.
Loads(f) ==
    \A t \in DOMAIN f.transformations : \A k \in DOMAIN f.transformations[t] :
        f.transformations[t][k].op # "broken"

\* NewRepository returns an error.
RepositoryFails(f, r) == ~Loads(f) \/ EventSetName(f.repositories[r]) \notin DOMAIN f.event_set

\* NewRepository's event set, with the name of each transformation replaced by it.
NewRepository(f, r) ==
    LET names == f.event_set[EventSetName(f.repositories[r])]
    IN  [e \in DOMAIN names |-> Get(f, names[e])]

\* The values of sync_periodicity.
Periodicities == {"hourly", "daily", "weekly"}

ParseConfig ==
    /\ phase = "starting"
    /\ IF ~Verify(file) THEN phase' = "rejected" /\ eventSet' = eventSet
       ELSE IF file.sync_periodicity \notin Periodicities \/ \E r \in Repositories : RepositoryFails(file, r)
       THEN phase' = "fatal" /\ eventSet' = eventSet
       ELSE phase' = "running" /\ eventSet' = [r \in Repositories |-> NewRepository(file, r)]
    /\ UNCHANGED <<file, docs, users, templates, mapped, stores, unfetched, synced>>

-----------------------------------------------------------------------------
(* Transformations: the templates are                                      *)
(*   text s        a text without actions                                  *)
(*   number        {{ .number }}                                           *)
(*   author        {{ user_data .user.login }}                             *)
(*   nested name   {{ apply_transformation "name" .issue }}                *)
(*   broken        one that does not parse                                 *)

Text(s)      == [op |-> "text", text |-> s]
Number       == [op |-> "number"]
UserData     == [op |-> "author"]
Nested(name) == [op |-> "nested", name |-> name]
Broken       == [op |-> "broken"]

\* Mutant: logins are looked up as they are spelled.
KnownAsSpelled(login) == login \in users

\* userStore.Get finds the login.
Known(login) == ToLower(login) \in users

\* fnUserData: the login as it was asked for, with what is known of the user; an
\* error is ignored, and then nothing is.  answered is history: was there none?
FnUserData(login, answered) ==
    [login |-> login, known |-> answered /\ Known(login), answered |-> answered]

\* A template without nested, for item i, when Elastic Search answers it or not.
Value(t, i, answered) ==
    CASE t.op = "text"   -> t.text
      [] t.op = "number" -> i
      [] t.op = "author" -> FnUserData(Author[i], answered)

\* ApplyMap: every key is a field, those of the metadata too.
ApplyMap(table, i, answered) == [k \in DOMAIN table |-> Value(table[k], i, answered)]

\* Keys whose templates ask Elastic Search for a user, themselves or nested.
Asking(table) == {k \in DOMAIN table : table[k].op \in {"author", "nested"}}

\* apply_transformation names a transformation that is not there.
Fails(table) ==
    \E k \in DOMAIN table : table[k].op = "nested" /\ table[k].name \notin DOMAIN file.transformations

\* Blob.Push: a field of the data; or of the metadata, if there is one of that name
\* and the value is a string.  Those that ask for users are answered or not.
DataOf(table, i, answered) ==
    [k \in DOMAIN table \ MetaFields |->
        IF table[k].op = "nested" THEN ApplyMap(file.transformations[table[k].name], i, k \in answered)
                                  ELSE Value(table[k], i, k \in answered)]

MetaOf(table, field, default) ==
    IF field \in DOMAIN table /\ table[field].op = "text" THEN table[field].text ELSE default

\* A blob about item i with the payload that GitHub sent.
Blob(type, id, i) ==
    [type |-> type, id |-> id, snapshotID |-> "", snapshotField |-> "", about |-> i, raw |-> TRUE, data |-> Empty]

Apply(table, blob, answered) ==
    [blob EXCEPT !.type = MetaOf(table, "_type", @),
                 !.snapshotID = MetaOf(table, "_snapshot_id", ""),
                 !.snapshotField = MetaOf(table, "_snapshot_field", ""),
                 !.raw = FALSE, !.data = DataOf(table, blob.about, answered)]

Nil == "<nil>"

\* Mutant: the snapshot keeps the id of the delivery.
SnapshotOfDelivery(blob) ==
    LET data == IF blob.snapshotField \in DOMAIN blob.data THEN blob.data[blob.snapshotField] ELSE Empty
    IN  [blob EXCEPT !.data = data]

\* Blob.Snapshot, of a blob that has one: a field that is not there is null, and
\* null is printed as the id.
Snapshot(blob) ==
    LET data == IF blob.snapshotField \in DOMAIN blob.data THEN blob.data[blob.snapshotField] ELSE Empty
        id   == IF blob.snapshotID \in DOMAIN data THEN data[blob.snapshotID] ELSE Nil
    IN  [blob EXCEPT !.data = data, !.id = id]

HasSnapshot(blob) == blob.snapshotID # "" /\ blob.snapshotField # ""

-----------------------------------------------------------------------------
(* Storage. *)

IndexPrefix(r)   == r
LiveIndex(r)     == Append(IndexPrefix(r), "live")
StateIndex(r)    == Append(IndexPrefix(r), "state")
SnapshotIndex(r) == Append(IndexPrefix(r), "snapshot")

GetTransformation(storage, r, type) ==
    LET set  == eventSet[r]
        name == IF storage = "live" THEN type
                ELSE CASE type = GitHubTypeIssue       -> SnapshotIssueType
                       [] type = GitHubTypePullRequest -> SnapshotPullRequestType
                       [] OTHER                        -> ""
    IN  IF name \in DOMAIN set THEN set[name] ELSE NoTransformation

\* simpleBlobStore.Store: what is written, in order.
Writes(storage, r, blob) ==
    CASE storage = "snapshot" -> <<<<SnapshotIndex(r), blob>>>>
      [] storage = "state"    -> <<<<StateIndex(r), blob>>, <<SnapshotIndex(r), blob>>>>
      [] storage = "live"     ->
           IF HasSnapshot(blob)
           THEN <<<<LiveIndex(r), blob>>, <<StateIndex(r), Snapshot(blob)>>, <<SnapshotIndex(r), Snapshot(blob)>>>>
           ELSE <<<<LiveIndex(r), blob>>>>

\* The documents when writes have been put among them, each in an index of its own.
Key(w) == [index |-> w[1], type |-> w[2].type, id |-> w[2].id]
Put(writes) ==
    [k \in DOMAIN docs \cup {Key(w) : w \in writes} |->
        IF \E w \in writes : Key(w) = k THEN (CHOOSE w \in writes : Key(w) = k)[2] ELSE docs[k]]

\* Indices with a document in them.
Created(d) == {k.index : k \in DOMAIN d}

\* Elastic Search makes an index when the first document is put into it, with the
\* mappings of the templates that match its name.
Matches(pattern, index) == Len(pattern) <= Len(index) /\ SubSeq(index, 1, Len(pattern)) = pattern
MappedWith(new) == mapped \cup {x \in new : \E t \in DOMAIN templates : Matches(templates[t], x)}

\* What transformingBlobStore.Store hands on.
Transformed(table, blob, answered) == IF table = NoTransformation THEN blob ELSE Apply(table, blob, answered)

\* transformingBlobStore.Store: the template may fail, and so may any of the writes,
\* which ends it.
Store(storage, r, blob) ==
    LET table == GetTransformation(storage, r, blob.type)
    IN  /\ stores' = stores + 1
        /\ IF table # NoTransformation /\ Fails(table) THEN UNCHANGED <<docs, mapped>>
           ELSE \E answered \in SUBSET (IF table = NoTransformation THEN {} ELSE Asking(table)) :
                LET writes == Writes(storage, r, Transformed(table, blob, answered))
                IN  \E n \in 0..Len(writes) :
                      /\ docs' = Put({writes[m] : m \in 1..n})
                      /\ mapped' = MappedWith(Created(docs') \ Created(docs))

-----------------------------------------------------------------------------
(* Live events. An event is about an item; its document is named after the delivery. *)

EventOf(i) == IF i \in PullRequests THEN GitHubTypePullRequest ELSE "issues"

HandleEvent(r, i) ==
    /\ phase = "running" /\ stores < MaxStores
    /\ EventOf(i) \in DOMAIN eventSet[r]    \* IsSubscribed
    /\ Store("live", r, Blob(EventOf(i), "delivery of " \o i, i))
    /\ UNCHANGED <<file, phase, eventSet, users, templates, unfetched, synced>>

-----------------------------------------------------------------------------
(* Synchronizations, of the sync command and of the run command: which items of which *)
(* repositories, in which order, is any; SyncJob has the job itself.                  *)

\* The storage of the sync command and that of the periodic synchronizations.
SyncStorages == {"snapshot", "state"}

TypeOf(i) == IF i \in PullRequests THEN GitHubTypePullRequest ELSE GitHubTypeIssue

\* An issue is stored as it was listed, a pull request as it was fetched.
IndexItem(storage, r, i) ==
    /\ phase = "running" /\ stores < MaxStores
    /\ Store(storage, r, Blob(TypeOf(i), i, i))
    /\ UNCHANGED <<file, phase, eventSet, users, templates, unfetched, synced>>

\* A pull request that cannot be fetched is stored as the issue that was listed.
IndexUnfetched(storage, r, i) ==
    /\ phase = "running" /\ stores < MaxStores
    /\ i \in PullRequests
    /\ unfetched' = unfetched \cup {<<r, i>>}
    /\ Store(storage, r, Blob(GitHubTypeIssue, i, i))
    /\ UNCHANGED <<file, phase, eventSet, users, templates, synced>>

-----------------------------------------------------------------------------
(* The commands sync_users and sync_mapping. *)

\* Each login is written as it is spelled in the file; errors are logged.
SyncUsers ==
    /\ phase = "running"
    /\ \E written \in SUBSET UserFile : users' = users \cup written
    /\ UNCHANGED <<file, phase, eventSet, docs, templates, mapped, stores, unfetched, synced>>

\* Mutant: one name for all templates.
TemplateNameFixed(r) == <<"vossibility">>

TemplateName(r) == <<"vossibility">> \o r

\* makeTemplate's pattern: the prefix of the repository, and anything after it.
Pattern(r) == IndexPrefix(r)

\* The repositories come in the random order of a map; an error ends the command.
SyncMapping ==
    /\ phase = "running"
    /\ \E put \in SUBSET Repositories :
         /\ templates' = [n \in DOMAIN templates \cup {TemplateName(r) : r \in put} |->
                             IF \E r \in put : TemplateName(r) = n
                             THEN Pattern(CHOOSE r \in put : TemplateName(r) = n) ELSE templates[n]]
         /\ synced' = (synced \/ put = Repositories)
    /\ UNCHANGED <<file, phase, eventSet, docs, users, mapped, stores, unfetched>>

-----------------------------------------------------------------------------
Init ==
    /\ file \in Files
    /\ phase = "starting"
    /\ eventSet = Empty
    /\ docs = Empty
    /\ users = {}
    /\ templates = Empty
    /\ mapped = {}
    /\ stores = 0
    /\ unfetched = {}
    /\ synced = FALSE

\* log.Fatal.
Exited == phase \in {"rejected", "fatal"} /\ UNCHANGED vars

Next ==
    \/ ParseConfig
    \/ \E r \in Repositories, i \in Items : HandleEvent(r, i)
    \/ \E storage \in SyncStorages, r \in Repositories, i \in Items :
         IndexItem(storage, r, i) \/ IndexUnfetched(storage, r, i)
    \/ SyncUsers
    \/ SyncMapping
    \/ Exited

Spec == Init /\ [][Next]_vars

-----------------------------------------------------------------------------
(* Properties. *)

\* Whatever the file, if verify accepts it then no document is stored the way GitHub
\* sent it: each type that a live event or a synchronization brings finds its
\* transformation, which verify has seen to and NewRepository relies on without
\* looking (configfile.go:115-131 with repository.go:71-73 and
\* blobstore.go:63-98); and the process refuses such a file only for what verify
\* does not look at, the periodicity and the text of the templates.
NothingStoredRaw ==
    /\ phase = "fatal" => file.sync_periodicity \notin Periodicities \/ ~Loads(file)
    /\ \A k \in DOMAIN docs : ~docs[k].raw

\* A live event's table that agrees with the synchronization on the type and id.
AgreesWithSync(f, i) ==
    LET set   == f.event_set["default"]
        table == f.transformations[set[EventOf(i)]]
    IN  EventOf(i) \in DOMAIN set =>
          /\ MetaOf(table, "_type", EventOf(i)) = TypeOf(i)
          /\ "item" \in DOMAIN table /\ table["item"].op = "nested"
          /\ MetaOf(table, "_snapshot_field", "") = "item"
          /\ MetaOf(table, "_snapshot_id", "") = "number"
          /\ table["item"].name \in DOMAIN f.transformations
          /\ "number" \in DOMAIN f.transformations[table["item"].name]
          /\ f.transformations[table["item"].name]["number"] = Number

\* The snapshot transformations keep the type that the synchronization gives.
KeepsTypes(f) ==
    \A e \in {SnapshotIssueType, SnapshotPullRequestType} :
        "_type" \notin DOMAIN f.transformations[f.event_set["default"][e]]

\* With transformations that agree on the type and the id, an item has one document
\* in the snapshot index, under its own number, no matter how many live events and
\* synchronizations of either kind have stored it; only a pull request that once
\* could not be fetched has a second one, as an issue (sync.go:237-242,
\* blob.go:80-95, blobstore.go:87-98).
OneDocumentPerItem ==
    phase = "running" /\ KeepsTypes(file) =>
      \A r \in Repositories, i \in Items : AgreesWithSync(file, i) =>
        \A k \in DOMAIN docs : k.index \in {StateIndex(r), SnapshotIndex(r)} /\ docs[k].about = i =>
          /\ k.id = i
          /\ k.type = TypeOf(i) \/ <<r, i>> \in unfetched

\* The documents under these keys are stored in this step, with an author.
StoredWithAuthor ==
    {k \in DOMAIN docs' : /\ k \notin DOMAIN docs \/ docs'[k] # docs[k]
                          /\ ~docs'[k].raw /\ "author" \in DOMAIN docs'[k].data}

\* Whoever a document calls known has had an entry written by sync_users; and
\* someone whose entry was written in lower case is known in every document that is
\* stored from then on, however GitHub spells the login, in events and in
\* synchronizations, unless the lookup for that very document failed (user.go:23-30
\* with sync_users.go:37-42, templatefn.go:63-71).  It is not said, and does not hold,
\* that an entry with a capital letter is found, not even under the same spelling.
KnownAuthors ==
    [][\A k \in StoredWithAuthor :
         LET author == docs'[k].data["author"]
         IN  /\ author.known => \E l \in users : l.person = author.login.person
             /\ author.answered /\ Login(author.login.person, TRUE) \in users => author.known]_vars

\* An index that is made after sync_mapping has succeeded has the mapping, whichever
\* repository it is of, also when the name of one repository begins with that of
\* another (sync_mapping.go:62-67, repository.go:121-123).
EveryIndexMapped ==
    [][synced => Created(docs') \ Created(docs) \subseteq mapped']_vars
=============================================================================
