--------------------------- MODULE Documents_proofs ---------------------------
(***************************************************************************)
(* Proofs about Documents: whatever the configuration file, once accepted, *)
(* every document has been transformed, and an item keeps to one document. *)
(***************************************************************************)
EXTENDS Documents, SequenceTheorems, TLAPS

-----------------------------------------------------------------------------
(* The invariant. *)

\* What is configured: an accepted file, with the event sets made from it.
Configured ==
    /\ file \in Files
    /\ phase \in {"starting", "rejected", "fatal", "running"}
    /\ phase = "fatal" => file.sync_periodicity \notin Periodicities \/ ~Loads(file)
    /\ phase = "running" => Verify(file) /\ eventSet = [r \in Repositories |-> NewRepository(file, r)]

\* Blob b may be under key k when the fetches in failed have failed.
Placed(k, b, failed) ==
    KeepsTypes(file) =>
      \A r \in Repositories, i \in Items : AgreesWithSync(file, i) =>
        (k.index \in {StateIndex(r), SnapshotIndex(r)} /\ b.about = i =>
           k.id = i /\ (k.type = TypeOf(i) \/ <<r, i>> \in failed))

Right(k, b, failed) == ~b.raw /\ Placed(k, b, failed)

IInv ==
    /\ Configured
    /\ phase # "running" => DOMAIN docs = {}
    /\ \A k \in DOMAIN docs : Right(k, docs[k], unfetched)

\* Every repository's section decodes to the default event set.
LEMMA Default == \A section : EventSetName(section) = "default"
BY DEF EventSetName, DecodedEvents

\* A type that an accepted event set has finds its transformation, and the two that
\* synchronizations need are there.
LEMMA Found ==
    ASSUME Configured, phase = "running", NEW r \in Repositories
    PROVE  LET names == file.event_set["default"] IN
           /\ \A e \in DOMAIN names :
                /\ e \in DOMAIN eventSet[r] /\ names[e] \in DOMAIN file.transformations
                /\ eventSet[r][e] = file.transformations[names[e]]
                /\ eventSet[r][e] # NoTransformation
           /\ DOMAIN eventSet[r] = DOMAIN names
           /\ {SnapshotIssueType, SnapshotPullRequestType} \subseteq DOMAIN names
<1> DEFINE names == file.event_set["default"]
<1>1. "default" \in DOMAIN file.event_set
  BY Default DEF Configured, Verify, VerifyRepositories, Repositories
<1>2. /\ \A e \in DOMAIN names : names[e] \in DOMAIN file.transformations
      /\ {SnapshotIssueType, SnapshotPullRequestType} \subseteq DOMAIN names
  BY <1>1 DEF Configured, Verify, VerifyEventSet
<1>3. eventSet[r] = [e \in DOMAIN names |-> Get(file, names[e])]
  BY Default DEF Configured, NewRepository
<1>4. \A e \in DOMAIN names : eventSet[r][e] = file.transformations[names[e]]
  BY <1>2, <1>3 DEF Get
<1>5. \A e \in DOMAIN names : eventSet[r][e] # NoTransformation
  BY <1>2, <1>4, TransformationsAssumption DEF Configured
<1> QED BY <1>2, <1>3, <1>4, <1>5

-----------------------------------------------------------------------------
(* Indices. *)

LEMMA SeqMonotone ==
    ASSUME NEW S, NEW T, NEW r \in Seq(S) PROVE r \in Seq(S \cup T)
OBVIOUS

LEMMA IndicesDiffer ==
    ASSUME file \in Files, NEW r \in Repositories, NEW s \in Repositories
    PROVE  /\ StateIndex(r) = StateIndex(s) => r = s
           /\ SnapshotIndex(r) = SnapshotIndex(s) => r = s
           /\ StateIndex(r) # SnapshotIndex(s)
           /\ LiveIndex(r) # StateIndex(s) /\ LiveIndex(r) # SnapshotIndex(s)
<1> DEFINE Names == STRING
           W == Names \cup {"state", "snapshot", "live"}
<1>0. r \in Seq(Names) /\ s \in Seq(Names)
  BY NamesAssumption DEF Repositories
<1> HIDE DEF Names
<1>1. r \in Seq(W) /\ s \in Seq(W)
  BY <1>0, SeqMonotone
<1>3. "state" \in W /\ "snapshot" \in W /\ "live" \in W
  OBVIOUS
<1> HIDE DEF W
<1>2. ASSUME NEW x \in W, NEW y \in W, Append(r, x) = Append(s, y)
      PROVE  r = s /\ x = y
  BY <1>1, <1>2, AppendInjective
<1>4. /\ "state" # "snapshot" /\ "live" # "state" /\ "live" # "snapshot"
  OBVIOUS
<1>5. StateIndex(r) = StateIndex(s) => r = s
  BY <1>2, <1>3 DEF StateIndex, IndexPrefix
<1>6. SnapshotIndex(r) = SnapshotIndex(s) => r = s
  BY <1>2, <1>3 DEF SnapshotIndex, IndexPrefix
<1>7. StateIndex(r) # SnapshotIndex(s)
  BY <1>2, <1>3, <1>4 DEF StateIndex, SnapshotIndex, IndexPrefix
<1>8. LiveIndex(r) # StateIndex(s) /\ LiveIndex(r) # SnapshotIndex(s)
  BY <1>2, <1>3, <1>4 DEF StateIndex, SnapshotIndex, LiveIndex, IndexPrefix
<1> QED BY <1>5, <1>6, <1>7, <1>8

\* A blob in the state or snapshot index of repository r.
LEMMA PlacedIn ==
    ASSUME file \in Files, NEW r \in Repositories, NEW k, NEW b, NEW failed,
           k.index \in {StateIndex(r), SnapshotIndex(r)},
           KeepsTypes(file) /\ b.about \in Items /\ AgreesWithSync(file, b.about) =>
             k.id = b.about /\ (k.type = TypeOf(b.about) \/ <<r, b.about>> \in failed)
    PROVE  Placed(k, b, failed)
<1> SUFFICES ASSUME KeepsTypes(file), NEW s \in Repositories, NEW i \in Items, AgreesWithSync(file, i),
                    k.index \in {StateIndex(s), SnapshotIndex(s)}, b.about = i
             PROVE  k.id = i /\ (k.type = TypeOf(i) \/ <<s, i>> \in failed)
  BY DEF Placed
<1>1. s = r
  BY IndicesDiffer
<1> QED BY <1>1

\* One in a live index is none of its business.
LEMMA PlacedLive ==
    ASSUME file \in Files, NEW r \in Repositories, NEW k, NEW b, NEW failed, k.index = LiveIndex(r)
    PROVE  Placed(k, b, failed)
BY IndicesDiffer DEF Placed

-----------------------------------------------------------------------------
(* Blobs and writes. *)

LEMMA WrittenBySync ==
    ASSUME NEW storage \in SyncStorages, NEW r, NEW b,
           NEW n \in 0..Len(Writes(storage, r, b)), NEW m \in 1..n
    PROVE  Writes(storage, r, b)[m] \in {<<StateIndex(r), b>>, <<SnapshotIndex(r), b>>}
<1>1. CASE storage = "snapshot"
  <2>1. Writes(storage, r, b) = <<<<SnapshotIndex(r), b>>>>
    BY <1>1 DEF Writes
  <2>2. m = 1
    BY <2>1
  <2> QED BY <2>1, <2>2
<1>2. CASE storage = "state"
  <2>1. Writes(storage, r, b) = <<<<StateIndex(r), b>>, <<SnapshotIndex(r), b>>>>
    BY <1>2 DEF Writes
  <2>2. m \in {1, 2}
    BY <2>1
  <2> QED BY <2>1, <2>2
<1> QED BY <1>1, <1>2 DEF SyncStorages

LEMMA WrittenByEvent ==
    ASSUME NEW r, NEW b, NEW n \in 0..Len(Writes("live", r, b)), NEW m \in 1..n
    PROVE  LET w == Writes("live", r, b)[m] IN
           \/ w = <<LiveIndex(r), b>>
           \/ HasSnapshot(b) /\ w \in {<<StateIndex(r), Snapshot(b)>>, <<SnapshotIndex(r), Snapshot(b)>>}
<1>1. CASE HasSnapshot(b)
  <2>1. Writes("live", r, b) =
          <<<<LiveIndex(r), b>>, <<StateIndex(r), Snapshot(b)>>, <<SnapshotIndex(r), Snapshot(b)>>>>
    BY <1>1 DEF Writes
  <2>2. m \in 1..3
    <3>1. Len(Writes("live", r, b)) = 3
      BY <2>1
    <3>2. n \in 0..3
      BY <3>1
    <3> QED BY <3>2
  <2> QED BY <2>1, <2>2, <1>1
<1>2. CASE ~HasSnapshot(b)
  <2>1. Writes("live", r, b) = <<<<LiveIndex(r), b>>>>
    BY <1>2 DEF Writes
  <2>2. m = 1
    BY <2>1
  <2> QED BY <2>1, <2>2
<1> QED BY <1>1, <1>2

\* What is right stays right.
LEMMA StaysRight ==
    ASSUME file' = file, unfetched \subseteq unfetched',
           \A k \in DOMAIN docs : Right(k, docs[k], unfetched),
           \A k \in DOMAIN docs' :
               (k \in DOMAIN docs /\ docs'[k] = docs[k]) \/ Right(k, docs'[k], unfetched')
    PROVE  (\A k \in DOMAIN docs : Right(k, docs[k], unfetched))'
<1>1. ASSUME NEW k, Right(k, docs'[k], unfetched')
      PROVE  Right(k, docs[k], unfetched)'
  BY <1>1 DEF Right, Placed, Repositories, StateIndex, SnapshotIndex, IndexPrefix
<1>2. ASSUME NEW k \in DOMAIN docs, docs'[k] = docs[k]
      PROVE  Right(k, docs'[k], unfetched')
  <2>1. Right(k, docs[k], unfetched)
    BY <1>2
  <2> QED BY <1>2, <2>1 DEF Right, Placed
<1> QED BY <1>1, <1>2

\* Putting what is right among what is right.
LEMMA PutRight ==
    ASSUME NEW writes, docs' = Put(writes), file' = file, unfetched \subseteq unfetched',
           \A k \in DOMAIN docs : Right(k, docs[k], unfetched),
           \A w \in writes : Right(Key(w), w[2], unfetched')
    PROVE  (\A k \in DOMAIN docs : Right(k, docs[k], unfetched))'
<1> SUFFICES ASSUME NEW k \in DOMAIN docs'
             PROVE  (k \in DOMAIN docs /\ docs'[k] = docs[k]) \/ Right(k, docs'[k], unfetched')
  BY StaysRight
<1>1. CASE \E w \in writes : Key(w) = k
  <2>1. PICK w \in writes : Key(w) = k /\ w = CHOOSE v \in writes : Key(v) = k
    BY <1>1
  <2>2. docs'[k] = w[2]
    BY <1>1, <2>1 DEF Put
  <2> QED BY <2>1, <2>2
<1>2. CASE ~\E w \in writes : Key(w) = k
  BY <1>2 DEF Put
<1> QED BY <1>1, <1>2

-----------------------------------------------------------------------------
(* What a synchronization and what an event put there is right. *)

\* A synchronization: the table keeps the type, and the id is that of the item.
LEMMA SyncRight ==
    ASSUME Configured, phase = "running", NEW storage \in SyncStorages, NEW r \in Repositories,
           NEW i \in Items, NEW type \in {GitHubTypeIssue, GitHubTypePullRequest}, NEW failed, NEW answered,
           type = TypeOf(i) \/ <<r, i>> \in failed
    PROVE  LET table == GetTransformation(storage, r, type)
               b     == Apply(table, Blob(type, i, i), answered)
           IN  /\ table # NoTransformation
               /\ \A w \in {<<StateIndex(r), b>>, <<SnapshotIndex(r), b>>} : Right(Key(w), w[2], failed)
<1> DEFINE names == file.event_set["default"]
           e == IF type = GitHubTypeIssue THEN SnapshotIssueType ELSE SnapshotPullRequestType
           table == GetTransformation(storage, r, type)
           b == Apply(table, Blob(type, i, i), answered)
<1>1. e \in {SnapshotIssueType, SnapshotPullRequestType}
  OBVIOUS
<1>2. e \in DOMAIN names /\ e \in DOMAIN eventSet[r]
      /\ eventSet[r][e] = file.transformations[names[e]] /\ eventSet[r][e] # NoTransformation
  BY <1>1, Found
<1>3. table = eventSet[r][e]
  <2>1. storage # "live"
    BY DEF SyncStorages
  <2> QED BY <2>1, <1>2 DEF GetTransformation, GitHubTypeIssue, GitHubTypePullRequest
<1> HIDE DEF table
<1>4. b.raw = FALSE /\ b.about = i /\ b.id = i /\ b.type = MetaOf(table, "_type", type)
  BY DEF Apply, Blob
<1>5. KeepsTypes(file) => b.type = type
  BY <1>1, <1>2, <1>3, <1>4 DEF KeepsTypes, MetaOf
<1> HIDE DEF b, e
<1>6. ASSUME NEW index \in {StateIndex(r), SnapshotIndex(r)}
      PROVE  Right(Key(<<index, b>>), b, failed)
  <2> DEFINE k == Key(<<index, b>>)
  <2>1. k.index = index /\ k.type = b.type /\ k.id = b.id
    BY DEF Key
  <2> HIDE DEF k
  <2>2. Placed(k, b, failed)
    BY <2>1, <1>4, <1>5, PlacedIn DEF Configured
  <2> QED BY <2>2, <1>4 DEF Right, k
<1>7. \A w \in {<<StateIndex(r), b>>, <<SnapshotIndex(r), b>>} : Right(Key(w), w[2], failed)
  BY <1>6
<1> QED BY <1>2, <1>3, <1>7 DEF table, b

\* A live event is looked up under its name.
LEMMA GetOfLive ==
    ASSUME NEW r, NEW e, e \in DOMAIN eventSet[r]
    PROVE  GetTransformation("live", r, e) = eventSet[r][e]
BY DEF GetTransformation

\* A live event: if its table agrees with the synchronization, then the snapshot has
\* the type and the id that a synchronization gives the item.
LEMMA LiveRight ==
    ASSUME Configured, phase = "running", NEW r \in Repositories, NEW i \in Items, NEW id, NEW failed, NEW answered,
           EventOf(i) \in DOMAIN eventSet[r]
    PROVE  LET table == GetTransformation("live", r, EventOf(i))
               b     == Apply(table, Blob(EventOf(i), id, i), answered)
           IN  /\ table # NoTransformation
               /\ Right(Key(<<LiveIndex(r), b>>), b, failed)
               /\ \A w \in {<<StateIndex(r), Snapshot(b)>>, <<SnapshotIndex(r), Snapshot(b)>>} :
                     Right(Key(w), w[2], failed)
<1> DEFINE names == file.event_set["default"]
           table == GetTransformation("live", r, EventOf(i))
           b == Apply(table, Blob(EventOf(i), id, i), answered)
<1>1. /\ EventOf(i) \in DOMAIN names
      /\ table = file.transformations[names[EventOf(i)]] /\ table # NoTransformation
  <2>1. table = eventSet[r][EventOf(i)]
    BY GetOfLive
  <2>2. EventOf(i) \in DOMAIN names
    BY Found
  <2> HIDE DEF table, names
  <2>3. /\ eventSet[r][EventOf(i)] = file.transformations[names[EventOf(i)]]
        /\ eventSet[r][EventOf(i)] # NoTransformation
    BY <2>2, Found DEF names
  <2> QED BY <2>1, <2>2, <2>3
<1> HIDE DEF table
<1>2. /\ b.raw = FALSE /\ b.about = i /\ b.type = MetaOf(table, "_type", EventOf(i))
      /\ b.snapshotID = MetaOf(table, "_snapshot_id", "")
      /\ b.snapshotField = MetaOf(table, "_snapshot_field", "")
      /\ b.data = DataOf(table, i, answered)
  BY DEF Apply, Blob
<1>3. /\ Snapshot(b).raw = FALSE /\ Snapshot(b).about = i /\ Snapshot(b).type = b.type
      /\ LET d == IF b.snapshotField \in DOMAIN b.data THEN b.data[b.snapshotField] ELSE Empty
         IN  Snapshot(b).id = IF b.snapshotID \in DOMAIN d THEN d[b.snapshotID] ELSE Nil
  BY DEF Snapshot, Apply, Blob
<1>4. ASSUME AgreesWithSync(file, i)
      PROVE  Snapshot(b).type = TypeOf(i) /\ Snapshot(b).id = i
  <2>1. /\ b.type = TypeOf(i) /\ b.snapshotField = "item" /\ b.snapshotID = "number"
        /\ "item" \in DOMAIN table /\ table["item"].op = "nested"
        /\ table["item"].name \in DOMAIN file.transformations
        /\ "number" \in DOMAIN file.transformations[table["item"].name]
        /\ file.transformations[table["item"].name]["number"] = Number
    BY <1>1, <1>2, <1>4 DEF AgreesWithSync
  <2> DEFINE nested == file.transformations[table["item"].name]
  <2>2. "item" \in DOMAIN b.data /\ b.data["item"] = ApplyMap(nested, i, "item" \in answered)
    BY <2>1, <1>2 DEF DataOf, MetaFields
  <2>3. "number" \in DOMAIN b.data["item"] /\ b.data["item"]["number"] = i
    <3>1. Value(Number, i, "item" \in answered) = i
      BY DEF Value, Number
    <3>2. \A k \in DOMAIN nested : b.data["item"][k] = Value(nested[k], i, "item" \in answered)
      BY <2>2 DEF ApplyMap
    <3>3. "number" \in DOMAIN nested /\ nested["number"] = Number
      BY <2>1
    <3>4. DOMAIN b.data["item"] = DOMAIN nested
      BY <2>2 DEF ApplyMap
    <3> QED BY <3>1, <3>2, <3>3, <3>4
  <2> QED BY <1>3, <2>1, <2>2, <2>3
<1> HIDE DEF b
<1>5. Right(Key(<<LiveIndex(r), b>>), b, failed)
  <2> DEFINE k == Key(<<LiveIndex(r), b>>)
  <2>1. k.index = LiveIndex(r)
    BY DEF Key
  <2> HIDE DEF k
  <2>2. Placed(k, b, failed)
    BY <2>1, PlacedLive DEF Configured
  <2> QED BY <2>2, <1>2 DEF Right, k
<1>6. ASSUME NEW index \in {StateIndex(r), SnapshotIndex(r)}
      PROVE  Right(Key(<<index, Snapshot(b)>>), Snapshot(b), failed)
  <2> DEFINE c == Snapshot(b)
             k == Key(<<index, c>>)
  <2>1. k.index = index /\ k.type = c.type /\ k.id = c.id
    BY DEF Key
  <2>2. c.about = i /\ c.raw = FALSE /\ (AgreesWithSync(file, i) => c.type = TypeOf(i) /\ c.id = i)
    BY <1>3, <1>4
  <2> HIDE DEF k, c
  <2>3. Placed(k, c, failed)
    <3>1. AgreesWithSync(file, c.about) => k.id = c.about /\ k.type = TypeOf(c.about)
      BY <2>1, <2>2
    <3>2. ASSUME NEW s \in Repositories, NEW j \in Items, AgreesWithSync(file, j), c.about = j,
                 k.index \in {StateIndex(s), SnapshotIndex(s)}
          PROVE  k.id = j /\ k.type = TypeOf(j)
      BY <3>1, <3>2
    <3> QED BY <3>2 DEF Placed
  <2>4. Right(k, c, failed)
    BY <2>2, <2>3 DEF Right
  <2> QED BY <2>4 DEF k, c
<1>7. \A w \in {<<StateIndex(r), Snapshot(b)>>, <<SnapshotIndex(r), Snapshot(b)>>} : Right(Key(w), w[2], failed)
  BY <1>6
<1> QED BY <1>1, <1>5, <1>7 DEF table, b

-----------------------------------------------------------------------------
(* The steps. *)

\* Storing a blob whose writes are right.
LEMMA StoreRight ==
    ASSUME IInv, file' = file, unfetched \subseteq unfetched', NEW storage, NEW r, NEW blob,
           Store(storage, r, blob), GetTransformation(storage, r, blob.type) # NoTransformation,
           \A answered :
             LET writes == Writes(storage, r, Apply(GetTransformation(storage, r, blob.type), blob, answered))
             IN  \A n \in 0..Len(writes) : \A m \in 1..n : Right(Key(writes[m]), writes[m][2], unfetched')
    PROVE  (\A k \in DOMAIN docs : Right(k, docs[k], unfetched))'
<1> DEFINE table == GetTransformation(storage, r, blob.type)
           WritesOf(answered) == Writes(storage, r, Apply(table, blob, answered))
<1>1. \/ docs' = docs
      \/ \E answered : \E n \in 0..Len(WritesOf(answered)) :
           docs' = Put({WritesOf(answered)[m] : m \in 1..n})
  BY DEF Store, Transformed
<1>2. CASE docs' = docs
  BY <1>2, StaysRight DEF IInv
<1>3. ASSUME NEW answered,
             \E n \in 0..Len(WritesOf(answered)) : docs' = Put({WritesOf(answered)[m] : m \in 1..n})
      PROVE  (\A k \in DOMAIN docs : Right(k, docs[k], unfetched))'
  <2> DEFINE writes == WritesOf(answered)
  <2>1. PICK n \in 0..Len(writes) : docs' = Put({writes[m] : m \in 1..n})
    BY <1>3
  <2>2. \A w \in {writes[m] : m \in 1..n} : Right(Key(w), w[2], unfetched')
    OBVIOUS
  <2> HIDE DEF writes
  <2> QED BY <2>1, <2>2, PutRight DEF IInv
<1> QED BY <1>1, <1>2, <1>3

LEMMA StoredBySync ==
    ASSUME IInv, phase = "running", file' = file, unfetched \subseteq unfetched',
           NEW storage \in SyncStorages, NEW r \in Repositories, NEW i \in Items,
           NEW type \in {GitHubTypeIssue, GitHubTypePullRequest}, type = TypeOf(i) \/ <<r, i>> \in unfetched',
           Store(storage, r, Blob(type, i, i))
    PROVE  (\A k \in DOMAIN docs : Right(k, docs[k], unfetched))'
<1> DEFINE blob == Blob(type, i, i)
           table == GetTransformation(storage, r, type)
<1>1. blob.type = type
  BY DEF Blob
<1>2. table # NoTransformation
  BY SyncRight DEF IInv
<1>3. ASSUME NEW answered
      PROVE  LET writes == Writes(storage, r, Apply(table, blob, answered))
             IN  \A n \in 0..Len(writes) : \A m \in 1..n : Right(Key(writes[m]), writes[m][2], unfetched')
  <2> DEFINE b == Apply(table, blob, answered)
  <2>1. \A w \in {<<StateIndex(r), b>>, <<SnapshotIndex(r), b>>} : Right(Key(w), w[2], unfetched')
    BY SyncRight DEF IInv
  <2> HIDE DEF b
  <2>2. LET writes == Writes(storage, r, b)
        IN  \A n \in 0..Len(writes) : \A m \in 1..n : Right(Key(writes[m]), writes[m][2], unfetched')
    BY <2>1, WrittenBySync
  <2> QED BY <2>2 DEF b
<1> HIDE DEF blob
<1>4. Store(storage, r, blob)
  BY DEF blob
<1> QED BY <1>1, <1>2, <1>3, <1>4, StoreRight

LEMMA StoredByEvent ==
    ASSUME IInv, phase = "running", file' = file, unfetched \subseteq unfetched',
           NEW r \in Repositories, NEW i \in Items, NEW id, EventOf(i) \in DOMAIN eventSet[r],
           Store("live", r, Blob(EventOf(i), id, i))
    PROVE  (\A k \in DOMAIN docs : Right(k, docs[k], unfetched))'
<1> DEFINE blob == Blob(EventOf(i), id, i)
           table == GetTransformation("live", r, EventOf(i))
<1>1. blob.type = EventOf(i)
  BY DEF Blob
<1>2. table # NoTransformation
  BY LiveRight DEF IInv
<1>3. ASSUME NEW answered
      PROVE  LET writes == Writes("live", r, Apply(table, blob, answered))
             IN  \A n \in 0..Len(writes) : \A m \in 1..n : Right(Key(writes[m]), writes[m][2], unfetched')
  <2> DEFINE b == Apply(table, blob, answered)
  <2>1. /\ Right(Key(<<LiveIndex(r), b>>), b, unfetched')
        /\ \A w \in {<<StateIndex(r), Snapshot(b)>>, <<SnapshotIndex(r), Snapshot(b)>>} :
              Right(Key(w), w[2], unfetched')
    BY LiveRight DEF IInv
  <2> HIDE DEF b
  <2>2. LET writes == Writes("live", r, b)
        IN  \A n \in 0..Len(writes) : \A m \in 1..n : Right(Key(writes[m]), writes[m][2], unfetched')
    BY <2>1, WrittenByEvent
  <2> QED BY <2>2 DEF b
<1> HIDE DEF blob
<1>4. Store("live", r, blob)
  BY DEF blob
<1> QED BY <1>1, <1>2, <1>3, <1>4, StoreRight

LEMMA InitInv == Init => IInv
BY DEF Init, IInv, Configured, Empty

LEMMA NextInv == IInv /\ [Next]_vars => IInv'
<1> SUFFICES ASSUME IInv, [Next]_vars PROVE IInv'
  OBVIOUS
<1>1. CASE ParseConfig
  <2>1. phase = "starting" /\ DOMAIN docs = {} /\ DOMAIN docs' = {} /\ file' = file
    BY <1>1 DEF ParseConfig, IInv
  <2>2. Configured'
    <3>1. CASE ~Verify(file)
      BY <1>1, <3>1 DEF ParseConfig, IInv, Configured
    <3>2. CASE Verify(file)
      <4>1. \A r \in Repositories : EventSetName(file.repositories[r]) \in DOMAIN file.event_set
        BY <3>2 DEF Verify, VerifyRepositories, Repositories
      <4>2. CASE file.sync_periodicity \notin Periodicities \/ ~Loads(file)
        <5>1. phase' \in {"fatal", "running"}
              /\ (phase' = "running" => eventSet' = [r \in Repositories |-> NewRepository(file, r)])
          BY <1>1, <3>2 DEF ParseConfig
        <5> QED BY <2>1, <3>2, <4>2, <5>1 DEF IInv, Configured, Repositories
      <4>3. CASE file.sync_periodicity \in Periodicities /\ Loads(file)
        <5>1. \A r \in Repositories : ~RepositoryFails(file, r)
          BY <4>1, <4>3 DEF RepositoryFails
        <5>2. phase' = "running" /\ eventSet' = [r \in Repositories |-> NewRepository(file, r)]
          BY <1>1, <3>2, <4>3, <5>1 DEF ParseConfig
        <5> QED BY <2>1, <3>2, <5>2 DEF IInv, Configured, Repositories
      <4> QED BY <4>2, <4>3
    <3> QED BY <3>1, <3>2
  <2> QED BY <2>1, <2>2 DEF IInv
<1>2. ASSUME NEW r \in Repositories, NEW i \in Items, HandleEvent(r, i)
      PROVE  IInv'
  <2>1. /\ phase = "running" /\ file' = file /\ phase' = phase /\ eventSet' = eventSet
        /\ unfetched' = unfetched /\ EventOf(i) \in DOMAIN eventSet[r]
        /\ Store("live", r, Blob(EventOf(i), "delivery of " \o i, i))
    BY <1>2 DEF HandleEvent
  <2>2. (\A k \in DOMAIN docs : Right(k, docs[k], unfetched))'
    BY <2>1, StoredByEvent
  <2> QED BY <2>1, <2>2 DEF IInv, Configured, Repositories
<1>3. ASSUME NEW storage \in SyncStorages, NEW r \in Repositories, NEW i \in Items, IndexItem(storage, r, i)
      PROVE  IInv'
  <2>1. /\ phase = "running" /\ file' = file /\ phase' = phase /\ eventSet' = eventSet
        /\ unfetched' = unfetched /\ Store(storage, r, Blob(TypeOf(i), i, i))
    BY <1>3 DEF IndexItem
  <2>2. TypeOf(i) \in {GitHubTypeIssue, GitHubTypePullRequest}
    BY DEF TypeOf
  <2>3. (\A k \in DOMAIN docs : Right(k, docs[k], unfetched))'
    BY <2>1, <2>2, StoredBySync
  <2> QED BY <2>1, <2>3 DEF IInv, Configured, Repositories
<1>4. ASSUME NEW storage \in SyncStorages, NEW r \in Repositories, NEW i \in Items, IndexUnfetched(storage, r, i)
      PROVE  IInv'
  <2>1. /\ phase = "running" /\ file' = file /\ phase' = phase /\ eventSet' = eventSet
        /\ unfetched' = unfetched \cup {<<r, i>>} /\ Store(storage, r, Blob(GitHubTypeIssue, i, i))
    BY <1>4 DEF IndexUnfetched
  <2>2. unfetched \subseteq unfetched' /\ <<r, i>> \in unfetched'
    BY <2>1
  <2>3. (\A k \in DOMAIN docs : Right(k, docs[k], unfetched))'
    BY <2>1, <2>2, StoredBySync
  <2> QED BY <2>1, <2>3 DEF IInv, Configured, Repositories
<1>5. CASE SyncUsers \/ SyncMapping \/ Exited \/ UNCHANGED vars
  <2>1. UNCHANGED <<file, phase, eventSet, docs, unfetched>>
    BY <1>5 DEF SyncUsers, SyncMapping, Exited, vars
  <2>2. (\A k \in DOMAIN docs : Right(k, docs[k], unfetched))'
    BY <2>1, StaysRight DEF IInv
  <2> QED BY <2>1, <2>2 DEF IInv, Configured, Repositories
<1> QED BY <1>1, <1>2, <1>3, <1>4, <1>5 DEF Next

-----------------------------------------------------------------------------
(* What a step writes. *)

\* What is new among the documents has been written.
LEMMA PutNew ==
    ASSUME NEW writes, docs' = Put(writes), NEW k \in DOMAIN docs', k \notin DOMAIN docs \/ docs'[k] # docs[k]
    PROVE  \E w \in writes : k = Key(w) /\ docs'[k] = w[2]
<1>1. CASE \E w \in writes : Key(w) = k
  <2>1. PICK w \in writes : Key(w) = k /\ w = CHOOSE v \in writes : Key(v) = k
    BY <1>1
  <2>2. docs'[k] = w[2]
    BY <1>1, <2>1 DEF Put
  <2> QED BY <2>1, <2>2
<1>2. CASE ~\E w \in writes : Key(w) = k
  BY <1>2 DEF Put
<1> QED BY <1>1, <1>2

\* A document that Store writes is the blob after its transformation, in an index of
\* its repository, or the snapshot of a live event.
Stores == SyncStorages \cup {"live"}

LEMMA StoreNew ==
    ASSUME NEW storage \in Stores, NEW r, NEW blob, Store(storage, r, blob),
           NEW k \in DOMAIN docs', k \notin DOMAIN docs \/ docs'[k] # docs[k]
    PROVE  LET table == GetTransformation(storage, r, blob.type)
           IN  /\ k.index \in {LiveIndex(r), StateIndex(r), SnapshotIndex(r)}
               /\ \E answered : LET b == Transformed(table, blob, answered)
                                IN  docs'[k] = b \/ (HasSnapshot(b) /\ docs'[k] = Snapshot(b))
               /\ table # NoTransformation => ~Fails(table)
<1>1. PICK table : table = GetTransformation(storage, r, blob.type)
  OBVIOUS
<1>2. /\ table # NoTransformation => ~Fails(table)
      /\ \E answered : LET writes == Writes(storage, r, Transformed(table, blob, answered))
                       IN  \E n \in 0..Len(writes) : docs' = Put({writes[m] : m \in 1..n})
  <2>1. ~(table # NoTransformation /\ Fails(table))
    BY <1>1, Zenon DEF Store
  <2>2. \E answered \in SUBSET (IF table = NoTransformation THEN {} ELSE Asking(table)) :
          LET writes == Writes(storage, r, Transformed(table, blob, answered))
          IN  \E n \in 0..Len(writes) : docs' = Put({writes[m] : m \in 1..n})
    BY <1>1, <2>1, Zenon DEF Store
  <2> QED BY <2>1, <2>2, Zenon
<1>3. PICK answered, b, writes :
        /\ b = Transformed(table, blob, answered)
        /\ writes = Writes(storage, r, b)
        /\ \E n \in 0..Len(writes) : docs' = Put({writes[m] : m \in 1..n})
  BY <1>2
<1>4. PICK n \in 0..Len(writes) : docs' = Put({writes[m] : m \in 1..n})
  BY <1>3
<1>5. PICK m \in 1..n : k = Key(writes[m]) /\ docs'[k] = writes[m][2]
  <2>1. PICK W : W = {writes[m] : m \in 1..n} /\ docs' = Put(W)
    BY <1>4
  <2>2. PICK w \in W : k = Key(w) /\ docs'[k] = w[2]
    BY <2>1, PutNew
  <2> QED BY <2>1, <2>2
<1>6. CASE storage = "live"
  <2>1. \/ writes[m] = <<LiveIndex(r), b>>
        \/ HasSnapshot(b) /\ writes[m] \in {<<StateIndex(r), Snapshot(b)>>, <<SnapshotIndex(r), Snapshot(b)>>}
    BY <1>3, <1>4, <1>5, <1>6, WrittenByEvent
  <2>2. /\ k.index \in {LiveIndex(r), StateIndex(r), SnapshotIndex(r)}
        /\ docs'[k] = b \/ (HasSnapshot(b) /\ docs'[k] = Snapshot(b))
    BY <1>5, <2>1 DEF Key
  <2> QED BY <1>1, <1>2, <1>3, <2>2
<1>7. CASE storage \in SyncStorages
  <2>1. writes[m] \in {<<StateIndex(r), b>>, <<SnapshotIndex(r), b>>}
    BY <1>3, <1>4, <1>5, <1>7, WrittenBySync
  <2>2. k.index \in {StateIndex(r), SnapshotIndex(r)} /\ docs'[k] = b
    BY <1>5, <2>1 DEF Key
  <2> QED BY <1>1, <1>2, <1>3, <2>2
<1> QED BY <1>6, <1>7 DEF Stores

\* The documents change in a step that stores, and in no other.
LEMMA OnlyStores ==
    ASSUME IInv, [Next]_vars
    PROVE  \/ docs' = docs
           \/ \E type, id : \E storage \in Stores, r \in Repositories, i \in Items :
                /\ phase = "running" /\ Store(storage, r, Blob(type, id, i))
                /\ UNCHANGED <<file, users, templates>>
<1>1. ASSUME NEW r \in Repositories, NEW i \in Items, HandleEvent(r, i)
      PROVE  \E type, id : \E storage \in Stores : phase = "running" /\ Store(storage, r, Blob(type, id, i)) /\ UNCHANGED <<file, users, templates>>
  BY <1>1 DEF HandleEvent, Stores
<1>2. ASSUME NEW storage \in SyncStorages, NEW r \in Repositories, NEW i \in Items,
             IndexItem(storage, r, i) \/ IndexUnfetched(storage, r, i)
      PROVE  \E type, id : phase = "running" /\ Store(storage, r, Blob(type, id, i)) /\ UNCHANGED <<file, users, templates>>
  BY <1>2 DEF IndexItem, IndexUnfetched
<1>3. CASE ParseConfig \/ SyncUsers \/ SyncMapping \/ Exited \/ UNCHANGED vars
  BY <1>3 DEF ParseConfig, SyncUsers, SyncMapping, Exited, vars
<1> QED BY <1>1, <1>2, <1>3 DEF Next, Stores

-----------------------------------------------------------------------------
(* Index templates and users. *)

\* The templates that are there are those of the repositories, all of them once
\* sync_mapping has succeeded; and the users are from the file.
MInv ==
    /\ \A r \in Repositories : TemplateName(r) \in DOMAIN templates => templates[TemplateName(r)] = Pattern(r)
    /\ synced => \A r \in Repositories : TemplateName(r) \in DOMAIN templates
    /\ users \subseteq UserFile

LEMMA TemplateNames ==
    ASSUME file \in Files, NEW r \in Repositories, NEW s \in Repositories, TemplateName(r) = TemplateName(s)
    PROVE  r = s
<1>1. PICK W : r \in Seq(W) /\ s \in Seq(W) /\ <<"vossibility">> \in Seq(W)
  <2>1. PICK Names : r \in Seq(Names) /\ s \in Seq(Names)
    BY NamesAssumption DEF Repositories
  <2>2. r \in Seq(Names \cup {"vossibility"}) /\ s \in Seq(Names \cup {"vossibility"})
    BY <2>1, SeqMonotone
  <2>3. <<"vossibility">> \in Seq(Names \cup {"vossibility"})
    OBVIOUS
  <2> QED BY <2>2, <2>3
<1> QED BY <1>1, ConcatSimplifications DEF TemplateName

LEMMA Prefix ==
    ASSUME NEW S, NEW r \in Seq(S), NEW x \in S
    PROVE  Matches(r, Append(r, x))
<1>1. Len(Append(r, x)) = Len(r) + 1 /\ Len(r) \in Nat /\ SubSeq(Append(r, x), 1, Len(r)) = r
  OBVIOUS
<1> QED BY <1>1 DEF Matches

LEMMA OwnIndex ==
    ASSUME file \in Files, NEW r \in Repositories, NEW index \in {LiveIndex(r), StateIndex(r), SnapshotIndex(r)}
    PROVE  Matches(Pattern(r), index)
<1>1. PICK W : r \in Seq(W) /\ {"live", "state", "snapshot"} \subseteq W
  <2>1. PICK Names : r \in Seq(Names)
    BY NamesAssumption DEF Repositories
  <2>2. r \in Seq(Names \cup {"live", "state", "snapshot"})
    BY <2>1, SeqMonotone
  <2> QED BY <2>2
<1> QED BY <1>1, Prefix DEF Pattern, LiveIndex, StateIndex, SnapshotIndex, IndexPrefix

LEMMA MInvInit == Init => MInv
BY DEF Init, MInv, Empty

LEMMA MInvNext == IInv /\ MInv /\ [Next]_vars => MInv'
<1> SUFFICES ASSUME IInv, MInv, [Next]_vars PROVE MInv'
  OBVIOUS
<1>1. CASE SyncMapping
  <2>1. PICK put \in SUBSET Repositories :
           /\ templates' = [n \in DOMAIN templates \cup {TemplateName(r) : r \in put} |->
                               IF \E r \in put : TemplateName(r) = n
                               THEN Pattern(CHOOSE r \in put : TemplateName(r) = n) ELSE templates[n]]
           /\ synced' = (synced \/ put = Repositories)
           /\ UNCHANGED <<file, users>>
    BY <1>1 DEF SyncMapping
  <2>2. ASSUME NEW r \in Repositories, TemplateName(r) \in DOMAIN templates'
        PROVE  templates'[TemplateName(r)] = Pattern(r)
    <3>1. CASE \E s \in put : TemplateName(s) = TemplateName(r)
      <4>1. PICK s \in put : TemplateName(s) = TemplateName(r) /\ s = CHOOSE q \in put : TemplateName(q) = TemplateName(r)
        BY <3>1
      <4>2. s = r
        BY <4>1, TemplateNames DEF IInv, Configured
      <4> QED BY <2>1, <2>2, <3>1, <4>1, <4>2
    <3>2. CASE ~\E s \in put : TemplateName(s) = TemplateName(r)
      BY <2>1, <2>2, <3>2 DEF MInv
    <3> QED BY <3>1, <3>2
  <2>3. synced' => \A r \in Repositories : TemplateName(r) \in DOMAIN templates'
    BY <2>1 DEF MInv
  <2> QED BY <2>1, <2>2, <2>3 DEF MInv, Repositories, TemplateName, Pattern, IndexPrefix
<1>2. CASE SyncUsers
  BY <1>2 DEF SyncUsers, MInv, Repositories, TemplateName, Pattern, IndexPrefix
<1>3. CASE UNCHANGED <<file, users, templates, synced>>
  BY <1>3 DEF MInv, Repositories, TemplateName, Pattern, IndexPrefix
<1>4. CASE ParseConfig \/ Exited \/ UNCHANGED vars
  BY <1>3, <1>4 DEF ParseConfig, Exited, vars
<1>5. ASSUME NEW storage \in SyncStorages, NEW r \in Repositories, NEW i \in Items,
             HandleEvent(r, i) \/ IndexItem(storage, r, i) \/ IndexUnfetched(storage, r, i)
      PROVE  MInv'
  BY <1>3, <1>5 DEF HandleEvent, IndexItem, IndexUnfetched
<1>6. \A r \in Repositories, i \in Items : HandleEvent(r, i) => MInv'
  BY <1>5 DEF SyncStorages
<1> QED BY <1>1, <1>2, <1>4, <1>5, <1>6 DEF Next

\* An index that is new is that of a repository, and a template matches its name.
LEMMA NewMapped ==
    ASSUME IInv, MInv, [Next]_vars, synced, NEW x \in Created(docs') \ Created(docs)
    PROVE  x \in mapped'
<1>1. PICK k \in DOMAIN docs' : k.index = x /\ k \notin DOMAIN docs
  BY DEF Created
<1>2. PICK storage \in Stores, r \in Repositories : \E blob :
         Store(storage, r, blob) /\ UNCHANGED <<file, users, templates>>
  BY <1>1, OnlyStores
<1>3. PICK blob : Store(storage, r, blob) /\ UNCHANGED <<file, users, templates>>
  BY <1>2
<1>4. x \in {LiveIndex(r), StateIndex(r), SnapshotIndex(r)}
  BY <1>1, <1>3, StoreNew
<1>5. mapped' = MappedWith(Created(docs') \ Created(docs))
  BY <1>1, <1>3 DEF Store
<1>6. TemplateName(r) \in DOMAIN templates /\ templates[TemplateName(r)] = Pattern(r)
  BY DEF MInv
<1>7. Matches(Pattern(r), x)
  BY <1>4, OwnIndex DEF IInv, Configured
<1> QED BY <1>5, <1>6, <1>7 DEF MappedWith

-----------------------------------------------------------------------------
(* Authors. *)

LEMMA LoginLowered ==
    ASSUME NEW p, NEW x, NEW y
    PROVE  [[person |-> p, lower |-> x] EXCEPT !.lower = y] = [person |-> p, lower |-> y]
OBVIOUS

LEMMA Answer ==
    ASSUME NEW a, NEW b, NEW c
    PROVE  LET r == [login |-> a, known |-> b, answered |-> c]
           IN  r.login = a /\ r.known = b /\ r.answered = c /\ "author" \notin DOMAIN r
OBVIOUS

\* The login that the users index is asked for.
LEMMA Asked ==
    ASSUME NEW i \in Items PROVE ToLower(Author[i]) = Login(Author[i].person, TRUE)
<1>1. PICK login : login = Author[i] /\ login = Login(login.person, login.lower)
  BY LoginsAssumption
<1>2. PICK p, lower : login = [person |-> p, lower |-> lower]
  BY <1>1 DEF Login
<1>3. login.person = p
  BY <1>2
<1>4. ToLower(login) = [person |-> p, lower |-> TRUE]
  BY <1>2, LoginLowered, Zenon DEF ToLower
<1>5. ToLower(login) = Login(login.person, TRUE)
  BY <1>3, <1>4 DEF Login
<1> QED BY <1>1, <1>5, Zenon

\* What user_data finds out, when it is answered and when it is not.
LEMMA FoundUser ==
    ASSUME NEW i \in Items, NEW field, NEW answered
    PROVE  LET author == FnUserData(Author[i], field \in answered) IN
           /\ author.known => \E l \in users : l.person = author.login.person
           /\ author.answered /\ Login(author.login.person, TRUE) \in users => author.known
           /\ "author" \notin DOMAIN author
<1>1. PICK author : author = FnUserData(Author[i], field \in answered)
  OBVIOUS
<1>2. /\ author.login = Author[i] /\ (author.known <=> field \in answered /\ Known(Author[i]))
      /\ (author.answered <=> field \in answered) /\ "author" \notin DOMAIN author
  BY <1>1, Answer, Zenon DEF FnUserData
<1>3. Known(Author[i]) <=> Login(Author[i].person, TRUE) \in users
  BY Asked DEF Known
<1>4. Login(Author[i].person, TRUE).person = Author[i].person
  BY DEF Login
<1> QED BY <1>1, <1>2, <1>3, <1>4

\* A transformation that a type finds is one of the file.
LEMMA OfFile ==
    ASSUME IInv, phase = "running", NEW storage, NEW r \in Repositories, NEW type,
           GetTransformation(storage, r, type) # NoTransformation
    PROVE  \E t \in DOMAIN file.transformations : GetTransformation(storage, r, type) = file.transformations[t]
<1>1. PICK e \in DOMAIN eventSet[r] : GetTransformation(storage, r, type) = eventSet[r][e]
  BY DEF GetTransformation
<1>2. PICK names : names = file.event_set["default"]
  OBVIOUS
<1>3. e \in DOMAIN names
  BY <1>2, Found DEF IInv
<1>4. names[e] \in DOMAIN file.transformations /\ eventSet[r][e] = file.transformations[names[e]]
  BY <1>2, <1>3, Found DEF IInv
<1> QED BY <1>1, <1>4

\* The key "author" of a table has what user_data found out.
LEMMA AuthorValue ==
    ASSUME file \in Files, NEW t \in DOMAIN file.transformations, NEW i,
           "author" \in DOMAIN file.transformations[t]
    PROVE  /\ \A answered : DataOf(file.transformations[t], i, answered)["author"]
                              = FnUserData(Author[i], "author" \in answered)
           /\ \A field, answered : ApplyMap(file.transformations[t], i, field \in answered)["author"]
                              = FnUserData(Author[i], field \in answered)
<1>1. PICK table : table = file.transformations[t] /\ "author" \in DOMAIN table /\ table["author"] = [op |-> "author"]
  BY AuthorsAssumption
<1>2. table["author"].op = "author" /\ "author" \notin MetaFields
  BY <1>1 DEF MetaFields
<1>3. ASSUME NEW field, NEW answered
      PROVE  Value(table["author"], i, field \in answered) = FnUserData(Author[i], field \in answered)
  BY <1>2 DEF Value
<1>4. ASSUME NEW answered
      PROVE  DataOf(table, i, answered)["author"] = Value(table["author"], i, "author" \in answered)
  BY <1>1, <1>2 DEF DataOf
<1>5. ASSUME NEW field, NEW answered
      PROVE  ApplyMap(table, i, field \in answered)["author"] = Value(table["author"], i, field \in answered)
  BY <1>1 DEF ApplyMap
<1>6. \A answered : DataOf(table, i, answered)["author"] = FnUserData(Author[i], "author" \in answered)
  BY <1>3, <1>4, Zenon
<1>7. \A field, answered :
        ApplyMap(table, i, field \in answered)["author"] = FnUserData(Author[i], field \in answered)
  BY <1>3, <1>5, Zenon
<1> QED BY <1>1, <1>6, <1>7, Zenon

\* A document that is written has, as its author, what user_data found out.
LEMMA WrittenAuthor ==
    ASSUME IInv, MInv, phase = "running", NEW storage \in Stores, NEW r \in Repositories, NEW i \in Items, NEW type, NEW id,
           Store(storage, r, Blob(type, id, i)),
           NEW k \in DOMAIN docs', k \notin DOMAIN docs \/ docs'[k] # docs[k],
           ~docs'[k].raw, "author" \in DOMAIN docs'[k].data
    PROVE  \E field, answered : docs'[k].data["author"] = FnUserData(Author[i], field \in answered)
<1>0. PICK table : table = GetTransformation(storage, r, type)
  OBVIOUS
<1>1. PICK answered, b :
        /\ b = (IF table = NoTransformation THEN Blob(type, id, i) ELSE Apply(table, Blob(type, id, i), answered))
        /\ docs'[k] = b \/ (HasSnapshot(b) /\ docs'[k] = Snapshot(b))
        /\ table # NoTransformation => ~Fails(table)
  <2>1. Blob(type, id, i).type = type
    BY DEF Blob
  <2> QED BY <1>0, <2>1, StoreNew DEF Transformed
<1>2. /\ docs'[k] = b \/ (HasSnapshot(b) /\ docs'[k] = Snapshot(b))
      /\ table # NoTransformation => ~Fails(table)
  BY <1>1
<1>3. table # NoTransformation
  <2>1. Blob(type, id, i).raw /\ ~HasSnapshot(Blob(type, id, i))
    BY DEF Blob, HasSnapshot
  <2> QED BY <1>1, <1>2, <2>1
<1>4. PICK t \in DOMAIN file.transformations : table = file.transformations[t]
  BY <1>0, <1>3, OfFile
<1>5. b.data = DataOf(table, i, answered) /\ b.snapshotField = MetaOf(table, "_snapshot_field", "")
  BY <1>1, <1>3 DEF Apply, Blob
<1>6. DOMAIN DataOf(table, i, answered) = DOMAIN table \ MetaFields
  BY DEF DataOf
<1>7. file \in Files
  BY DEF IInv, Configured
<1>8. CASE docs'[k] = b
  <2>1. "author" \in DOMAIN table
    BY <1>5, <1>6, <1>8
  <2>2. DataOf(table, i, answered)["author"] = FnUserData(Author[i], "author" \in answered)
    BY <1>4, <1>7, <2>1, AuthorValue, Zenon
  <2>3. docs'[k].data["author"] = FnUserData(Author[i], "author" \in answered)
    BY <1>5, <1>8, <2>2, Zenon
  <2> QED BY <2>3
<1>9. CASE HasSnapshot(b) /\ docs'[k] = Snapshot(b)
  <2>1. PICK field : field = b.snapshotField /\ field # ""
    BY <1>9 DEF HasSnapshot
  <2>2. /\ "_snapshot_field" \in DOMAIN table /\ table["_snapshot_field"].op = "text"
        /\ table["_snapshot_field"].text = field
    BY <1>5, <2>1 DEF MetaOf
  <2>3. docs'[k].data = (IF field \in DOMAIN b.data THEN b.data[field] ELSE Empty)
    BY <1>1, <1>3, <1>9, <2>1 DEF Snapshot, Apply, Blob
  <2>4. field \in DOMAIN table /\ field \notin MetaFields /\ docs'[k].data = b.data[field]
    <3>1. "author" \notin DOMAIN Empty
      BY DEF Empty
    <3> QED BY <1>5, <1>6, <2>3, <3>1
  <2>5. table[field].op \in {"nested", "author"}
    BY <1>4, <1>7, <2>2, <2>4, NestingAssumption
  <2>6. CASE table[field].op = "author"
    <3>1. docs'[k].data = FnUserData(Author[i], field \in answered)
      BY <1>5, <2>4, <2>6 DEF DataOf, Value
    <3> QED BY <3>1, FoundUser
  <2>7. CASE table[field].op = "nested"
    <3>1. PICK name \in DOMAIN file.transformations : name = table[field].name
      BY <1>2, <1>3, <2>4, <2>7 DEF Fails
    <3>2. docs'[k].data = ApplyMap(file.transformations[name], i, field \in answered)
      BY <1>5, <2>4, <2>7, <3>1 DEF DataOf
    <3>3. "author" \in DOMAIN file.transformations[name]
      BY <3>2 DEF ApplyMap
    <3>4. docs'[k].data["author"] = FnUserData(Author[i], field \in answered)
      BY <1>7, <3>2, <3>3, AuthorValue
    <3> QED BY <3>4
  <2> QED BY <2>5, <2>6, <2>7
<1> QED BY <1>2, <1>8, <1>9

-----------------------------------------------------------------------------
(* Theorems. *)

\* Every reachable state has the event sets of the file it was given, and every
\* document in it is in its place.
THEOREM Invariant == Spec => []IInv
BY InitInv, NextInv, PTL DEF Spec

\* No document is stored the way GitHub sent it, whatever the file; and a file that
\* verify accepts is refused only for its periodicity or for a template that does not
\* parse (configfile.go:115-148, config.go:31-45, repository.go:57-73,
\* blobstore.go:63-98).
THEOREM AlwaysTransformed == Spec => []NothingStoredRaw
<1>1. IInv => NothingStoredRaw
  BY DEF IInv, Configured, Right, NothingStoredRaw
<1> QED BY <1>1, Invariant, PTL

\* An item keeps to one document per snapshot index, for any number of items,
\* repositories, events and synchronizations (sync.go:237-242, blob.go:80-95).
THEOREM OneDocument == Spec => []OneDocumentPerItem
<1>1. IInv => OneDocumentPerItem
  BY DEF IInv, Right, Placed, OneDocumentPerItem
<1> QED BY <1>1, Invariant, PTL

\* Both invariants hold in every state.
THEOREM Templates == Spec => [](IInv /\ MInv)
BY InitInv, NextInv, MInvInit, MInvNext, PTL DEF Spec

\* However many repositories there are, and whichever name begins with another, an
\* index made after sync_mapping has succeeded is mapped (sync_mapping.go:62-67,
\* repository.go:121-123).
THEOREM Mapped == Spec => EveryIndexMapped
<1>1. IInv /\ MInv /\ [Next]_vars => [synced => Created(docs') \ Created(docs) \subseteq mapped']_vars
  BY NewMapped
<1> QED BY <1>1, Templates, PTL DEF Spec, EveryIndexMapped

\* For every file of users and every spelling of every login: whoever a document
\* calls known has an entry in the users index, and someone with an entry in lower
\* case is known unless the lookup failed (user.go:23-30, templatefn.go:63-71,
\* sync_users.go:37-42).
THEOREM Authors == Spec => KnownAuthors
<1> DEFINE Told(k) == LET author == docs'[k].data["author"]
                      IN  /\ author.known => \E l \in users : l.person = author.login.person
                          /\ author.answered /\ Login(author.login.person, TRUE) \in users => author.known
<1>1. ASSUME IInv, MInv, [Next]_vars, NEW k \in StoredWithAuthor PROVE Told(k)
  <2>0. /\ k \in DOMAIN docs' /\ (k \notin DOMAIN docs \/ docs'[k] # docs[k])
        /\ ~docs'[k].raw /\ "author" \in DOMAIN docs'[k].data
    BY <1>1 DEF StoredWithAuthor
  <2>1. PICK type, id : \E storage \in Stores, r \in Repositories, i \in Items :
          phase = "running" /\ Store(storage, r, Blob(type, id, i))
    BY <1>1, <2>0, OnlyStores
  <2>2. PICK storage \in Stores, r \in Repositories, i \in Items :
          phase = "running" /\ Store(storage, r, Blob(type, id, i))
    BY <2>1
  <2>3. PICK field, answered : docs'[k].data["author"] = FnUserData(Author[i], field \in answered)
    BY <1>1, <2>0, <2>2, WrittenAuthor
  <2> QED BY <2>3, FoundUser
<1>2. IInv /\ MInv /\ [Next]_vars =>
        [\A k \in StoredWithAuthor :
           LET author == docs'[k].data["author"]
           IN  /\ author.known => \E l \in users : l.person = author.login.person
               /\ author.answered /\ Login(author.login.person, TRUE) \in users => author.known]_vars
  <2> SUFFICES ASSUME IInv, MInv, [Next]_vars, NEW k \in StoredWithAuthor PROVE Told(k)
    OBVIOUS
  <2> QED BY <1>1, Zenon
<1> QED BY <1>2, Templates, PTL DEF Spec, KnownAuthors

=============================================================================
