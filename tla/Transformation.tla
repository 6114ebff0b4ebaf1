--------------------------- MODULE Transformation ---------------------------
(***************************************************************************)
(* How a blob is transformed: Transformation.Apply visits the keys of a    *)
(* transformation in the random order of a Go map, evaluates each one's    *)
(* template on the source document and pushes the value into a new blob.   *)
(*                                                                         *)
(* JSON objects are Go maps, which are references: a template may yield an *)
(* object of the source itself, and a later push may write into it.  So    *)
(* documents are objects in a heap.  A field name is a sequence of words;  *)
(* a key with dots in it is a longer sequence, which Blob.Push takes for a *)
(* path and ApplyMap for the name of one field.                            *)
(***************************************************************************)
EXTENDS Integers, Sequences

CONSTANTS
    Documents,   \* source documents: heaps, sequences of objects, the first one is the root
    Tables,      \* transformations that may be applied: functions from keys to templates
    Named,       \* transformations apply_transformation may name
    Underscored  \* words that begin with an underscore

VARIABLES
    table,     \* the transformation that is applied
    source,    \* the source document before
    heap,      \* every object
    todo,      \* keys that have not been visited
    meta,      \* metadata of the resulting blob
    outcome    \* "running", "done", or "error" if a template failed

vars == <<table, source, heap, todo, meta, outcome>>

-----------------------------------------------------------------------------
(* Values. Missing is the zero reflect.Value of a key that is not there. *)

Null      == [tag |-> "null"]
Missing   == [tag |-> "missing"]
Failure   == [tag |-> "failure"]
Text(s)   == [tag |-> "text", s |-> s]
Number(n) == [tag |-> "number", n |-> n]
List(vs)  == [tag |-> "list", values |-> vs]
Ref(o)    == [tag |-> "ref", object |-> o]

EmptyObject == [f \in {} |-> Null]

\* evalField on a map: no field of what is missing, an error for what has none.
FieldOf(h, v, f) ==
    IF v.tag = "ref" /\ f \in DOMAIN h[v.object] THEN h[v.object][f]
    ELSE IF v.tag = "ref" \/ v.tag = "missing" THEN Missing
    ELSE Failure

\* A chain .a.b.c on value v.
Lookup(h, v, path) ==
    LET at[n \in 0..Len(path)] == IF n = 0 THEN v ELSE FieldOf(h, at[n - 1], <<path[n]>>)
    IN  at[Len(path)]

\* isTrue.  A number is a json.Number, a string that is not empty: even 0 is true.
Truth(h, v) ==
    \/ v.tag = "ref" /\ DOMAIN h[v.object] # {}
    \/ v.tag = "list" /\ v.values # <<>>
    \/ v.tag = "text" /\ v.s # ""
    \/ v.tag = "number"

-----------------------------------------------------------------------------
(* Templates, by the shapes that configurations use.                       *)
(*   Literal     text                                                      *)
(*   Field       {{ .path }}                                               *)
(*   When        {{ if .test }}{{ .path }}{{ end }}                        *)
(*   Each        {{ range .path }}{{ .field }}{{ end }} over an array      *)
(*   Apply       {{ apply_transformation "name" .path }}                   *)

Literal(s)      == [op |-> "literal", text |-> s]
Field(path)     == [op |-> "field", path |-> path]
When(test, path) == [op |-> "when", test |-> test, path |-> path]
Each(path, f)   == [op |-> "each", path |-> path, field |-> f]
Apply(name, path) == [op |-> "apply", name |-> name, path |-> path]

IsPath(path) == path \in Seq(STRING)

IsTemplate(t) ==
    \/ t.op = "literal"
    \/ t.op \in {"field", "each", "apply"} /\ IsPath(t.path)
    \/ t.op = "when" /\ IsPath(t.test) /\ IsPath(t.path)

IsTable(t) == \A k \in DOMAIN t : IsPath(k) /\ k # <<>> /\ IsTemplate(t[k])

\* An object refers to objects of its document.
IsInside(v, n) ==
    /\ v.tag = "ref" => v.object \in 1..n
    /\ v.tag = "list" => \A i \in DOMAIN v.values : v.values[i].tag = "ref" => v.values[i].object \in 1..n

IsDocument(d) ==
    /\ Len(d) > 0 /\ d \in Seq({d[o] : o \in DOMAIN d})
    /\ \A o \in DOMAIN d : \A f \in DOMAIN d[o] : IsInside(d[o][f], Len(d))

ASSUME DocumentsAssumption == \A d \in Documents : IsDocument(d)
ASSUME TablesAssumption == \A t \in Tables : IsTable(t)
\* What apply_transformation applies does not use it again: one level is modelled.
ASSUME NamedAssumption ==
    \A name \in DOMAIN Named :
        IsTable(Named[name]) /\ \A k \in DOMAIN Named[name] : Named[name][k].op # "apply"

\* What the visitor makes of nothing: null.
Visited(v) == IF v.tag = "missing" THEN Null ELSE v

\* The values visited when a template without Apply is executed on an object.
Visits(h, t, v) ==
    CASE t.op = "literal" -> <<Text(t.text)>>
      [] t.op = "field"   -> <<Visited(Lookup(h, v, t.path))>>
      [] t.op = "when"    ->
           LET test == Lookup(h, v, t.test)
           IN  IF test = Failure THEN <<Failure>>
               ELSE IF Truth(h, test) THEN <<Visited(Lookup(h, v, t.path))>> ELSE <<>>
      [] t.op = "each"    ->
           LET items == Lookup(h, v, t.path)
           IN  IF items.tag = "list"
               THEN [i \in DOMAIN items.values |-> Visited(FieldOf(h, items.values[i], t.field))]
               ELSE IF items.tag \in {"null", "missing"} THEN <<>> ELSE <<Failure>>

\* visitor.Value.
Value(visits) ==
    CASE \E i \in DOMAIN visits : visits[i] = Failure -> Failure
      [] Len(visits) = 0 -> Null
      [] Len(visits) = 1 -> visits[1]
      [] OTHER           -> List(visits)

\* Mutant: the value of the first key for all.
ApplyMapMixed(h, name, o) ==
    [k \in DOMAIN Named[name] |-> Value(Visits(h, Named[name][CHOOSE f \in DOMAIN Named[name] : TRUE], Ref(o)))]

\* ApplyMap: each key is a field of the new object, whatever it looks like.
ApplyMap(h, name, o) ==
    [k \in DOMAIN Named[name] |-> Value(Visits(h, Named[name][k], Ref(o)))]

\* The value of a template for the root object, and the heap afterwards.
Evaluate(h, t) ==
    IF t.op # "apply" THEN [value |-> Value(Visits(h, t, Ref(1))), heap |-> h]
    ELSE LET data == Lookup(h, Ref(1), t.path)
         IN  IF t.name \notin DOMAIN Named \/ data.tag # "ref"
             THEN [value |-> Failure, heap |-> h]
             ELSE LET fields == ApplyMap(h, t.name, data.object)
                  IN  IF \E k \in DOMAIN fields : fields[k] = Failure
                      THEN [value |-> Failure, heap |-> h]
                      ELSE [value |-> Ref(Len(h) + 1), heap |-> Append(h, fields)]

-----------------------------------------------------------------------------
(* Blobs. *)

SpecialFields == {"_type", "_snapshot_id", "_snapshot_field"}
ASSUME UnderscoredAssumption == SpecialFields \subseteq Underscored

IsSpecial(key) == Head(key) \in Underscored
OrdinaryKeys == {k \in DOMAIN table : ~IsSpecial(k)}

Put(object, f, v) == [g \in DOMAIN object \cup {f} |-> IF g = f THEN v ELSE object[g]]

\* An empty object is made for a field of an object.
Make(at, f) ==
    [heap   |-> Append([at.heap EXCEPT ![at.object] = Put(@, <<f>>, Ref(Len(at.heap) + 1))], EmptyObject),
     object |-> Len(at.heap) + 1]

\* Mutant: a step of the path always makes an object.
DescendFresh(at, f) == Make(at, f)

\* One step of SetPath: into the object that is there, or into a new one.
Descend(at, f) ==
    LET there == FieldOf(at.heap, Ref(at.object), <<f>>)
    IN  IF there.tag = "ref" THEN [at EXCEPT !.object = there.object] ELSE Make(at, f)

SetPath(h, object, path, v) ==
    LET at[n \in 0..Len(path) - 1] ==
            IF n = 0 THEN [heap |-> h, object |-> object] ELSE Descend(at[n - 1], path[n])
        end == at[Len(path) - 1]
    IN  [end.heap EXCEPT ![end.object] = Put(@, <<path[Len(path)]>>, v)]

\* pushSpecialAttribute: only a string is taken, for a known field, and Apply ignores
\* the error.
PushSpecial(m, key, v) ==
    IF Len(key) = 1 /\ Head(key) \in SpecialFields /\ v.tag = "text"
    THEN [m EXCEPT ![Head(key)] = v.s] ELSE m

\* Mutant: the blob is transformed in place.
ResultInPlace == 1

\* The object that Apply makes for the result comes after those of the source.
Result == Len(source) + 1

\* A template fails to evaluate: Apply returns the error.
VisitFails(k) ==
    /\ outcome = "running"
    /\ k \in todo
    /\ Evaluate(heap, table[k]).value = Failure
    /\ outcome' = "error"
    /\ UNCHANGED <<table, source, heap, todo, meta>>

VisitOrdinary(k) ==
    /\ outcome = "running"
    /\ k \in todo /\ ~IsSpecial(k)
    /\ LET e == Evaluate(heap, table[k])
       IN  /\ e.value # Failure
           /\ heap' = SetPath(e.heap, Result, k, e.value)
    /\ todo' = todo \ {k}
    /\ UNCHANGED <<table, source, meta, outcome>>

VisitSpecial(k) ==
    /\ outcome = "running"
    /\ k \in todo /\ IsSpecial(k)
    /\ LET e == Evaluate(heap, table[k])
       IN  /\ e.value # Failure
           /\ heap' = e.heap
           /\ meta' = PushSpecial(meta, k, e.value)
    /\ todo' = todo \ {k}
    /\ UNCHANGED <<table, source, outcome>>

Return ==
    /\ outcome = "running"
    /\ todo = {}
    /\ outcome' = "done"
    /\ UNCHANGED <<table, source, heap, todo, meta>>

-----------------------------------------------------------------------------
Init ==
    /\ table \in Tables
    /\ source \in Documents
    /\ heap = Append(source, EmptyObject)
    /\ todo = DOMAIN table
    /\ meta = [f \in SpecialFields |-> IF f = "_type" THEN "event" ELSE ""]
    /\ outcome = "running"

\* The caller goes on with the blob, or with the error.
Returned == outcome # "running" /\ UNCHANGED vars

Next ==
    \/ \E k \in DOMAIN table : VisitFails(k) \/ VisitOrdinary(k) \/ VisitSpecial(k)
    \/ Return
    \/ Returned

Spec == Init /\ [][Next]_vars

-----------------------------------------------------------------------------
(* Properties. *)

\* No ordinary key is a prefix of another one.
Separate ==
    \A k, l \in OrdinaryKeys : \A n \in 0..Len(l) : k = SubSeq(l, 1, n) => k = l

\* Two values are the same, or new objects with the same fields.
Same(h, v, g, w) == v = w \/ (v.tag = "ref" /\ w.tag = "ref" /\ h[v.object] = g[w.object])

Stored(k) ==
    LET e == Evaluate(source, table[k])
    IN  Same(heap, Lookup(heap, Ref(Result), k), e.heap, e.value)

\* When no key is a prefix of another, the order of the map does not show: the
\* result has, for each key, what its template yields on the source as it was,
\* and keys that share part of their path keep each other's values
\* (transformation.go:67-74 with blob.go:69-76).
EveryKeyStored ==
    outcome = "done" /\ Separate => \A k \in OrdinaryKeys : Stored(k)

\* Then, too, Apply leaves the source alone, which the result may share objects
\* with: a synchronization or a retry that holds it sees what GitHub sent
\* (transformation.go:62, blob.go:74).
SourceUntouched ==
    Separate => \A o \in DOMAIN source : heap[o] = source[o]

\* A nested object that apply_transformation makes is the one that Apply would
\* make of it as a document, so that an item has one form whether a live event or
\* a synchronization stores it; for transformations that have no dotted or
\* special keys (transformation.go:82-110 against 55-76).
NestedAgrees ==
    \A name \in DOMAIN Named :
        outcome = "done" /\ table = Named[name] /\ (\A k \in DOMAIN table : Len(k) = 1 /\ ~IsSpecial(k))
            => heap[Result] = ApplyMap(source, name, 1)

=============================================================================
