----------------------- MODULE Transformation_proofs -----------------------
(***************************************************************************)
(* Proofs about Transformation, for any documents, however nested, and any *)
(* transformations, however long their keys.                               *)
(***************************************************************************)
EXTENDS Transformation, SequenceTheorems, WellFoundedInduction, TLAPS

-----------------------------------------------------------------------------
(* Induction.  A chain of fields and a path of keys are walked by recursive *)
(* functions; what holds at every step is shown by the first where it does  *)
(* not.                                                                     *)

\* A set of naturals that is not empty has a least element.
LEMMA First ==
    ASSUME NEW T, T \subseteq Nat, T # {}
    PROVE  \E m \in T : \A k \in T : m <= k
<1>1. IsWellFoundedOn(OpToRel(<, Nat), Nat)
  BY NatLessThanWellFounded
<1>2. PICK m \in T : \A k \in T : <<k, m>> \notin OpToRel(<, Nat)
  BY <1>1, WFMin
<1>3. ASSUME NEW k \in T PROVE m <= k
  <2>1. k \in Nat /\ m \in Nat
    OBVIOUS
  <2>2. ~ (k < m)
    <3>1. k < m => <<k, m>> \in OpToRel(<, Nat)
      BY <2>1 DEF OpToRel
    <3> QED BY <1>2, <3>1
  <2> QED BY <2>1, <2>2
<1> QED BY <1>3

\* The numbers up to m are all in S when 0 is, and the next one of each that is.
LEMMA UpTo ==
    ASSUME NEW m \in Nat, NEW S, 0 \in S, \A n \in 0..m : n \in S /\ n < m => n + 1 \in S
    PROVE  0..m \subseteq S
<1> DEFINE T == {n \in 0..m : n \notin S}
<1>1. CASE T = {}
  BY <1>1
<1>2. CASE T # {}
  <2>1. PICK n \in T : \A k \in T : n <= k
    <3>1. T \subseteq Nat
      OBVIOUS
    <3> HIDE DEF T
    <3> QED BY <1>2, <3>1, First
  <2>2. n \in 0..m /\ n # 0 /\ n - 1 \in 0..m /\ n - 1 \notin T
    <3>1. n \in 0..m /\ n \notin S
      OBVIOUS
    <3>2. n - 1 \in T => n <= n - 1
      BY <2>1
    <3> QED BY <3>1, <3>2
  <2>3. n - 1 \in S /\ n - 1 < m /\ (n - 1) + 1 = n
    BY <2>2
  <2> QED BY <2>1, <2>2, <2>3
<1> QED BY <1>1, <1>2

-----------------------------------------------------------------------------
(* The recursive functions. *)

\* A chain of fields: the values it goes through.
LEMMA LookupSteps ==
    ASSUME NEW h, NEW v, NEW path, IsPath(path)
    PROVE  \E at :
             /\ at[0] = v
             /\ \A n \in 1..Len(path) : at[n] = FieldOf(h, at[n - 1], <<path[n]>>)
             /\ Lookup(h, v, path) = at[Len(path)]
<1> DEFINE Walk(at, m) == at = [n \in 0..m |-> IF n = 0 THEN v ELSE FieldOf(h, at[n - 1], <<path[n]>>)]
           S == {m \in Nat : \E at : Walk(at, m)}
<1>0. Len(path) \in Nat
  BY LenProperties DEF IsPath
<1>1. 0 \in S
  <2>1. Walk([n \in 0..0 |-> v], 0)
    OBVIOUS
  <2> QED BY <2>1
<1>2. ASSUME NEW m \in 0..Len(path), m \in S PROVE m + 1 \in S
  <2>1. PICK at : Walk(at, m)
    BY <1>2
  <2> DEFINE next == [n \in 0..m + 1 |-> IF n = m + 1 THEN FieldOf(h, at[m], <<path[m + 1]>>) ELSE at[n]]
  <2>2. ASSUME NEW n \in 0..m + 1 PROVE next[n] = IF n = 0 THEN v ELSE FieldOf(h, next[n - 1], <<path[n]>>)
    <3>1. CASE n = 0
      BY <1>0, <2>1, <3>1
    <3>2. CASE n = m + 1
      <4>1. next[m] = at[m]
        BY <1>0
      <4> QED BY <1>0, <3>2, <4>1
    <3>3. CASE n \in 1..m
      <4>1. at[n] = FieldOf(h, at[n - 1], <<path[n]>>)
        BY <1>0, <2>1, <3>3
      <4>2. next[n] = at[n] /\ next[n - 1] = at[n - 1]
        BY <1>0, <3>3
      <4> QED BY <1>0, <3>3, <4>1, <4>2
    <3> QED BY <1>0, <3>1, <3>2, <3>3
  <2>3. Walk(next, m + 1)
    BY <2>2
  <2> HIDE DEF next
  <2> QED BY <1>0, <2>3
<1>3. \E at : Walk(at, Len(path))
  <2> HIDE DEF S
  <2>1. 0..Len(path) \subseteq S
    BY <1>0, <1>1, <1>2, UpTo
  <2> QED BY <1>0, <2>1 DEF S
<1> DEFINE at == CHOOSE f : Walk(f, Len(path))
<1>4. Walk(at, Len(path))
  BY <1>3
<1>5. Lookup(h, v, path) = at[Len(path)]
  BY DEF Lookup
<1> HIDE DEF at
<1>6. at[0] = v /\ \A n \in 1..Len(path) : at[n] = FieldOf(h, at[n - 1], <<path[n]>>)
  BY <1>0, <1>4
<1> QED BY <1>5, <1>6

\* A path of SetPath: the objects it goes through.
LEMMA SetPathSteps ==
    ASSUME NEW h, NEW object, NEW path, IsPath(path), path # <<>>, NEW v
    PROVE  \E at :
             /\ at[0] = [heap |-> h, object |-> object]
             /\ \A n \in 1..Len(path) - 1 : at[n] = Descend(at[n - 1], path[n])
             /\ SetPath(h, object, path, v) =
                  LET end == at[Len(path) - 1]
                  IN  [end.heap EXCEPT ![end.object] = Put(@, <<path[Len(path)]>>, v)]
<1> DEFINE last == Len(path) - 1
           Walk(at, m) == at = [n \in 0..m |-> IF n = 0 THEN [heap |-> h, object |-> object] ELSE Descend(at[n - 1], path[n])]
           S == {m \in Nat : \E at : Walk(at, m)}
<1>0. last \in Nat /\ last + 1 = Len(path)
  BY LenProperties, EmptySeq DEF IsPath
<1>1. 0 \in S
  <2>1. Walk([n \in 0..0 |-> [heap |-> h, object |-> object]], 0)
    OBVIOUS
  <2> QED BY <2>1
<1>2. ASSUME NEW m \in 0..last, m \in S PROVE m + 1 \in S
  <2>1. PICK at : Walk(at, m)
    BY <1>2
  <2> DEFINE next == [n \in 0..m + 1 |-> IF n = m + 1 THEN Descend(at[m], path[m + 1]) ELSE at[n]]
  <2>2. ASSUME NEW n \in 0..m + 1 PROVE next[n] = IF n = 0 THEN [heap |-> h, object |-> object] ELSE Descend(next[n - 1], path[n])
    <3>1. CASE n = 0
      BY <1>0, <2>1, <3>1
    <3>2. CASE n = m + 1
      <4>1. next[m] = at[m]
        BY <1>0
      <4> QED BY <1>0, <3>2, <4>1
    <3>3. CASE n \in 1..m
      <4>1. at[n] = Descend(at[n - 1], path[n])
        BY SMTT(30), <1>0, <2>1, <3>3
      <4>2. next[n] = at[n] /\ next[n - 1] = at[n - 1]
        BY <1>0, <3>3
      <4> QED BY <1>0, <3>3, <4>1, <4>2
    <3> QED BY <1>0, <3>1, <3>2, <3>3
  <2>3. Walk(next, m + 1)
    BY <2>2
  <2> HIDE DEF next
  <2> QED BY <1>0, <2>3
<1>3. \E at : Walk(at, last)
  <2> HIDE DEF S
  <2>1. 0..last \subseteq S
    BY <1>0, <1>1, <1>2, UpTo
  <2> QED BY <1>0, <2>1 DEF S
<1> DEFINE at == CHOOSE f : Walk(f, last)
<1>4. Walk(at, last)
  BY <1>3
<1>5. SetPath(h, object, path, v) =
        LET end == at[last] IN [end.heap EXCEPT ![end.object] = Put(@, <<path[Len(path)]>>, v)]
  BY DEF SetPath
<1> HIDE DEF at
<1>6. at[0] = [heap |-> h, object |-> object] /\ \A n \in 1..last : at[n] = Descend(at[n - 1], path[n])
  BY <1>0, <1>4
<1> QED BY <1>5, <1>6

-----------------------------------------------------------------------------
(* Heaps. *)

IsHeap(h) == h \in Seq({h[o] : o \in DOMAIN h})

LEMMA HeapShape ==
    ASSUME NEW h, IsHeap(h)
    PROVE  Len(h) \in Nat /\ DOMAIN h = 1..Len(h)
BY LenProperties DEF IsHeap

LEMMA HeapAppend ==
    ASSUME NEW h, IsHeap(h), NEW x
    PROVE  /\ IsHeap(Append(h, x))
           /\ Len(Append(h, x)) = Len(h) + 1
           /\ \A o \in 1..Len(h) : Append(h, x)[o] = h[o]
           /\ Append(h, x)[Len(h) + 1] = x
<1> DEFINE S == {h[o] : o \in DOMAIN h} \cup {x}
           g == Append(h, x)
<1>1. h \in Seq(S) /\ x \in S
  <2>1. h \in [1..Len(h) -> S] /\ Len(h) \in Nat
    BY HeapShape, LenProperties DEF IsHeap
  <2> QED BY <2>1
<1>2. /\ g \in Seq(S) /\ Len(g) = Len(h) + 1
      /\ \A o \in 1..Len(h) : g[o] = h[o]
      /\ g[Len(h) + 1] = x
  BY <1>1, AppendProperties
<1>3. IsHeap(g)
  <2> HIDE DEF g, S
  <2>1. Len(g) \in Nat /\ g \in [1..Len(g) -> S] /\ DOMAIN g = 1..Len(g)
    BY <1>2, LenProperties
  <2> QED BY <2>1 DEF IsHeap
<1> QED BY <1>2, <1>3

LEMMA HeapChanged ==
    ASSUME NEW h, IsHeap(h), NEW g, DOMAIN g = DOMAIN h, g = [o \in DOMAIN g |-> g[o]]
    PROVE  IsHeap(g) /\ Len(g) = Len(h)
<1>1. Len(h) \in Nat /\ DOMAIN g = 1..Len(h)
  BY HeapShape
<1>2. g \in [1..Len(h) -> {g[o] : o \in DOMAIN g}]
  BY <1>1
<1>3. g \in Seq({g[o] : o \in DOMAIN g}) /\ Len(g) = Len(h)
  BY <1>1, <1>2
<1> QED BY <1>3 DEF IsHeap

-----------------------------------------------------------------------------
(* Templates read the source.  What is added to the heap makes no          *)
(* difference to them.                                                     *)

\* The heap still has document d.
Has(h, d) == IsHeap(h) /\ Len(h) >= Len(d) /\ \A o \in 1..Len(d) : h[o] = d[o]

LEMMA DocumentShape ==
    ASSUME NEW d, IsDocument(d)
    PROVE  IsHeap(d) /\ Len(d) \in Nat \ {0} /\ DOMAIN d = 1..Len(d) /\ Has(d, d)
<1>1. IsHeap(d) /\ Len(d) > 0
  BY DEF IsDocument, IsHeap
<1> QED BY <1>1, HeapShape DEF Has

LEMMA FieldInside ==
    ASSUME NEW d, IsDocument(d), NEW h, Has(h, d), NEW v, IsInside(v, Len(d)), NEW f
    PROVE  FieldOf(h, v, f) = FieldOf(d, v, f) /\ IsInside(FieldOf(d, v, f), Len(d))
<1>1. CASE v.tag = "ref"
  <2>1. v.object \in 1..Len(d) /\ v.object \in DOMAIN d /\ h[v.object] = d[v.object]
    BY <1>1, DocumentShape DEF IsInside, Has
  <2>2. CASE f \in DOMAIN d[v.object]
    BY <1>1, <2>1, <2>2 DEF IsDocument, FieldOf
  <2>3. CASE f \notin DOMAIN d[v.object]
    BY <1>1, <2>1, <2>3 DEF FieldOf, IsInside, Missing
  <2> QED BY <2>2, <2>3
<1>2. CASE v.tag # "ref"
  BY <1>2 DEF FieldOf, IsInside, Missing, Failure
<1> QED BY <1>1, <1>2

LEMMA LookupInside ==
    ASSUME NEW d, IsDocument(d), NEW h, Has(h, d), NEW o \in 1..Len(d), NEW path, IsPath(path)
    PROVE  /\ Lookup(h, Ref(o), path) = Lookup(d, Ref(o), path)
           /\ IsInside(Lookup(d, Ref(o), path), Len(d))
<1>1. PICK at : /\ at[0] = Ref(o)
                /\ \A n \in 1..Len(path) : at[n] = FieldOf(h, at[n - 1], <<path[n]>>)
                /\ Lookup(h, Ref(o), path) = at[Len(path)]
  BY LookupSteps
<1>2. PICK to : /\ to[0] = Ref(o)
                /\ \A n \in 1..Len(path) : to[n] = FieldOf(d, to[n - 1], <<path[n]>>)
                /\ Lookup(d, Ref(o), path) = to[Len(path)]
  BY LookupSteps
<1>3. Len(path) \in Nat
  BY LenProperties DEF IsPath
<1> DEFINE S == {n \in 0..Len(path) : at[n] = to[n] /\ IsInside(to[n], Len(d))}
<1>4. 0 \in S
  <2>1. IsInside(Ref(o), Len(d))
    BY DEF IsInside, Ref
  <2> QED BY <1>1, <1>2, <1>3, <2>1
<1>5. ASSUME NEW n \in 0..Len(path), n \in S, n < Len(path) PROVE n + 1 \in S
  <2>1. n + 1 \in 1..Len(path) /\ (n + 1) - 1 = n /\ n + 1 \in 0..Len(path)
    BY <1>3, <1>5
  <2>2. at[n + 1] = FieldOf(h, at[n], <<path[n + 1]>>) /\ to[n + 1] = FieldOf(d, to[n], <<path[n + 1]>>)
    BY <1>1, <1>2, <2>1
  <2>3. at[n] = to[n] /\ IsInside(to[n], Len(d))
    BY <1>5
  <2>4. at[n + 1] = to[n + 1] /\ IsInside(to[n + 1], Len(d))
    BY <2>2, <2>3, FieldInside
  <2> QED BY <2>1, <2>4
<1>6. Len(path) \in S
  <2> HIDE DEF S
  <2>1. 0..Len(path) \subseteq S
    BY <1>3, <1>4, <1>5, UpTo
  <2> QED BY <1>3, <2>1
<1> QED BY <1>1, <1>2, <1>6

LEMMA TruthInside ==
    ASSUME NEW d, IsDocument(d), NEW h, Has(h, d), NEW v, IsInside(v, Len(d))
    PROVE  Truth(h, v) = Truth(d, v)
BY DEF Truth, Has, IsInside

LEMMA VisitsInside ==
    ASSUME NEW d, IsDocument(d), NEW h, Has(h, d), NEW o \in 1..Len(d),
           NEW t, IsTemplate(t), t.op # "apply"
    PROVE  Visits(h, t, Ref(o)) = Visits(d, t, Ref(o))
<1>1. CASE t.op = "literal"
  BY <1>1 DEF Visits
<1>2. CASE t.op = "field"
  <2>1. IsPath(t.path)
    BY <1>2 DEF IsTemplate
  <2>2. Lookup(h, Ref(o), t.path) = Lookup(d, Ref(o), t.path)
    BY <2>1, LookupInside
  <2> QED BY <1>2, <2>2 DEF Visits
<1>3. CASE t.op = "when"
  <2>1. IsPath(t.path) /\ IsPath(t.test)
    BY <1>3 DEF IsTemplate
  <2>2. Lookup(h, Ref(o), t.path) = Lookup(d, Ref(o), t.path)
    BY <2>1, LookupInside
  <2>3. PICK test : test = Lookup(d, Ref(o), t.test)
    OBVIOUS
  <2>4. Lookup(h, Ref(o), t.test) = test /\ IsInside(test, Len(d))
    BY <2>1, <2>3, LookupInside
  <2>5. Truth(h, test) = Truth(d, test)
    BY <2>4, TruthInside
  <2> QED BY <1>3, <2>2, <2>3, <2>4, <2>5 DEF Visits
<1>4. CASE t.op = "each"
  <2>1. IsPath(t.path)
    BY <1>4 DEF IsTemplate
  <2>2. PICK items : items = Lookup(d, Ref(o), t.path)
    OBVIOUS
  <2>3. Lookup(h, Ref(o), t.path) = items /\ IsInside(items, Len(d))
    BY <2>1, <2>2, LookupInside
  <2>4. ASSUME items.tag = "list", NEW i \in DOMAIN items.values
        PROVE  FieldOf(h, items.values[i], t.field) = FieldOf(d, items.values[i], t.field)
    <3>1. items.values[i].tag = "ref" => items.values[i].object \in 1..Len(d)
      BY <2>3, <2>4 DEF IsInside
    <3>2. items.values[i].tag = "ref" => h[items.values[i].object] = d[items.values[i].object]
      BY <3>1 DEF Has
    <3> QED BY <3>2 DEF FieldOf
  <2>5. items.tag = "list" =>
          [i \in DOMAIN items.values |-> Visited(FieldOf(h, items.values[i], t.field))]
            = [i \in DOMAIN items.values |-> Visited(FieldOf(d, items.values[i], t.field))]
    BY <2>4
  <2> QED BY <1>4, <2>2, <2>3, <2>5 DEF Visits
<1> QED BY <1>1, <1>2, <1>3, <1>4 DEF IsTemplate

LEMMA ApplyMapInside ==
    ASSUME NEW d, IsDocument(d), NEW h, Has(h, d), NEW o \in 1..Len(d), NEW name \in DOMAIN Named
    PROVE  ApplyMap(h, name, o) = ApplyMap(d, name, o)
<1>1. ASSUME NEW k \in DOMAIN Named[name]
      PROVE  Visits(h, Named[name][k], Ref(o)) = Visits(d, Named[name][k], Ref(o))
  <2>1. IsTemplate(Named[name][k]) /\ Named[name][k].op # "apply"
    BY NamedAssumption DEF IsTable
  <2> QED BY <2>1, VisitsInside
<1> QED BY <1>1 DEF ApplyMap

\* A template yields the same value whatever was added to the source, or a new object
\* with the same fields.
LEMMA EvaluateInside ==
    ASSUME NEW d, IsDocument(d), NEW h, Has(h, d), NEW t, IsTemplate(t)
    PROVE  \/ /\ t.op # "apply" \/ Evaluate(d, t).value = Failure
              /\ Evaluate(h, t) = [value |-> Evaluate(d, t).value, heap |-> h]
              /\ Evaluate(d, t).heap = d
           \/ /\ t.op = "apply"
              /\ \E fields :
                   /\ Evaluate(h, t) = [value |-> Ref(Len(h) + 1), heap |-> Append(h, fields)]
                   /\ Evaluate(d, t) = [value |-> Ref(Len(d) + 1), heap |-> Append(d, fields)]
<1>0. 1 \in 1..Len(d)
  BY DocumentShape
<1>1. CASE t.op # "apply"
  <2>1. Visits(h, t, Ref(1)) = Visits(d, t, Ref(1))
    BY <1>0, <1>1, VisitsInside
  <2> QED BY <1>1, <2>1 DEF Evaluate
<1>2. CASE t.op = "apply"
  <2>1. IsPath(t.path)
    BY <1>2 DEF IsTemplate
  <2>2. PICK data : data = Lookup(d, Ref(1), t.path)
    OBVIOUS
  <2>3. Lookup(h, Ref(1), t.path) = data /\ IsInside(data, Len(d))
    BY <1>0, <2>1, <2>2, LookupInside
  <2>4. CASE t.name \notin DOMAIN Named \/ data.tag # "ref"
    BY <1>2, <2>2, <2>3, <2>4 DEF Evaluate
  <2>5. CASE t.name \in DOMAIN Named /\ data.tag = "ref"
    <3>1. data.object \in 1..Len(d)
      BY <2>3, <2>5 DEF IsInside
    <3>2. PICK fields : fields = ApplyMap(d, t.name, data.object)
      OBVIOUS
    <3>3. ApplyMap(h, t.name, data.object) = fields
      BY <2>5, <3>1, <3>2, ApplyMapInside
    <3>4. CASE \E k \in DOMAIN fields : fields[k] = Failure
      BY <1>2, <2>2, <2>3, <2>5, <3>2, <3>3, <3>4 DEF Evaluate
    <3>5. CASE ~ \E k \in DOMAIN fields : fields[k] = Failure
      BY <1>2, <2>2, <2>3, <2>5, <3>2, <3>3, <3>5 DEF Evaluate
    <3> QED BY <3>4, <3>5
  <2> QED BY <2>4, <2>5
<1> QED BY <1>1, <1>2

-----------------------------------------------------------------------------
(* The tree of the result: an object for every prefix of a key, which its  *)
(* fields lead to, and values at the ends of the keys.                     *)

Prefix(path, n) == SubSeq(path, 1, n)

LEMMA PrefixFacts ==
    ASSUME NEW path, IsPath(path)
    PROVE  /\ Len(path) \in Nat
           /\ Prefix(path, 0) = <<>>
           /\ Prefix(path, Len(path)) = path
           /\ \A n \in 0..Len(path) : IsPath(Prefix(path, n)) /\ Len(Prefix(path, n)) = n
           /\ \A n \in 1..Len(path) :
                path[n] \in STRING /\ Prefix(path, n) = Append(Prefix(path, n - 1), path[n])
<1>1. path \in Seq(STRING) /\ Len(path) \in Nat
  BY LenProperties DEF IsPath
<1>2. \A n \in 0..Len(path) :
        /\ Prefix(path, n) \in Seq(STRING) /\ Len(Prefix(path, n)) = n
        /\ \A i \in 1..n : Prefix(path, n)[i] = path[i]
  BY <1>1, SubSeqProperties DEF Prefix
<1>3. Prefix(path, 0) = <<>>
  BY <1>1, <1>2, EmptySeq
<1>4. Prefix(path, Len(path)) = path
  BY <1>1, SubSeqFull DEF Prefix
<1>5. ASSUME NEW n \in 1..Len(path)
      PROVE  path[n] \in STRING /\ Prefix(path, n) = Append(Prefix(path, n - 1), path[n])
  <2>1. path[n] \in STRING
    BY <1>1, ElementOfSeq
  <2>2. PICK p \in Seq(STRING) : p = Prefix(path, n - 1) /\ Len(p) = n - 1 /\ \A i \in 1..n - 1 : p[i] = path[i]
    BY <1>1, <1>2
  <2>3. PICK q : q = Append(p, path[n])
    OBVIOUS
  <2>4. q \in Seq(STRING) /\ Len(q) = n /\ \A i \in 1..n : q[i] = path[i]
    <3>1. /\ q \in Seq(STRING) /\ Len(q) = (n - 1) + 1
          /\ \A i \in 1..n - 1 : q[i] = p[i]
          /\ q[(n - 1) + 1] = path[n]
      BY <2>1, <2>2, <2>3, AppendProperties
    <3> QED BY <1>1, <2>2, <3>1
  <2>5. Prefix(path, n) \in Seq(STRING) /\ Len(Prefix(path, n)) = n
    BY <1>1, <1>2
  <2>6. Prefix(path, n) = q
    BY <1>1, <1>2, <2>4, <2>5, SeqEqual
  <2> QED BY <2>1, <2>2, <2>3, <2>6
<1> QED BY <1>1, <1>2, <1>3, <1>4, <1>5 DEF IsPath

LEMMA PathAppend ==
    ASSUME NEW p, IsPath(p), NEW f \in STRING
    PROVE  /\ IsPath(Append(p, f)) /\ Append(p, f) # <<>>
           /\ Len(p) \in Nat /\ Len(Append(p, f)) = Len(p) + 1
           /\ Append(p, f)[Len(p) + 1] = f
           /\ \A i \in 1..Len(p) : Append(p, f)[i] = p[i]
<1>1. p \in Seq(STRING)
  BY DEF IsPath
<1>2. PICK q : q = Append(p, f)
  OBVIOUS
<1>3. /\ q \in Seq(STRING) /\ Len(q) = Len(p) + 1 /\ Len(p) \in Nat
      /\ q[Len(p) + 1] = f
      /\ \A i \in 1..Len(p) : q[i] = p[i]
  <2>1. Len(p) \in Nat
    BY <1>1, LenProperties
  <2>2. q \in Seq(STRING) /\ Len(q) = Len(p) + 1
    BY <1>1, <1>2, AppendProperties
  <2>3. q[Len(p) + 1] = f
    BY <1>1, <1>2, AppendProperties
  <2>4. \A i \in 1..Len(p) : q[i] = p[i]
    BY <1>1, <1>2, AppendProperties
  <2> QED BY <2>1, <2>2, <2>3, <2>4
<1>4. q # <<>>
  BY <1>3, EmptySeq
<1> QED BY <1>2, <1>3, <1>4 DEF IsPath

\* Two paths that end in a field are the same when they agree in both parts.
LEMMA AppendSame ==
    ASSUME NEW p, NEW q, IsPath(p), IsPath(q), NEW f \in STRING, NEW g \in STRING
    PROVE  Append(p, f) = Append(q, g) => p = q /\ f = g
<1>1. PICK s : s = Append(p, f)
  OBVIOUS
<1>2. PICK t : t = Append(q, g)
  OBVIOUS
<1>3. /\ Len(s) = Len(p) + 1 /\ s[Len(p) + 1] = f /\ Len(p) \in Nat
      /\ \A i \in 1..Len(p) : s[i] = p[i]
  BY <1>1, PathAppend
<1>4. /\ Len(t) = Len(q) + 1 /\ t[Len(q) + 1] = g /\ Len(q) \in Nat
      /\ \A i \in 1..Len(q) : t[i] = q[i]
  BY <1>2, PathAppend
<1>5. s = t => Len(p) = Len(q) /\ f = g /\ \A i \in 1..Len(p) : p[i] = q[i]
  <2>1. s = t => Len(p) = Len(q)
    BY <1>3, <1>4
  <2>2. s = t => f = g
    BY <1>3, <1>4, <2>1
  <2>3. ASSUME s = t, NEW i \in 1..Len(p) PROVE p[i] = q[i]
    BY <1>3, <1>4, <2>1, <2>3
  <2> QED BY <2>1, <2>2, <2>3
<1>6. s = t => p = q
  BY <1>5, SeqEqual DEF IsPath
<1> QED BY <1>1, <1>2, <1>5, <1>6

\* A path without its last word, and the field of that word.
Up(path)  == Prefix(path, Len(path) - 1)
End(path) == <<path[Len(path)]>>

LEMMA UpFacts ==
    ASSUME NEW q, IsPath(q), q # <<>>
    PROVE  /\ Len(q) \in Nat \ {0} /\ q[Len(q)] \in STRING
           /\ IsPath(Up(q)) /\ Len(Up(q)) = Len(q) - 1
           /\ q = Append(Up(q), q[Len(q)])
<1>1. Len(q) \in Nat \ {0}
  BY EmptySeq DEF IsPath
<1>2. Len(q) \in 1..Len(q) /\ Len(q) - 1 \in 0..Len(q)
  BY <1>1
<1> QED BY <1>1, <1>2, PrefixFacts DEF Up

\* Brothers differ in their last words.
LEMMA Brothers ==
    ASSUME NEW q, NEW r, IsPath(q), IsPath(r), q # <<>>, r # <<>>, Up(q) = Up(r), End(q) = End(r)
    PROVE  q = r
<1>1. q[Len(q)] = r[Len(r)]
  BY DEF End
<1>2. PICK p : p = Up(q)
  OBVIOUS
<1>3. PICK f : f = q[Len(q)]
  OBVIOUS
<1>4. q = Append(p, f)
  BY <1>2, <1>3, UpFacts
<1>5. r = Append(p, f)
  BY <1>1, <1>2, <1>3, UpFacts
<1> QED BY <1>4, <1>5

\* The way to a key goes up by one word.
LEMMA UpPrefix ==
    ASSUME NEW k, IsPath(k), NEW n \in 1..Len(k)
    PROVE  /\ IsPath(Prefix(k, n)) /\ Prefix(k, n) # <<>> /\ Len(Prefix(k, n)) = n
           /\ Up(Prefix(k, n)) = Prefix(k, n - 1)
           /\ Prefix(k, n)[n] = k[n]
<1>1. Len(k) \in Nat /\ n \in 0..Len(k) /\ n - 1 \in 0..Len(k)
  BY PrefixFacts
<1>2. PICK q : q = Prefix(k, n)
  OBVIOUS
<1>3. IsPath(q) /\ Len(q) = n
  BY <1>1, <1>2, PrefixFacts
<1>4. q # <<>>
  BY <1>3, EmptySeq
<1>5. PICK p : p = Prefix(k, n - 1)
  OBVIOUS
<1>6. IsPath(p) /\ Len(p) = n - 1 /\ k[n] \in STRING /\ q = Append(p, k[n])
  BY <1>1, <1>2, <1>5, PrefixFacts
<1>7. q[n] = k[n]
  <2>1. q[Len(p) + 1] = k[n]
    BY <1>6, PathAppend
  <2> QED BY <1>1, <1>6, <2>1
<1>8. PICK u : u = Up(q) /\ IsPath(u) /\ q = Append(u, k[n])
  BY <1>3, <1>4, <1>7, UpFacts
<1>9. Up(q) = p
  <2>1. PICK f \in STRING : f = k[n]
    BY <1>6
  <2>2. Append(u, f) = Append(p, f)
    BY <1>6, <1>8, <2>1
  <2>3. IsPath(u) /\ IsPath(p)
    BY <1>6, <1>8
  <2>4. u = p
    BY <2>2, <2>3, AppendSame, Zenon
  <2> QED BY <1>8, <2>4
<1> QED BY <1>2, <1>3, <1>4, <1>5, <1>7, <1>9

-----------------------------------------------------------------------------
(* What the value of key k looks like in heap h, for a tree with an object *)
(* node[p] for each path p of P; and the tree, with the values of keys K.  *)

Leaf(h, node, P, k, v) ==
    LET e == Evaluate(source, table[k]) IN
    /\ IF table[k].op = "apply"
       THEN v.tag = "ref" /\ e.value.tag = "ref" /\ h[v.object] = e.heap[e.value.object]
       ELSE v = e.value
    /\ v.tag = "ref" => v.object \in 1..Len(h) /\ \A p \in P : node[p] # v.object

IsObject(x) == x = [f \in DOMAIN x |-> x[f]]

Tree(h, node, P, K) ==
    /\ Has(h, source)
    /\ node \in [P -> Result..Len(h)] /\ \A p, q \in P : node[p] = node[q] => p = q
    /\ <<>> \in P /\ node[<<>>] = Result
    /\ \A p \in P : IsPath(p) /\ p \notin OrdinaryKeys
    /\ \A p \in P : IsObject(h[node[p]])
    /\ \A p \in P : DOMAIN h[node[p]] = {End(q) : q \in {r \in P \cup K : r # <<>> /\ Up(r) = p}}
    /\ \A q \in P \ {<<>>} : Up(q) \in P /\ h[node[Up(q)]][End(q)] = Ref(node[q])
    /\ \A k \in K : Up(k) \in P /\ Leaf(h, node, P, k, h[node[Up(k)]][End(k)])

\* The paths that lead to keys.
Paths(K) == {<<>>} \cup UNION {{Prefix(k, n) : n \in 0..Len(k) - 1} : k \in K}

Kept == OrdinaryKeys \ todo

IInv ==
    /\ table \in Tables /\ source \in Documents
    /\ todo \subseteq DOMAIN table
    /\ outcome = "done" => todo = {}
    /\ Separate => \E node \in [Paths(Kept) -> DOMAIN heap] : Tree(heap, node, Paths(Kept), Kept)

LEMMA KeyFacts ==
    ASSUME table \in Tables, source \in Documents
    PROVE  /\ \A k \in DOMAIN table : IsPath(k) /\ k # <<>> /\ IsTemplate(table[k])
           /\ \A k \in OrdinaryKeys : k \in DOMAIN table /\ IsPath(k) /\ k # <<>>
           /\ IsDocument(source) /\ IsHeap(source) /\ Len(source) \in Nat \ {0} /\ Result = Len(source) + 1
BY TablesAssumption, DocumentsAssumption, DocumentShape DEF IsTable, OrdinaryKeys, Result

-----------------------------------------------------------------------------
(* What keeps a tree a tree. *)

\* Values stay what they are when no object changes but those of the tree, and the new
\* objects of the tree come behind all others.
LEMMA LeafStays ==
    ASSUME NEW h, NEW node, NEW P, NEW k, NEW v, Leaf(h, node, P, k, v),
           NEW g, NEW new, NEW Q, Len(h) \in Nat, Len(g) \in Nat, Len(g) >= Len(h),
           \A o \in 1..Len(h) : (\A p \in P : node[p] # o) => g[o] = h[o],
           \A q \in Q : new[q] > Len(h) \/ \E p \in P : new[q] = node[p]
    PROVE  Leaf(g, new, Q, k, v)
<1> DEFINE e == Evaluate(source, table[k])
<1>1. v.tag = "ref" => v.object \in 1..Len(h) /\ \A p \in P : node[p] # v.object
  BY DEF Leaf
<1>2. v.tag = "ref" => v.object \in 1..Len(g) /\ g[v.object] = h[v.object] /\ \A q \in Q : new[q] # v.object
  BY <1>1
<1>3. IF table[k].op = "apply"
      THEN v.tag = "ref" /\ e.value.tag = "ref" /\ h[v.object] = e.heap[e.value.object]
      ELSE v = e.value
  BY DEF Leaf
<1> HIDE DEF e
<1>4. IF table[k].op = "apply"
      THEN v.tag = "ref" /\ e.value.tag = "ref" /\ g[v.object] = e.heap[e.value.object]
      ELSE v = e.value
  BY <1>2, <1>3
<1> QED BY <1>2, <1>4 DEF Leaf, e

\* New objects at the end.
LEMMA TreeExtended ==
    ASSUME table \in Tables, source \in Documents,
           NEW h, NEW node, NEW P, NEW K, K \subseteq OrdinaryKeys, Tree(h, node, P, K),
           NEW g, IsHeap(g), Len(g) >= Len(h), \A o \in 1..Len(h) : g[o] = h[o]
    PROVE  Tree(g, node, P, K) /\ \A k, v : Leaf(h, node, P, k, v) => Leaf(g, node, P, k, v)
<1>1. Len(h) \in Nat /\ Len(g) \in Nat /\ Len(h) >= Len(source) /\ Len(source) \in Nat /\ Result = Len(source) + 1
  BY HeapShape, KeyFacts DEF Tree, Has
<1>2. Has(g, source)
  BY <1>1 DEF Tree, Has
<1>3. node \in [P -> Result..Len(g)] /\ \A p \in P : node[p] \in 1..Len(h) /\ g[node[p]] = h[node[p]]
  BY <1>1 DEF Tree
<1>4. ASSUME NEW k, NEW v, Leaf(h, node, P, k, v) PROVE Leaf(g, node, P, k, v)
  BY <1>1, <1>4, LeafStays
<1>5. \A k \in K : Up(k) \in P /\ Leaf(g, node, P, k, g[node[Up(k)]][End(k)])
  BY <1>3, <1>4 DEF Tree
<1>6. \A q \in P \ {<<>>} : Up(q) \in P /\ g[node[Up(q)]][End(q)] = Ref(node[q])
  BY <1>3 DEF Tree
<1>7. \A p \in P : DOMAIN g[node[p]] = {End(q) : q \in {r \in P \cup K : r # <<>> /\ Up(r) = p}}
  BY <1>3 DEF Tree
<1>8. /\ \A p, q \in P : node[p] = node[q] => p = q
      /\ <<>> \in P /\ node[<<>>] = Result
      /\ \A p \in P : IsPath(p) /\ p \notin OrdinaryKeys
      /\ \A p \in P : IsObject(g[node[p]])
  BY <1>3 DEF Tree
<1> QED BY <1>2, <1>3, <1>4, <1>5, <1>6, <1>7, <1>8 DEF Tree

\* One step of SetPath leads to an object of the tree, which may get a new one.
LEMMA TreeDescend ==
    ASSUME table \in Tables, source \in Documents,
           NEW h, NEW node, NEW P, NEW K, K \subseteq OrdinaryKeys, Tree(h, node, P, K),
           NEW q, IsPath(q), q # <<>>, q \notin OrdinaryKeys, Up(q) \in P
    PROVE  \E g, new :
             /\ Descend([heap |-> h, object |-> node[Up(q)]], q[Len(q)]) = [heap |-> g, object |-> new[q]]
             /\ Tree(g, new, P \cup {q}, K)
             /\ \A k, v : Leaf(h, node, P, k, v) => Leaf(g, new, P \cup {q}, k, v)
<1> DEFINE p == Up(q)
           o == node[p]
           f == End(q)
           at == [heap |-> h, object |-> o]
           there == FieldOf(h, Ref(o), f)
<1>1. /\ IsHeap(h) /\ Len(h) \in Nat /\ Len(source) \in Nat /\ Result = Len(source) + 1
      /\ o \in Result..Len(h) /\ o \in 1..Len(h)
  BY HeapShape, KeyFacts DEF Tree, Has
<1>2. /\ DOMAIN h[o] = {End(r) : r \in {r \in P \cup K : r # <<>> /\ Up(r) = p}}
      /\ \A r \in P \cup K : IsPath(r)
      /\ \A r \in P \cup K : r # <<>> => Up(r) \in P
  BY KeyFacts DEF Tree
<1>3. f \in DOMAIN h[o] <=> q \in P
  <2>1. q \in P => f \in DOMAIN h[o]
    BY <1>2
  <2>2. ASSUME f \in DOMAIN h[o] PROVE q \in P
    <3>1. PICK r \in P \cup K : r # <<>> /\ Up(r) = p /\ End(r) = f
      BY <1>2, <2>2
    <3>2. r = q
      BY <1>2, <3>1, Brothers
    <3> QED BY <3>1, <3>2
  <2> QED BY <2>1, <2>2
<1>4. Descend([heap |-> h, object |-> node[Up(q)]], q[Len(q)])
        = IF there.tag = "ref" THEN [at EXCEPT !.object = there.object] ELSE Make(at, q[Len(q)])
  BY DEF Descend, End
<1>5. CASE q \in P
  <2>1. there = Ref(node[q])
    <3>1. h[o][f] = Ref(node[q]) /\ f \in DOMAIN h[o]
      BY <1>3, <1>5 DEF Tree
    <3> QED BY <3>1 DEF FieldOf, Ref
  <2>2. there.tag = "ref" /\ there.object = node[q]
    BY <2>1 DEF Ref
  <2>3. Descend([heap |-> h, object |-> node[Up(q)]], q[Len(q)]) = [heap |-> h, object |-> node[q]]
    BY <1>4, <2>2
  <2>4. P \cup {q} = P
    BY <1>5
  <2> QED BY <2>3, <2>4
<1>6. CASE q \notin P
  <2> DEFINE m == Len(h) + 1
             changed == [h EXCEPT ![o] = Put(h[o], f, Ref(m))]
             g == Append(changed, EmptyObject)
             Q == P \cup {q}
             new == [r \in Q |-> IF r = q THEN m ELSE node[r]]
  <2>1. there.tag # "ref"
    BY <1>3, <1>6 DEF FieldOf, Ref, Missing
  <2>2. Make(at, q[Len(q)]) = [heap |-> g, object |-> m]
    BY DEF Make, End
  <2>3. new[q] = m /\ \A r \in P : new[r] = node[r]
    BY <1>6
  <2>4. Descend([heap |-> h, object |-> node[Up(q)]], q[Len(q)]) = [heap |-> g, object |-> new[q]]
    BY <1>4, <2>1, <2>2, <2>3
  <2>5. /\ IsHeap(changed) /\ Len(changed) = Len(h)
        /\ \A x \in 1..Len(h) \ {o} : changed[x] = h[x]
        /\ changed[o] = Put(h[o], f, Ref(m))
    <3> HIDE DEF o, f, m
    <3>1. PICK x : x = Put(h[o], f, Ref(m))
      OBVIOUS
    <3>2. PICK c : c = [h EXCEPT ![o] = x]
      OBVIOUS
    <3>3. /\ DOMAIN c = DOMAIN h /\ c = [y \in DOMAIN c |-> c[y]]
          /\ (\A y \in 1..Len(h) \ {o} : c[y] = h[y]) /\ c[o] = x
      BY <1>1, <3>2, HeapShape
    <3>4. IsHeap(c) /\ Len(c) = Len(h)
      BY <1>1, <3>3, HeapChanged
    <3> QED BY <3>1, <3>2, <3>3, <3>4
  <2>6. /\ IsHeap(g) /\ Len(g) = m /\ Len(g) \in Nat
        /\ \A x \in 1..Len(h) \ {o} : g[x] = h[x]
        /\ g[o] = Put(h[o], f, Ref(m))
        /\ g[m] = EmptyObject
    <3> HIDE DEF changed
    <3>1. /\ IsHeap(g) /\ Len(g) = Len(changed) + 1
          /\ \A x \in 1..Len(changed) : g[x] = changed[x]
          /\ g[Len(changed) + 1] = EmptyObject
      BY <2>5, HeapAppend
    <3> QED BY <1>1, <2>5, <3>1
  <2>7. \A r \in P : node[r] \in Result..Len(h) /\ (r # p => node[r] # o)
    BY DEF Tree
  <2>8. /\ DOMAIN g[o] = DOMAIN h[o] \cup {f}
        /\ g[o][f] = Ref(m)
        /\ \A x \in DOMAIN h[o] \ {f} : g[o][x] = h[o][x]
    <3> HIDE DEF g, o, f, m
    <3>1. PICK put : put = Put(h[o], f, Ref(m))
      OBVIOUS
    <3>2. DOMAIN put = DOMAIN h[o] \cup {f} /\ put[f] = Ref(m) /\ \A x \in DOMAIN h[o] \ {f} : put[x] = h[o][x]
      BY <3>1 DEF Put
    <3>3. g[o] = put
      BY <2>6, <3>1
    <3> QED BY <3>2, <3>3
  <2> HIDE DEF g, changed, new
  <2>9. ASSUME NEW k, NEW v, Leaf(h, node, P, k, v) PROVE Leaf(g, new, Q, k, v)
    <3>1. \A x \in 1..Len(h) : (\A r \in P : node[r] # x) => g[x] = h[x]
      BY <2>6
    <3>2. \A r \in Q : new[r] > Len(h) \/ \E x \in P : new[r] = node[x]
      BY <1>1, <2>3
    <3> QED BY <1>1, <2>6, <2>9, <3>1, <3>2, LeafStays
  <2>10. Has(g, source)
    BY <1>1, <2>6 DEF Tree, Has
  <2>11. new \in [Q -> Result..Len(g)]
    BY <1>1, <2>3, <2>6, <2>7 DEF new
  <2>12. \A r, s \in Q : new[r] = new[s] => r = s
    <3>1. \A r, s \in P : node[r] = node[s] => r = s
      BY DEF Tree
    <3> QED BY <1>1, <2>3, <2>7, <3>1
  <2>13. <<>> \in Q /\ new[<<>>] = Result /\ \A r \in Q : IsPath(r) /\ r \notin OrdinaryKeys
    BY <2>3 DEF Tree
  <2>14. ASSUME NEW r \in P, r # p PROVE g[new[r]] = h[node[r]]
    BY <1>1, <2>3, <2>6, <2>7, <2>14
  <2>15. ASSUME NEW r \in Q
         PROVE  DOMAIN g[new[r]] = {End(s) : s \in {t \in Q \cup K : t # <<>> /\ Up(t) = r}}
    <3>1. CASE r \in P /\ r # p
      <4>1. DOMAIN g[new[r]] = {End(s) : s \in {t \in P \cup K : t # <<>> /\ Up(t) = r}}
        BY <2>14, <3>1 DEF Tree
      <4>2. {t \in Q \cup K : t # <<>> /\ Up(t) = r} = {t \in P \cup K : t # <<>> /\ Up(t) = r}
        BY <3>1
      <4> QED BY <4>1, <4>2
    <3>2. CASE r = p
      <4>1. {t \in Q \cup K : t # <<>> /\ Up(t) = r} = {t \in P \cup K : t # <<>> /\ Up(t) = r} \cup {q}
        BY <3>2
      <4>2. DOMAIN g[new[r]] = DOMAIN h[o] \cup {f}
        BY <2>3, <2>8, <3>2
      <4> QED BY <1>2, <3>2, <4>1, <4>2
    <3>3. CASE r = q
      <4>1. \A t \in Q \cup K : t # <<>> => Up(t) # q
        BY <1>2, <1>6
      <4>2. DOMAIN g[new[r]] = {}
        BY <2>3, <2>6, <3>3 DEF EmptyObject
      <4> QED BY <3>3, <4>1, <4>2
    <3> QED BY <3>1, <3>2, <3>3
  <2>16. ASSUME NEW r \in P \cup K, r # <<>>, r # q
         PROVE  Up(r) \in P /\ g[new[Up(r)]][End(r)] = h[node[Up(r)]][End(r)]
    <3>1. IsPath(r) /\ Up(r) \in P
      BY <1>2, <2>16
    <3>2. CASE Up(r) # p
      BY <2>14, <3>1, <3>2
    <3>3. CASE Up(r) = p
      <4>1. End(r) \in DOMAIN h[o]
        BY <1>2, <2>16, <3>3
      <4>2. End(r) # f
        BY <2>16, <3>1, <3>3, Brothers
      <4> QED BY <2>3, <2>8, <3>1, <3>3, <4>1, <4>2
    <3> QED BY <3>1, <3>2, <3>3
  <2>17. ASSUME NEW r \in Q \ {<<>>} PROVE Up(r) \in Q /\ g[new[Up(r)]][End(r)] = Ref(new[r])
    <3>1. CASE r = q
      BY <2>3, <2>8, <3>1
    <3>2. CASE r # q
      <4>1. h[node[Up(r)]][End(r)] = Ref(node[r])
        BY <3>2 DEF Tree
      <4> QED BY <2>3, <2>16, <3>2, <4>1
    <3> QED BY <3>1, <3>2
  <2>18. ASSUME NEW k \in K PROVE Up(k) \in Q /\ Leaf(g, new, Q, k, g[new[Up(k)]][End(k)])
    <3>1. k # <<>> /\ k # q
      BY KeyFacts
    <3>2. Leaf(h, node, P, k, h[node[Up(k)]][End(k)])
      BY DEF Tree
    <3> QED BY <2>9, <2>16, <3>1, <3>2
  <2>19. ASSUME NEW r \in Q PROVE IsObject(g[new[r]])
    <3>1. CASE r \in P /\ r # p
      BY <2>14, <3>1 DEF Tree
    <3>2. CASE r = p
      <4>1. g[new[r]] = Put(h[o], f, Ref(m))
        BY <2>3, <2>6, <3>2
      <4> HIDE DEF o, f, m
      <4> QED BY <4>1 DEF Put, IsObject
    <3>3. CASE r = q
      <4>1. g[new[r]] = EmptyObject
        BY <2>3, <2>6, <3>3
      <4> QED BY <4>1 DEF EmptyObject, IsObject
    <3> QED BY <3>1, <3>2, <3>3
  <2>20. Tree(g, new, Q, K)
    BY <2>10, <2>11, <2>12, <2>13, <2>15, <2>17, <2>18, <2>19 DEF Tree
  <2> QED BY <2>4, <2>9, <2>20
<1> QED BY <1>5, <1>6

\* The last step of SetPath adds the value of a key to the tree.
LEMMA TreeWrite ==
    ASSUME table \in Tables, source \in Documents,
           NEW h, NEW node, NEW P, NEW K, K \subseteq OrdinaryKeys, Tree(h, node, P, K),
           NEW k \in OrdinaryKeys, k \notin K, Up(k) \in P, NEW v, Leaf(h, node, P, k, v)
    PROVE  Tree([h EXCEPT ![node[Up(k)]] = Put(@, End(k), v)], node, P, K \cup {k})
<1> DEFINE p == Up(k)
           o == node[p]
           f == End(k)
           L == K \cup {k}
<1>1. /\ IsHeap(h) /\ Len(h) \in Nat /\ Len(source) \in Nat /\ Result = Len(source) + 1
      /\ o \in Result..Len(h) /\ o \in 1..Len(h)
      /\ IsPath(k) /\ k # <<>> /\ k \notin P
  BY HeapShape, KeyFacts DEF Tree, Has
<1>2. /\ DOMAIN h[o] = {End(r) : r \in {r \in P \cup K : r # <<>> /\ Up(r) = p}}
      /\ \A r \in P \cup K : IsPath(r)
      /\ \A r \in P \cup K : r # <<>> => Up(r) \in P
      /\ \A r \in K : r # <<>>
  BY KeyFacts DEF Tree
<1>3. PICK put : put = Put(h[o], f, v)
  OBVIOUS
<1>4. PICK g : g = [h EXCEPT ![o] = put]
  OBVIOUS
<1>5. g = [h EXCEPT ![node[Up(k)]] = Put(@, End(k), v)]
  BY <1>3, <1>4
<1> HIDE DEF o, f
<1>6. DOMAIN put = DOMAIN h[o] \cup {f} /\ put[f] = v /\ \A x \in DOMAIN h[o] \ {f} : put[x] = h[o][x]
  BY <1>3 DEF Put
<1>7. /\ DOMAIN g = DOMAIN h /\ g = [y \in DOMAIN g |-> g[y]]
      /\ (\A y \in 1..Len(h) \ {o} : g[y] = h[y]) /\ g[o] = put
  BY <1>1, <1>4, HeapShape
<1>8. IsHeap(g) /\ Len(g) = Len(h)
  BY <1>1, <1>7, HeapChanged
<1>9. \A r \in P : node[r] \in Result..Len(h) /\ (r # p => node[r] # o)
  BY DEF Tree, o
<1>10. ASSUME NEW l, NEW w, Leaf(h, node, P, l, w) PROVE Leaf(g, node, P, l, w)
  <2>1. \A y \in 1..Len(h) : (\A r \in P : node[r] # y) => g[y] = h[y]
    BY <1>7 DEF o
  <2> QED BY <1>1, <1>8, <1>10, <2>1, LeafStays
<1>11. Has(g, source)
  BY <1>1, <1>7, <1>8 DEF Tree, Has
<1>12. ASSUME NEW r \in P, r # p PROVE g[node[r]] = h[node[r]]
  BY <1>1, <1>7, <1>9, <1>12
<1>13. ASSUME NEW r \in P
       PROVE  DOMAIN g[node[r]] = {End(s) : s \in {t \in P \cup L : t # <<>> /\ Up(t) = r}}
  <2>1. CASE r # p
    <3>1. DOMAIN g[node[r]] = {End(s) : s \in {t \in P \cup K : t # <<>> /\ Up(t) = r}}
      BY <1>12, <2>1 DEF Tree
    <3>2. {t \in P \cup L : t # <<>> /\ Up(t) = r} = {t \in P \cup K : t # <<>> /\ Up(t) = r}
      BY <2>1
    <3> QED BY <3>1, <3>2
  <2>2. CASE r = p
    <3>1. {t \in P \cup L : t # <<>> /\ Up(t) = r} = {t \in P \cup K : t # <<>> /\ Up(t) = r} \cup {k}
      BY <1>1, <2>2
    <3>2. DOMAIN g[node[r]] = DOMAIN h[o] \cup {f}
      BY <1>6, <1>7, <2>2 DEF o
    <3> QED BY <1>2, <2>2, <3>1, <3>2 DEF f
  <2> QED BY <2>1, <2>2
<1>14. ASSUME NEW r \in P \cup K, r # <<>>
       PROVE  Up(r) \in P /\ g[node[Up(r)]][End(r)] = h[node[Up(r)]][End(r)]
  <2>1. IsPath(r) /\ Up(r) \in P /\ r # k
    BY <1>1, <1>2, <1>14
  <2>2. CASE Up(r) # p
    BY <1>12, <2>1, <2>2
  <2>3. CASE Up(r) = p
    <3>1. End(r) \in DOMAIN h[o]
      BY <1>2, <1>14, <2>3
    <3>2. End(r) # f
      BY <1>1, <1>14, <2>1, <2>3, Brothers DEF f
    <3> QED BY <1>6, <1>7, <2>1, <2>3, <3>1, <3>2 DEF o
  <2> QED BY <2>1, <2>2, <2>3
<1>15. ASSUME NEW r \in P \ {<<>>} PROVE Up(r) \in P /\ g[node[Up(r)]][End(r)] = Ref(node[r])
  <2>1. h[node[Up(r)]][End(r)] = Ref(node[r])
    BY DEF Tree
  <2> QED BY <1>14, <2>1
<1>16. ASSUME NEW l \in L PROVE Up(l) \in P /\ Leaf(g, node, P, l, g[node[Up(l)]][End(l)])
  <2>1. CASE l = k
    <3>1. g[node[Up(l)]][End(l)] = v
      BY <1>6, <1>7, <2>1 DEF o, f
    <3> QED BY <1>10, <2>1, <3>1
  <2>2. CASE l \in K
    <3>1. Leaf(h, node, P, l, h[node[Up(l)]][End(l)])
      BY <2>2 DEF Tree
    <3> QED BY <1>2, <1>10, <1>14, <2>2, <3>1
  <2> QED BY <2>1, <2>2
<1>17. /\ node \in [P -> Result..Len(g)] /\ \A r, s \in P : node[r] = node[s] => r = s
       /\ <<>> \in P /\ node[<<>>] = Result
       /\ \A r \in P : IsPath(r) /\ r \notin OrdinaryKeys
  BY <1>8 DEF Tree
<1>18. ASSUME NEW r \in P PROVE IsObject(g[node[r]])
  <2>1. CASE r # p
    BY <1>12, <2>1 DEF Tree
  <2>2. CASE r = p
    <3>1. g[node[r]] = Put(h[o], f, v)
      BY <1>3, <1>7, <2>2 DEF o
    <3> QED BY <3>1 DEF Put, IsObject
  <2> QED BY <2>1, <2>2
<1>19. Tree(g, node, P, L)
  BY <1>11, <1>13, <1>15, <1>16, <1>17, <1>18 DEF Tree
<1> QED BY <1>5, <1>19

\* When no key begins another, SetPath adds a key to the tree.
LEMMA TreeSetPath ==
    ASSUME table \in Tables, source \in Documents, Separate,
           NEW h, NEW node, NEW P, NEW K, K \subseteq OrdinaryKeys, Tree(h, node, P, K),
           NEW k \in OrdinaryKeys, k \notin K, NEW v, Leaf(h, node, P, k, v)
    PROVE  \E new : Tree(SetPath(h, Result, k, v), new,
                         P \cup {Prefix(k, n) : n \in 0..Len(k) - 1}, K \cup {k})
<1>1. IsPath(k) /\ k # <<>> /\ Len(k) \in Nat \ {0}
  BY KeyFacts, UpFacts
<1>2. PICK at :
        /\ at[0] = [heap |-> h, object |-> Result]
        /\ \A n \in 1..Len(k) - 1 : at[n] = Descend(at[n - 1], k[n])
        /\ SetPath(h, Result, k, v) =
             LET end == at[Len(k) - 1] IN [end.heap EXCEPT ![end.object] = Put(@, <<k[Len(k)]>>, v)]
  BY <1>1, SetPathSteps
<1> DEFINE Way(n) == P \cup {Prefix(k, m) : m \in 0..n}
           Reached(n, g, new) == /\ at[n] = [heap |-> g, object |-> new[Prefix(k, n)]]
                                 /\ Tree(g, new, Way(n), K)
                                 /\ Leaf(g, new, Way(n), k, v)
           S == {n \in 0..Len(k) - 1 : \E g, new : Reached(n, g, new)}
<1>3. 0 \in S
  <2>1. Prefix(k, 0) = <<>> /\ <<>> \in P /\ node[<<>>] = Result
    BY <1>1, PrefixFacts DEF Tree
  <2>2. Way(0) = P
    BY <2>1
  <2>3. Reached(0, h, node)
    BY <1>2, <2>1, <2>2
  <2> HIDE DEF Reached
  <2> QED BY <1>1, <2>3
<1>4. ASSUME NEW n \in 0..Len(k) - 1, n \in S, n < Len(k) - 1 PROVE n + 1 \in S
  <2>1. PICK g, new : Reached(n, g, new)
    BY <1>4
  <2>2. PICK q : q = Prefix(k, n + 1)
    OBVIOUS
  <2>3. n + 1 \in 1..Len(k) - 1 /\ n + 1 \in 1..Len(k) /\ n \in Nat /\ (n + 1) - 1 = n
    BY <1>1, <1>4
  <2>4. IsPath(q) /\ q # <<>> /\ Len(q) = n + 1 /\ Up(q) = Prefix(k, n) /\ q[Len(q)] = k[n + 1]
    BY <1>1, <2>2, <2>3, UpPrefix
  <2>5. q \notin OrdinaryKeys
    <3>1. n + 1 \in 0..Len(k) /\ q # k
      BY <1>1, <2>3, <2>4
    <3> QED BY <2>2, <3>1 DEF Separate, Prefix
  <2>6. Up(q) \in Way(n)
    BY <2>3, <2>4
  <2>7. PICK f, next :
          /\ Descend([heap |-> g, object |-> new[Up(q)]], q[Len(q)]) = [heap |-> f, object |-> next[q]]
          /\ Tree(f, next, Way(n) \cup {q}, K)
          /\ \A l, w : Leaf(g, new, Way(n), l, w) => Leaf(f, next, Way(n) \cup {q}, l, w)
    <3> HIDE DEF Way
    <3> QED BY <2>1, <2>4, <2>5, <2>6, TreeDescend
  <2>8. at[n + 1] = Descend(at[n], k[n + 1])
    BY <1>2, <2>3
  <2>9. at[n + 1] = [heap |-> f, object |-> next[Prefix(k, n + 1)]]
    BY <2>1, <2>2, <2>4, <2>7, <2>8
  <2>10. Way(n + 1) = Way(n) \cup {q}
    BY <2>2, <2>3
  <2>11. Reached(n + 1, f, next)
    BY <2>1, <2>7, <2>9, <2>10
  <2> HIDE DEF Reached
  <2> QED BY <2>3, <2>11
<1>5. Len(k) - 1 \in S
  <2> HIDE DEF S
  <2>1. Len(k) - 1 \in Nat
    BY <1>1
  <2>2. 0..Len(k) - 1 \subseteq S
    BY <1>3, <1>4, <2>1, UpTo
  <2> QED BY <2>1, <2>2
<1>6. PICK g, new : Reached(Len(k) - 1, g, new)
  BY <1>5
<1>7. Up(k) = Prefix(k, Len(k) - 1) /\ Up(k) \in Way(Len(k) - 1)
  BY <1>1 DEF Up
<1>8. Tree([g EXCEPT ![new[Up(k)]] = Put(@, End(k), v)], new, Way(Len(k) - 1), K \cup {k})
  <2> HIDE DEF Way
  <2> QED BY <1>6, <1>7, TreeWrite
<1>9. SetPath(h, Result, k, v) = [g EXCEPT ![new[Up(k)]] = Put(@, End(k), v)]
  BY <1>2, <1>6, <1>7 DEF End
<1> QED BY <1>8, <1>9

-----------------------------------------------------------------------------
(* What templates yield may be put into the tree. *)

\* An object that a template yields without making one is the source's.
LEMMA ValueInside ==
    ASSUME NEW d, IsDocument(d), NEW o \in 1..Len(d), NEW t, IsTemplate(t), t.op # "apply",
           Value(Visits(d, t, Ref(o))).tag = "ref"
    PROVE  Value(Visits(d, t, Ref(o))).object \in 1..Len(d)
<1>1. PICK visits : visits = Visits(d, t, Ref(o))
  OBVIOUS
<1>2. Has(d, d)
  BY DocumentShape
<1>3. Value(visits).tag = "ref" => Value(visits) = visits[1] /\ Len(visits) = 1
  BY DEF Value, Failure, Null, List
<1>4. visits[1].tag = "ref" /\ Len(visits) = 1 /\ Value(visits) = visits[1]
  BY <1>1, <1>3
<1>5. ASSUME NEW v, v.tag = "ref" => v.object \in 1..Len(d), Visited(v).tag = "ref"
      PROVE  Visited(v).object \in 1..Len(d)
  BY <1>5 DEF Visited, Null
<1>6. ASSUME NEW path, IsPath(path), visits = <<Visited(Lookup(d, Ref(o), path))>>
      PROVE  visits[1].object \in 1..Len(d)
  <2>1. IsInside(Lookup(d, Ref(o), path), Len(d))
    BY <1>2, <1>6, LookupInside
  <2>2. visits[1] = Visited(Lookup(d, Ref(o), path))
    BY <1>6
  <2> QED BY <1>4, <1>5, <2>1, <2>2 DEF IsInside
<1>7. CASE t.op = "literal"
  BY <1>1, <1>4, <1>7 DEF Visits, Text
<1>8. CASE t.op = "field"
  BY <1>1, <1>6, <1>4, <1>8 DEF Visits, IsTemplate
<1>9. CASE t.op = "when"
  <2>1. visits \in {<<Failure>>, <<>>, <<Visited(Lookup(d, Ref(o), t.path))>>} /\ IsPath(t.path)
    BY <1>1, <1>9 DEF Visits, IsTemplate
  <2>2. visits # <<Failure>> /\ visits # <<>>
    BY <1>4 DEF Failure
  <2> QED BY <1>1, <1>4, <1>6, <2>1, <2>2
<1>10. CASE t.op = "each"
  <2>1. PICK items : items = Lookup(d, Ref(o), t.path)
    OBVIOUS
  <2>2. IsPath(t.path)
    BY <1>10 DEF IsTemplate
  <2>3. IsInside(items, Len(d))
    BY <1>2, <2>1, <2>2, LookupInside
  <2>4. visits \in {<<>>, <<Failure>>, [i \in DOMAIN items.values |-> Visited(FieldOf(d, items.values[i], t.field))]}
        /\ (items.tag # "list" => visits \in {<<>>, <<Failure>>})
    BY <1>1, <1>10, <2>1 DEF Visits
  <2>5. visits # <<Failure>> /\ visits # <<>>
    BY <1>4 DEF Failure
  <2>6. items.tag = "list" /\ visits = [i \in DOMAIN items.values |-> Visited(FieldOf(d, items.values[i], t.field))]
    BY <2>4, <2>5
  <2>7. 1 \in DOMAIN items.values /\ visits[1] = Visited(FieldOf(d, items.values[1], t.field))
    BY <1>4, <2>6
  <2>8. items.values[1].tag = "ref" => IsInside(items.values[1], Len(d))
    BY <2>3, <2>6, <2>7 DEF IsInside
  <2>9. FieldOf(d, items.values[1], t.field).tag = "ref" => FieldOf(d, items.values[1], t.field).object \in 1..Len(d)
    <3>1. CASE items.values[1].tag = "ref"
      BY <1>2, <2>8, <3>1, FieldInside DEF IsInside
    <3>2. CASE items.values[1].tag # "ref"
      BY <3>2 DEF FieldOf, Missing, Failure
    <3> QED BY <3>1, <3>2
  <2> QED BY <1>1, <1>4, <1>5, <2>7, <2>9
<1> QED BY <1>1, <1>4, <1>7, <1>8, <1>9, <1>10 DEF IsTemplate

LEMMA TreeEvaluate ==
    ASSUME table \in Tables, source \in Documents,
           NEW h, NEW node, NEW P, NEW K, K \subseteq OrdinaryKeys, Tree(h, node, P, K),
           NEW k \in DOMAIN table, Evaluate(h, table[k]).value # Failure
    PROVE  LET e == Evaluate(h, table[k]) IN
           Tree(e.heap, node, P, K) /\ Leaf(e.heap, node, P, k, e.value)
<1> DEFINE t == table[k]
           e == Evaluate(h, t)
           b == Evaluate(source, t)
<1>1. IsTemplate(t) /\ IsDocument(source) /\ Has(h, source) /\ IsHeap(h) /\ Len(h) \in Nat
      /\ Len(source) \in Nat \ {0} /\ Result = Len(source) + 1 /\ Len(h) >= Len(source)
      /\ node \in [P -> Result..Len(h)]
  BY KeyFacts, HeapShape DEF Tree, Has
<1>2. CASE t.op # "apply" /\ e = [value |-> b.value, heap |-> h]
  <2>1. b.value = Value(Visits(source, t, Ref(1)))
    BY <1>2 DEF Evaluate
  <2>2. b.value.tag = "ref" => b.value.object \in 1..Len(source)
    BY <1>1, <1>2, <2>1, ValueInside
  <2>3. e.value = b.value /\ e.heap = h
    BY <1>2
  <2> HIDE DEF e, b
  <2>4. \A p \in P : node[p] \in Nat /\ node[p] > Len(source)
    BY <1>1
  <2>5. b.value.tag = "ref" => b.value.object \in 1..Len(h) /\ \A p \in P : node[p] # b.value.object
    BY <1>1, <2>2, <2>4
  <2>6. Leaf(h, node, P, k, b.value)
    BY <1>2, <2>5 DEF Leaf, b
  <2> QED BY <2>3, <2>6 DEF e
<1>3. ASSUME NEW fields, t.op = "apply",
             e = [value |-> Ref(Len(h) + 1), heap |-> Append(h, fields)],
             b = [value |-> Ref(Len(source) + 1), heap |-> Append(source, fields)]
      PROVE  Tree(e.heap, node, P, K) /\ Leaf(e.heap, node, P, k, e.value)
  <2>1. PICK g : g = Append(h, fields)
    OBVIOUS
  <2>2. IsHeap(g) /\ Len(g) = Len(h) + 1 /\ (\A o \in 1..Len(h) : g[o] = h[o]) /\ g[Len(h) + 1] = fields
    BY <1>1, <2>1, HeapAppend
  <2>3. Tree(g, node, P, K)
    BY <1>1, <2>2, TreeExtended
  <2>4. Append(source, fields)[Len(source) + 1] = fields
    BY <1>1, HeapAppend, DocumentShape
  <2>5. e.value = Ref(Len(h) + 1) /\ e.heap = g /\ b.value = Ref(Len(source) + 1) /\ b.heap = Append(source, fields)
    BY <1>3, <2>1
  <2> HIDE DEF e, b
  <2>6. /\ e.value.tag = "ref" /\ e.value.object = Len(h) + 1
        /\ b.value.tag = "ref" /\ b.value.object = Len(source) + 1
    BY <2>5 DEF Ref
  <2>7. g[e.value.object] = b.heap[b.value.object]
    BY <2>2, <2>4, <2>5, <2>6
  <2>8. e.value.object \in 1..Len(g) /\ \A p \in P : node[p] # e.value.object
    BY <1>1, <2>2, <2>6
  <2>9. Leaf(g, node, P, k, e.value)
    BY <1>3, <2>6, <2>7, <2>8 DEF Leaf, b
  <2> QED BY <2>3, <2>5, <2>9
<1> QED BY <1>1, <1>2, <1>3, EvaluateInside

-----------------------------------------------------------------------------
(* What is found in the tree. *)

LEMMA TreeLookup ==
    ASSUME table \in Tables, source \in Documents,
           NEW h, NEW node, NEW P, NEW K, K \subseteq OrdinaryKeys, Tree(h, node, P, K),
           NEW k \in K, \A n \in 0..Len(k) - 1 : Prefix(k, n) \in P
    PROVE  /\ Lookup(h, Ref(Result), k) = h[node[Up(k)]][End(k)]
           /\ Leaf(h, node, P, k, Lookup(h, Ref(Result), k))
<1>1. IsPath(k) /\ k # <<>> /\ Len(k) \in Nat \ {0}
  BY KeyFacts, UpFacts
<1>2. PICK at : /\ at[0] = Ref(Result)
                /\ \A n \in 1..Len(k) : at[n] = FieldOf(h, at[n - 1], <<k[n]>>)
                /\ Lookup(h, Ref(Result), k) = at[Len(k)]
  <2>1. PICK v : v = Ref(Result)
    OBVIOUS
  <2>2. \E at : /\ at[0] = v
                /\ \A n \in 1..Len(k) : at[n] = FieldOf(h, at[n - 1], <<k[n]>>)
                /\ Lookup(h, v, k) = at[Len(k)]
    <3>1. IsPath(k)
      BY <1>1
    <3> QED BY <3>1, LookupSteps
  <2> QED BY <2>1, <2>2
<1>3. ASSUME NEW q \in P \cup K, q # <<>>
      PROVE  Up(q) \in P /\ FieldOf(h, Ref(node[Up(q)]), End(q)) = h[node[Up(q)]][End(q)]
  <2>1. Up(q) \in P
    BY <1>3 DEF Tree
  <2>2. DOMAIN h[node[Up(q)]] = {End(r) : r \in {r \in P \cup K : r # <<>> /\ Up(r) = Up(q)}}
    BY <2>1 DEF Tree
  <2>3. End(q) \in DOMAIN h[node[Up(q)]]
    BY <1>3, <2>2
  <2> QED BY <2>1, <2>3 DEF FieldOf, Ref
<1> DEFINE S == {n \in 0..Len(k) - 1 : at[n] = Ref(node[Prefix(k, n)])}
<1>4. 0 \in S
  <2>1. Prefix(k, 0) = <<>> /\ node[<<>>] = Result
    BY <1>1, PrefixFacts DEF Tree
  <2> QED BY <1>1, <1>2, <2>1
<1>5. ASSUME NEW n \in 0..Len(k) - 1, n \in S, n < Len(k) - 1 PROVE n + 1 \in S
  <2>1. PICK q : q = Prefix(k, n + 1)
    OBVIOUS
  <2>2. n + 1 \in 0..Len(k) - 1 /\ n + 1 \in 1..Len(k) /\ (n + 1) - 1 = n
    BY <1>1, <1>5
  <2>3. q \in P /\ q # <<>> /\ Len(q) = n + 1 /\ Up(q) = Prefix(k, n) /\ q[n + 1] = k[n + 1]
    BY <1>1, <2>1, <2>2, UpPrefix
  <2>4. End(q) = <<k[n + 1]>>
    BY <2>3 DEF End
  <2>5. h[node[Up(q)]][End(q)] = Ref(node[q])
    BY <2>3 DEF Tree
  <2>6. at[n + 1] = FieldOf(h, at[n], <<k[n + 1]>>) /\ at[n] = Ref(node[Up(q)])
    BY <1>2, <1>5, <2>2, <2>3
  <2>7. at[n + 1] = Ref(node[q])
    BY <1>3, <2>3, <2>4, <2>5, <2>6
  <2> QED BY <2>1, <2>2, <2>7
<1>6. Len(k) - 1 \in S
  <2> HIDE DEF S
  <2>1. Len(k) - 1 \in Nat
    BY <1>1
  <2>2. 0..Len(k) - 1 \subseteq S
    BY <1>4, <1>5, <2>1, UpTo
  <2> QED BY <2>1, <2>2
<1>7. at[Len(k) - 1] = Ref(node[Up(k)])
  BY <1>6 DEF Up
<1>8. Lookup(h, Ref(Result), k) = FieldOf(h, Ref(node[Up(k)]), End(k))
  BY <1>1, <1>2, <1>7 DEF End
<1>9. Lookup(h, Ref(Result), k) = h[node[Up(k)]][End(k)]
  BY <1>1, <1>3, <1>8
<1> QED BY <1>9 DEF Tree

-----------------------------------------------------------------------------
(* Every step keeps the invariant. *)

LEMMA InitInvariant == Init => IInv
<1> SUFFICES ASSUME Init PROVE IInv
  OBVIOUS
<1>1. /\ table \in Tables /\ source \in Documents /\ heap = Append(source, EmptyObject)
      /\ todo = DOMAIN table /\ outcome = "running"
  BY DEF Init
<1>2. Kept = {} /\ Paths(Kept) = {<<>>}
  BY <1>1 DEF Kept, OrdinaryKeys, Paths
<1>3. /\ IsHeap(heap) /\ Len(heap) = Len(source) + 1 /\ \A o \in 1..Len(source) : heap[o] = source[o]
      /\ heap[Result] = EmptyObject /\ Result = Len(source) + 1 /\ Len(source) \in Nat /\ Result \in DOMAIN heap
  BY <1>1, KeyFacts, HeapAppend, HeapShape
<1> DEFINE node == [p \in {<<>>} |-> Result]
<1>4. Tree(heap, node, {<<>>}, {})
  <2>1. Has(heap, source)
    BY <1>3 DEF Has
  <2>2. IsPath(<<>>) /\ <<>> \notin OrdinaryKeys
    BY <1>1, KeyFacts DEF IsPath
  <2>3. DOMAIN heap[node[<<>>]] = {} /\ IsObject(heap[node[<<>>]])
    BY <1>3 DEF EmptyObject, IsObject
  <2>4. node \in [{<<>>} -> Result..Len(heap)]
    BY <1>3
  <2> QED BY <2>1, <2>2, <2>3, <2>4 DEF Tree
<1>5. node \in [{<<>>} -> DOMAIN heap]
  BY <1>3
<1> HIDE DEF node
<1> QED BY <1>1, <1>2, <1>4, <1>5 DEF IInv

LEMMA StepInvariant == IInv /\ [Next]_vars => IInv'
<1> SUFFICES ASSUME IInv, [Next]_vars PROVE IInv'
  OBVIOUS
<1>1. table \in Tables /\ source \in Documents /\ todo \subseteq DOMAIN table
  BY DEF IInv
<1>2. table' = table /\ source' = source
  BY DEF Next, vars, VisitFails, VisitOrdinary, VisitSpecial, Return, Returned
<1>3. OrdinaryKeys' = OrdinaryKeys /\ (Separate' <=> Separate) /\ Result' = Result
  BY <1>2 DEF OrdinaryKeys, Separate, Result
<1>4. ASSUME NEW h, NEW node, NEW P, NEW K, Tree(h, node, P, K) PROVE Tree(h, node, P, K)'
  <2>1. \A k, v : Leaf(h, node, P, k, v)' <=> Leaf(h, node, P, k, v)
    BY <1>2 DEF Leaf
  <2> QED BY <1>2, <1>3, <1>4, <2>1 DEF Tree
<1>5. ASSUME NEW h, NEW node, NEW K, h = heap', K = Kept', Tree(h, node, Paths(K), K)
      PROVE  (\E new \in [Paths(Kept) -> DOMAIN heap] : Tree(heap, new, Paths(Kept), Kept))'
  <2>1. Tree(h, node, Paths(K), K)'
    BY <1>4, <1>5
  <2>2. node \in [Paths(K) -> DOMAIN h]
    <3>1. node \in [Paths(K) -> Result..Len(h)] /\ IsHeap(h) /\ Result \in Nat \ {0}
      BY <1>1, <1>5, KeyFacts DEF Tree, Has
    <3>2. DOMAIN h = 1..Len(h)
      BY <3>1, HeapShape
    <3> QED BY <3>1, <3>2
  <2> QED BY <1>5, <2>1, <2>2
<1>6. ASSUME UNCHANGED <<heap, todo>>, outcome' = "done" => todo = {} PROVE IInv'
  <2>1. Kept' = Kept
    BY <1>3, <1>6 DEF Kept
  <2>2. ASSUME Separate
        PROVE  (\E new \in [Paths(Kept) -> DOMAIN heap] : Tree(heap, new, Paths(Kept), Kept))'
    BY <1>5, <1>6, <2>1, <2>2 DEF IInv
  <2> QED BY <1>1, <1>2, <1>3, <1>6, <2>2 DEF IInv
<1>7. ASSUME NEW k \in DOMAIN table, k \in todo, Separate, Evaluate(heap, table[k]).value # Failure
      PROVE  LET e == Evaluate(heap, table[k]) IN
             \E node : Tree(e.heap, node, Paths(Kept), Kept) /\ Leaf(e.heap, node, Paths(Kept), k, e.value)
  <2>1. PICK node : Tree(heap, node, Paths(Kept), Kept)
    BY <1>7 DEF IInv
  <2>2. Kept \subseteq OrdinaryKeys
    BY DEF Kept
  <2> QED BY <1>1, <1>7, <2>1, <2>2, TreeEvaluate
<1>8. ASSUME NEW k \in DOMAIN table, VisitOrdinary(k) PROVE IInv'
  <2> DEFINE e == Evaluate(heap, table[k])
  <2>1. /\ k \in todo /\ ~IsSpecial(k) /\ todo' = todo \ {k} /\ outcome = "running" /\ outcome' = outcome
        /\ e.value # Failure /\ heap' = SetPath(e.heap, Result, k, e.value)
    BY <1>8 DEF VisitOrdinary
  <2>2. k \in OrdinaryKeys /\ k \notin Kept /\ Kept' = Kept \cup {k} /\ Kept \subseteq OrdinaryKeys
    BY <1>3, <2>1 DEF Kept, OrdinaryKeys
  <2>3. ASSUME Separate
        PROVE  (\E new \in [Paths(Kept) -> DOMAIN heap] : Tree(heap, new, Paths(Kept), Kept))'
    <3>1. PICK node : Tree(e.heap, node, Paths(Kept), Kept) /\ Leaf(e.heap, node, Paths(Kept), k, e.value)
      BY <1>7, <2>1, <2>3
    <3>2. PICK h, v, K : h = e.heap /\ v = e.value /\ K = Kept
      OBVIOUS
    <3>3. PICK new : Tree(SetPath(h, Result, k, v), new, Paths(K) \cup {Prefix(k, n) : n \in 0..Len(k) - 1}, K \cup {k})
      <4>1. PICK P : P = Paths(K)
        OBVIOUS
      <4>2. Tree(h, node, P, K) /\ Leaf(h, node, P, k, v)
        BY <3>1, <3>2, <4>1
      <4>3. K \subseteq OrdinaryKeys /\ k \in OrdinaryKeys /\ k \notin K
        BY <2>2, <3>2
      <4>4. \E new : Tree(SetPath(h, Result, k, v), new, P \cup {Prefix(k, n) : n \in 0..Len(k) - 1}, K \cup {k})
        BY <1>1, <2>3, <4>2, <4>3, TreeSetPath
      <4> QED BY <4>1, <4>4
    <3>4. Paths(K) \cup {Prefix(k, n) : n \in 0..Len(k) - 1} = Paths(K \cup {k})
      BY DEF Paths
    <3>5. PICK g, L : g = heap' /\ L = Kept'
      OBVIOUS
    <3>6. g = SetPath(h, Result, k, v) /\ L = K \cup {k}
      BY <2>1, <2>2, <3>2, <3>5
    <3>7. Tree(g, new, Paths(L), L)
      BY <3>3, <3>4, <3>6
    <3> QED BY <1>5, <3>5, <3>7
  <2> QED BY <1>1, <1>2, <1>3, <2>1, <2>3 DEF IInv
<1>9. ASSUME NEW k \in DOMAIN table, VisitSpecial(k) PROVE IInv'
  <2> DEFINE e == Evaluate(heap, table[k])
  <2>1. /\ k \in todo /\ IsSpecial(k) /\ todo' = todo \ {k} /\ outcome = "running" /\ outcome' = outcome
        /\ e.value # Failure /\ heap' = e.heap
    BY <1>9 DEF VisitSpecial
  <2>2. Kept' = Kept
    BY <1>3, <2>1 DEF Kept, OrdinaryKeys
  <2>3. ASSUME Separate
        PROVE  (\E new \in [Paths(Kept) -> DOMAIN heap] : Tree(heap, new, Paths(Kept), Kept))'
    <3>1. PICK node : Tree(e.heap, node, Paths(Kept), Kept)
      BY <1>7, <2>1, <2>3
    <3> QED BY <1>5, <2>1, <2>2, <3>1
  <2> QED BY <1>1, <1>2, <1>3, <2>1, <2>3 DEF IInv
<1>10. ASSUME NEW k \in DOMAIN table, VisitFails(k) PROVE IInv'
  BY <1>6, <1>10 DEF VisitFails
<1>11. CASE Return
  BY <1>6, <1>11 DEF Return
<1>12. CASE UNCHANGED vars
  BY <1>6, <1>12 DEF vars, IInv
<1> QED BY <1>8, <1>9, <1>10, <1>11, <1>12 DEF Next, Returned

-----------------------------------------------------------------------------
(* The theorems. *)

\* The inductive invariant: when no key begins another, what has been pushed is a tree
\* over the keys visited, apart from the source.
THEOREM Invariant == Spec => []IInv
<1> QED BY InitInvariant, StepInvariant, PTL DEF Spec

\* Apply writes into objects it has made only: for every document, however nested, and
\* every transformation of which no key begins another, the source stays as it was.
THEOREM SourceStays == Spec => []SourceUntouched
<1>1. IInv => SourceUntouched
  <2> SUFFICES ASSUME IInv, Separate, NEW o \in DOMAIN source PROVE heap[o] = source[o]
    BY DEF SourceUntouched
  <2>1. Has(heap, source) /\ source \in Documents /\ table \in Tables
    BY DEF IInv, Tree
  <2>2. DOMAIN source = 1..Len(source)
    BY <2>1, KeyFacts, HeapShape
  <2> QED BY <2>1, <2>2 DEF Has
<1> QED BY Invariant, <1>1, PTL

\* In whatever order Apply visits the keys, each ordinary one is found in the result with
\* what its template yields on the source, when no key begins another.
THEOREM KeysStored == Spec => []EveryKeyStored
<1>1. IInv => EveryKeyStored
  <2> SUFFICES ASSUME IInv, outcome = "done", Separate, NEW k \in OrdinaryKeys PROVE Stored(k)
    BY DEF EveryKeyStored
  <2>1. Kept = OrdinaryKeys /\ table \in Tables /\ source \in Documents
    BY DEF IInv, Kept
  <2>2. PICK node : Tree(heap, node, Paths(Kept), Kept)
    BY DEF IInv
  <2>3. \A n \in 0..Len(k) - 1 : Prefix(k, n) \in Paths(Kept)
    BY <2>1 DEF Paths
  <2>4. PICK v : v = Lookup(heap, Ref(Result), k)
    OBVIOUS
  <2>5. Leaf(heap, node, Paths(Kept), k, v)
    <3>1. PICK h, P, K : h = heap /\ P = Paths(Kept) /\ K = Kept
      OBVIOUS
    <3>2. Leaf(h, node, P, k, Lookup(h, Ref(Result), k))
      BY <2>1, <2>2, <2>3, <3>1, TreeLookup
    <3> QED BY <2>4, <3>1, <3>2
  <2> QED BY <2>4, <2>5 DEF Stored, Same, Leaf
<1> QED BY Invariant, <1>1, PTL

\* Apply on a document and ApplyMap on an object in another make the same object, for
\* any transformation of plain keys that does not nest another.
THEOREM NestedSame == Spec => []NestedAgrees
<1>1. IInv => NestedAgrees
  <2> SUFFICES ASSUME IInv, NEW name \in DOMAIN Named, outcome = "done", table = Named[name],
                      \A k \in DOMAIN table : Len(k) = 1 /\ ~IsSpecial(k)
               PROVE  heap[Result] = ApplyMap(source, name, 1)
    BY DEF NestedAgrees
  <2>1. table \in Tables /\ source \in Documents /\ Kept = DOMAIN table /\ OrdinaryKeys = DOMAIN table
    BY DEF IInv, Kept, OrdinaryKeys
  <2>2. ASSUME NEW k \in DOMAIN table
        PROVE  /\ k # <<>> /\ Len(k) = 1 /\ Prefix(k, 0) = <<>> /\ Prefix(k, 1) = k
               /\ Up(k) = <<>> /\ End(k) = k
    <3>1. IsPath(k) /\ k # <<>> /\ Len(k) = 1
      BY <2>1, KeyFacts
    <3>2. Prefix(k, 0) = <<>> /\ Prefix(k, 1) = k
      BY <3>1, PrefixFacts
    <3>3. k = <<k[1]>>
      BY <3>1 DEF IsPath
    <3> QED BY <3>1, <3>2, <3>3 DEF Up, End
  <2>3. Separate
    <3>1. ASSUME NEW k \in OrdinaryKeys, NEW l \in OrdinaryKeys, NEW n \in 0..Len(l), k = Prefix(l, n)
          PROVE  k = l
      <4>1. k \in DOMAIN table /\ l \in DOMAIN table
        BY <2>1
      <4>2. k # <<>> /\ Len(l) = 1 /\ Prefix(l, 0) = <<>> /\ Prefix(l, 1) = l
        BY <2>2, <4>1
      <4>3. n = 0 \/ n = 1
        BY <4>2
      <4> QED BY <3>1, <4>2, <4>3
    <3> QED BY <3>1, Zenon DEF Separate, Prefix
  <2>4. Paths(Kept) = {<<>>}
    <3>2. ASSUME NEW k \in DOMAIN table, NEW n \in 0..Len(k) - 1 PROVE Prefix(k, n) = <<>>
      <4>1. Len(k) = 1 /\ Prefix(k, 0) = <<>>
        BY <2>2
      <4>2. n = 0
        BY <4>1
      <4> QED BY <4>1, <4>2
    <3> QED BY <2>1, <3>2 DEF Paths
  <2>5. PICK node : Tree(heap, node, {<<>>}, DOMAIN table)
    BY <2>1, <2>3, <2>4 DEF IInv
  <2>6. DOMAIN heap[Result] = DOMAIN table /\ IsObject(heap[Result])
    <3>1. /\ IsObject(heap[Result])
          /\ DOMAIN heap[Result] = {End(q) : q \in {r \in {<<>>} \cup DOMAIN table : r # <<>> /\ Up(r) = <<>>}}
      BY <2>5 DEF Tree
    <3>2. \A r : r \in {<<>>} \cup DOMAIN table /\ r # <<>> /\ Up(r) = <<>> <=> r \in DOMAIN table
      BY <2>2
    <3>3. {r \in {<<>>} \cup DOMAIN table : r # <<>> /\ Up(r) = <<>>} = DOMAIN table
      BY <3>2
    <3>4. {End(q) : q \in DOMAIN table} = DOMAIN table
      <4>1. PICK D : D = DOMAIN table
        OBVIOUS
      <4>2. \A q \in D : End(q) = q
        BY <2>2, <4>1
      <4>3. \A q : q \in {End(r) : r \in D} <=> q \in D
        BY <4>2
      <4> QED BY <4>1, <4>3, Zenon
    <3> QED BY <3>1, <3>3, <3>4
  <2>7. ASSUME NEW k \in DOMAIN table PROVE heap[Result][k] = Value(Visits(source, table[k], Ref(1)))
    <3>1. Leaf(heap, node, {<<>>}, k, heap[Result][k])
      BY <2>2, <2>5 DEF Tree
    <3>2. table[k].op # "apply"
      BY NamedAssumption
    <3>3. heap[Result][k] = Evaluate(source, table[k]).value
      BY <3>1, <3>2 DEF Leaf
    <3> QED BY <3>2, <3>3 DEF Evaluate
  <2> QED BY <2>6, <2>7 DEF ApplyMap, IsObject
<1> QED BY Invariant, <1>1, PTL

=============================================================================
