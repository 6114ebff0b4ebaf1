--------------------------- MODULE TemplateValues ---------------------------
(***************************************************************************)
(* The values that templates compute with, and the comparisons of funcs.go *)
(* on them.  A value has the tag of what reflection sees.                  *)
(*                                                                         *)
(* Missing is the zero reflect.Value, which a key that an object lacks     *)
(* yields; Null is the null of a document, and a nil that is passed to a   *)
(* function.  A number of a document is a json.Number, which is a string.  *)
(***************************************************************************)
EXTENDS Integers, Sequences

CONSTANT Rank     \* the place of each string in the order of strings

Missing   == [tag |-> "missing"]
Null      == [tag |-> "null"]
Struct    == [tag |-> "struct"]
Bool(b)   == [tag |-> "bool", b |-> b]
Integer(n) == [tag |-> "int", n |-> n]
Text(s)   == [tag |-> "string", s |-> s]
Number(s) == [tag |-> "number", s |-> s]
List(vs)  == [tag |-> "list", values |-> vs]
Object(f) == [tag |-> "map", fields |-> f]

Failure == [tag |-> "failure"]      \* of a function: an error, which ends the execution

\* What reflection finds in a document, in a constant or in what a function returns.
IsValue(v) ==
    \/ v.tag = "bool" /\ v.b \in BOOLEAN
    \/ v.tag = "int" /\ v.n \in Int
    \/ v.tag \in {"string", "number"} /\ v.s \in DOMAIN Rank
    \/ v.tag \in {"missing", "null", "struct", "list", "map"}

ASSUME RankAssumption == \A s, t \in DOMAIN Rank : Rank[s] \in Int /\ (Rank[s] = Rank[t] => s = t)

-----------------------------------------------------------------------------
(* Comparisons. *)

BasicKind(v) ==
    CASE v.tag \in {"bool", "int"}        -> v.tag
      [] v.tag \in {"string", "number"}   -> "string"
      [] OTHER                            -> "invalid"

Comparable(v, w) == BasicKind(v) = BasicKind(w) /\ BasicKind(v) # "invalid"

Same(v, w) ==
    CASE BasicKind(v) = "bool" -> v.b = w.b
      [] BasicKind(v) = "int"  -> v.n = w.n
      [] OTHER                 -> v.s = w.s

\* The values after the first in turn: the first that is equal decides, and so
\* does the first that cannot be compared.
Eq(v, ws) ==
    LET deciding == {i \in DOMAIN ws : ~Comparable(v, ws[i]) \/ Same(v, ws[i])}
        first    == CHOOSE i \in deciding : \A j \in deciding : i <= j
    IN  IF BasicKind(v) = "invalid" \/ ws = <<>> THEN Failure
        ELSE IF deciding = {} THEN Bool(FALSE)
        ELSE IF Comparable(v, ws[first]) THEN Bool(TRUE) ELSE Failure

Not(v) == IF v = Failure THEN v ELSE Bool(~v.b)

Lt(v, w) ==
    IF ~Comparable(v, w) \/ BasicKind(v) = "bool" THEN Failure
    ELSE IF BasicKind(v) = "int" THEN Bool(v.n < w.n)
    ELSE Bool(Rank[v.s] < Rank[w.s])

Le(v, w) == IF Lt(v, w) = Bool(FALSE) THEN Eq(v, <<w>>) ELSE Lt(v, w)

Compare(name, v, ws) ==
    CASE name = "eq" -> Eq(v, ws)
      [] name = "ne" -> Not(Eq(v, <<ws[1]>>))
      [] name = "lt" -> Lt(v, ws[1])
      [] name = "le" -> Le(v, ws[1])
      [] name = "gt" -> Not(Le(v, ws[1]))
      [] name = "ge" -> Not(Lt(v, ws[1]))

-----------------------------------------------------------------------------
(* What is expected of comparisons. *)

\* The functions agree on two values: they are unequal, or not comparable at all, in
\* both orders; of lt, eq and gt, which are computed one from the other, exactly one
\* holds, and le and ge say the same; and Booleans, which can be equal, have no order
\* (funcs.go:283-430).
Consistent(v, w) ==
    LET Is(f) == Compare(f, v, <<w>>)
        ordered == Is("lt") # Failure
    IN  /\ Is("eq") = Compare("eq", w, <<v>>)
        /\ Is("ne") = Not(Is("eq"))
        /\ Is("eq") # Failure /\ v.tag # "bool" => ordered
        /\ ordered => /\ \E f \in {"lt", "eq", "gt"} : \A g \in {"lt", "eq", "gt"} : Is(g) = Bool(g = f)
                      /\ Is("gt") = Compare("lt", w, <<v>>)
                      /\ Is("le") = Bool(Is("gt") = Bool(FALSE)) /\ Is("ge") = Bool(Is("lt") = Bool(FALSE))
        /\ ~ordered => \A f \in {"le", "gt", "ge"} : Is(f) = Failure
=============================================================================
