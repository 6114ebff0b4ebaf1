--------------------------- MODULE Template_proofs ---------------------------
(***************************************************************************)
(* Proofs about the template language: the lexer, for any templates, the   *)
(* tokens of the parser, the stack of variables, and the comparisons.      *)
(***************************************************************************)
EXTENDS TemplateLexer, TemplateTokens, TemplateValues, SequenceTheorems, FiniteSetTheorems, WellFoundedInduction, TLAPS

-----------------------------------------------------------------------------
(* The inductive invariant of the lexer. *)

Plain  == {"Space", "Identifier", "If", "Field", "Variable", "Dot", "Char", "Pipe", "ColonEquals", "Number", "Complex",
           "String", "RawString", "CharConstant"}
Types  == Plain \cup {"Text", "LeftDelim", "RightDelim", "LeftParen", "RightParen"} \cup Ends
Items  == [typ : Types, from : Nat, to : Nat]
Places == 1..(Len(input) + 1)
Quotes == [Quote |-> "quote", RawQuote |-> "backquote", Char |-> "apostrophe"]

World ==
    /\ input \in Seq(Characters)
    /\ lexer = [fn |-> lexer.fn, pos |-> lexer.pos, start |-> lexer.start, parenDepth |-> lexer.parenDepth]
    /\ lexer.pos \in Places /\ lexer.start \in Places /\ lexer.parenDepth \in Int
    /\ received \in Seq(Items) /\ sending \in Seq(Items)

\* What a state function knows of the characters before it.
Position ==
    LET p == lexer.pos
        s == lexer.start
        In(fns) == lexer.fn \in fns
    IN  /\ In({"Text", "LeftDelim", "RightDelim", "InsideAction", "Number", "Identifier"}) => p = s
        /\ In({"LeftDelim", "Comment"}) => HasPrefix(s, "{", "{")
        /\ In({"Comment"})    => p = s + 2 /\ HasPrefix(p, "/", "*")
        /\ In({"RightDelim"}) => HasPrefix(p, "}", "}")
        /\ In({"Space", "Field", "Variable"}) => p = s + 1
        /\ In({"Space"})      => At(s) \in Blank
        /\ In({"Field"})      => At(s) = "."
        /\ In({"Variable"})   => At(s) = "$"
        /\ In({"Number"})     => At(s) \in (Digits \cup {"+", "."})
        /\ In({"Identifier"}) => At(s) \in (Alphanumeric \ Digits)
        /\ In(DOMAIN Quotes)  => p > s /\ At(s) = Quotes[lexer.fn] /\ \A i \in s..(p - 1) : At(i) # "newline"

\* What has been sent ends where the next item begins, but for comments.
Joined(s) ==
    LET before == Before(s, Len(s) + 1)
    IN  before = lexer.start \/ (lexer.fn \in {"Text", "LeftDelim", "Comment"} /\ IsComments(before, lexer.start))

\* The parentheses that are open.
Open(s) == UpTo(s, Len(s), "LeftParen") - UpTo(s, Len(s), "RightParen")

Parens ==
    /\ lexer.parenDepth = Open(Sent)
    /\ lexer.fn \in {"Text", "LeftDelim", "Comment", "RightDelim"} => lexer.parenDepth = 0

\* The last item is the last one.
EndsLast ==
    \A i \in DOMAIN Sent : Sent[i].typ \in Ends => lexer.fn = "nil" /\ i = Len(Sent)

IInv ==
    /\ World
    /\ Position
    /\ lexer.fn # "nil" => Joined(Sent)
    /\ Parens
    /\ EndsLast
    /\ ItemsTile

-----------------------------------------------------------------------------
(* Scanning. *)

\* A set of naturals that is not empty has a least element.
LEMMA First ==
    ASSUME NEW T, T \subseteq Nat, T # {}
    PROVE  \E m \in T : \A k \in T : m <= k
<1>1. IsWellFoundedOn(OpToRel(<, Nat), Nat)
  BY NatLessThanWellFounded
<1>2. PICK m \in T : \A k \in T : <<k, m>> \notin OpToRel(<, Nat)
  BY <1>1, WFMin
<1>3. ASSUME NEW k \in T PROVE m <= k
  <2>1. k \in Nat /\ m \in Nat
    OBVIOUS
  <2>2. ~ (k < m)
    <3>1. k < m => <<k, m>> \in OpToRel(<, Nat)
      BY <2>1 DEF OpToRel
    <3> QED BY <1>2, <3>1
  <2> QED BY <2>1, <2>2
<1> QED BY <1>3

LEMMA LeastFacts ==
    ASSUME NEW T, T \subseteq Nat, T # {}
    PROVE  Least(T) \in T /\ \A k \in T : Least(T) <= k
BY First DEF Least

\* Past the end there is no character.
LEMMA AtFacts ==
    ASSUME input \in Seq(Characters)
    PROVE  /\ Len(input) \in Nat
           /\ \A i : At(i) # "eof" <=> i \in 1..Len(input)
           /\ \A i \in 1..Len(input) : At(i) = input[i]
<1>1. Len(input) \in Nat /\ DOMAIN input = 1..Len(input) /\ \A i \in 1..Len(input) : input[i] \in Characters
  OBVIOUS
<1>2. "eof" \notin Characters
  BY DEF Characters, Alphanumeric, HexDigits, Digits, Printable, Blank, EndOfLine, Unprintable
<1> QED BY <1>1, <1>2 DEF At

LEMMA RunEndFacts ==
    ASSUME input \in Seq(Characters), NEW i \in Places, NEW S, "eof" \notin S
    PROVE  RunEnd(i, S) \in i..(Len(input) + 1) /\ At(RunEnd(i, S)) \notin S /\ Within(i, RunEnd(i, S), S)
<1>0. Len(input) \in Nat /\ At(Len(input) + 1) = "eof"
  BY AtFacts
<1> DEFINE T == {j \in i..(Len(input) + 1) : At(j) \notin S}
<1>1. T \subseteq Nat /\ T # {}
  <2>1. Len(input) + 1 \in T
    BY <1>0 DEF Places
  <2> QED BY <1>0, <2>1 DEF Places
<1>2. PICK j : j = Least(T) /\ j \in T /\ \A k \in T : j <= k
  <2> HIDE DEF T
  <2> QED BY <1>1, LeastFacts
<1>3. ASSUME NEW k \in i..(j - 1) PROVE At(k) \in S
  <2>1. k \notin T /\ k \in i..(Len(input) + 1)
    BY <1>0, <1>2 DEF Places
  <2> QED BY <2>1
<1>4. RunEnd(i, S) = j
  BY <1>2 DEF RunEnd
<1> QED BY <1>2, <1>3, <1>4 DEF Within

LEMMA OptionFacts ==
    ASSUME input \in Seq(Characters), NEW i \in Places, NEW S, "eof" \notin S
    PROVE  /\ Option(i, S) \in i..(i + 1) /\ Option(i, S) \in Places
           /\ At(i) \in S => Option(i, S) = i + 1
           /\ At(i) \notin S => Option(i, S) = i
BY AtFacts DEF Option, Places

LEMMA FindFacts ==
    ASSUME input \in Seq(Characters), NEW i \in Nat \ {0}, NEW x, NEW y, x # "eof"
    PROVE  \/ Find(i, x, y) = 0 /\ \A k \in Nat : k >= i => ~HasPrefix(k, x, y)
           \/ /\ Find(i, x, y) \in i..Len(input) /\ HasPrefix(Find(i, x, y), x, y)
              /\ \A k \in i..(Find(i, x, y) - 1) : ~HasPrefix(k, x, y)
<1>0. Len(input) \in Nat /\ \A k : HasPrefix(k, x, y) => k \in 1..Len(input)
  BY AtFacts DEF HasPrefix
<1> DEFINE T == {j \in i..Len(input) : HasPrefix(j, x, y)}
<1>1. CASE T = {}
  <2>1. \A k \in Nat : k >= i => ~HasPrefix(k, x, y)
    BY <1>0, <1>1
  <2> QED BY <1>1, <2>1 DEF Find
<1>2. CASE T # {}
  <2>1. T \subseteq Nat
    BY <1>0
  <2>2. PICK j : j = Least(T) /\ j \in T /\ \A k \in T : j <= k
    <3> HIDE DEF T
    <3> QED BY <1>2, <2>1, LeastFacts
  <2>3. ASSUME NEW k \in i..(j - 1) PROVE ~HasPrefix(k, x, y)
    <3>1. k \notin T /\ k \in i..Len(input)
      BY <1>0, <2>2
    <3> QED BY <3>1
  <2>4. Find(i, x, y) = j
    BY <1>2, <2>2 DEF Find
  <2> QED BY <2>2, <2>3, <2>4
<1> QED BY <1>1, <1>2

LEMMA FindWhere ==
    ASSUME input \in Seq(Characters), NEW i \in Nat, i # 0, NEW x, NEW y, x # "eof"
    PROVE  /\ Find(i, x, y) \in Nat
           /\ Find(i, x, y) # 0 => Find(i, x, y) >= i /\ Find(i, x, y) <= Len(input)
           /\ Find(i, x, y) = 0 => \A k \in Nat : k >= i => ~HasPrefix(k, x, y)
<1>1. Len(input) \in Nat
  BY AtFacts
<1>2. Find(i, x, y) = 0 \/ Find(i, x, y) \in i..Len(input)
  BY FindFacts
<1>3. Find(i, x, y) = 0 => \A k \in Nat : k >= i => ~HasPrefix(k, x, y)
  <2>1. ~(0 \in i..Len(input))
    OBVIOUS
  <2>2. \/ Find(i, x, y) = 0 /\ \A k \in Nat : k >= i => ~HasPrefix(k, x, y)
        \/ Find(i, x, y) \in i..Len(input)
    BY FindFacts
  <2> QED BY <2>1, <2>2
<1> QED BY <1>1, <1>2, <1>3

-----------------------------------------------------------------------------
(* Numbers. *)

\* The classes that scanning is about have no end of the input.
LEMMA NoEof ==
    "eof" \notin Digits /\ "eof" \notin HexDigits /\ "eof" \notin Alphanumeric /\ "eof" \notin Blank
BY DEF Alphanumeric, HexDigits, Digits, Blank

LEMMA MantissaFacts ==
    ASSUME input \in Seq(Characters), NEW i \in Places
    PROVE  /\ Mantissa(i) \in i..(Len(input) + 1)
           /\ At(i) \in (Digits \cup {"+", "."}) => Mantissa(i) > i
<1>0. Len(input) \in Nat
  BY AtFacts
<1>1. PICK sign : /\ sign = Option(i, {"+"}) /\ sign \in i..(i + 1) /\ sign \in Places
                  /\ At(i) = "+" => sign = i + 1
                  /\ At(i) # "+" => sign = i
  BY OptionFacts
<1>2. PICK zero : zero = Option(sign, {"0"}) /\ zero \in sign..(sign + 1) /\ zero \in Places
  BY <1>1, OptionFacts
<1>3. PICK prefixed : prefixed = (IF zero > sign THEN Option(zero, {"x"}) ELSE zero)
                      /\ prefixed \in zero..(zero + 1) /\ prefixed \in Places
  <2>1. Option(zero, {"x"}) \in zero..(zero + 1) /\ Option(zero, {"x"}) \in Places
    BY <1>2, OptionFacts
  <2> QED BY <1>2, <2>1 DEF Places
<1>4. PICK digits : digits = (IF prefixed > zero THEN HexDigits ELSE Digits)
                    /\ "eof" \notin digits /\ Digits \subseteq digits
  BY NoEof DEF HexDigits
<1>5. PICK whole : whole = RunEnd(prefixed, digits) /\ whole \in prefixed..(Len(input) + 1)
                   /\ At(whole) \notin digits
  BY <1>3, <1>4, RunEndFacts
<1>6. PICK end : end = (IF At(whole) = "." THEN RunEnd(whole + 1, digits) ELSE whole)
                 /\ end \in whole..(Len(input) + 1) /\ (At(whole) = "." => end > whole)
  <2>1. CASE At(whole) = "."
    <3>1. whole + 1 \in Places
      BY <1>0, <1>3, <1>5, <2>1, AtFacts DEF Places
    <3>2. RunEnd(whole + 1, digits) \in (whole + 1)..(Len(input) + 1)
      BY <1>4, <3>1, RunEndFacts
    <3> QED BY <1>0, <1>3, <1>5, <2>1, <3>2 DEF Places
  <2>2. CASE At(whole) # "."
    BY <1>0, <1>3, <1>5, <2>2 DEF Places
  <2> QED BY <2>1, <2>2
<1>7. Mantissa(i) = end
  BY <1>1, <1>2, <1>3, <1>4, <1>5, <1>6 DEF Mantissa
<1>8. i \in Nat /\ sign \in Nat /\ zero \in Nat /\ prefixed \in Nat /\ whole \in Nat /\ end \in Nat
  <2>1. i \in Nat /\ sign \in Nat /\ zero \in Nat /\ prefixed \in Nat
    BY <1>0, <1>1, <1>2, <1>3 DEF Places
  <2>2. whole \in Nat
    BY <1>0, <1>5, <2>1
  <2> QED BY <1>0, <1>6, <2>1, <2>2
<1>9. i <= sign /\ sign <= zero /\ zero <= prefixed /\ prefixed <= whole /\ whole <= end /\ end <= Len(input) + 1
  <2>1. i <= sign /\ sign <= zero /\ zero <= prefixed
    BY <1>1, <1>2, <1>3, <1>8
  <2> QED BY <1>0, <1>5, <1>6, <1>8, <2>1
<1>10. ASSUME At(i) \in (Digits \cup {"+", "."}), end = i PROVE FALSE
  <2>1. whole = i /\ At(i) # "." /\ At(i) # "+"
    BY <1>1, <1>6, <1>8, <1>9, <1>10
  <2>2. At(i) \in Digits
    BY <1>10, <2>1
  <2>3. Digits \subseteq digits /\ At(i) \notin digits
    BY <1>4, <1>5, <2>1
  <2> QED BY <2>2, <2>3
<1> QED BY <1>0, <1>7, <1>8, <1>9, <1>10

LEMMA ExponentFacts ==
    ASSUME input \in Seq(Characters), NEW i \in Places
    PROVE  Exponent(i) \in i..(Len(input) + 1)
<1>0. Len(input) \in Nat
  BY AtFacts
<1>1. CASE At(i) = "e"
  <2>1. i + 1 \in Places
    BY <1>0, <1>1, AtFacts DEF Places
  <2>2. PICK k : k = Option(i + 1, {"+"}) /\ k \in (i + 1)..(i + 2) /\ k \in Places
    <3>1. PICK j : j = i + 1
      OBVIOUS
    <3>2. Option(j, {"+"}) \in j..(j + 1) /\ Option(j, {"+"}) \in Places
      BY <2>1, <3>1, OptionFacts
    <3> QED BY <3>1, <3>2 DEF Places
  <2>3. RunEnd(k, Digits) \in k..(Len(input) + 1)
    BY <2>2, NoEof, RunEndFacts
  <2> QED BY <1>0, <1>1, <2>2, <2>3 DEF Exponent, Places
<1>2. CASE At(i) # "e"
  BY <1>0, <1>2 DEF Exponent, Places
<1> QED BY <1>1, <1>2

LEMMA NumberFacts ==
    ASSUME input \in Seq(Characters), NEW i \in Places
    PROVE  /\ ScanNumber(i) \in i..(Len(input) + 1)
           /\ At(i) \in (Digits \cup {"+", "."}) => ScanNumber(i) > i
<1>0. Len(input) \in Nat
  BY AtFacts
<1>1. PICK m : m = Mantissa(i) /\ m \in i..(Len(input) + 1) /\ (At(i) \in (Digits \cup {"+", "."}) => m > i)
  BY MantissaFacts
<1>2. PICK n : n = Exponent(m) /\ n \in m..(Len(input) + 1)
  <2>1. m \in Places
    BY <1>0, <1>1 DEF Places
  <2> QED BY <2>1, ExponentFacts
<1>3. PICK end : end = Option(n, {"i"}) /\ end \in n..(Len(input) + 1)
  <2>1. n \in Places
    BY <1>0, <1>1, <1>2 DEF Places
  <2>2. Option(n, {"i"}) \in n..(n + 1) /\ Option(n, {"i"}) \in Places
    BY <2>1, OptionFacts
  <2> QED BY <1>0, <2>1, <2>2 DEF Places
<1>4. {Option(Exponent(k), {"i"}) : k \in {Mantissa(i)}} = {end}
  <2>1. \A k \in {Mantissa(i)} : Option(Exponent(k), {"i"}) = end
    BY <1>1, <1>2, <1>3
  <2>2. Mantissa(i) \in {Mantissa(i)}
    OBVIOUS
  <2> QED BY <2>1, <2>2, Zenon
<1>5. ScanNumber(i) = end
  BY <1>4 DEF ScanNumber
<1>7. i \in Nat /\ m \in Nat /\ n \in Nat /\ end \in Nat /\ i <= m /\ m <= n /\ n <= end /\ end <= Len(input) + 1
  <2>1. i \in Nat /\ m \in Nat /\ n \in Nat /\ i <= m /\ m <= n
    BY <1>0, <1>1, <1>2 DEF Places
  <2> QED BY <1>0, <1>3, <2>1
<1>8. At(i) \in (Digits \cup {"+", "."}) => end > i
  BY <1>1, <1>7
<1> QED BY <1>0, <1>5, <1>7, <1>8

-----------------------------------------------------------------------------
(* What has been sent, as it grows. *)

\* What ItemsTile says of one item.
Tiled(s, i) ==
    LET item == s[i]
        gap  == item.from - Before(s, i)
    IN  /\ item.typ \notin Ends => item.to > item.from /\ Looks(item)
        /\ gap >= 0
        /\ gap = 0 \/ item.typ = "Error" \/ (item.typ \in AfterComments /\ IsComments(Before(s, i), item.from))
        /\ item.typ = "RightDelim" => UpTo(s, i, "LeftParen") = UpTo(s, i, "RightParen")
        /\ item.typ = "EOF" => item.from = Len(input) + 1

Good(s) == s \in Seq(Items) /\ \A i \in 1..Len(s) : Tiled(s, i)

\* An item that may be sent next.
Fits(s, x) ==
    LET before == Before(s, Len(s) + 1)
    IN  /\ x \in Items
        /\ x.typ \notin Ends => x.to > x.from /\ Looks(x)
        /\ x.from >= before
        /\ x.from = before \/ x.typ = "Error" \/ (x.typ \in AfterComments /\ IsComments(before, x.from))
        /\ x.typ = "RightDelim" => Open(s) = 0
        /\ x.typ = "EOF" => x.from = Len(input) + 1

LEMMA AppendFacts ==
    ASSUME NEW s \in Seq(Items), NEW x \in Items
    PROVE  /\ Append(s, x) \in Seq(Items) /\ Len(s) \in Nat /\ Len(Append(s, x)) = Len(s) + 1
           /\ Append(s, x)[Len(s) + 1] = x
           /\ \A i \in 1..Len(s) : Append(s, x)[i] = s[i] /\ s[i] \in Items
BY AppendProperties, LenProperties, ElementOfSeq

LEMMA UpToType ==
    ASSUME NEW s, NEW n \in Nat, NEW typ
    PROVE  UpTo(s, n, typ) \in Nat /\ IsFiniteSet({j \in 1..n : s[j].typ = typ})
<1>1. IsFiniteSet(1..n)
  BY FS_Interval
<1>2. IsFiniteSet({j \in 1..n : s[j].typ = typ})
  BY <1>1, FS_Subset
<1> QED BY <1>2, FS_CardinalityType DEF UpTo

LEMMA UpToAppend ==
    ASSUME NEW s \in Seq(Items), NEW x \in Items, NEW typ
    PROVE  /\ \A i \in 1..Len(s) : UpTo(Append(s, x), i, typ) = UpTo(s, i, typ)
           /\ UpTo(Append(s, x), Len(s) + 1, typ) = UpTo(s, Len(s), typ) + (IF x.typ = typ THEN 1 ELSE 0)
<1>0. PICK t : t = Append(s, x)
  OBVIOUS
<1>1. Len(s) \in Nat /\ t[Len(s) + 1] = x /\ \A i \in 1..Len(s) : t[i] = s[i]
  BY <1>0, AppendFacts, Zenon
<1>2. ASSUME NEW i \in 1..Len(s) PROVE UpTo(t, i, typ) = UpTo(s, i, typ)
  <2>1. {j \in 1..i : t[j].typ = typ} = {j \in 1..i : s[j].typ = typ}
    BY <1>1
  <2> QED BY <2>1 DEF UpTo
<1>3. PICK S : S = {j \in 1..Len(s) : s[j].typ = typ} /\ IsFiniteSet(S) /\ Len(s) + 1 \notin S
               /\ Cardinality(S) = UpTo(s, Len(s), typ) /\ Cardinality(S) \in Nat
  <2>1. PICK S : S = {j \in 1..Len(s) : s[j].typ = typ}
    OBVIOUS
  <2>2. Len(s) + 1 \notin S
    BY <1>1, <2>1
  <2>3. IsFiniteSet(S)
    BY <1>1, <2>1, UpToType
  <2>4. Cardinality(S) = UpTo(s, Len(s), typ)
    BY <2>1 DEF UpTo
  <2>5. Cardinality(S) \in Nat
    BY <2>3, FS_CardinalityType
  <2> QED BY <2>1, <2>2, <2>3, <2>4, <2>5
<1>4. PICK T : T = {j \in 1..(Len(s) + 1) : t[j].typ = typ} /\ Cardinality(T) = UpTo(t, Len(s) + 1, typ)
  BY DEF UpTo
<1>5. CASE x.typ = typ
  <2>1. T = S \cup {Len(s) + 1}
    BY <1>1, <1>3, <1>4, <1>5
  <2>2. Cardinality(T) = Cardinality(S) + 1
    BY <1>3, <2>1, FS_AddElement
  <2> QED BY <1>0, <1>1, <1>2, <1>3, <1>4, <1>5, <2>2
<1>6. CASE x.typ # typ
  <2>1. T = S
    BY <1>1, <1>3, <1>4, <1>6
  <2>2. Cardinality(T) = Cardinality(S) /\ Cardinality(S) = Cardinality(S) + 0
    BY <1>3, <2>1
  <2> QED BY <1>0, <1>2, <1>3, <1>4, <1>6, <2>2
<1> QED BY <1>5, <1>6

LEMMA Grows ==
    ASSUME NEW s, Good(s), NEW x, Fits(s, x)
    PROVE  /\ Good(Append(s, x))
           /\ Before(Append(s, x), Len(Append(s, x)) + 1) = x.to
           /\ Open(s) \in Int
           /\ Open(Append(s, x)) = Open(s) + (IF x.typ = "LeftParen" THEN 1 ELSE 0) - (IF x.typ = "RightParen" THEN 1 ELSE 0)
<1>1. s \in Seq(Items) /\ x \in Items
  BY DEF Good, Fits
<1>0. PICK t : t = Append(s, x)
  OBVIOUS
<1>2. /\ t \in Seq(Items) /\ Len(s) \in Nat /\ Len(t) = Len(s) + 1 /\ t[Len(t)] = x
      /\ \A i \in 1..Len(s) : t[i] = s[i]
  <2>1. /\ t \in Seq(Items) /\ Len(s) \in Nat /\ Len(t) = Len(s) + 1 /\ t[Len(s) + 1] = x
        /\ \A i \in 1..Len(s) : t[i] = s[i]
    BY <1>0, <1>1, AppendFacts, Zenon
  <2> QED BY <2>1
<1>3. \A typ : /\ \A i \in 1..Len(s) : UpTo(t, i, typ) = UpTo(s, i, typ)
               /\ UpTo(t, Len(t), typ) = UpTo(s, Len(s), typ) + (IF x.typ = typ THEN 1 ELSE 0)
               /\ UpTo(s, Len(s), typ) \in Nat
  <2> TAKE typ
  <2>1. /\ \A i \in 1..Len(s) : UpTo(t, i, typ) = UpTo(s, i, typ)
        /\ UpTo(t, Len(s) + 1, typ) = UpTo(s, Len(s), typ) + (IF x.typ = typ THEN 1 ELSE 0)
    BY <1>0, <1>1, UpToAppend, Zenon
  <2> QED BY <1>2, <2>1, UpToType
<1>4. \A i \in 1..Len(t) : Before(t, i) = Before(s, i)
  <2>1. ASSUME NEW i \in 1..Len(t), i # 1 PROVE t[i - 1] = s[i - 1]
    BY <1>2, <2>1
  <2> QED BY <2>1 DEF Before
<1>5. ASSUME NEW i \in 1..Len(s) PROVE Tiled(t, i)
  <2>1. Tiled(s, i)
    BY DEF Good
  <2>2. t[i] = s[i] /\ Before(t, i) = Before(s, i)
    BY <1>2, <1>4
  <2>3. \A typ : UpTo(t, i, typ) = UpTo(s, i, typ)
    BY <1>3
  <2> QED BY <2>1, <2>2, <2>3 DEF Tiled
<1>6. Open(s) \in Int /\ Open(t) = Open(s) + (IF x.typ = "LeftParen" THEN 1 ELSE 0) - (IF x.typ = "RightParen" THEN 1 ELSE 0)
  <2>1. PICK l, r : /\ l = UpTo(s, Len(s), "LeftParen") /\ r = UpTo(s, Len(s), "RightParen") /\ l \in Nat /\ r \in Nat
                   /\ UpTo(t, Len(t), "LeftParen") = l + (IF x.typ = "LeftParen" THEN 1 ELSE 0)
                   /\ UpTo(t, Len(t), "RightParen") = r + (IF x.typ = "RightParen" THEN 1 ELSE 0)
    BY <1>3
  <2> QED BY <2>1 DEF Open
<1>7. Tiled(t, Len(t))
  <2>1. PICK before : before = Before(s, Len(s) + 1) /\ before = Before(t, Len(t))
    BY <1>2, <1>4
  <2>2. /\ x.from >= before /\ x.from \in Nat
        /\ x.from = before \/ x.typ = "Error" \/ (x.typ \in AfterComments /\ IsComments(before, x.from))
    BY <1>1, <2>1 DEF Fits, Items
  <2>3. before \in Nat
    <3>1. CASE Len(s) = 0
      BY <2>1, <3>1 DEF Before
    <3>2. CASE Len(s) # 0
      <4>1. s[Len(s)] \in Items /\ before = s[Len(s)].to
        BY <1>1, <1>2, <2>1, <3>2, ElementOfSeq DEF Before
      <4> QED BY <4>1 DEF Items
    <3> QED BY <3>1, <3>2
  <2>4. x.from - before >= 0 /\ (x.from = before => x.from - before = 0)
    BY <2>2, <2>3
  <2>5. x.typ = "RightDelim" => UpTo(t, Len(t), "LeftParen") = UpTo(t, Len(t), "RightParen")
    <3> SUFFICES ASSUME x.typ = "RightDelim" PROVE UpTo(t, Len(t), "LeftParen") = UpTo(t, Len(t), "RightParen")
      OBVIOUS
    <3>1. Open(t) = 0
      BY <1>6 DEF Fits
    <3>2. UpTo(t, Len(t), "LeftParen") \in Nat /\ UpTo(t, Len(t), "RightParen") \in Nat
      BY <1>3
    <3> QED BY <3>1, <3>2 DEF Open
  <2> QED BY <1>2, <2>1, <2>2, <2>4, <2>5 DEF Tiled, Fits
<1>8. Good(t)
  BY <1>2, <1>5, <1>7 DEF Good
<1>9. Before(t, Len(t) + 1) = x.to
  BY <1>2 DEF Before
<1> QED BY <1>0, <1>6, <1>8, <1>9

\* While the input stays the same.
LEMMA SameInput ==
    ASSUME input' = input
    PROVE  /\ \A i : At(i)' = At(i)
           /\ \A i, x, y : HasPrefix(i, x, y)' <=> HasPrefix(i, x, y)
           /\ \A i, j : IsComments(i, j)' <=> IsComments(i, j)
           /\ \A s : Good(s)' <=> Good(s)
<1>1. \A i : At(i)' = At(i)
  BY DEF At
<1>2. \A i, x, y : HasPrefix(i, x, y)' <=> HasPrefix(i, x, y)
  BY <1>1 DEF HasPrefix
<1>3. \A i, j : IsComments(i, j)' <=> IsComments(i, j)
  BY <1>2 DEF IsComments
<1>4. \A item : Looks(item)' <=> Looks(item)
  BY DEF Looks, At, HasPrefix, Within, Of, AtTerminator
<1>5. \A s, i : Tiled(s, i)' <=> Tiled(s, i)
  BY <1>3, <1>4 DEF Tiled
<1>6. \A s : Good(s)' <=> Good(s)
  BY <1>5 DEF Good
<1> QED BY <1>1, <1>2, <1>3, <1>6
-----------------------------------------------------------------------------
(* The ways a state function ends: it goes to another, sends an item, or   *)
(* sends the last one.                                                     *)

InText == {"Text", "LeftDelim", "Comment"}

NoneEnds(s) == \A i \in 1..Len(s) : s[i].typ \notin Ends

LEMMA SentFacts ==
    ASSUME IInv
    PROVE  /\ Sent \in Seq(Items) /\ DOMAIN Sent = 1..Len(Sent) /\ Len(Sent) \in Nat
           /\ Good(Sent)
           /\ Len(input) \in Nat /\ lexer.start \in Nat /\ lexer.pos \in Nat
           /\ lexer.start \in Places /\ lexer.pos \in Places /\ lexer.parenDepth \in Int
           /\ lexer.fn # "nil" => NoneEnds(Sent)
           /\ sending = <<>> => Sent = received
<1>1. Sent \in Seq(Items) /\ (sending = <<>> => Sent = received)
  BY ConcatProperties, ConcatEmptySeq DEF IInv, World, Sent
<1>2. DOMAIN Sent = 1..Len(Sent) /\ Len(Sent) \in Nat
  BY <1>1, LenProperties
<1>3. Good(Sent)
  BY <1>1, <1>2 DEF IInv, ItemsTile, Good, Tiled
<1>4. Len(input) \in Nat /\ lexer.start \in Nat /\ lexer.pos \in Nat
  BY AtFacts DEF IInv, World, Places
<1> QED BY <1>1, <1>2, <1>3, <1>4 DEF IInv, World, EndsLast, NoneEnds

\* What remains to be shown of the next state.
LEMMA Closes ==
    ASSUME input' = input, NEW s, Sent' = s, Good(s), World', Position',
           lexer'.fn # "nil" => Joined(s)',
           lexer'.parenDepth = Open(s),
           lexer'.fn \in {"Text", "LeftDelim", "Comment", "RightDelim"} => Open(s) = 0,
           \A i \in 1..Len(s) : s[i].typ \in Ends => lexer'.fn = "nil" /\ i = Len(s)
    PROVE  IInv'
<1>1. Good(s)'
  BY SameInput
<1>2. DOMAIN s = 1..Len(s)
  BY LenProperties DEF Good
<1>3. ItemsTile'
  BY <1>1, <1>2 DEF ItemsTile, Good, Tiled
<1>4. Parens'
  BY DEF Parens, Open
<1>5. EndsLast'
  BY <1>2 DEF EndsLast
<1> QED BY <1>3, <1>4, <1>5 DEF IInv

LEMMA Moves ==
    ASSUME IInv, lexer.fn # "nil", sending = <<>>, UNCHANGED <<input, received, parser>>,
           NEW next, NEW pos \in Places, NEW start \in Places, next # "nil",
           sending' = <<>>,
           lexer' = [fn |-> next, pos |-> pos, start |-> start, parenDepth |-> lexer.parenDepth],
           Position',
           \/ Before(Sent, Len(Sent) + 1) = start
           \/ next \in InText /\ IsComments(Before(Sent, Len(Sent) + 1), start),
           next \in {"Text", "LeftDelim", "Comment", "RightDelim"} => lexer.parenDepth = 0
    PROVE  IInv'
<1>1. PICK s : s = Sent /\ Good(s) /\ Sent' = s /\ NoneEnds(s)
  BY SentFacts DEF Sent
<1>2. World'
  BY SentFacts DEF IInv, World, Places
<1>3. Joined(s)'
  BY <1>1, SameInput DEF Joined, InText
<1>4. lexer.parenDepth = Open(s)
  BY <1>1 DEF IInv, Parens
<1> QED BY <1>1, <1>2, <1>3, <1>4, Closes DEF NoneEnds

LEMMA BeforeNat ==
    ASSUME NEW s \in Seq(Items)
    PROVE  Before(s, Len(s) + 1) \in Nat
<1>1. Len(s) \in Nat
  BY LenProperties
<1>2. CASE Len(s) = 0
  BY <1>2 DEF Before
<1>3. CASE Len(s) # 0
  <2>1. Len(s) \in 1..Len(s)
    BY <1>1, <1>3
  <2>2. s[Len(s)] \in Items
    BY <2>1, ElementOfSeq
  <2>3. Before(s, Len(s) + 1) = s[Len(s)].to
    BY <1>1, <1>3 DEF Before
  <2> QED BY <2>2, <2>3 DEF Items
<1> QED BY <1>2, <1>3

LEMMA OneSent ==
    ASSUME NEW s \in Seq(Items), NEW x \in Items
    PROVE  s \o <<x>> = Append(s, x) /\ <<x>> \in Seq(Items)
OBVIOUS

LEMMA BeforeStart ==
    ASSUME IInv, lexer.fn # "nil"
    PROVE  /\ Before(Sent, Len(Sent) + 1) <= lexer.start
           /\ lexer.fn \notin InText => Before(Sent, Len(Sent) + 1) = lexer.start
           /\ \/ Before(Sent, Len(Sent) + 1) = lexer.start
              \/ lexer.fn \in InText /\ IsComments(Before(Sent, Len(Sent) + 1), lexer.start)
<1>1. PICK before : before = Before(Sent, Len(Sent) + 1) /\ before \in Nat
  BY SentFacts, BeforeNat
<1>2. before = lexer.start \/ (lexer.fn \in InText /\ IsComments(before, lexer.start))
  BY <1>1 DEF IInv, Joined, InText
<1>3. IsComments(before, lexer.start) => before <= lexer.start
  <2>1. IsComments(before, lexer.start) => lexer.start - before > 7
    BY DEF IsComments
  <2> QED BY <1>1, <2>1, SentFacts
<1> QED BY <1>1, <1>2, <1>3, SentFacts

LEMMA ItemFits ==
    ASSUME IInv, lexer.fn # "nil", NEW typ \in Types, typ \notin Ends, NEW to \in Nat, to > lexer.start,
           Looks(Item(typ, lexer.start, to)), typ = "RightDelim" => lexer.parenDepth = 0,
           lexer.fn \in InText => typ \in AfterComments
    PROVE  Fits(Sent, Item(typ, lexer.start, to))
<1>1. PICK x : x = Item(typ, lexer.start, to) /\ x \in Items /\ x.typ = typ /\ x.from = lexer.start /\ x.to = to
  <2>1. PICK from : from = lexer.start /\ from \in Nat
    BY SentFacts
  <2>2. Item(typ, from, to) \in Items
    BY <2>1 DEF Item, Items
  <2> QED BY <2>1, <2>2 DEF Item
<1>2. /\ x.from >= Before(Sent, Len(Sent) + 1)
      /\ \/ x.from = Before(Sent, Len(Sent) + 1)
         \/ x.typ \in AfterComments /\ IsComments(Before(Sent, Len(Sent) + 1), x.from)
  <2>1. Before(Sent, Len(Sent) + 1) \in Nat
    BY SentFacts, BeforeNat
  <2> QED BY <1>1, <2>1, SentFacts, BeforeStart
<1>3. typ = "RightDelim" => Open(Sent) = 0
  BY DEF IInv, Parens
<1>4. typ # "EOF"
  BY DEF Ends
<1> QED BY <1>1, <1>2, <1>3, <1>4 DEF Fits

\* An item is sent, which goes up to `to`, and next comes the function `next`.
Sends(typ, to, next, depth) ==
    /\ lexer.fn # "nil" /\ sending = <<>> /\ UNCHANGED <<input, received, parser>>
    /\ sending' = <<Item(typ, lexer.start, to)>>
    /\ lexer' = [fn |-> next, pos |-> to, start |-> to, parenDepth |-> depth]
    /\ to > lexer.start /\ typ \notin Ends /\ Looks(Item(typ, lexer.start, to))
    /\ lexer.fn \in InText => typ \in AfterComments
    /\ typ = "RightDelim" => lexer.parenDepth = 0
    /\ depth = lexer.parenDepth + (IF typ = "LeftParen" THEN 1 ELSE 0) - (IF typ = "RightParen" THEN 1 ELSE 0)
    /\ next \in {"Text", "LeftDelim", "InsideAction"}
    /\ next # "InsideAction" => depth = 0
    /\ next = "LeftDelim" => HasPrefix(to, "{", "{")

LEMMA Emits ==
    ASSUME IInv, NEW typ \in Types, NEW to \in Places, NEW next, NEW depth \in Int, Sends(typ, to, next, depth)
    PROVE  IInv'
<1>1. PICK s : s = Sent /\ s = received /\ s \in Seq(Items) /\ Len(s) \in Nat /\ Good(s) /\ NoneEnds(s)
  BY SentFacts DEF Sends
<1>0. to \in Nat /\ lexer.start \in Nat /\ to > lexer.start /\ typ \notin Ends
  <2>1. to \in Nat /\ lexer.start \in Nat
    BY SentFacts DEF Places
  <2> QED BY <2>1 DEF Sends
<1>2. PICK x : x = Item(typ, lexer.start, to) /\ x \in Items /\ x.typ = typ /\ x.from = lexer.start /\ x.to = to
  <2>1. PICK from : from = lexer.start /\ from \in Nat
    BY <1>0
  <2>2. Item(typ, from, to) \in Items
    BY <1>0, <2>1 DEF Item, Items
  <2> QED BY <2>1, <2>2 DEF Item
<1>3. PICK t : t = Append(s, x)
  OBVIOUS
<1>4. Sent' = t /\ <<x>> \in Seq(Items)
  <2>1. received' = s /\ sending' = <<x>>
    BY <1>1, <1>2 DEF Sends
  <2>2. s \o <<x>> = t /\ <<x>> \in Seq(Items)
    BY <1>1, <1>2, <1>3, OneSent
  <2> QED BY <2>1, <2>2 DEF Sent
<1>5. lexer.parenDepth = Open(s)
  BY <1>1 DEF IInv, Parens
<1>6. Fits(s, x)
  <2>1. /\ lexer.fn # "nil" /\ Looks(Item(typ, lexer.start, to)) /\ (typ = "RightDelim" => lexer.parenDepth = 0)
        /\ lexer.fn \in InText => typ \in AfterComments
    BY DEF Sends
  <2> QED BY <1>0, <1>1, <1>2, <2>1, ItemFits
<1>7. /\ Good(t) /\ Before(t, Len(t) + 1) = to
      /\ Open(t) = Open(s) + (IF typ = "LeftParen" THEN 1 ELSE 0) - (IF typ = "RightParen" THEN 1 ELSE 0)
  <2>1. /\ Good(t) /\ Before(t, Len(t) + 1) = x.to
        /\ Open(t) = Open(s) + (IF x.typ = "LeftParen" THEN 1 ELSE 0) - (IF x.typ = "RightParen" THEN 1 ELSE 0)
    BY <1>1, <1>3, <1>6, Grows, Zenon
  <2> QED BY <1>2, <2>1
<1>8. Len(t) = Len(s) + 1 /\ t[Len(t)] = x /\ \A i \in 1..Len(s) : t[i] = s[i]
  <2>1. Len(t) = Len(s) + 1 /\ t[Len(s) + 1] = x /\ \A i \in 1..Len(s) : t[i] = s[i]
    BY <1>1, <1>2, <1>3, AppendFacts, Zenon
  <2> QED BY <2>1
<1>9. NoneEnds(t)
  <2> SUFFICES ASSUME NEW i \in 1..Len(t) PROVE t[i].typ \notin Ends
    BY DEF NoneEnds
  <2>1. i \in 1..Len(s) \/ i = Len(t)
    BY <1>1, <1>8
  <2> QED BY <1>0, <1>1, <1>2, <1>8, <2>1 DEF NoneEnds
<1>10. depth \in Int /\ depth = Open(t)
  <2>1. lexer.parenDepth \in Int
    BY SentFacts
  <2> QED BY <1>5, <1>7, <2>1 DEF Sends
<1>11. World'
  BY <1>2, <1>4, <1>10, SentFacts DEF IInv, World, Places, Sends
<1>12. Position'
  <2>1. \A i, x_1, y : HasPrefix(i, x_1, y)' <=> HasPrefix(i, x_1, y)
    BY SameInput DEF Sends
  <2> QED BY <2>1 DEF Position, Quotes, Sends
<1>13. Joined(t)'
  BY <1>7 DEF Joined, Sends
<1> QED BY <1>4, <1>7, <1>9, <1>10, <1>11, <1>12, <1>13, Closes DEF NoneEnds, Sends
\* The last item is sent, after others or alone.
LEMMA Finishes ==
    ASSUME IInv, input' = input, NEW s, Good(s), NoneEnds(s), NEW x, x.typ \in Ends, Fits(s, x),
           Sent' = Append(s, x), received' \in Seq(Items), sending' \in Seq(Items),
           NEW pos \in Places, NEW start \in Places,
           lexer' = [fn |-> "nil", pos |-> pos, start |-> start, parenDepth |-> Open(s)]
    PROVE  IInv'
<1>1. PICK t : t = Append(s, x)
  OBVIOUS
<1>2. /\ Good(t) /\ Open(s) \in Int
      /\ Open(t) = Open(s) + (IF x.typ = "LeftParen" THEN 1 ELSE 0) - (IF x.typ = "RightParen" THEN 1 ELSE 0)
  <2>1. /\ Good(Append(s, x)) /\ Open(s) \in Int
        /\ Open(Append(s, x)) = Open(s) + (IF x.typ = "LeftParen" THEN 1 ELSE 0) - (IF x.typ = "RightParen" THEN 1 ELSE 0)
    BY Grows
  <2> QED BY <1>1, <2>1
<1>3. Open(t) = Open(s)
  <2>1. x.typ # "LeftParen" /\ x.typ # "RightParen"
    BY DEF Ends
  <2>2. Open(t) = Open(s) + 0 - 0
    BY <1>2, <2>1
  <2> QED BY <1>2, <2>2
<1>4. s \in Seq(Items) /\ x \in Items /\ Len(s) \in Nat
  BY LenProperties DEF Good, Fits
<1>5. Len(t) = Len(s) + 1 /\ \A i \in 1..Len(s) : t[i] = s[i]
  BY <1>1, <1>4, AppendFacts, Zenon
<1>6. ASSUME NEW i \in 1..Len(t), t[i].typ \in Ends PROVE i = Len(t)
  BY SMTT(30), <1>4, <1>5, <1>6 DEF NoneEnds
<1>7. World'
  BY <1>2 DEF IInv, World, Places
<1>8. Position'
  BY DEF Position, Quotes
<1> QED BY <1>1, <1>2, <1>3, <1>6, <1>7, <1>8, Closes
-----------------------------------------------------------------------------
(* The state functions. *)

\* A state function that runs.
Running == lexer.fn # "nil" /\ sending = <<>> /\ UNCHANGED <<input, received, parser>>

LEMMA Record ==
    ASSUME IInv, NEW fn, NEW pos, NEW start
    PROVE  /\ [lexer EXCEPT !.fn = fn] =
                 [fn |-> fn, pos |-> lexer.pos, start |-> lexer.start, parenDepth |-> lexer.parenDepth]
           /\ [lexer EXCEPT !.fn = fn, !.pos = pos] =
                 [fn |-> fn, pos |-> pos, start |-> lexer.start, parenDepth |-> lexer.parenDepth]
           /\ [lexer EXCEPT !.fn = fn, !.pos = pos, !.start = start] =
                 [fn |-> fn, pos |-> pos, start |-> start, parenDepth |-> lexer.parenDepth]
<1>1. DOMAIN lexer = {"fn", "pos", "start", "parenDepth"} /\ lexer = [x \in DOMAIN lexer |-> lexer[x]]
  BY DEF IInv, World
<1>2. [lexer EXCEPT !.fn = fn] = [fn |-> fn, pos |-> lexer.pos, start |-> lexer.start, parenDepth |-> lexer.parenDepth]
  BY <1>1
<1>3. [lexer EXCEPT !.fn = fn, !.pos = pos] =
        [fn |-> fn, pos |-> pos, start |-> lexer.start, parenDepth |-> lexer.parenDepth]
  <2>1. PICK r : r = [lexer EXCEPT !.fn = fn, !.pos = pos]
    OBVIOUS
  <2>2. DOMAIN r = {"fn", "pos", "start", "parenDepth"} /\ r = [x \in DOMAIN r |-> r[x]]
    BY <1>1, <2>1
  <2>3. r.fn = fn /\ r.pos = pos /\ r.start = lexer.start /\ r.parenDepth = lexer.parenDepth
    BY <1>1, <2>1
  <2> QED BY <2>1, <2>2, <2>3
<1>4. [lexer EXCEPT !.fn = fn, !.pos = pos, !.start = start] =
        [fn |-> fn, pos |-> pos, start |-> start, parenDepth |-> lexer.parenDepth]
  <2>1. PICK r : r = [lexer EXCEPT !.fn = fn, !.pos = pos, !.start = start]
    OBVIOUS
  <2>2. DOMAIN r = {"fn", "pos", "start", "parenDepth"} /\ r = [x \in DOMAIN r |-> r[x]]
    BY <1>1, <2>1
  <2>3. r.fn = fn /\ r.pos = pos /\ r.start = start /\ r.parenDepth = lexer.parenDepth
    BY <1>1, <2>1
  <2> QED BY <2>1, <2>2, <2>3
<1> QED BY <1>2, <1>3, <1>4

LEMMA Errs ==
    ASSUME IInv, Running, Errorf
    PROVE  IInv'
<1>1. PICK s : s = Sent /\ s = received /\ s \in Seq(Items) /\ Good(s) /\ NoneEnds(s)
  BY SentFacts DEF Running
<1>2. PICK x : x = Item("Error", lexer.start, lexer.start) /\ x \in Items /\ x.typ = "Error" /\ x.from = lexer.start
  <2>1. PICK from : from = lexer.start /\ from \in Nat
    BY SentFacts
  <2>2. Item("Error", from, from) \in Items
    BY <2>1 DEF Item, Items, Types, Ends
  <2> QED BY <2>1, <2>2 DEF Item
<1>3. Fits(s, x)
  BY <1>1, <1>2, BeforeStart DEF Fits, Ends, Running
<1>4. lexer' = [fn |-> "nil", pos |-> lexer.pos, start |-> lexer.start, parenDepth |-> Open(s)]
  BY <1>1, Record DEF Errorf, IInv, Parens
<1>5. sending' = <<x>> /\ received' = s /\ input' = input
  BY <1>1, <1>2 DEF Errorf, Running
<1>6. Sent' = Append(s, x) /\ sending' \in Seq(Items) /\ received' \in Seq(Items)
  BY <1>1, <1>2, <1>5, OneSent DEF Sent
<1>7. lexer.pos \in Places /\ lexer.start \in Places /\ x.typ \in Ends
  BY <1>2, SentFacts DEF Ends
<1> QED BY <1>1, <1>3, <1>4, <1>5, <1>6, <1>7, Finishes

LEMMA EmitsInside ==
    ASSUME IInv, Running, lexer.fn \notin InText, NEW typ \in Plain,
           NEW to \in Places, to > lexer.start, Looks(Item(typ, lexer.start, to)), Emit(typ, to, "InsideAction")
    PROVE  IInv'
<1>1. lexer' = [fn |-> "InsideAction", pos |-> to, start |-> to, parenDepth |-> lexer.parenDepth]
  BY ZenonT(30), Record DEF Emit
<1>2. lexer.parenDepth \in Int
  BY SentFacts
<1>0. typ \in Types /\ typ \notin (Ends \cup {"RightDelim", "LeftParen", "RightParen"})
  BY DEF Plain, Types, Ends
<1>3. lexer.parenDepth = lexer.parenDepth + (IF typ = "LeftParen" THEN 1 ELSE 0) - (IF typ = "RightParen" THEN 1 ELSE 0)
  BY <1>0, <1>2
<1>4. Sends(typ, to, "InsideAction", lexer.parenDepth)
  BY <1>0, <1>1, <1>3 DEF Sends, Running, Emit
<1> QED BY <1>0, <1>2, <1>4, Emits

LEMMA SpaceStep == ASSUME IInv, LexSpace PROVE IInv'
<1>1. /\ Running /\ lexer.fn \notin InText
      /\ lexer.pos = lexer.start + 1 /\ At(lexer.start) \in Blank /\ input \in Seq(Characters)
  BY DEF LexSpace, Runs, Running, InText, IInv, Position, World
<1>2. PICK to : /\ to = RunEnd(lexer.pos, Blank) /\ to \in lexer.pos..(Len(input) + 1)
               /\ At(to) \notin Blank /\ Within(lexer.pos, to, Blank)
  BY <1>1, SentFacts, NoEof, RunEndFacts
<1>3. to \in Places /\ to > lexer.start
  BY <1>1, <1>2, SentFacts DEF Places
<1>4. Looks(Item("Space", lexer.start, to))
  BY <1>1, <1>2 DEF Looks, Item
<1>5. Emit("Space", to, "InsideAction")
  BY <1>2 DEF LexSpace
<1> QED BY <1>1, <1>3, <1>4, <1>5, EmitsInside DEF Plain

LEMMA IdentifierStep == ASSUME IInv, LexIdentifier PROVE IInv'
<1>1. /\ Running /\ lexer.pos = lexer.start /\ At(lexer.start) \in (Alphanumeric \ Digits)
      /\ input \in Seq(Characters) /\ lexer.fn \notin InText
  BY DEF LexIdentifier, Runs, Running, InText, IInv, Position, World
<1>2. PICK to : /\ to = RunEnd(lexer.pos, Alphanumeric) /\ to \in lexer.pos..(Len(input) + 1)
               /\ At(to) \notin Alphanumeric /\ Within(lexer.pos, to, Alphanumeric)
  BY <1>1, SentFacts, NoEof, RunEndFacts
<1>3. to \in Places /\ to > lexer.start
  <2>1. to # lexer.start
    BY <1>1, <1>2
  <2> QED BY <1>1, <1>2, <2>1, SentFacts DEF Places
<1>4. PICK typ : typ = (IF SubSeq(input, lexer.start, to - 1) = <<"i", "f">> THEN "If" ELSE "Identifier")
  OBVIOUS
<1>5. EmitOrError(AtTerminator(to), typ, to)
  BY <1>2, <1>4 DEF LexIdentifier, Key
<1>6. CASE AtTerminator(to)
  <2>1. Within(lexer.start + 1, to, Alphanumeric)
    BY <1>1, <1>2, SentFacts DEF Within
  <2>2. Looks(Item(typ, lexer.start, to))
    BY <1>1, <1>4, <1>6, <2>1 DEF Looks, Item, Of
  <2>3. Emit(typ, to, "InsideAction")
    BY <1>5, <1>6 DEF EmitOrError
  <2>4. typ \in Plain
    BY <1>4 DEF Plain
  <2> QED BY <1>1, <1>3, <2>2, <2>3, <2>4, EmitsInside
<1>7. CASE ~AtTerminator(to)
  BY <1>1, <1>5, <1>7, Errs DEF EmitOrError
<1> QED BY <1>6, <1>7

LEMMA FieldOrVariableStep == ASSUME IInv, LexFieldOrVariable PROVE IInv'
<1>1. PICK typ \in {"Field", "Variable"} :
        /\ Runs(typ)
        /\ LET end == RunEnd(lexer.pos, Alphanumeric)
               bare == AtTerminator(lexer.pos) /\ typ = "Field"
           IN  EmitOrError(AtTerminator(end), IF bare THEN "Dot" ELSE typ, end)
  BY DEF LexFieldOrVariable
<1>2. /\ Running /\ lexer.pos = lexer.start + 1 /\ input \in Seq(Characters) /\ lexer.fn \notin InText
      /\ typ = "Field" => At(lexer.start) = "."
      /\ typ = "Variable" => At(lexer.start) = "$"
  BY <1>1 DEF Runs, Running, InText, IInv, Position, World
<1>3. PICK to : /\ to = RunEnd(lexer.pos, Alphanumeric) /\ to \in lexer.pos..(Len(input) + 1)
               /\ At(to) \notin Alphanumeric /\ Within(lexer.pos, to, Alphanumeric)
  BY SentFacts, <1>2, NoEof, RunEndFacts
<1>4. to \in Places /\ to > lexer.start
  BY <1>2, <1>3, SentFacts DEF Places
<1>5. CASE ~AtTerminator(to)
  BY <1>1, <1>2, <1>3, <1>5, Errs DEF EmitOrError
<1>6. CASE AtTerminator(to) /\ AtTerminator(lexer.pos) /\ typ = "Field"
  <2>1. Emit("Dot", to, "InsideAction")
    BY <1>1, <1>3, <1>6 DEF EmitOrError
  <2>2. to = lexer.pos
    <3>1. At(lexer.pos) \notin Alphanumeric
      BY <1>6 DEF AtTerminator, Alphanumeric, HexDigits, Digits, Blank, EndOfLine
    <3> QED BY <1>3, <3>1, SentFacts DEF Within
  <2>3. Looks(Item("Dot", lexer.start, to))
    BY <1>2, <2>2, SentFacts DEF Looks, Item
  <2> QED BY <1>2, <1>4, <2>1, <2>3, EmitsInside DEF Plain
<1>7. CASE AtTerminator(to) /\ ~(AtTerminator(lexer.pos) /\ typ = "Field")
  <2>1. Emit(typ, to, "InsideAction")
    BY <1>1, <1>3, <1>7 DEF EmitOrError
  <2>2. typ = "Field" => to - lexer.start > 1
    BY <1>2, <1>3, <1>7, SentFacts
  <2>3. Looks(Item(typ, lexer.start, to))
    BY <1>2, <1>3, <1>7, <2>2 DEF Looks, Item
  <2> QED BY <1>2, <1>4, <2>1, <2>3, EmitsInside DEF Plain
<1> QED BY <1>5, <1>6, <1>7
LEMMA SameInside ==
    ASSUME IInv, Running, lexer.fn \notin InText,
           NEW next, next \notin (InText \cup {"nil"}), NEW pos \in Places, Goto(next, pos), Position',
           next = "RightDelim" => lexer.parenDepth = 0
    PROVE  IInv'
<1>1. lexer' = [fn |-> next, pos |-> pos, start |-> lexer.start, parenDepth |-> lexer.parenDepth]
  BY Record DEF Goto
<1>2. Before(Sent, Len(Sent) + 1) = lexer.start
  BY BeforeStart DEF Running
<1>3. lexer.start \in Places
  BY SentFacts
<1> QED BY <1>1, <1>2, <1>3, Moves DEF InText, Running, Goto

LEMMA QuotedStep == ASSUME IInv, LexQuoted PROVE IInv'
<1>1. PICK q \in {<<"Quote", "quote", "String">>, <<"RawQuote", "backquote", "RawString">>,
                  <<"Char", "apostrophe", "CharConstant">>} :
        /\ Runs(q[1])
        /\ LET at      == lexer.pos
               none    == {"eof", "newline"}
               escapes == At(at) = "backslash" /\ q[1] # "RawQuote"
           IN  \/ At(at) = q[2] /\ Emit(q[3], at + 1, "InsideAction")
               \/ escapes /\ At(at + 1) \notin none /\ Goto(q[1], at + 2)
               \/ (At(at) \in none \/ (escapes /\ At(at + 1) \in none)) /\ Errorf
               \/ At(at) \notin (none \cup {q[2]}) /\ ~escapes /\ Goto(q[1], at + 1)
  BY DEF LexQuoted
<1>2. PICK fn, quote, typ : /\ q = <<fn, quote, typ>> /\ fn \in DOMAIN Quotes /\ quote = Quotes[fn]
                           /\ quote \in {"quote", "backquote", "apostrophe"}
                           /\ typ \in {"String", "RawString", "CharConstant"}
                           /\ fn \notin (InText \cup {"nil", "RightDelim"})
  BY DEF Quotes, InText
<1>3. PICK p, s : p = lexer.pos /\ s = lexer.start /\ p \in Nat /\ s \in Nat
  BY SentFacts
<1>4. /\ Running /\ input \in Seq(Characters) /\ lexer.fn = fn
      /\ p > s /\ At(s) = quote /\ \A i \in s..(p - 1) : At(i) # "newline"
  BY <1>1, <1>2, <1>3 DEF Runs, Running, IInv, World, Position
<1>5. CASE At(p) = quote /\ Emit(typ, p + 1, "InsideAction")
  <2>1. p + 1 \in Places /\ p + 1 > s
    BY <1>2, <1>3, <1>4, <1>5, AtFacts DEF Places
  <2>2. ASSUME NEW i \in s..((p + 1) - 1) PROVE At(i) # "newline"
    BY <1>2, <1>3, <1>4, <1>5
  <2>3. (p + 1) - s > 1 /\ (p + 1) - 1 = p
    BY <1>3, <1>4
  <2>4. Looks(Item(typ, s, p + 1))
    BY <1>2, <1>4, <1>5, <2>2, <2>3 DEF Looks, Item
  <2> QED BY <1>2, <1>3, <1>4, <1>5, <2>1, <2>4, EmitsInside DEF Plain
<1>6. CASE At(p) = "backslash" /\ At(p + 1) \notin {"eof", "newline"} /\ Goto(fn, p + 2)
  <2>1. p + 2 \in Places
    BY <1>3, <1>4, <1>6, AtFacts DEF Places
  <2>2. ASSUME NEW i \in s..((p + 2) - 1) PROVE At(i) # "newline"
    <3>1. i \in s..(p - 1) \/ i = p \/ i = p + 1
      BY SMTT(30), <1>3, <1>4
    <3> QED BY <1>4, <1>6, <3>1
  <2>3. Position'
    <3>1. lexer' = [fn |-> fn, pos |-> p + 2, start |-> s, parenDepth |-> lexer.parenDepth]
      BY ZenonT(30), <1>3, <1>6, Record DEF Goto
    <3>2. \A i : At(i)' = At(i)
      BY <1>4, SameInput DEF Running
    <3>3. p + 2 > s
      BY <1>3, <1>4
    <3> QED BY <1>2, <1>4, <2>2, <3>1, <3>2, <3>3 DEF Position, Quotes
  <2> QED BY <1>2, <1>3, <1>4, <1>6, <2>1, <2>3, SameInside
<1>7. CASE Errorf
  BY <1>4, <1>7, Errs
<1>8. CASE At(p) \notin {"eof", "newline"} /\ Goto(fn, p + 1)
  <2>1. p + 1 \in Places
    BY <1>3, <1>4, <1>8, AtFacts DEF Places
  <2>2. ASSUME NEW i \in s..((p + 1) - 1) PROVE At(i) # "newline"
    <3>1. i \in s..(p - 1) \/ i = p
      BY <1>3, <1>4
    <3> QED BY <1>4, <1>8, <3>1
  <2>3. Position'
    <3>1. lexer' = [fn |-> fn, pos |-> p + 1, start |-> s, parenDepth |-> lexer.parenDepth]
      BY ZenonT(30), <1>3, <1>8, Record DEF Goto
    <3>2. \A i : At(i)' = At(i)
      BY <1>4, SameInput DEF Running
    <3>3. p + 1 > s
      BY <1>3, <1>4
    <3> QED BY <1>2, <1>4, <2>2, <3>1, <3>2, <3>3 DEF Position, Quotes
  <2> QED BY <1>2, <1>3, <1>4, <1>8, <2>1, <2>3, SameInside
<1> QED BY <1>1, <1>2, <1>3, <1>5, <1>6, <1>7, <1>8
LEMMA NumberStep == ASSUME IInv, LexNumber PROVE IInv'
<1>1. /\ Running /\ lexer.pos = lexer.start /\ At(lexer.start) \in (Digits \cup {"+", "."})
      /\ input \in Seq(Characters) /\ lexer.fn \notin InText
  BY DEF LexNumber, Runs, Running, InText, IInv, World, Position
<1>2. PICK real : /\ real = ScanNumber(lexer.pos) /\ real \in lexer.pos..(Len(input) + 1) /\ real > lexer.start
                 /\ real \in Nat /\ real \in Places
  <2>1. PICK real : real = ScanNumber(lexer.pos)
    OBVIOUS
  <2>2. real \in lexer.pos..(Len(input) + 1) /\ real > lexer.pos
    BY <1>1, <2>1, SentFacts, NumberFacts
  <2> QED BY <1>1, <2>1, <2>2, SentFacts DEF Places
<1>3. ASSUME NEW typ \in {"Number", "Complex"}, NEW to \in Places, to >= real, Scanned(to), Emit(typ, to, "InsideAction")
      PROVE  IInv'
  <2>1. Looks(Item(typ, lexer.start, to))
    BY <1>1, <1>3 DEF Looks, Item, Scanned
  <2>2. to > lexer.start
    BY <1>2, <1>3, SentFacts DEF Places
  <2> QED BY <1>1, <1>3, <2>1, <2>2, EmitsInside DEF Plain
<1>4. CASE At(real) = "+"
  <2>1. PICK to : /\ to = ScanNumber(real) /\ to \in real..(Len(input) + 1)
                 /\ EmitOrError(Scanned(to) /\ At(to - 1) = "i", "Complex", to)
    BY <1>1, <1>2, <1>4, NumberFacts DEF LexNumber
  <2>2. to \in Places /\ to >= real
    BY <1>2, <2>1, SentFacts DEF Places
  <2>3. CASE Scanned(to) /\ At(to - 1) = "i"
    BY <1>3, <2>1, <2>2, <2>3 DEF EmitOrError
  <2>4. CASE ~(Scanned(to) /\ At(to - 1) = "i")
    BY <1>1, <2>1, <2>4, Errs DEF EmitOrError
  <2> QED BY <2>3, <2>4
<1>5. CASE At(real) # "+"
  <2>1. EmitOrError(Scanned(real), "Number", real)
    BY <1>2, <1>5 DEF LexNumber
  <2>2. CASE Scanned(real)
    BY <1>2, <1>3, <2>1, <2>2 DEF EmitOrError
  <2>3. CASE ~Scanned(real)
    BY <1>1, <2>1, <2>3, Errs DEF EmitOrError
  <2> QED BY <2>2, <2>3
<1> QED BY <1>4, <1>5

LEMMA ScannedStep == ASSUME IInv, LexScanned PROVE IInv'
<1>1. PICK p : p = lexer.pos /\ p = lexer.start /\ p \in Nat /\ p \in Places
  BY SentFacts DEF LexScanned, Runs, IInv, Position
<1>2. Running /\ lexer.fn = "InsideAction" /\ input \in Seq(Characters)
  BY DEF LexScanned, Runs, Running, IInv, World
<1>3. PICK fn : /\ fn = Starts /\ fn # "none"
               /\ Goto(fn, IF fn \in {"Number", "Identifier"} THEN p ELSE p + 1)
  BY <1>1 DEF LexScanned
<1>4. /\ fn \in {"Space", "Quote", "RawQuote", "Char", "Variable", "Field", "Number", "Identifier"}
      /\ At(p) # "eof"
      /\ fn = "Space" => At(p) \in Blank
      /\ fn = "Quote" => At(p) = "quote"
      /\ fn = "RawQuote" => At(p) = "backquote"
      /\ fn = "Char" => At(p) = "apostrophe"
      /\ fn = "Variable" => At(p) = "$"
      /\ fn = "Field" => At(p) = "."
      /\ fn = "Number" => At(p) \in (Digits \cup {"+", "."})
      /\ fn = "Identifier" => At(p) \in (Alphanumeric \ Digits)
  BY <1>1, <1>3, NoEof DEF Starts, IsField
<1>5. PICK pos : pos = (IF fn \in {"Number", "Identifier"} THEN p ELSE p + 1) /\ pos \in Places
  BY <1>1, <1>2, <1>4, AtFacts DEF Places
<1>6. lexer' = [fn |-> fn, pos |-> pos, start |-> p, parenDepth |-> lexer.parenDepth] /\ \A i : At(i)' = At(i)
  BY ZenonT(30), <1>1, <1>2, <1>3, <1>5, Record, SameInput DEF Goto, Running
<1>7. Position'
  <2>1. pos = p + 1 => pos > p /\ \A i \in p..(pos - 1) : i = p
    BY <1>1
  <2>2. CASE fn \in {"Number", "Identifier"}
    BY <1>4, <1>5, <1>6, <2>2 DEF Position, Quotes
  <2>3. CASE fn \in {"Space", "Variable", "Field"}
    BY <1>4, <1>5, <1>6, <2>3 DEF Position, Quotes
  <2>4. CASE fn \in {"Quote", "RawQuote", "Char"}
    <3>1. At(p) # "newline" /\ pos = p + 1 /\ At(p) = Quotes[fn] /\ fn \in DOMAIN Quotes
      BY <1>4, <1>5, <2>4 DEF Quotes
    <3> QED BY <1>6, <2>1, <2>4, <3>1 DEF Position
  <2> QED BY <1>4, <2>2, <2>3, <2>4
<1>8. fn \notin (InText \cup {"nil", "RightDelim"}) /\ lexer.fn \notin InText
  BY <1>2, <1>4 DEF InText
<1> QED BY <1>2, <1>3, <1>5, <1>7, <1>8, SameInside

LEMMA SymbolStep == ASSUME IInv, LexSymbol PROVE IInv'
<1>1. PICK p : p = lexer.pos /\ p = lexer.start /\ p \in Nat
  BY SentFacts DEF LexSymbol, Runs, IInv, Position
<1>2. Running /\ input \in Seq(Characters) /\ lexer.fn \notin InText
  BY DEF LexSymbol, Runs, Running, InText, IInv, World
<1>3. ASSUME NEW typ \in {"ColonEquals", "Pipe", "Char"}, NEW to \in {p + 1, p + 2}, to \in Places,
             Emit(typ, to, "InsideAction")
      PROVE  IInv'
  <2>1. to > p /\ to - p \in {1, 2}
    BY <1>1, <1>3
  <2>2. Looks(Item(typ, p, to))
    BY <2>1 DEF Looks, Item
  <2> QED BY <1>1, <1>2, <1>3, <2>1, <2>2, EmitsInside DEF Plain
<1>4. At(p) # "eof" => p + 1 \in Places
  BY <1>1, <1>2, AtFacts DEF Places
<1>5. At(p + 1) # "eof" => p + 2 \in Places
  BY <1>1, <1>2, AtFacts DEF Places
<1>6. CASE At(p) = ":"
  <2>1. IF At(p + 1) = "=" THEN Emit("ColonEquals", p + 2, "InsideAction") ELSE Errorf
    BY <1>1, <1>6 DEF LexSymbol, Printable, EndOfLine, Unprintable
  <2> QED BY <1>2, <1>3, <1>5, <2>1, Errs
<1>7. CASE At(p) = "|"
  <2>1. Emit("Pipe", p + 1, "InsideAction")
    BY <1>1, <1>7 DEF LexSymbol, Printable, EndOfLine, Unprintable
  <2> QED BY <1>3, <1>4, <1>7, <2>1
<1>8. CASE At(p) \in Printable /\ Emit("Char", p + 1, "InsideAction")
  <2>1. At(p) # "eof"
    BY <1>8 DEF Printable
  <2> QED BY <1>3, <1>4, <1>8, <2>1
<1>9. CASE Errorf
  BY <1>2, <1>9, Errs
<1> QED BY <1>1, <1>6, <1>7, <1>8, <1>9 DEF LexSymbol

LEMMA LeftParenStep == ASSUME IInv, LexLeftParen PROVE IInv'
<1>1. PICK p : p = lexer.pos /\ p = lexer.start /\ p \in Nat
  BY SentFacts DEF LexLeftParen, Runs, IInv, Position
<1>2. PICK depth : depth = lexer.parenDepth /\ depth \in Int
  BY SentFacts
<1>3. p + 1 \in Places /\ p + 1 > p /\ (p + 1) - p \in {1, 2}
  BY <1>1, AtFacts DEF LexLeftParen, Places, IInv, World
<1>4. lexer' = [fn |-> "InsideAction", pos |-> p + 1, start |-> p + 1, parenDepth |-> depth + 1]
  BY <1>1, <1>2 DEF LexLeftParen, Runs, IInv, World
<1>5. Looks(Item("LeftParen", p, p + 1))
  BY <1>3 DEF Looks, Item
<1>6. Sends("LeftParen", p + 1, "InsideAction", depth + 1)
  <2>1. "LeftParen" \notin Ends
    BY DEF Ends
  <2>2. depth + 1 = depth + (IF "LeftParen" = "LeftParen" THEN 1 ELSE 0) - (IF "LeftParen" = "RightParen" THEN 1 ELSE 0)
    BY <1>2
  <2>3. /\ lexer.fn # "nil" /\ lexer.fn \notin InText /\ sending = <<>> /\ UNCHANGED <<input, received, parser>>
        /\ sending' = <<Item("LeftParen", p, p + 1)>>
    BY <1>1 DEF LexLeftParen, Runs, InText
  <2> QED BY <1>1, <1>2, <1>3, <1>4, <1>5, <2>1, <2>2, <2>3 DEF Sends
<1>7. "LeftParen" \in Types /\ depth + 1 \in Int
  BY <1>2 DEF Types
<1> QED BY <1>3, <1>6, <1>7, Emits
LEMMA TwoSent ==
    ASSUME NEW s \in Seq(Items), NEW x \in Items, NEW y \in Items
    PROVE  s \o <<x, y>> = Append(Append(s, x), y) /\ <<x, y>> \in Seq(Items)
OBVIOUS

LEMMA FinishesAfter ==
    ASSUME IInv, Running, NEW x, Fits(Sent, x), x.typ \notin Ends,
           NEW y \in Items, y.typ \in Ends, y.from = x.to, y.typ = "EOF" => y.from = Len(input) + 1,
           sending' = <<x, y>>, NEW pos \in Places, NEW start \in Places,
           lexer' = [fn |-> "nil", pos |-> pos, start |-> start,
                     parenDepth |-> lexer.parenDepth - (IF x.typ = "RightParen" THEN 1 ELSE 0)],
           x.typ # "LeftParen"
    PROVE  IInv'
<1>1. PICK s : s = Sent /\ s = received /\ s \in Seq(Items) /\ Len(s) \in Nat /\ Good(s) /\ NoneEnds(s) /\ Fits(s, x)
  BY SentFacts DEF Running
<1>2. x \in Items /\ x.to \in Nat
  BY DEF Fits, Items
<1>3. PICK t : t = Append(s, x)
  OBVIOUS
<1>4. /\ Good(t) /\ Before(t, Len(t) + 1) = x.to /\ Open(s) \in Int
      /\ Open(t) = Open(s) + (IF x.typ = "LeftParen" THEN 1 ELSE 0) - (IF x.typ = "RightParen" THEN 1 ELSE 0)
  BY <1>1, <1>3, Grows, Zenon
<1>5. Open(t) = lexer.parenDepth - (IF x.typ = "RightParen" THEN 1 ELSE 0)
  <2>1. Open(s) = lexer.parenDepth
    BY <1>1 DEF IInv, Parens
  <2> QED BY <1>4, <2>1
<1>6. NoneEnds(t)
  <2>1. Len(t) = Len(s) + 1 /\ t[Len(s) + 1] = x /\ \A i \in 1..Len(s) : t[i] = s[i]
    BY <1>1, <1>2, <1>3, AppendFacts, Zenon
  <2> SUFFICES ASSUME NEW i \in 1..Len(t) PROVE t[i].typ \notin Ends
    BY DEF NoneEnds
  <2>2. i \in 1..Len(s) \/ i = Len(s) + 1
    BY <1>1, <2>1
  <2> QED BY <1>1, <2>1, <2>2 DEF NoneEnds
<1>7. Fits(t, y)
  BY <1>2, <1>4 DEF Fits, Ends
<1>8. received' = s /\ input' = input
  BY <1>1 DEF Running
<1>9. Sent' = Append(t, y) /\ sending' \in Seq(Items)
  <2>1. s \o <<x, y>> = Append(t, y) /\ <<x, y>> \in Seq(Items)
    BY <1>1, <1>2, <1>3, TwoSent, Zenon
  <2> QED BY <1>8, <2>1 DEF Sent
<1> QED BY <1>1, <1>4, <1>5, <1>6, <1>7, <1>8, <1>9, Finishes

LEMMA RightParenStep == ASSUME IInv, LexRightParen PROVE IInv'
<1>1. PICK p : p = lexer.pos /\ p = lexer.start /\ p \in Nat
  BY SentFacts DEF LexRightParen, Runs, IInv, Position
<1>2. PICK depth : depth = lexer.parenDepth /\ depth \in Int
  BY SentFacts
<1>3. p + 1 \in Places /\ p + 1 > p /\ (p + 1) - p \in {1, 2}
  BY <1>1, AtFacts DEF LexRightParen, Places, IInv, World
<1>4. Looks(Item("RightParen", p, p + 1))
  BY <1>3 DEF Looks, Item
<1>5. "RightParen" \in Types /\ "RightParen" \notin Ends /\ "Error" \in Types /\ "Error" \in Ends
  BY DEF Types, Ends
<1>6. Running /\ lexer.fn \notin InText
  BY DEF LexRightParen, Runs, Running, InText
<1>7. PICK r : r = "RightParen"
  OBVIOUS
<1>8. CASE depth > 0
  <2>1. lexer' = [fn |-> "InsideAction", pos |-> p + 1, start |-> p + 1, parenDepth |-> depth - 1]
    BY <1>1, <1>2, <1>8 DEF LexRightParen, Runs, IInv, World
  <2>2. sending' = <<Item(r, p, p + 1)>>
    BY <1>1, <1>2, <1>7, <1>8 DEF LexRightParen
  <2>3. depth - 1 = depth + (IF r = "LeftParen" THEN 1 ELSE 0) - (IF r = "RightParen" THEN 1 ELSE 0)
    BY <1>2, <1>7
  <2>4. Sends(r, p + 1, "InsideAction", depth - 1)
    BY <1>1, <1>2, <1>3, <1>4, <1>5, <1>6, <1>7, <2>1, <2>2, <2>3 DEF Sends, Running
  <2> QED BY <1>2, <1>3, <1>5, <1>7, <2>4, Emits
<1>9. CASE ~(depth > 0)
  <2>1. lexer' = [fn |-> "nil", pos |-> p + 1, start |-> p + 1, parenDepth |-> depth - 1]
    <3>1. PICK f, i, b, d : lexer = [fn |-> f, pos |-> i, start |-> b, parenDepth |-> d]
      BY DEF IInv, World
    <3>2. lexer' = [lexer EXCEPT !.fn = "nil", !.pos = p + 1, !.start = p + 1, !.parenDepth = @ - 1]
      BY <1>1, <1>2, <1>9 DEF LexRightParen
    <3> QED BY <1>2, <3>1, <3>2
  <2>2. PICK x, y : x = Item(r, p, p + 1) /\ y = Item("Error", p + 1, p + 1) /\ sending' = <<x, y>>
    BY <1>1, <1>2, <1>7, <1>9 DEF LexRightParen
  <2>3. Fits(Sent, x)
    BY <1>1, <1>3, <1>4, <1>5, <1>6, <1>7, <2>2, ItemFits DEF Running
  <2>4. x.typ = "RightParen" /\ x.to = p + 1
    BY <1>7, <2>2 DEF Item
  <2>5. y \in Items /\ y.typ = "Error" /\ y.from = p + 1
    BY <1>1, <1>5, <2>2 DEF Item, Items
  <2>6. depth - 1 = depth - (IF x.typ = "RightParen" THEN 1 ELSE 0)
    BY <1>2, <2>4
  <2> QED BY <1>2, <1>3, <1>5, <1>6, <2>1, <2>2, <2>3, <2>4, <2>5, <2>6, FinishesAfter
<1> QED BY <1>8, <1>9
\* Two characters are behind the next place.
LEMMA TwoInside ==
    ASSUME input \in Seq(Characters), NEW p \in Nat, NEW x, NEW y, y # "eof", HasPrefix(p, x, y), x # "eof"
    PROVE  p \in Places /\ p + 2 \in Places /\ p + 2 > p /\ (p + 2) - p = 2
<1>1. Len(input) \in Nat
  BY AtFacts
<1>2. p \in 1..Len(input) /\ p + 1 \in 1..Len(input)
  BY AtFacts DEF HasPrefix
<1> QED BY <1>1, <1>2 DEF Places

LEMMA RightDelimStep == ASSUME IInv, LexRightDelim PROVE IInv'
<1>1. PICK p : p = lexer.pos /\ p = lexer.start /\ p \in Nat /\ HasPrefix(p, "}", "}")
  BY SentFacts DEF LexRightDelim, Runs, IInv, Position
<1>2. Running /\ lexer.fn \notin InText /\ lexer.parenDepth = 0 /\ input \in Seq(Characters)
  BY DEF LexRightDelim, Runs, Running, InText, IInv, Parens, World
<1>3. p + 2 \in Places /\ p + 2 > p /\ (p + 2) - p = 2
  BY <1>1, <1>2, TwoInside
<1>4. PICK r : r = "RightDelim"
  OBVIOUS
<1>5. r \in Types /\ r \notin Ends
  BY <1>4 DEF Types, Ends
<1>6. Looks(Item(r, p, p + 2))
  BY <1>1, <1>3, <1>4 DEF Looks, Item
<1>7. lexer' = [fn |-> "Text", pos |-> p + 2, start |-> p + 2, parenDepth |-> 0] /\ sending' = <<Item(r, p, p + 2)>>
  <2>1. Emit("RightDelim", p + 2, "Text")
    BY <1>1 DEF LexRightDelim
  <2>2. PICK to : to = p + 2
    OBVIOUS
  <2>3. lexer' = [fn |-> "Text", pos |-> to, start |-> to, parenDepth |-> lexer.parenDepth]
    BY <2>1, <2>2, Record DEF Emit
  <2> QED BY <1>1, <1>2, <1>4, <2>1, <2>2, <2>3 DEF Emit
<1>8. Sends(r, p + 2, "Text", 0)
  <2>1. 0 = lexer.parenDepth + (IF r = "LeftParen" THEN 1 ELSE 0) - (IF r = "RightParen" THEN 1 ELSE 0)
    BY <1>2, <1>4
  <2> QED BY <1>1, <1>2, <1>3, <1>4, <1>5, <1>6, <1>7, <2>1 DEF Sends, Running
<1> QED BY <1>3, <1>5, <1>8, Emits

LEMMA LeftDelimStep == ASSUME IInv, LexLeftDelim PROVE IInv'
<1>1. PICK p : p = lexer.pos /\ p = lexer.start /\ p \in Nat /\ HasPrefix(p, "{", "{")
  BY SentFacts DEF LexLeftDelim, Runs, IInv, Position
<1>2. /\ Running /\ lexer.fn = "LeftDelim" /\ lexer.parenDepth = 0 /\ input \in Seq(Characters)
  BY DEF LexLeftDelim, Runs, Running, IInv, Parens, World
<1>3. p + 2 \in Places /\ p + 2 > p /\ (p + 2) - p = 2 /\ p \in Places
  BY <1>1, <1>2, TwoInside
<1>4. CASE HasPrefix(p + 2, "/", "*")
  <2>1. Goto("Comment", p + 2)
    BY <1>1, <1>4 DEF LexLeftDelim
  <2>2. lexer' = [fn |-> "Comment", pos |-> p + 2, start |-> p, parenDepth |-> lexer.parenDepth]
    BY <1>1, <2>1, Record DEF Goto
  <2>3. Position'
    <3>1. \A i, x, y : HasPrefix(i, x, y)' <=> HasPrefix(i, x, y)
      BY <1>2, SameInput DEF Running
    <3> QED BY <1>1, <1>4, <2>2, <3>1 DEF Position, Quotes
  <2>4. \/ Before(Sent, Len(Sent) + 1) = p
        \/ "Comment" \in InText /\ IsComments(Before(Sent, Len(Sent) + 1), p)
    BY <1>1, <1>2, BeforeStart DEF InText
  <2> QED BY <1>2, <1>3, <2>1, <2>2, <2>3, <2>4, Moves DEF Goto, Running
<1>5. CASE ~HasPrefix(p + 2, "/", "*")
  <2>1. PICK l : l = "LeftDelim"
    OBVIOUS
  <2>2. l \in Types /\ l \notin Ends /\ l \in AfterComments
    BY <2>1 DEF Types, Ends, AfterComments
  <2>3. Looks(Item(l, p, p + 2))
    BY <1>1, <1>3, <2>1 DEF Looks, Item
  <2>4. lexer' = [fn |-> "InsideAction", pos |-> p + 2, start |-> p + 2, parenDepth |-> 0]
        /\ sending' = <<Item(l, p, p + 2)>>
    BY <1>1, <1>5, <2>1 DEF LexLeftDelim
  <2>5. Sends(l, p + 2, "InsideAction", 0)
    <3>1. 0 = lexer.parenDepth + (IF l = "LeftParen" THEN 1 ELSE 0) - (IF l = "RightParen" THEN 1 ELSE 0)
      BY <1>2, <2>1
    <3> QED BY <1>1, <1>2, <1>3, <2>1, <2>2, <2>3, <2>4, <3>1 DEF Sends, Running
  <2> QED BY <1>3, <2>2, <2>5, Emits
<1> QED BY <1>4, <1>5

LEMMA CommentStep == ASSUME IInv, LexComment PROVE IInv'
<1>1. PICK s, i : s = lexer.start /\ s \in Nat /\ i = lexer.pos + 2 /\ i \in Nat /\ i = s + 4 /\ i # 0
  <2>1. PICK s, p : s = lexer.start /\ p = lexer.pos /\ s \in Nat /\ p \in Nat
    BY SentFacts
  <2>2. p = s + 2
    BY <2>1 DEF LexComment, Runs, IInv, Position
  <2>3. p + 2 \in Nat /\ p + 2 = s + 4 /\ p + 2 # 0
    BY <2>1, <2>2
  <2> QED BY <2>1, <2>3
<1>2. /\ Running /\ lexer.fn = "Comment" /\ lexer.parenDepth = 0 /\ input \in Seq(Characters)
  BY DEF LexComment, Runs, Running, IInv, Parens, World
<1>3. HasPrefix(s, "{", "{") /\ HasPrefix(s + 2, "/", "*")
  BY <1>1 DEF LexComment, Runs, IInv, Position
<1>4. Len(input) \in Nat
  BY <1>2, AtFacts
<1>5. Find(i, "*", "/") = 0 \/ (Find(i, "*", "/") \in i..Len(input) /\ HasPrefix(Find(i, "*", "/"), "*", "/"))
  BY <1>1, <1>2, FindFacts
<1>6. PICK close : close = Find(i, "*", "/") /\ close \in Nat
  BY <1>1, <1>4, <1>5
<1>7. close # 0 => close >= i
  BY <1>1, <1>6, <1>4, <1>5
<1>8. close # 0 => HasPrefix(close, "*", "/")
  BY <1>6, <1>5
<1>9. PICK j, k : j = close + 2 /\ k = close + 4 /\ j \in Nat /\ k \in Nat /\ j + 2 = k /\ k - 4 = close /\ k - 2 = j
  BY <1>6
<1>10. CASE close = 0 \/ ~HasPrefix(j, "}", "}")
  <2>1. Errorf
    BY <1>1, <1>6, <1>9, <1>10 DEF LexComment
  <2> QED BY <1>2, <2>1, Errs
<1>11. CASE close # 0 /\ HasPrefix(j, "}", "}")
  <2>1. lexer' = [lexer EXCEPT !.fn = "Text", !.pos = k, !.start = k] /\ sending' = <<>>
    BY <1>1, <1>2, <1>6, <1>9, <1>11 DEF LexComment, Running
  <2>2. lexer' = [fn |-> "Text", pos |-> k, start |-> k, parenDepth |-> lexer.parenDepth]
    BY ZenonT(30), <2>1, Record
  <2>3. close >= s + 4
    BY <1>1, <1>6, <1>11, <1>7
  <2>4. k \in Places
    <3>1. j + 2 \in Places
      BY <1>2, <1>9, <1>11, TwoInside
    <3> QED BY <1>9, <3>1
  <2>5. Position'
    BY <2>2 DEF Position, Quotes
  <2>6. PICK before : before = Before(Sent, Len(Sent) + 1) /\ before \in Nat
    BY SentFacts, BeforeNat
  <2>7. CASE before = s
    <3>1. k - before > 7
      BY <1>1, <1>6, <1>9, <2>3, <2>7
    <3>2. IsComments(before, k)
      BY <1>3, <1>9, <1>11, <1>8, <2>7, <3>1 DEF IsComments
    <3> QED BY <1>2, <2>1, <2>2, <2>4, <2>5, <2>6, <2>7, <3>2, Moves DEF InText, Running
  <2>8. CASE IsComments(before, s)
    <3>1. HasPrefix(before, "{", "{") /\ HasPrefix(before + 2, "/", "*")
      BY <2>8 DEF IsComments
    <3>2. k - before > 7
      <4>1. s - before > 7
        BY <2>8 DEF IsComments
      <4>2. k >= s + 8
        BY <1>1, <1>6, <1>9, <2>3
      <4>3. before \in Nat /\ s \in Nat /\ k \in Nat
        BY <1>1, <1>9, <2>6
      <4> QED BY <4>1, <4>2, <4>3
    <3>3. IsComments(before, k)
      BY <1>9, <1>11, <1>8, <3>1, <3>2 DEF IsComments
    <3> QED BY <1>2, <2>1, <2>2, <2>4, <2>5, <2>6, <3>3, Moves DEF InText, Running
  <2> QED BY <1>1, <1>2, <2>6, <2>7, <2>8, BeforeStart
<1> QED BY <1>10, <1>11

LEMMA ClosedStep == ASSUME IInv, LexClosed PROVE IInv'
<1>1. PICK p : p = lexer.pos /\ p = lexer.start /\ p \in Places /\ HasPrefix(p, "}", "}")
  BY SentFacts DEF LexClosed, Closed, Runs, IInv, Position
<1>2. Running /\ lexer.fn = "InsideAction" /\ lexer.fn \notin InText
  BY DEF LexClosed, Runs, Running, InText
<1>3. CASE lexer.parenDepth = 0
  <2>1. Goto("RightDelim", p)
    BY <1>1, <1>3 DEF LexClosed
  <2>2. lexer' = [fn |-> "RightDelim", pos |-> p, start |-> p, parenDepth |-> lexer.parenDepth]
    BY <1>1, <2>1, Record DEF Goto
  <2>3. Position'
    <3>1. \A i, x, y : HasPrefix(i, x, y)' <=> HasPrefix(i, x, y)
      BY <1>2, SameInput DEF Running
    <3> QED BY <1>1, <2>2, <3>1 DEF Position, Quotes
  <2>4. "RightDelim" \notin (InText \cup {"nil"})
    BY DEF InText
  <2> QED BY <1>1, <1>2, <1>3, <2>1, <2>3, <2>4, SameInside
<1>4. CASE lexer.parenDepth # 0
  BY <1>2, <1>4, Errs DEF LexClosed
<1> QED BY <1>3, <1>4

LEMMA AppendShort ==
    ASSUME NEW x \in Items, NEW y \in Items
    PROVE  Append(<<x>>, y) = <<x, y>> /\ Append(<<>>, y) = <<y>>
<1>1. PICK empty : empty = <<>> /\ empty \in Seq(Items)
  BY EmptySeq
<1>2. empty \o <<x, y>> = Append(Append(empty, x), y) /\ <<x, y>> \in Seq(Items)
  BY <1>1, TwoSent
<1>3. \A z \in Items : empty \o <<z>> = Append(empty, z) /\ <<z>> \in Seq(Items)
  BY <1>1, OneSent
<1>4. \A t \in Seq(Items) : empty \o t = t
  BY <1>1, ConcatEmptySeq
<1> QED BY <1>1, <1>2, <1>3, <1>4, Zenon

LEMMA TextStep == ASSUME IInv, LexText PROVE IInv'
<1>1. PICK p : p = lexer.pos /\ p = lexer.start /\ p \in Nat
  <2>1. lexer.pos \in Nat
    BY SentFacts
  <2> QED BY <2>1 DEF LexText, Runs, IInv, Position
<1>2. /\ Running /\ lexer.fn = "Text" /\ lexer.fn \in InText /\ lexer.parenDepth = 0
      /\ input \in Seq(Characters)
  BY DEF LexText, Runs, Running, InText, IInv, Parens, World
<1>3. Len(input) \in Nat
  BY <1>2, AtFacts
<1>16. p \in Places /\ p # 0 /\ p <= Len(input) + 1
  <2>1. p \in Places
    BY <1>1, SentFacts
  <2> QED BY <1>1, <1>3, <2>1 DEF Places
<1>4. PICK delim : delim = Find(p, "{", "{") /\ delim \in Nat
  BY <1>1, <1>2, <1>16, FindWhere
<1>17. delim # 0 => delim >= p /\ delim <= Len(input)
  BY <1>1, <1>2, <1>4, <1>16, FindWhere
<1>5. \/ delim = 0 /\ \A i \in Nat : i >= p => ~HasPrefix(i, "{", "{")
      \/ /\ delim \in p..Len(input) /\ HasPrefix(delim, "{", "{")
         /\ \A i \in p..(delim - 1) : ~HasPrefix(i, "{", "{")
  BY <1>1, <1>2, <1>4, <1>16, FindFacts
<1>18. PICK n : n = Len(input) + 1 /\ n \in Nat
  BY <1>3
<1>6. PICK end : end \in Nat /\ (delim = 0 => end = n) /\ (delim # 0 => end = delim)
  <2>1. CASE delim = 0
    BY <1>18, <2>1
  <2>2. CASE delim # 0
    BY <1>4, <2>2
  <2> QED BY <2>1, <2>2
<1>7. end \in Places /\ end >= p
  <2>1. CASE delim = 0
    BY <1>1, <1>3, <1>6, <1>16, <1>18, <2>1 DEF Places
  <2>2. CASE delim # 0
    <3>1. end >= p /\ end <= Len(input) /\ p >= 1
      <4>1. p \in Nat /\ p # 0
        BY <1>1, <1>16
      <4> QED BY <1>6, <1>17, <2>2, <4>1
    <3> QED BY <1>1, <1>3, <1>6, <3>1 DEF Places
  <2> QED BY <2>1, <2>2
<1>8. delim # 0 => HasPrefix(end, "{", "{")
  BY <1>1, <1>5, <1>6
<1>9. ASSUME NEW i \in p..(end - 1) PROVE ~HasPrefix(i, "{", "{")
  <2>1. i \in Nat /\ i >= p
    BY <1>1, <1>6
  <2>2. delim # 0 => i \in p..(delim - 1)
    BY <1>6
  <2>3. CASE delim = 0
    <3>1. \A j \in Nat : j >= p => ~HasPrefix(j, "{", "{")
      BY <1>1, <1>2, <1>4, <1>16, <2>3, FindWhere
    <3> QED BY <2>1, <3>1
  <2>4. CASE delim # 0
    BY <1>5, <2>2, <2>4
  <2> QED BY <2>3, <2>4
<1>10. PICK r, item : r = "Text" /\ item = Item(r, p, end)
  OBVIOUS
<1>11. end > p => Looks(item)
  BY <1>9, <1>10 DEF Looks, Item
<1>12. LET text == IF end > p THEN <<item>> ELSE <<>>
       IN  /\ sending' = IF delim = 0 THEN Append(text, Item("EOF", end, end)) ELSE text
           /\ lexer' = [lexer EXCEPT !.fn = IF delim = 0 THEN "nil" ELSE "LeftDelim", !.pos = end, !.start = end]
  <2>1. end = (IF delim = 0 THEN Len(input) + 1 ELSE delim)
    BY <1>6, <1>18
  <2> QED BY <1>1, <1>4, <1>10, <2>1 DEF LexText
<1>13. r \in Types /\ r \notin Ends /\ "EOF" \in Types /\ "EOF" \in Ends /\ r \in AfterComments /\ "EOF" \in AfterComments
  BY <1>10 DEF Types, Ends, AfterComments
<1>14. CASE delim # 0
  <2>1. lexer' = [fn |-> "LeftDelim", pos |-> end, start |-> end, parenDepth |-> lexer.parenDepth]
    BY ZenonT(30), <1>12, <1>14, Record
  <2>2. CASE end > p
    <3>1. sending' = <<Item(r, p, end)>>
      BY <1>10, <1>12, <1>14, <2>2
    <3>2. 0 = lexer.parenDepth + (IF r = "LeftParen" THEN 1 ELSE 0) - (IF r = "RightParen" THEN 1 ELSE 0)
      BY <1>2, <1>10
    <3>3. Sends(r, end, "LeftDelim", 0)
      BY <1>1, <1>2, <1>8, <1>10, <1>11, <1>13, <1>14, <2>1, <2>2, <3>1, <3>2 DEF Sends, Running
    <3> QED BY <1>7, <1>13, <3>3, Emits
  <2>3. CASE ~(end > p)
    <3>1. sending' = <<>> /\ end = p
      BY <1>1, <1>6, <1>7, <1>12, <1>14, <2>3
    <3>2. Position'
      <4>1. \A i, x, y : HasPrefix(i, x, y)' <=> HasPrefix(i, x, y)
        BY <1>2, SameInput DEF Running
      <4> QED BY <1>8, <1>14, <2>1, <4>1 DEF Position, Quotes
    <3>3. \/ Before(Sent, Len(Sent) + 1) = p
          \/ "LeftDelim" \in InText /\ IsComments(Before(Sent, Len(Sent) + 1), p)
      BY <1>1, <1>2, BeforeStart DEF InText
    <3> QED BY <1>2, <1>7, <2>1, <3>1, <3>2, <3>3, Moves DEF Running
  <2> QED BY <2>2, <2>3
<1>15. CASE delim = 0
  <2>1. lexer' = [fn |-> "nil", pos |-> end, start |-> end, parenDepth |-> 0]
    BY <1>2, <1>12, <1>15, Record
  <2>2. PICK y : y = Item("EOF", end, end) /\ y \in Items /\ y.typ = "EOF" /\ y.from = end /\ y.typ \in Ends
    <3>1. Item("EOF", end, end) \in Items
      BY <1>6, <1>13 DEF Item, Items
    <3> QED BY <1>13, <3>1 DEF Item
  <2>3. end = Len(input) + 1
    BY <1>6, <1>15, <1>18
  <2>4. CASE end > p
    <3>1. sending' = <<item, y>>
      <4>1. sending' = Append(IF end > p THEN <<item>> ELSE <<>>, y)
        BY <1>12, <1>15, <2>2
      <4>2. item \in Items
        <5>1. Item(r, p, end) \in Items
          BY <1>1, <1>6, <1>13 DEF Item, Items
        <5> QED BY <1>10, <5>1
      <4>3. Append(<<item>>, y) = <<item, y>>
        BY <2>2, <4>2, AppendShort
      <4> QED BY <2>4, <4>1, <4>3
    <3>2. Fits(Sent, item)
      BY <1>1, <1>2, <1>6, <1>10, <1>11, <1>13, <2>4, ItemFits DEF Running
    <3>3. item.typ = "Text" /\ item.to = end
      BY <1>10 DEF Item
    <3>4. 0 = lexer.parenDepth - (IF item.typ = "RightParen" THEN 1 ELSE 0)
      BY <1>2, <3>3
    <3> QED BY <1>2, <1>7, <1>10, <1>13, <2>1, <2>2, <2>3, <3>1, <3>2, <3>3, <3>4, FinishesAfter
  <2>5. CASE ~(end > p)
    <3>1. sending' = <<y>> /\ end = p
      <4>1. sending' = Append(IF end > p THEN <<item>> ELSE <<>>, y)
        BY <1>12, <1>15, <2>2
      <4>2. Append(<<>>, y) = <<y>>
        BY <2>2, AppendShort
      <4>3. end = p
        BY <1>1, <1>6, <1>7, <2>5
      <4> QED BY <2>5, <4>1, <4>2, <4>3
    <3>2. PICK s : s = Sent /\ s = received /\ s \in Seq(Items) /\ Good(s) /\ NoneEnds(s)
      BY <1>2, SentFacts DEF Running
    <3>3. Fits(s, y)
      <4>1. /\ end >= Before(s, Len(s) + 1)
            /\ end = Before(s, Len(s) + 1) \/ IsComments(Before(s, Len(s) + 1), end)
        BY <1>1, <1>2, <3>1, <3>2, BeforeStart DEF Running
      <4> QED BY <1>13, <2>2, <2>3, <4>1 DEF Fits
    <3>4. Sent' = Append(s, y) /\ sending' \in Seq(Items) /\ received' \in Seq(Items) /\ input' = input
      BY <1>2, <2>2, <3>1, <3>2, OneSent DEF Sent, Running
    <3>5. Open(s) = 0
      BY <1>2, <3>2 DEF IInv, Parens
    <3> QED BY <1>7, <2>1, <2>2, <3>2, <3>3, <3>4, <3>5, Finishes
  <2> QED BY <2>4, <2>5
<1> QED BY <1>14, <1>15

LEMMA RunStep == ASSUME IInv, Run PROVE IInv'
BY TextStep, LeftDelimStep, CommentStep, RightDelimStep, ScannedStep, SymbolStep, LeftParenStep, RightParenStep,
   ClosedStep, SpaceStep, IdentifierStep, FieldOrVariableStep, QuotedStep, NumberStep DEF Run

-----------------------------------------------------------------------------
(* The parser. *)

LEMMA Passed ==
    ASSUME NEW s \in Seq(Items), NEW t \in Seq(Items), t # <<>>
    PROVE  /\ Append(s, Head(t)) \in Seq(Items) /\ Tail(t) \in Seq(Items)
           /\ Append(s, Head(t)) \o Tail(t) = s \o t
<1>1. PICK x, u : x = Head(t) /\ u = Tail(t) /\ x \in Items /\ u \in Seq(Items)
  BY HeadTailProperties
<1>2. PICK one : one = <<x>> /\ one \in Seq(Items) /\ s \o one = Append(s, x)
  BY <1>1, OneSent
<1>3. one \o u = t
  BY <1>1, <1>2
<1>4. (s \o one) \o u = s \o (one \o u)
  BY <1>1, <1>2, ConcatAssociative
<1>5. Append(s, x) \in Seq(Items)
  BY <1>1, AppendFacts
<1> QED BY <1>1, <1>2, <1>3, <1>4, <1>5, Zenon

\* What has been sent is the same, and so is all that the invariant is about.
LEMMA SameSent ==
    ASSUME IInv, UNCHANGED <<input, lexer>>, Sent' = Sent, received' \in Seq(Items), sending' \in Seq(Items)
    PROVE  IInv'
<1>1. PICK s : s = Sent /\ Sent' = s /\ Good(s)
  BY SentFacts
<1>2. World'
  BY DEF IInv, World, Places
<1>3. Position'
  BY SameInput DEF IInv, Position
<1>4. lexer'.fn # "nil" => Joined(s)'
  BY <1>1, SameInput DEF IInv, Joined
<1>5. lexer'.parenDepth = Open(s) /\ (lexer'.fn \in {"Text", "LeftDelim", "Comment", "RightDelim"} => Open(s) = 0)
  BY <1>1 DEF IInv, Parens
<1>6. \A i \in 1..Len(s) : s[i].typ \in Ends => lexer'.fn = "nil" /\ i = Len(s)
  BY <1>1, SentFacts DEF IInv, EndsLast
<1> QED BY <1>1, <1>2, <1>3, <1>4, <1>5, <1>6, Closes

LEMMA NextItemStep == ASSUME IInv, NextItem PROVE IInv'
<1>1. /\ received' = Append(received, Head(sending)) /\ sending' = Tail(sending)
      /\ sending # <<>> /\ UNCHANGED <<input, lexer>>
  BY DEF NextItem
<1>2. received \in Seq(Items) /\ sending \in Seq(Items)
  BY DEF IInv, World
<1>3. received' \in Seq(Items) /\ sending' \in Seq(Items) /\ Sent' = Sent
  BY <1>1, <1>2, Passed, Zenon DEF Sent
<1> QED BY <1>1, <1>3, SameSent

-----------------------------------------------------------------------------
(* The theorems. *)

LEMMA InitInvariant == Init => IInv
<1> SUFFICES ASSUME Init PROVE IInv
  OBVIOUS
<1>1. PICK empty : empty = <<>> /\ empty \in Seq(Items) /\ empty \o empty = empty /\ Len(empty) = 0
  <2>1. <<>> \in Seq(Items) /\ Len(<<>>) = 0
    BY EmptySeq
  <2>2. <<>> \o <<>> = <<>>
    BY <2>1, ConcatEmptySeq
  <2> QED BY <2>1, <2>2
<1>2. Sent = empty /\ DOMAIN Sent = {}
  <2>1. Sent = empty
    BY <1>1 DEF Init, Sent
  <2>2. DOMAIN empty = 1..0
    BY <1>1, LenProperties
  <2> QED BY <2>1, <2>2
<1>3. World
  <2>1. Len(input) \in Nat
    BY InputsAssumption DEF Init
  <2>2. 1 \in Places
    BY <2>1 DEF Places
  <2> QED BY <1>1, <2>2, InputsAssumption DEF Init, World
<1>4. Position
  BY DEF Init, Position, Quotes
<1>5. Joined(Sent)
  BY <1>1, <1>2 DEF Joined, Before, Init
<1>6. Parens
  <2>1. \A typ : UpTo(empty, 0, typ) = 0
    <3> TAKE typ
    <3>1. {j \in 1..0 : empty[j].typ = typ} = {}
      OBVIOUS
    <3> QED BY <3>1, FS_EmptySet DEF UpTo
  <2>2. Open(empty) = 0
    BY <1>1, <2>1 DEF Open
  <2> QED BY <1>2, <2>2 DEF Parens, Init
<1>7. EndsLast /\ ItemsTile
  BY <1>2 DEF EndsLast, ItemsTile
<1> QED BY <1>3, <1>4, <1>5, <1>6, <1>7 DEF IInv

LEMMA StepInvariant == IInv /\ [Next]_vars => IInv'
<1> SUFFICES ASSUME IInv, [Next]_vars PROVE IInv'
  OBVIOUS
<1>1. ASSUME UNCHANGED <<input, lexer, sending, received>> PROVE IInv'
  <2>1. Sent' = Sent
    BY <1>1 DEF Sent
  <2>2. received' \in Seq(Items) /\ sending' \in Seq(Items)
    BY <1>1 DEF IInv, World
  <2> QED BY <1>1, <2>1, <2>2, SameSent
<1>2. CASE StopParse
  BY <1>1, <1>2 DEF StopParse
<1>3. CASE Idle
  BY <1>1, <1>3 DEF Idle, vars
<1>4. CASE UNCHANGED vars
  BY <1>1, <1>4 DEF vars
<1> QED BY <1>2, <1>3, <1>4, RunStep, NextItemStep DEF Next

\* The inductive invariant holds in every state, for any templates.
THEOREM Invariant == Spec => []IInv
<1>1. Init => IInv
  BY InitInvariant
<1>2. IInv /\ [Next]_vars => IInv'
  BY StepInvariant
<1> QED BY <1>1, <1>2, PTL DEF Spec

\* Whatever a template is, the items are the template, character for character,
\* without its comments, each looks as its type says, and parentheses are balanced
\* where an action ends (the state functions of lex.go, 211-536).
THEOREM Tiles == Spec => []ItemsTile
<1>1. IInv => ItemsTile
  BY DEF IInv
<1> QED BY <1>1, Invariant, PTL

\* Once an error or the end has been sent, no state function runs and no item
\* follows: what the parser reads last is the last item there is (lex.go:162-167,
\* 195-230).
THEOREM NothingAfterEnd == Spec => []EndsLast
<1>1. IInv => EndsLast
  BY DEF IInv
<1> QED BY <1>1, Invariant, PTL

-----------------------------------------------------------------------------
(* The tokens of the parser. *)

\* A parser as the functions of parse.go leave it, with its three tokens.
IsParser(p) ==
    /\ {"source", "got", "token", "held", "peekCount", "state"} \subseteq DOMAIN p
    /\ DOMAIN p.held = 1..3
    /\ p.peekCount \in 0..3 /\ p.got \in Nat /\ Len(p.source) \in Nat /\ p.got <= Len(p.source)

LEMMA AheadFacts ==
    ASSUME NEW p, IsParser(p)
    PROVE  /\ Untaken(p) \in Nat
           /\ \A i \in 1..Untaken(p) : Ahead(p)[i] = Coming(p, i)
BY DEF IsParser, Untaken, Ahead

\* next takes the first of the tokens that lie ahead, wherever it is kept.
LEMMA NextFacts ==
    ASSUME NEW p, IsParser(p), Parsing(p), Untaken(p) > 0, NEW n, n = NextToken(p)
    PROVE  /\ IsParser(n) /\ Parsing(n) /\ n.source = p.source
           /\ n.token = Coming(p, 1)
           /\ Untaken(n) = Untaken(p) - 1
           /\ \A i \in Nat \ {0} : Coming(n, i) = Coming(p, i + 1)
           /\ n.peekCount < 3 /\ n.held[n.peekCount + 1] = n.token
           /\ p.peekCount > 0 => n.peekCount = p.peekCount - 1 /\ n.got = p.got /\ n.held = p.held
           /\ p.peekCount = 0 => n.peekCount = 0 /\ n.got = p.got + 1
<1>1. CASE p.peekCount > 0
  <2>1. n = [p EXCEPT !.token = p.held[p.peekCount], !.peekCount = @ - 1]
    BY <1>1 DEF NextToken
  <2>2. /\ DOMAIN n = DOMAIN p
        /\ n.token = p.held[p.peekCount] /\ n.peekCount = p.peekCount - 1
        /\ n.source = p.source /\ n.got = p.got /\ n.held = p.held /\ n.state = p.state
    BY <2>1 DEF IsParser
  <2>3. IsParser(n)
    BY <1>1, <2>2 DEF IsParser
  <2>4. PICK k \in 1..3 : k = p.peekCount
    BY <1>1 DEF IsParser
  <2>5. n.token = Coming(p, 1) /\ Untaken(n) = Untaken(p) - 1 /\ n.peekCount < 3 /\ n.held[n.peekCount + 1] = n.token
    <3>1. Len(p.source) \in Nat /\ p.got \in Nat
      BY DEF IsParser
    <3>2. Untaken(n) = Untaken(p) - 1
      BY <2>2, <2>4, <3>1 DEF Untaken
    <3>3. 1 <= k /\ k + 1 - 1 = k /\ (k - 1) + 1 = k /\ k - 1 < 3
      OBVIOUS
    <3>4. n.token = Coming(p, 1)
      BY <2>2, <2>4, <3>3 DEF Coming
    <3>5. n.peekCount < 3 /\ n.held[n.peekCount + 1] = n.token
      BY <2>2, <2>4, <3>3
    <3> QED BY <3>2, <3>4, <3>5
  <2>6. ASSUME NEW i \in Nat \ {0} PROVE Coming(n, i) = Coming(p, i + 1)
    BY SMTT(30), <2>2, <2>4 DEF IsParser, Coming
  <2> QED BY <1>1, <2>2, <2>3, <2>5, <2>6 DEF Parsing
<1>2. CASE p.peekCount = 0
  <2>1. p.got # Len(p.source)
    BY <1>2 DEF IsParser, Untaken
  <2>2. n = [p EXCEPT !.got = @ + 1, !.token = p.source[p.got + 1], !.held[1] = p.source[p.got + 1]]
    BY <1>2, <2>1 DEF NextToken
  <2>3. /\ DOMAIN n = DOMAIN p
        /\ n.token = p.source[p.got + 1] /\ n.peekCount = p.peekCount
        /\ n.source = p.source /\ n.got = p.got + 1 /\ n.held = [p.held EXCEPT ![1] = p.source[p.got + 1]]
        /\ n.state = p.state
    BY <2>2 DEF IsParser
  <2>4. DOMAIN n.held = 1..3 /\ n.held[1] = n.token
    BY <2>3 DEF IsParser
  <2>5. PICK got, length : got = p.got /\ length = Len(p.source) /\ got \in Nat /\ length \in Nat /\ got < length
    BY <2>1 DEF IsParser
  <2>6. IsParser(n)
    BY <1>2, <2>3, <2>4, <2>5 DEF IsParser
  <2>7. n.token = Coming(p, 1) /\ Untaken(n) = Untaken(p) - 1
    BY <1>2, <2>3, <2>5 DEF Untaken, Coming
  <2>8. ASSUME NEW i \in Nat \ {0} PROVE Coming(n, i) = Coming(p, i + 1)
    BY <1>2, <2>3, <2>5 DEF Coming
  <2> QED BY <1>2, <2>3, <2>4, <2>6, <2>7, <2>8 DEF Parsing
<1> QED BY <1>1, <1>2 DEF IsParser

\* Without any, it waits for the lexer.
LEMMA NextWaits ==
    ASSUME NEW p, IsParser(p), Parsing(p), Untaken(p) = 0
    PROVE  ~Parsing(NextToken(p))
<1>1. p.peekCount = 0 /\ p.got = Len(p.source)
  BY DEF IsParser, Untaken
<1>2. NextToken(p) = [p EXCEPT !.state = "waiting"]
  BY <1>1 DEF NextToken
<1> QED BY <1>2 DEF IsParser, Parsing

LEMMA BackupFacts ==
    ASSUME NEW p, IsParser(p), Parsing(p), p.peekCount < 3, NEW b, b = Backup(p)
    PROVE  /\ IsParser(b) /\ Parsing(b) /\ b.source = p.source
           /\ b.token = p.token /\ b.held = p.held /\ b.got = p.got /\ b.peekCount = p.peekCount + 1
           /\ Untaken(b) = Untaken(p) + 1
           /\ Coming(b, 1) = p.held[p.peekCount + 1]
           /\ \A i \in Nat \ {0} : Coming(b, i + 1) = Coming(p, i)
<1>1. b = [p EXCEPT !.peekCount = @ + 1]
  BY DEF Backup
<1>2. /\ DOMAIN b = DOMAIN p /\ b.peekCount = p.peekCount + 1
      /\ b.source = p.source /\ b.token = p.token /\ b.got = p.got /\ b.held = p.held /\ b.state = p.state
  BY <1>1 DEF IsParser
<1>3. IsParser(b)
  BY <1>2 DEF IsParser
<1> QED BY <1>2, <1>3 DEF IsParser, Parsing, Untaken, Coming

LEMMA SameAhead ==
    ASSUME NEW p, IsParser(p), NEW q, IsParser(q), Untaken(q) = Untaken(p),
           \A i \in 1..Untaken(p) : Coming(q, i) = Coming(p, i)
    PROVE  Ahead(q) = Ahead(p)
BY DEF Ahead

\* A token that has been taken and is backed up lies ahead again, and so does what
\* was behind it: whether it came from the lexer or had been backed up before, and
\* with up to three tokens held (parse.go:58-71).
THEOREM BackupUndoesNext ==
    ASSUME NEW p, IsParser(p), Parsing(p), Untaken(p) > 0
    PROVE  Ahead(Backup(NextToken(p))) = Ahead(p)
<1>1. PICK n : n = NextToken(p)
  OBVIOUS
<1>2. PICK b : b = Backup(n)
  OBVIOUS
<1>3. /\ IsParser(n) /\ Parsing(n) /\ n.token = Coming(p, 1) /\ Untaken(n) = Untaken(p) - 1
      /\ \A i \in Nat \ {0} : Coming(n, i) = Coming(p, i + 1)
      /\ n.peekCount < 3 /\ n.held[n.peekCount + 1] = n.token
  BY <1>1, NextFacts
<1>4. /\ IsParser(b) /\ Untaken(b) = Untaken(n) + 1 /\ Coming(b, 1) = Coming(p, 1)
      /\ \A i \in Nat \ {0} : Coming(b, i + 1) = Coming(n, i)
  BY <1>2, <1>3, BackupFacts
<1>5. ASSUME NEW i \in 1..Untaken(p) PROVE Coming(b, i) = Coming(p, i)
  <2>1. CASE i = 1
    BY <1>4, <2>1
  <2>2. CASE i # 1
    <3>1. PICK j \in Nat \ {0} : i = j + 1
      <4>1. i - 1 \in Nat \ {0} /\ i = (i - 1) + 1
        BY <2>2
      <4> QED BY <4>1
    <3> QED BY <1>3, <1>4, <3>1
  <2> QED BY <2>1, <2>2
<1>6. Untaken(b) = Untaken(p)
  BY <1>3, <1>4, AheadFacts
<1> QED BY <1>1, <1>2, <1>4, <1>5, <1>6, SameAhead

\* peek shows the first of the tokens that lie ahead and takes none, where next has
\* to overwrite the place that the first of those held back is kept in
\* (parse.go:58-66 and 88-96).
THEOREM PeekTakesNothing ==
    ASSUME NEW p, IsParser(p), Parsing(p), Untaken(p) > 0
    PROVE  /\ Ahead(Peek(p)) = Ahead(p)
           /\ Peek(p).token = Ahead(p)[1]
<1>0. Ahead(p)[1] = Coming(p, 1)
  BY AheadFacts
<1>1. CASE p.peekCount > 0
  <2>1. PICK q : q = Peek(p) /\ q = [p EXCEPT !.token = p.held[p.peekCount]]
    BY <1>1 DEF Peek
  <2>2. q.token = p.held[p.peekCount] /\ q.source = p.source /\ q.got = p.got /\ q.held = p.held /\ q.peekCount = p.peekCount
    BY <2>1 DEF IsParser
  <2>3. Untaken(q) = Untaken(p) /\ \A i \in 1..Untaken(p) : Coming(q, i) = Coming(p, i)
    BY <2>2 DEF Untaken, Coming
  <2>4. Ahead(q) = Ahead(p)
    BY <2>3 DEF Ahead
  <2>5. q.token = Coming(p, 1)
    BY <1>1, <2>2 DEF IsParser, Coming
  <2> QED BY <1>0, <2>1, <2>4, <2>5
<1>2. CASE ~(p.peekCount > 0)
  <2>1. PICK n : n = NextToken(p)
    OBVIOUS
  <2>2. Peek(p) = Backup(n)
    BY <1>2, <2>1 DEF Peek
  <2>3. IsParser(n) /\ Parsing(n) /\ n.token = Coming(p, 1) /\ n.peekCount < 3
    BY <2>1, NextFacts
  <2>4. Backup(n).token = Coming(p, 1)
    BY <2>3, BackupFacts
  <2> QED BY <1>0, <2>1, <2>2, <2>4, BackupUndoesNext
<1> QED BY <1>1, <1>2

LEMMA TakenFacts ==
    ASSUME NEW p, IsParser(p), Parsing(p), NEW k \in 0..Untaken(p), NEW t, t = Taken(p, k)
    PROVE  /\ IsParser(t) /\ Parsing(t) /\ t.source = p.source
           /\ Untaken(t) = Untaken(p) - k
           /\ \A i \in Nat \ {0} : Coming(t, i) = Coming(p, i + k)
           /\ t.peekCount <= p.peekCount
<1>0. PICK c, got, length : /\ c = p.peekCount /\ got = p.got /\ length = Len(p.source)
                           /\ c \in 0..3 /\ got \in Nat /\ length \in Nat /\ got <= length
                           /\ k \in Nat /\ k <= c + length - got
  BY DEF IsParser, Untaken
<1>1. CASE k = 0
  <2>1. t = p
    BY <1>1 DEF Taken
  <2>2. Untaken(p) \in Nat
    BY AheadFacts
  <2> QED BY <1>0, <1>1, <2>1, <2>2
<1>2. CASE k # 0 /\ k <= c
  <2>1. t = [p EXCEPT !.token = Coming(p, k), !.peekCount = @ - k]
    BY <1>0, <1>2 DEF Taken
  <2>2. /\ DOMAIN t = DOMAIN p /\ t.token = Coming(p, k) /\ t.peekCount = c - k
        /\ t.source = p.source /\ t.got = p.got /\ t.held = p.held /\ t.state = p.state
    BY <1>0, <2>1 DEF IsParser
  <2>3. IsParser(t)
    <3>1. c - k \in 0..3
      BY SMTT(30), <1>0, <1>2
    <3>2. t.peekCount \in 0..3 /\ t.got \in Nat /\ Len(t.source) \in Nat /\ t.got <= Len(t.source)
      BY <1>0, <2>2, <3>1
    <3>3. {"source", "got", "token", "held", "peekCount", "state"} \subseteq DOMAIN t /\ DOMAIN t.held = 1..3
      BY <2>2 DEF IsParser
    <3> QED BY <3>2, <3>3 DEF IsParser
  <2>4. ASSUME NEW i \in Nat \ {0} PROVE Coming(t, i) = Coming(p, i + k)
    <3>1. (i <= c - k <=> i + k <= c) /\ (c - k) + 1 - i = c + 1 - (i + k) /\ got + i - (c - k) = got + (i + k) - c
      BY <1>0
    <3>2. Coming(t, i) = IF i <= c - k THEN p.held[(c - k) + 1 - i] ELSE p.source[got + i - (c - k)]
      BY <1>0, <2>2, Zenon DEF Coming
    <3>3. Coming(p, i + k) = IF i + k <= c THEN p.held[c + 1 - (i + k)] ELSE p.source[got + (i + k) - c]
      BY <1>0, Zenon DEF Coming
    <3> QED BY <3>1, <3>2, <3>3, Zenon
  <2>5. Untaken(t) = Untaken(p) - k
    BY <1>0, <2>2 DEF Untaken
  <2>6. t.peekCount <= p.peekCount
    BY <1>0, <2>2
  <2> QED BY <2>2, <2>3, <2>4, <2>5, <2>6 DEF Parsing
<1>3. CASE k > c
  <2>1. t = [p EXCEPT !.token = Coming(p, k), !.held[1] = Coming(p, k), !.peekCount = 0, !.got = @ + k - p.peekCount]
    BY <1>0, <1>3 DEF Taken
  <2>2. /\ DOMAIN t = DOMAIN p /\ t.token = Coming(p, k) /\ t.peekCount = 0
        /\ t.source = p.source /\ t.got = got + k - c /\ t.held = [p.held EXCEPT ![1] = Coming(p, k)] /\ t.state = p.state
    BY <1>0, <2>1 DEF IsParser
  <2>3. DOMAIN t.held = 1..3
    BY <2>2 DEF IsParser
  <2>4. IsParser(t)
    <3>1. got + k - c \in Nat /\ got + k - c <= length /\ 0 \in 0..3
      BY SMTT(30), <1>0, <1>3
    <3>2. t.peekCount \in 0..3 /\ t.got \in Nat /\ Len(t.source) \in Nat /\ t.got <= Len(t.source)
      BY <1>0, <2>2, <3>1
    <3>3. {"source", "got", "token", "held", "peekCount", "state"} \subseteq DOMAIN t
      BY <2>2 DEF IsParser
    <3> QED BY <2>3, <3>2, <3>3 DEF IsParser
  <2>5. ASSUME NEW i \in Nat \ {0} PROVE Coming(t, i) = Coming(p, i + k)
    <3>1. i + k \in Nat /\ ~(i <= 0) /\ ~(i + k <= c) /\ (got + k - c) + i - 0 = got + (i + k) - c
      BY <1>0, <1>3
    <3> QED BY <1>0, <2>2, <3>1, Zenon DEF Coming
  <2>6. Untaken(t) = Untaken(p) - k
    BY SMTT(30), <1>0, <2>2 DEF Untaken
  <2>7. t.peekCount <= p.peekCount
    BY <1>0, <2>2
  <2> QED BY <2>2, <2>4, <2>5, <2>6, <2>7 DEF Parsing
<1> QED BY <1>0, <1>1, <1>2, <1>3

\* What Spaces chooses, and that there is nothing else to choose.
IsSpaces(p, k) ==
    /\ k \in 0..Untaken(p)
    /\ \A i \in 1..k : Coming(p, i).typ = "Space"
    /\ k < Untaken(p) => Coming(p, k + 1).typ # "Space"

LEMMA SpacesFacts ==
    ASSUME NEW p, IsParser(p)
    PROVE  /\ IsSpaces(p, Spaces(p))
           /\ \A k : IsSpaces(p, k) => k = Spaces(p)
<1>1. PICK u \in Nat : u = Untaken(p)
  BY AheadFacts
<1>2. \E k : IsSpaces(p, k)
  <2> DEFINE T == {j \in 0..u : j < u => Coming(p, j + 1).typ # "Space"}
  <2>1. u \in T /\ T \subseteq Nat
    OBVIOUS
  <2>2. PICK k \in T : \A j \in T : k <= j
    <3> HIDE DEF T
    <3> QED BY <2>1, First
  <2>3. ASSUME NEW i \in 1..k PROVE Coming(p, i).typ = "Space"
    <3>1. i - 1 \in 0..u /\ i - 1 < u /\ i - 1 < k /\ (i - 1) + 1 = i
      OBVIOUS
    <3>2. i - 1 \notin T
      <4>1. i - 1 \in Nat /\ k \in Nat
        BY <3>1
      <4> HIDE DEF T
      <4> QED BY <2>2, <3>1, <4>1
    <3> QED BY <3>1, <3>2
  <2> QED BY <1>1, <2>3 DEF IsSpaces
<1>3. IsSpaces(p, Spaces(p))
  <2>1. PICK k : IsSpaces(p, k)
    BY <1>2
  <2> QED BY <2>1 DEF IsSpaces, Spaces
<1>4. ASSUME NEW k, NEW j, IsSpaces(p, k), IsSpaces(p, j), k < j PROVE FALSE
  <2>1. k \in Nat /\ j \in Nat /\ k + 1 \in 1..j /\ k < u
    BY <1>1, <1>4 DEF IsSpaces
  <2> QED BY <1>1, <1>4, <2>1 DEF IsSpaces
<1>5. ASSUME NEW k, IsSpaces(p, k) PROVE k = Spaces(p)
  <2>1. k \in Nat /\ Spaces(p) \in Nat
    BY <1>1, <1>3, <1>5 DEF IsSpaces
  <2> QED BY <1>3, <1>4, <1>5, <2>1
<1> QED BY <1>3, <1>5

\* nextNonSpace takes the spaces that lie ahead and the token behind them, and no
\* more; what was held back, one token at most, has been taken then.
LEMMA NextNonSpaceFacts ==
    ASSUME NEW p, IsParser(p), Parsing(p), NEW n, n = NextNonSpace(p), Parsing(n)
    PROVE  /\ IsParser(n) /\ n.source = p.source
           /\ n.peekCount < 3 /\ n.held[n.peekCount + 1] = n.token
           /\ p.peekCount <= 1 => n.peekCount = 0
           /\ \E k \in 1..Untaken(p) :
                /\ IsSpaces(p, k - 1) /\ n.token = Coming(p, k)
                /\ Untaken(n) = Untaken(p) - k
                /\ \A i \in Nat \ {0} : Coming(n, i) = Coming(p, i + k)
<1>1. PICK f : f = NextToken(p)
  OBVIOUS
<1>2. n = NonSpaceFrom(f)
  BY <1>1 DEF NextNonSpace
<1>3. PICK u \in Nat : u = Untaken(p)
  BY AheadFacts
<1>4. u > 0
  <2>1. CASE u = 0
    <3>1. ~Parsing(f)
      BY <1>1, <1>3, <2>1, NextWaits
    <3>2. n = f
      BY <1>2, <3>1 DEF NonSpaceFrom, Sees
    <3> QED BY <3>1, <3>2
  <2> QED BY <1>3, <2>1
<1>5. /\ IsParser(f) /\ Parsing(f) /\ f.source = p.source /\ f.token = Coming(p, 1) /\ Untaken(f) = u - 1
      /\ \A i \in Nat \ {0} : Coming(f, i) = Coming(p, i + 1)
      /\ f.peekCount < 3 /\ f.held[f.peekCount + 1] = f.token
      /\ p.peekCount <= 1 => f.peekCount = 0
  <2>1. p.peekCount \in 0..3
    BY DEF IsParser
  <2> QED BY <1>1, <1>3, <1>4, <2>1, NextFacts
<1>6. CASE f.token.typ # "Space"
  <2>1. n = f
    BY <1>2, <1>6 DEF NonSpaceFrom, Sees
  <2>2. IsSpaces(p, 0)
    BY <1>3, <1>4, <1>5, <1>6 DEF IsSpaces
  <2>3. 1 \in 1..u /\ 1 - 1 = 0
    BY <1>4
  <2> QED BY <1>3, <1>5, <2>1, <2>2, <2>3
<1>7. CASE f.token.typ = "Space"
  <2>1. PICK s : s = Spaces(f) /\ s \in 0..(u - 1) /\ IsSpaces(f, s)
    BY <1>5, SpacesFacts DEF IsSpaces
  <2>2. PICK t : t = Taken(f, s)
    OBVIOUS
  <2>3. n = NextToken(t)
    BY <1>2, <1>5, <1>7, <2>1, <2>2 DEF NonSpaceFrom, Sees
  <2>4. /\ IsParser(t) /\ Parsing(t) /\ t.source = f.source /\ Untaken(t) = (u - 1) - s
        /\ \A i \in Nat \ {0} : Coming(t, i) = Coming(f, i + s)
        /\ t.peekCount <= f.peekCount
    BY <1>5, <2>1, <2>2, TakenFacts
  <2>5. s < u - 1
    <3>1. CASE s = u - 1
      <4>1. ~Parsing(n)
        BY <1>3, <1>4, <2>1, <2>3, <2>4, <3>1, NextWaits
      <4> QED BY <4>1
    <3> QED BY <1>3, <1>4, <2>1, <3>1
  <2>6. /\ IsParser(n) /\ n.source = t.source /\ n.token = Coming(t, 1) /\ Untaken(n) = Untaken(t) - 1
        /\ \A i \in Nat \ {0} : Coming(n, i) = Coming(t, i + 1)
        /\ n.peekCount < 3 /\ n.held[n.peekCount + 1] = n.token
        /\ t.peekCount = 0 => n.peekCount = 0
    BY <1>3, <1>4, <2>1, <2>3, <2>4, <2>5, NextFacts
  <2>7. p.peekCount <= 1 => n.peekCount = 0
    <3>1. t.peekCount \in 0..3
      BY <2>4 DEF IsParser
    <3> QED BY <1>5, <2>4, <2>6, <3>1
  <2>8. PICK k : k = s + 2 /\ k \in 1..u /\ k - 1 = s + 1
    BY <1>3, <1>4, <2>1, <2>5
  <2>9. ASSUME NEW i \in Nat \ {0} PROVE Coming(n, i) = Coming(p, i + k)
    <3>1. /\ i + 1 \in Nat \ {0} /\ (i + 1) + s \in Nat \ {0} /\ ((i + 1) + s) + 1 = i + k
      BY <2>1, <2>8
    <3>2. Coming(n, i) = Coming(t, i + 1) /\ Coming(t, i + 1) = Coming(f, (i + 1) + s)
      BY <2>4, <2>6, <3>1
    <3>3. Coming(f, (i + 1) + s) = Coming(p, ((i + 1) + s) + 1)
      BY <1>5, <3>1
    <3> QED BY <3>1, <3>2, <3>3
  <2>10. n.token = Coming(p, k) /\ Coming(f, s + 1) = Coming(p, k)
    <3>1. 1 + s \in Nat \ {0} /\ (1 + s) + 1 = k /\ s + 1 = 1 + s
      BY <2>1, <2>8
    <3>2. n.token = Coming(f, 1 + s)
      BY <2>4, <2>6
    <3> QED BY <1>5, <3>1, <3>2
  <2>11. IsSpaces(p, k - 1)
    <3>1. ASSUME NEW i \in 1..(s + 1) PROVE Coming(p, i).typ = "Space"
      <4>1. CASE i = 1
        BY <1>5, <1>7, <4>1
      <4>2. CASE i # 1
        <5>1. PICK j \in 1..s : i = j + 1
          <6>1. i - 1 \in 1..s /\ i = (i - 1) + 1
            BY <2>1, <4>2
          <6> QED BY <6>1
        <5>2. Coming(f, j).typ = "Space" /\ j \in Nat \ {0}
          BY <2>1, <5>1 DEF IsSpaces
        <5> QED BY <1>5, <5>1, <5>2
      <4> QED BY <4>1, <4>2
    <3>2. Coming(p, k).typ # "Space"
      BY <1>5, <2>1, <2>5, <2>10 DEF IsSpaces
    <3> QED BY <1>3, <2>1, <2>5, <2>8, <3>1, <3>2 DEF IsSpaces
  <2>12. Untaken(n) = u - k
    BY <1>3, <2>1, <2>4, <2>6, <2>8
  <2> QED BY <1>3, <1>5, <2>4, <2>6, <2>7, <2>8, <2>9, <2>10, <2>11, <2>12
<1> QED BY <1>6, <1>7

\* nextNonSpace returns the first of the tokens that lie ahead that is no space; what
\* is behind it lies ahead then, and nothing else is gone (parse.go:98-107).
THEOREM NextNonSpaceTakesWord ==
    ASSUME NEW p, IsParser(p), Parsing(p), Parsing(NextNonSpace(p))
    PROVE  \E k \in 1..Untaken(p) :
             /\ NextNonSpace(p).token = Ahead(p)[k] /\ Ahead(p)[k].typ # "Space"
             /\ \A i \in 1..(k - 1) : Ahead(p)[i].typ = "Space"
             /\ Ahead(NextNonSpace(p)) = [i \in 1..(Untaken(p) - k) |-> Ahead(p)[i + k]]
<1>1. PICK n : n = NextNonSpace(p)
  OBVIOUS
<1>2. PICK u \in Nat : u = Untaken(p)
  BY AheadFacts
<1>3. PICK k \in 1..u : /\ IsSpaces(p, k - 1) /\ n.token = Coming(p, k) /\ Untaken(n) = u - k
                       /\ \A i \in Nat \ {0} : Coming(n, i) = Coming(p, i + k)
  BY <1>1, <1>2, NextNonSpaceFacts
<1>4. \A i \in 1..u : Ahead(p)[i] = Coming(p, i)
  BY <1>2, AheadFacts
<1>5. Coming(p, k).typ # "Space" /\ \A i \in 1..(k - 1) : Coming(p, i).typ = "Space"
  BY <1>2, <1>3 DEF IsSpaces
<1>6. Ahead(n) = [i \in 1..(u - k) |-> Ahead(p)[i + k]]
  <2>1. ASSUME NEW i \in 1..(u - k) PROVE Coming(n, i) = Ahead(p)[i + k]
    BY <1>3, <1>4
  <2> QED BY <1>3, <2>1 DEF Ahead
<1> QED BY <1>1, <1>2, <1>3, <1>4, <1>5, <1>6

LEMMA SameFields ==
    ASSUME NEW r, r = [f \in DOMAIN r |-> r[f]], NEW t, t = [f \in DOMAIN t |-> t[f]],
           DOMAIN r = DOMAIN t, \A f \in DOMAIN r : r[f] = t[f]
    PROVE  r = t
<1>1. [f \in DOMAIN r |-> r[f]] = [f \in DOMAIN t |-> t[f]]
  OBVIOUS
<1> QED BY <1>1, Zenon

LEMMA Overwritten ==
    ASSUME NEW h, DOMAIN h = 1..3, NEW x, NEW y
    PROVE  [[h EXCEPT ![1] = y] EXCEPT ![1] = x] = [h EXCEPT ![1] = x]
<1>1. PICK r, t : r = [[h EXCEPT ![1] = y] EXCEPT ![1] = x] /\ t = [h EXCEPT ![1] = x]
  OBVIOUS
<1>2. DOMAIN r = DOMAIN t /\ r = [f \in DOMAIN r |-> r[f]] /\ t = [f \in DOMAIN t |-> t[f]]
  BY <1>1
<1>3. \A f \in DOMAIN r : r[f] = t[f]
  BY <1>1
<1> QED BY <1>1, <1>2, <1>3, SameFields

\* Another token on top of one that has been taken.
LEMMA TakenOver ==
    ASSUME NEW n, IsParser(n), NEW m, NEW x, NEW g,
           DOMAIN m = DOMAIN n, \A f \in DOMAIN n : f \notin {"token", "held", "peekCount", "got"} => m[f] = n[f],
           [m.held EXCEPT ![1] = x] = [n.held EXCEPT ![1] = x]
    PROVE  [m EXCEPT !.token = x, !.held[1] = x, !.peekCount = 0, !.got = g]
             = [n EXCEPT !.token = x, !.held[1] = x, !.peekCount = 0, !.got = g]
<1>1. PICK r, t : /\ r = [m EXCEPT !.token = x, !.held[1] = x, !.peekCount = 0, !.got = g]
                  /\ t = [n EXCEPT !.token = x, !.held[1] = x, !.peekCount = 0, !.got = g]
  OBVIOUS
<1>2. {"token", "held", "peekCount", "got"} \subseteq DOMAIN n /\ DOMAIN n.held = 1..3
  BY DEF IsParser
<1>4. DOMAIN r = DOMAIN n /\ DOMAIN t = DOMAIN n /\ r = [f \in DOMAIN r |-> r[f]] /\ t = [f \in DOMAIN t |-> t[f]]
  BY <1>1, <1>2
<1>5. r.held = t.held
  <2>1. r.held = [m.held EXCEPT ![1] = x] /\ t.held = [n.held EXCEPT ![1] = x]
    BY <1>1, <1>2
  <2> QED BY <2>1
<1>6. \A f \in DOMAIN n : f \notin {"held"} => r[f] = t[f]
  BY <1>1, <1>2
<1>7. r = t
  <2>1. DOMAIN r = DOMAIN t /\ \A f \in DOMAIN r : r[f] = t[f]
    BY <1>4, <1>5, <1>6
  <2> QED BY <1>4, <2>1, SameFields
<1> QED BY <1>1, <1>7

LEMMA TakenTwice ==
    ASSUME NEW n, IsParser(n), Parsing(n), NEW m, m = NextToken(n), NEW k \in 1..Untaken(n)
    PROVE  Taken(m, k - 1) = Taken(n, k)
<1>1. PICK c, got, length : /\ c = n.peekCount /\ got = n.got /\ length = Len(n.source)
                           /\ c \in 0..3 /\ got \in Nat /\ length \in Nat
                           /\ k \in Nat /\ k > 0 /\ k <= c + length - got
  BY DEF IsParser, Untaken
<1>2. \A i \in Nat \ {0} : Coming(m, i) = Coming(n, i + 1)
  BY SMTT(30), <1>1, NextFacts DEF Untaken
<1>3. PICK x : x = Coming(n, k) /\ (k # 1 => x = Coming(m, k - 1))
  <2>1. CASE k # 1
    <3>1. k - 1 \in Nat \ {0} /\ (k - 1) + 1 = k
      BY <1>1, <2>1
    <3> QED BY <1>2, <3>1
  <2> QED BY <2>1
<1>4. CASE c > 0
  <2>1. m = [n EXCEPT !.token = n.held[c], !.peekCount = c - 1]
    BY <1>1, <1>4 DEF NextToken
  <2>2. m.peekCount = c - 1 /\ m.got = got
    BY <1>1, <2>1 DEF IsParser
  <2>3. CASE k = 1
    <3>1. x = n.held[c] /\ Taken(m, k - 1) = m
      BY <1>1, <1>3, <1>4, <2>3 DEF Coming, Taken
    <3>2. Taken(n, k) = [n EXCEPT !.token = x, !.peekCount = c - 1]
      BY <1>1, <1>3, <1>4, <2>3 DEF Taken
    <3> QED BY <2>1, <3>1, <3>2
  <2>4. CASE k # 1 /\ k <= c
    <3>1. Taken(m, k - 1) = [m EXCEPT !.token = x, !.peekCount = (c - 1) - (k - 1)]
      BY <1>1, <1>3, <2>2, <2>4 DEF Taken
    <3>2. Taken(n, k) = [n EXCEPT !.token = x, !.peekCount = c - k]
      BY <1>1, <1>3, <2>4 DEF Taken
    <3>3. (c - 1) - (k - 1) = c - k
      BY <1>1
    <3> QED BY <2>1, <3>1, <3>2, <3>3
  <2>5. CASE k # 1 /\ k > c
    <3>1. Taken(m, k - 1) = [m EXCEPT !.token = x, !.held[1] = x, !.peekCount = 0, !.got = got + (k - 1) - (c - 1)]
      BY <1>1, <1>3, <2>2, <2>5 DEF Taken
    <3>2. Taken(n, k) = [n EXCEPT !.token = x, !.held[1] = x, !.peekCount = 0, !.got = got + k - c]
      BY <1>1, <1>3, <2>5 DEF Taken
    <3>3. PICK g : g = got + k - c /\ got + (k - 1) - (c - 1) = g
      BY <1>1
    <3>4. /\ DOMAIN m = DOMAIN n /\ \A f \in DOMAIN n : f \notin {"token", "held", "peekCount", "got"} => m[f] = n[f]
          /\ [m.held EXCEPT ![1] = x] = [n.held EXCEPT ![1] = x]
      BY <2>1 DEF IsParser
    <3>5. [m EXCEPT !.token = x, !.held[1] = x, !.peekCount = 0, !.got = g]
            = [n EXCEPT !.token = x, !.held[1] = x, !.peekCount = 0, !.got = g]
      BY <3>4, TakenOver, Zenon
    <3> QED BY <3>1, <3>2, <3>3, <3>5
  <2> QED BY <1>1, <2>3, <2>4, <2>5
<1>5. CASE c = 0
  <2>1. m = [n EXCEPT !.got = got + 1, !.token = n.source[got + 1], !.held[1] = n.source[got + 1]]
    BY <1>1, <1>5 DEF NextToken
  <2>2. m.peekCount = c /\ m.got = got + 1
    BY <1>1, <2>1 DEF IsParser
  <2>3. CASE k = 1
    <3>1. x = n.source[got + 1] /\ Taken(m, k - 1) = m
      BY <1>1, <1>3, <1>5, <2>3 DEF Coming, Taken
    <3>2. PICK t : t = Taken(n, k) /\ t = [n EXCEPT !.token = x, !.held[1] = x, !.peekCount = c, !.got = got + 1]
      BY <1>1, <1>3, <1>5, <2>3 DEF Taken
    <3>3. DOMAIN m = DOMAIN t /\ m = [f \in DOMAIN m |-> m[f]] /\ t = [f \in DOMAIN t |-> t[f]]
      BY <2>1, <3>2
    <3>4. \A f \in DOMAIN m : m[f] = t[f]
      <4>1. {"token", "held", "peekCount", "got"} \subseteq DOMAIN n /\ DOMAIN m = DOMAIN n
        BY <2>1 DEF IsParser
      <4>2. /\ m.token = x /\ m.held = [n.held EXCEPT ![1] = x] /\ m.got = got + 1
            /\ \A f \in DOMAIN n : f \notin {"token", "held", "got"} => m[f] = n[f]
        BY <2>1, <3>1, <4>1
      <4>3. /\ t.token = x /\ t.held = [n.held EXCEPT ![1] = x] /\ t.got = got + 1 /\ t.peekCount = c
            /\ \A f \in DOMAIN n : f \notin {"token", "held", "peekCount", "got"} => t[f] = n[f]
        BY <3>2, <4>1
      <4>4. n.peekCount = c
        BY <1>1
      <4> QED BY <4>1, <4>2, <4>3, <4>4
    <3>5. m = t
      BY <3>3, <3>4, SameFields
    <3> QED BY <3>1, <3>2, <3>5
  <2>4. CASE k # 1
    <3>1. Taken(m, k - 1) = [m EXCEPT !.token = x, !.held[1] = x, !.peekCount = 0, !.got = (got + 1) + (k - 1) - 0]
      BY <1>1, <1>3, <1>5, <2>2, <2>4 DEF Taken
    <3>2. Taken(n, k) = [n EXCEPT !.token = x, !.held[1] = x, !.peekCount = 0, !.got = got + k - 0]
      BY <1>1, <1>3, <1>5 DEF Taken
    <3>3. PICK g : g = got + k - 0 /\ (got + 1) + (k - 1) - 0 = g
      BY <1>1
    <3>4. /\ DOMAIN m = DOMAIN n /\ \A f \in DOMAIN n : f \notin {"token", "held", "peekCount", "got"} => m[f] = n[f]
          /\ [m.held EXCEPT ![1] = x] = [n.held EXCEPT ![1] = x]
      <4>1. PICK y : m = [n EXCEPT !.got = got + 1, !.token = y, !.held[1] = y]
        BY <2>1
      <4>2. DOMAIN n.held = 1..3 /\ m.held = [n.held EXCEPT ![1] = y]
        BY <4>1 DEF IsParser
      <4>3. [m.held EXCEPT ![1] = x] = [n.held EXCEPT ![1] = x]
        BY <4>2, Overwritten
      <4> QED BY <4>1, <4>3
    <3>5. [m EXCEPT !.token = x, !.held[1] = x, !.peekCount = 0, !.got = g]
            = [n EXCEPT !.token = x, !.held[1] = x, !.peekCount = 0, !.got = g]
      BY <3>4, TakenOver, Zenon
    <3> QED BY <3>1, <3>2, <3>3, <3>5
  <2> QED BY <2>3, <2>4
<1> QED BY <1>1, <1>4, <1>5

\* The loop that nextNonSpace is: it calls next, and again as long as that returns a
\* space (parse.go:100-105).
THEOREM NextNonSpaceLoops ==
    ASSUME NEW p, IsParser(p), Parsing(p)
    PROVE  NextNonSpace(p) = IF Sees(NextToken(p), {"Space"}) THEN NextNonSpace(NextToken(p)) ELSE NextToken(p)
<1>1. PICK n : n = NextToken(p)
  OBVIOUS
<1>2. NextNonSpace(p) = NonSpaceFrom(n)
  BY <1>1 DEF NextNonSpace
<1>3. CASE ~Sees(n, {"Space"})
  BY <1>1, <1>2, <1>3 DEF NonSpaceFrom
<1>4. CASE Sees(n, {"Space"})
  <2>1. PICK m : m = NextToken(n) /\ NextNonSpace(n) = NonSpaceFrom(m)
    BY DEF NextNonSpace
  <2>2. IsParser(n) /\ Parsing(n)
    <3>1. Parsing(n)
      BY <1>4 DEF Sees
    <3>2. Untaken(p) \in Nat /\ Untaken(p) # 0
      BY <1>1, <3>1, AheadFacts, NextWaits
    <3> QED BY <1>1, <3>1, <3>2, NextFacts
  <2>3. PICK s : s = Spaces(n) /\ IsSpaces(n, s) /\ s \in Nat /\ s \in 0..Untaken(n)
    <3>1. Untaken(n) \in Nat
      BY <2>2, AheadFacts
    <3> QED BY <2>2, <3>1, SpacesFacts DEF IsSpaces
  <2>4. NextNonSpace(p) = NextToken(Taken(n, s))
    BY <1>2, <1>4, <2>3 DEF NonSpaceFrom
  <2>5. CASE s = 0
    <3>1. NextNonSpace(p) = m
      BY <2>1, <2>4, <2>5 DEF Taken
    <3>2. ~Sees(m, {"Space"})
      <4>1. CASE Untaken(n) = 0
        BY <2>1, <2>2, <4>1, NextWaits DEF Sees
      <4>2. CASE Untaken(n) # 0
        <5>1. Untaken(n) > 0 /\ Coming(n, 1).typ # "Space"
          <6>1. Untaken(n) \in Nat
            BY <2>2, AheadFacts
          <6> QED BY <2>3, <2>5, <4>2, <6>1 DEF IsSpaces
        <5>2. m.token = Coming(n, 1)
          BY <2>1, <2>2, <5>1, NextFacts
        <5> QED BY <5>1, <5>2 DEF Sees
      <4> QED BY <4>1, <4>2
    <3> QED BY <1>1, <1>4, <2>1, <3>1, <3>2 DEF NonSpaceFrom
  <2>6. CASE s # 0
    <3>1. PICK u \in Nat : u = Untaken(n) /\ u > 0 /\ s \in 1..u
      <4>1. Untaken(n) \in Nat
        BY <2>2, AheadFacts
      <4> QED BY <2>3, <2>6, <4>1
    <3>2. /\ IsParser(m) /\ Parsing(m) /\ m.token = Coming(n, 1) /\ Untaken(m) = u - 1
          /\ \A i \in Nat \ {0} : Coming(m, i) = Coming(n, i + 1)
      BY <2>1, <2>2, <3>1, NextFacts
    <3>3. IsSpaces(m, s - 1)
      <4>1. ASSUME NEW i \in 1..(s - 1) PROVE Coming(m, i).typ = "Space"
        <5>1. i \in Nat \ {0} /\ i + 1 \in 1..s
          BY <3>1
        <5>2. Coming(n, i + 1).typ = "Space"
          BY <2>3, <5>1 DEF IsSpaces
        <5> QED BY <3>2, <5>1, <5>2
      <4>2. s - 1 < u - 1 => Coming(m, (s - 1) + 1).typ # "Space"
        <5>1. (s - 1) + 1 = s /\ s \in Nat \ {0} /\ (s - 1 < u - 1 => s < u)
          BY <3>1
        <5>2. s < u => Coming(n, s + 1).typ # "Space"
          BY <2>3, <3>1 DEF IsSpaces
        <5> QED BY <3>2, <5>1, <5>2
      <4>3. s - 1 \in 0..(u - 1)
        BY <3>1
      <4> QED BY <3>2, <4>1, <4>2, <4>3 DEF IsSpaces
    <3>4. Spaces(m) = s - 1
      BY <3>2, <3>3, SpacesFacts
    <3>5. Sees(m, {"Space"})
      <4>1. 1 \in 1..s
        BY <3>1
      <4>2. Coming(n, 1).typ = "Space"
        BY <2>3, <4>1 DEF IsSpaces
      <4> QED BY <3>2, <4>2 DEF Sees
    <3>6. NextNonSpace(n) = NextToken(Taken(m, s - 1))
      BY <2>1, <3>4, <3>5 DEF NonSpaceFrom
    <3>7. Taken(m, s - 1) = Taken(n, s)
      BY <2>1, <2>2, <3>1, TakenTwice
    <3> QED BY <1>1, <1>4, <2>4, <3>6, <3>7
  <2> QED BY <2>5, <2>6
<1> QED BY <1>3, <1>4

\* No space follows another.
Apart(s) == \A i \in DOMAIN s : i + 1 \in DOMAIN s => ~(s[i].typ = "Space" /\ s[i + 1].typ = "Space")

\* The lexer never sends two spaces in a row: a space goes as far as there are blanks,
\* and no comment is inside an action (lex.go:368-377).
THEOREM SpacesApart == Spec => []Apart(Sent)
<1>1. IInv => Apart(Sent)
  <2> SUFFICES ASSUME IInv, NEW i \in DOMAIN Sent, i + 1 \in DOMAIN Sent,
                      Sent[i].typ = "Space", Sent[i + 1].typ = "Space"
               PROVE  FALSE
    BY DEF Apart
  <2>0. "Space" \notin (Ends \cup AfterComments \cup {"Error"})
    BY DEF Ends, AfterComments
  <2>1. Sent \in Seq(Items) /\ DOMAIN Sent = 1..Len(Sent) /\ Len(Sent) \in Nat /\ Good(Sent)
    BY SentFacts
  <2>2. i \in 1..Len(Sent) /\ i + 1 \in 1..Len(Sent) /\ i + 1 # 1 /\ (i + 1) - 1 = i
    BY <2>1
  <2>3. PICK s : s = Sent
    OBVIOUS
  <2>4. Tiled(s, i) /\ Tiled(s, i + 1)
    BY <2>1, <2>2, <2>3 DEF Good
  <2>5. PICK a, b : a = s[i] /\ b = s[i + 1] /\ a \in Items /\ b \in Items /\ a.typ = "Space" /\ b.typ = "Space"
    BY <2>1, <2>2, <2>3, ElementOfSeq
  <2>6. a.to \in Nat /\ b.from \in Nat
    BY <2>5 DEF Items
  <2>7. Before(s, i + 1) = a.to
    BY <2>2, <2>5 DEF Before
  <2>8. Looks(a) /\ Looks(b) /\ b.from - a.to = 0
    BY <2>0, <2>4, <2>5, <2>7 DEF Tiled
  <2>9. At(a.to) \notin Blank /\ At(b.from) \in Blank
    BY <2>5, <2>8 DEF Looks
  <2> QED BY <2>6, <2>8, <2>9
<1> QED BY <1>1, Invariant, PTL

\* A parser that looks one token ahead at most, after nextNonSpace and after peekNonSpace.
LEMMA PeekNonSpaceFacts ==
    ASSUME NEW p, IsParser(p), Parsing(p), p.peekCount <= 1, NEW v, v = PeekNonSpace(p), Parsing(v)
    PROVE  /\ IsParser(v) /\ v.source = p.source /\ v.peekCount = 1 /\ v.held[1] = v.token
           /\ \E k \in 1..Untaken(p) : /\ IsSpaces(p, k - 1) /\ v.token = Coming(p, k)
                                       /\ Untaken(v) = Untaken(p) - k + 1
                                       /\ \A i \in Nat \ {0} : Coming(v, i + 1) = Coming(p, i + k)
<1>1. PICK n : n = NextNonSpace(p) /\ v = Backup(n)
  BY DEF PeekNonSpace
<1>2. Parsing(n)
  <2>1. CASE ~Parsing(n)
    <3>1. v = n
      BY <1>1, <2>1 DEF Backup
    <3> QED BY <2>1, <3>1
  <2> QED BY <2>1
<1>3. IsParser(n) /\ n.source = p.source /\ n.peekCount = 0 /\ n.held[n.peekCount + 1] = n.token
  BY <1>1, <1>2, NextNonSpaceFacts
<1>4. PICK k \in 1..Untaken(p) : /\ IsSpaces(p, k - 1) /\ n.token = Coming(p, k) /\ Untaken(n) = Untaken(p) - k
                                 /\ \A i \in Nat \ {0} : Coming(n, i) = Coming(p, i + k)
  BY <1>1, <1>2, NextNonSpaceFacts
<1>5. /\ IsParser(v) /\ v.source = n.source /\ v.token = n.token /\ v.held = n.held /\ v.peekCount = n.peekCount + 1
      /\ Untaken(v) = Untaken(n) + 1
      /\ \A i \in Nat \ {0} : Coming(v, i + 1) = Coming(n, i)
  BY <1>1, <1>2, <1>3, BackupFacts
<1>6. v.peekCount = 1 /\ v.held[1] = v.token /\ v.source = p.source /\ v.token = Coming(p, k)
  BY <1>3, <1>4, <1>5
<1>7. Untaken(v) = Untaken(p) - k + 1 /\ \A i \in Nat \ {0} : Coming(v, i + 1) = Coming(p, i + k)
  BY <1>4, <1>5
<1> QED BY <1>4, <1>5, <1>6, <1>7

\* The token in the first place is there already.
LEMMA BackupTwo ==
    ASSUME NEW p, IsParser(p), Parsing(p), p.peekCount <= 1, NEW t, NEW q, q = Backup2(p, t)
    PROVE  /\ IsParser(q)
           /\ Untaken(q) = Untaken(p) - p.peekCount + 2
           /\ Coming(q, 1) = t /\ Coming(q, 2) = p.held[1]
           /\ \A i \in Nat \ {0} : Coming(q, i + 2) = Coming(p, i + p.peekCount)
<1>1. q = [p EXCEPT !.held[2] = t, !.peekCount = 2]
  BY DEF Backup2
<1>2. /\ DOMAIN q = DOMAIN p /\ q.source = p.source /\ q.got = p.got /\ q.peekCount = 2
      /\ q.held = [p.held EXCEPT ![2] = t]
  BY <1>1 DEF IsParser
<1>3. DOMAIN q.held = 1..3 /\ q.held[2] = t /\ q.held[1] = p.held[1]
  BY <1>2 DEF IsParser
<1>4. IsParser(q)
  BY <1>2, <1>3 DEF IsParser
<1>5. PICK c, got, length : /\ c = p.peekCount /\ got = p.got /\ length = Len(p.source)
                           /\ c \in 0..1 /\ got \in Nat /\ length \in Nat
  BY DEF IsParser
<1>6. ASSUME NEW i \in Nat \ {0} PROVE Coming(q, i + 2) = Coming(p, i + c)
  <2>1. ~(i + 2 <= 2) /\ got + (i + 2) - 2 = got + i /\ ~(i + c <= c) /\ got + (i + c) - c = got + i
    BY <1>5
  <2>2. Coming(q, i + 2) = p.source[got + i]
    BY <1>2, <1>5, <2>1, Zenon DEF Coming
  <2>3. Coming(p, i + c) = p.source[got + i]
    BY <1>5, <2>1, Zenon DEF Coming
  <2> QED BY <2>2, <2>3
<1>7. Coming(q, 1) = t /\ Coming(q, 2) = p.held[1]
  BY <1>2, <1>3 DEF Coming
<1>8. Untaken(q) = Untaken(p) - c + 2
  BY <1>2, <1>5 DEF Untaken
<1> QED BY <1>4, <1>5, <1>6, <1>7, <1>8

LEMMA BackupThree ==
    ASSUME NEW p, IsParser(p), Parsing(p), p.peekCount = 1, NEW t2, NEW t1, NEW q, q = Backup3(p, t2, t1)
    PROVE  /\ IsParser(q)
           /\ Untaken(q) = Untaken(p) + 2
           /\ Coming(q, 1) = t2 /\ Coming(q, 2) = t1 /\ Coming(q, 3) = p.held[1]
           /\ \A i \in Nat \ {0} : Coming(q, i + 3) = Coming(p, i + 1)
<1>1. q = [p EXCEPT !.held[2] = t1, !.held[3] = t2, !.peekCount = 3]
  BY DEF Backup3
<1>2. /\ DOMAIN q = DOMAIN p /\ q.source = p.source /\ q.got = p.got /\ q.peekCount = 3
      /\ q.held = [[p.held EXCEPT ![2] = t1] EXCEPT ![3] = t2]
  BY <1>1 DEF IsParser
<1>3. DOMAIN q.held = 1..3 /\ q.held[3] = t2 /\ q.held[2] = t1 /\ q.held[1] = p.held[1]
  BY <1>2 DEF IsParser
<1>4. IsParser(q)
  BY <1>2, <1>3 DEF IsParser
<1>5. PICK got, length : got = p.got /\ length = Len(p.source) /\ got \in Nat /\ length \in Nat
  BY DEF IsParser
<1>6. ASSUME NEW i \in Nat \ {0} PROVE Coming(q, i + 3) = Coming(p, i + 1)
  <2>1. ~(i + 3 <= 3) /\ got + (i + 3) - 3 = got + i /\ ~(i + 1 <= 1) /\ got + (i + 1) - 1 = got + i
    BY <1>5
  <2>2. Coming(q, i + 3) = p.source[got + i]
    BY <1>2, <1>5, <2>1, Zenon DEF Coming
  <2>3. Coming(p, i + 1) = p.source[got + i]
    BY <1>5, <2>1, Zenon DEF Coming
  <2> QED BY <2>2, <2>3
<1>7. Coming(q, 1) = t2 /\ Coming(q, 2) = t1 /\ Coming(q, 3) = p.held[1]
  BY <1>2, <1>3 DEF Coming
<1>8. Untaken(q) = Untaken(p) + 2
  BY <1>2, <1>5 DEF Untaken
<1> QED BY <1>4, <1>6, <1>7, <1>8

\* A variable that has been looked at, with what follows it, and turns out to be no
\* declaration: all that was looked at lies ahead again, the space between them
\* included.  This needs a parser that has one token in hand at most, and spaces
\* that are apart (parse.go:379-410).
THEOREM VariableGoesBack ==
    ASSUME NEW p, IsParser(p), Parsing(p), p.peekCount <= 1,
           NEW v, v = PeekNonSpace(p), Parsing(v), Apart(Ahead(v)),
           NEW after, after = Peek(NextToken(v)),
           NEW follow, follow = PeekNonSpace(after), Parsing(follow)
    PROVE  Ahead(PutBack(v, after, follow)) = Ahead(v)
<1>1. IsParser(v) /\ v.peekCount = 1 /\ v.held[1] = v.token
  BY PeekNonSpaceFacts
<1>2. PICK u \in Nat : u = Untaken(v) /\ u > 0
  BY <1>1 DEF IsParser, Untaken
<1>3. Coming(v, 1) = v.token
  BY <1>1 DEF Coming
<1>4. PICK n : n = NextToken(v)
  OBVIOUS
<1>5. /\ IsParser(n) /\ Parsing(n) /\ n.peekCount = 0 /\ Untaken(n) = u - 1
      /\ \A i \in Nat \ {0} : Coming(n, i) = Coming(v, i + 1)
  BY <1>1, <1>2, <1>4, NextFacts
<1>6. PICK m : m = NextToken(n) /\ after = Backup(m)
  BY <1>4, <1>5 DEF Peek
<1>7. Parsing(after)
  <2>1. CASE ~Parsing(after)
    <3>1. NextToken(after) = after
      BY <2>1 DEF NextToken
    <3>2. NextNonSpace(after) = after
      BY <2>1, <3>1 DEF NextNonSpace, NonSpaceFrom, Sees
    <3>3. follow = after
      BY <2>1, <3>2 DEF PeekNonSpace, Backup
    <3> QED BY <2>1, <3>3
  <2> QED BY <2>1
<1>8. Parsing(m)
  <2>1. CASE ~Parsing(m)
    <3>1. after = m
      BY <1>6, <2>1 DEF Backup
    <3> QED BY <1>7, <2>1, <3>1
  <2> QED BY <2>1
<1>9. u - 1 > 0
  <2>1. u - 1 # 0
    BY <1>5, <1>6, <1>8, NextWaits
  <2> QED BY <1>2, <2>1
<1>10. /\ IsParser(m) /\ m.token = Coming(n, 1) /\ m.peekCount = 0 /\ Untaken(m) = u - 2
       /\ \A i \in Nat \ {0} : Coming(m, i) = Coming(n, i + 1)
       /\ m.held[m.peekCount + 1] = m.token
  <2>1. Untaken(m) = (u - 1) - 1
    BY <1>5, <1>6, <1>9, NextFacts
  <2> QED BY <1>2, <1>5, <1>6, <1>9, <2>1, NextFacts
<1>11. /\ IsParser(after) /\ after.token = m.token /\ after.peekCount = 1 /\ Untaken(after) = u - 1
       /\ Coming(after, 1) = Coming(v, 2) /\ after.token = Coming(v, 2)
       /\ \A i \in Nat \ {0} : Coming(after, i) = Coming(v, i + 1)
  <2>1. /\ IsParser(after) /\ after.token = m.token /\ after.peekCount = m.peekCount + 1
        /\ Untaken(after) = Untaken(m) + 1 /\ Coming(after, 1) = m.held[m.peekCount + 1]
        /\ \A i \in Nat \ {0} : Coming(after, i + 1) = Coming(m, i)
    BY <1>6, <1>8, <1>10, BackupFacts
  <2>2. Coming(n, 1) = Coming(v, 2)
    BY <1>5
  <2>3. ASSUME NEW i \in Nat \ {0} PROVE Coming(after, i) = Coming(v, i + 1)
    <3>1. CASE i = 1
      BY <1>10, <2>1, <2>2, <3>1
    <3>2. CASE i # 1
      <4>1. PICK j \in Nat \ {0} : i = j + 1
        <5>1. i - 1 \in Nat \ {0} /\ i = (i - 1) + 1
          BY <3>2
        <5> QED BY <5>1
      <4>2. Coming(after, i) = Coming(n, i)
        BY <1>10, <2>1, <4>1
      <4> QED BY <1>5, <4>2
    <3> QED BY <3>1, <3>2
  <2> QED BY <1>2, <1>10, <2>1, <2>2, <2>3
<1>12. /\ IsParser(follow) /\ follow.peekCount = 1 /\ follow.held[1] = follow.token
  BY <1>7, <1>11, PeekNonSpaceFacts
<1>13. PICK k \in 1..(u - 1) : /\ IsSpaces(after, k - 1) /\ follow.token = Coming(after, k)
                              /\ Untaken(follow) = (u - 1) - k + 1
                              /\ \A i \in Nat \ {0} : Coming(follow, i + 1) = Coming(after, i + k)
  BY <1>7, <1>11, PeekNonSpaceFacts
<1>14. \A i \in 1..u : Ahead(v)[i] = Coming(v, i)
  BY <1>1, <1>2, AheadFacts
<1>15. PICK q : q = PutBack(v, after, follow)
  OBVIOUS
<1>16. CASE after.token.typ = "Space"
  <2>1. k = 2
    <3>1. k # 1
      <4>1. ASSUME k = 1 PROVE Coming(after, 1).typ # "Space"
        BY <1>2, <1>9, <1>11, <1>13, <4>1 DEF IsSpaces
      <4> QED BY <1>11, <1>16, <4>1
    <3>2. CASE k > 2
      <4>1. 2 \in 1..(k - 1) /\ 2 \in Nat \ {0} /\ 2 + 1 = 3 /\ 2 \in 1..u /\ 3 \in 1..u
        BY <1>2, <3>2
      <4>2. Coming(after, 2).typ = "Space" /\ Coming(after, 2) = Coming(v, 3)
        BY <1>11, <1>13, <4>1 DEF IsSpaces
      <4>3. Ahead(v)[2].typ = "Space" /\ Ahead(v)[3].typ = "Space"
        BY <1>11, <1>14, <1>16, <4>1, <4>2
      <4>4. DOMAIN Ahead(v) = 1..u
        BY <1>2 DEF Ahead
      <4> QED BY <4>1, <4>3, <4>4 DEF Apart
    <3> QED BY <1>2, <3>1, <3>2
  <2>2. q = Backup3(follow, v.token, after.token)
    BY <1>15, <1>16 DEF PutBack
  <2>3. /\ IsParser(q) /\ Untaken(q) = Untaken(follow) + 2
        /\ Coming(q, 1) = v.token /\ Coming(q, 2) = after.token /\ Coming(q, 3) = follow.held[1]
        /\ \A i \in Nat \ {0} : Coming(q, i + 3) = Coming(follow, i + 1)
    BY <1>12, <2>2, BackupThree
  <2>4. ASSUME NEW i \in 1..u PROVE Coming(q, i) = Coming(v, i)
    <3>1. CASE i = 1
      BY <1>3, <2>3, <3>1
    <3>2. CASE i = 2
      BY <1>11, <2>3, <3>2
    <3>3. CASE i = 3
      BY <1>11, <1>12, <1>13, <2>1, <2>3, <3>3
    <3>4. CASE i > 3
      <4>1. PICK j \in Nat \ {0} : i = j + 3
        <5>1. i - 3 \in Nat \ {0} /\ i = (i - 3) + 3
          BY <1>2, <3>4
        <5> QED BY <5>1
      <4>2. j + 2 \in Nat \ {0} /\ (j + 2) + 1 = i
        BY <4>1
      <4>3. Coming(q, i) = Coming(after, j + 2)
        BY <1>13, <2>1, <2>3, <4>1
      <4> QED BY <1>11, <4>2, <4>3
    <3> QED BY <1>2, <3>1, <3>2, <3>3, <3>4
  <2>5. Untaken(q) = u
    BY <1>2, <1>13, <2>1, <2>3
  <2> QED BY <1>1, <1>2, <1>15, <2>3, <2>4, <2>5, SameAhead
<1>17. CASE after.token.typ # "Space"
  <2>1. k = 1
    <3>1. CASE k # 1
      <4>1. 1 \in 1..(k - 1)
        BY <1>2, <3>1
      <4>2. Coming(after, 1).typ = "Space"
        BY <1>13, <4>1 DEF IsSpaces
      <4> QED BY <1>11, <1>17, <4>2
    <3> QED BY <3>1
  <2>2. q = Backup2(follow, v.token)
    BY <1>15, <1>17 DEF PutBack
  <2>3. /\ IsParser(q) /\ Untaken(q) = Untaken(follow) - 1 + 2
        /\ Coming(q, 1) = v.token /\ Coming(q, 2) = follow.held[1]
        /\ \A i \in Nat \ {0} : Coming(q, i + 2) = Coming(follow, i + 1)
    BY <1>12, <2>2, BackupTwo
  <2>4. ASSUME NEW i \in 1..u PROVE Coming(q, i) = Coming(v, i)
    <3>1. CASE i = 1
      BY <1>3, <2>3, <3>1
    <3>2. CASE i = 2
      BY <1>11, <1>12, <1>13, <2>1, <2>3, <3>2
    <3>3. CASE i > 2
      <4>1. PICK j \in Nat \ {0} : i = j + 2
        <5>1. i - 2 \in Nat \ {0} /\ i = (i - 2) + 2
          BY <1>2, <3>3
        <5> QED BY <5>1
      <4>2. j + 1 \in Nat \ {0} /\ (j + 1) + 1 = i
        BY <4>1
      <4>3. Coming(q, i) = Coming(after, j + 1)
        BY <1>13, <2>1, <2>3, <4>1
      <4> QED BY <1>11, <4>2, <4>3
    <3> QED BY <1>2, <3>1, <3>2, <3>3
  <2>5. Untaken(q) = u
    BY <1>2, <1>13, <2>1, <2>3
  <2> QED BY <1>1, <1>2, <1>15, <2>3, <2>4, <2>5, SameAhead
<1> QED BY <1>16, <1>17

\* At the top of a template the parser looks behind a delimiter for a define.  If it
\* finds one, it holds no token, so that none is lost to the parser of the definition,
\* which starts with none; otherwise the delimiter and the word lie ahead again, only
\* the spaces between them do not (parse.go:58-78 and 278-319).
THEOREM DelimiterGoesBack ==
    ASSUME NEW p, IsParser(p), Parsing(p), p.peekCount <= 1,
           NEW first, first = Peek(p), Parsing(first),
           NEW word, word = NextNonSpace(NextToken(first)), Parsing(word)
    PROVE  /\ word.peekCount = 0
           /\ \E k \in 0..Untaken(p) :
                /\ \A i \in 2..(k + 1) : Ahead(p)[i].typ = "Space"
                /\ Ahead(Backup2(word, first.token)) =
                     [i \in 1..(Untaken(p) - k) |-> IF i = 1 THEN Ahead(p)[1] ELSE Ahead(p)[i + k]]
<1>1. PICK u \in Nat : u = Untaken(p)
  BY AheadFacts
<1>2. u > 0
  <2>1. CASE u = 0
    <3>1. p.peekCount = 0
      BY <1>1, <2>1 DEF IsParser, Untaken
    <3>2. first = Backup(NextToken(p))
      BY <3>1 DEF Peek
    <3>3. ~Parsing(NextToken(p))
      BY <1>1, <2>1, NextWaits
    <3> QED BY <3>2, <3>3 DEF Backup
  <2> QED BY <1>1, <2>1
<1>3. /\ IsParser(first) /\ first.token = Coming(p, 1) /\ first.peekCount = 1 /\ Untaken(first) = u
      /\ \A i \in Nat \ {0} : Coming(first, i + 1) = Coming(p, i + 1)
  <2>0. p.peekCount \in 0..3
    BY DEF IsParser
  <2>1. CASE p.peekCount = 1
    <3>1. first = [p EXCEPT !.token = p.held[1]]
      BY <2>1 DEF Peek
    <3>2. /\ DOMAIN first = DOMAIN p /\ first.token = p.held[1] /\ first.source = p.source /\ first.got = p.got
          /\ first.held = p.held /\ first.peekCount = 1
      BY <2>1, <3>1 DEF IsParser
    <3>3. IsParser(first)
      BY <3>2 DEF IsParser
    <3>4. first.token = Coming(p, 1)
      BY <2>1, <3>2 DEF Coming
    <3>5. \A i \in Nat \ {0} : Coming(first, i + 1) = Coming(p, i + 1)
      BY <2>1, <3>2 DEF Coming
    <3>6. Untaken(first) = u
      BY <1>1, <2>1, <3>2 DEF Untaken
    <3> QED BY <3>2, <3>3, <3>4, <3>5, <3>6
  <2>2. CASE p.peekCount = 0
    <3>1. PICK n : n = NextToken(p) /\ first = Backup(n)
      BY <2>2 DEF Peek
    <3>2. /\ IsParser(n) /\ Parsing(n) /\ n.token = Coming(p, 1) /\ n.peekCount = 0 /\ Untaken(n) = u - 1
          /\ \A i \in Nat \ {0} : Coming(n, i) = Coming(p, i + 1)
      BY <1>1, <1>2, <2>2, <3>1, NextFacts
    <3>3. /\ IsParser(first) /\ first.token = n.token /\ first.peekCount = n.peekCount + 1
          /\ Untaken(first) = Untaken(n) + 1 /\ \A i \in Nat \ {0} : Coming(first, i + 1) = Coming(n, i)
      BY <3>1, <3>2, BackupFacts
    <3> QED BY <1>1, <3>2, <3>3
  <2> QED BY <2>0, <2>1, <2>2
<1>4. PICK n : n = NextToken(first)
  OBVIOUS
<1>5. /\ IsParser(n) /\ Parsing(n) /\ n.peekCount = 0 /\ Untaken(n) = u - 1
      /\ \A i \in Nat \ {0} : Coming(n, i) = Coming(p, i + 1)
  <2>1. /\ IsParser(n) /\ Parsing(n) /\ n.peekCount = 0 /\ Untaken(n) = u - 1
        /\ \A i \in Nat \ {0} : Coming(n, i) = Coming(first, i + 1)
    BY <1>2, <1>3, <1>4, NextFacts
  <2> QED BY <1>3, <2>1
<1>6. IsParser(word) /\ word.peekCount = 0 /\ word.held[word.peekCount + 1] = word.token
  BY <1>4, <1>5, NextNonSpaceFacts
<1>7. PICK j \in 1..(u - 1) : /\ IsSpaces(n, j - 1) /\ word.token = Coming(n, j) /\ Untaken(word) = (u - 1) - j
                             /\ \A i \in Nat \ {0} : Coming(word, i) = Coming(n, i + j)
  BY <1>4, <1>5, NextNonSpaceFacts
<1>8. PICK k \in 0..u : j = k + 1
  <2>1. j - 1 \in 0..u /\ j = (j - 1) + 1
    BY <1>1
  <2> QED BY <2>1
<1>9. \A i \in 1..u : Ahead(p)[i] = Coming(p, i)
  BY <1>1, AheadFacts
<1>10. ASSUME NEW i \in 2..(k + 1) PROVE Ahead(p)[i].typ = "Space"
  <2>1. PICK h \in 1..k : i = h + 1
    <3>1. i - 1 \in 1..k /\ i = (i - 1) + 1
      BY <1>8
    <3> QED BY <3>1
  <2>2. Coming(n, h).typ = "Space" /\ h \in Nat \ {0} /\ i \in 1..u
    BY <1>1, <1>7, <1>8, <2>1 DEF IsSpaces
  <2> QED BY <1>5, <1>9, <2>1, <2>2
<1>11. PICK q : q = Backup2(word, first.token)
  OBVIOUS
<1>12. /\ IsParser(q) /\ Untaken(q) = Untaken(word) - 0 + 2
       /\ Coming(q, 1) = first.token /\ Coming(q, 2) = word.token
       /\ \A i \in Nat \ {0} : Coming(q, i + 2) = Coming(word, i)
  <2>1. /\ IsParser(q) /\ Untaken(q) = Untaken(word) - word.peekCount + 2
        /\ Coming(q, 1) = first.token /\ Coming(q, 2) = word.held[1]
        /\ \A i \in Nat \ {0} : Coming(q, i + 2) = Coming(word, i + word.peekCount)
    BY <1>6, <1>11, BackupTwo
  <2>2. ASSUME NEW i \in Nat \ {0} PROVE Coming(q, i + 2) = Coming(word, i)
    <3>1. i + word.peekCount = i
      BY <1>6
    <3> QED BY <2>1, <3>1
  <2> QED BY <1>6, <2>1, <2>2
<1>13. Untaken(q) = u - k
  BY <1>1, <1>7, <1>8, <1>12
<1>14. ASSUME NEW i \in 1..(u - k) PROVE Coming(q, i) = IF i = 1 THEN Ahead(p)[1] ELSE Ahead(p)[i + k]
  <2>1. CASE i = 1
    <3>1. 1 \in 1..u
      BY <1>2
    <3> QED BY <1>3, <1>9, <1>12, <2>1, <3>1
  <2>2. CASE i = 2
    <3>1. 2 + k \in 1..u /\ (k + 1) + 1 = 2 + k /\ k + 1 \in Nat \ {0}
      BY <1>1, <1>8, <2>2
    <3>2. Coming(q, 2) = Coming(p, 2 + k)
      BY <1>5, <1>7, <1>8, <1>12, <3>1
    <3> QED BY <1>9, <2>2, <3>1, <3>2
  <2>3. CASE i > 2
    <3>1. PICK h \in Nat \ {0} : i = h + 2
      <4>1. i - 2 \in Nat \ {0} /\ i = (i - 2) + 2
        BY <2>3
      <4> QED BY <4>1
    <3>2. i + k \in 1..u /\ (h + j) + 1 = i + k /\ h + j \in Nat \ {0}
      BY <1>1, <1>8, <3>1
    <3>3. Coming(q, i) = Coming(p, i + k)
      <4>1. Coming(q, i) = Coming(n, h + j)
        BY <1>7, <1>12, <3>1
      <4> QED BY <1>5, <3>2, <4>1
    <3> QED BY <1>9, <2>3, <3>2, <3>3
  <2> QED BY <2>1, <2>2, <2>3
<1>15. Ahead(q) = [i \in 1..(u - k) |-> IF i = 1 THEN Ahead(p)[1] ELSE Ahead(p)[i + k]]
  BY <1>13, <1>14 DEF Ahead
<1> QED BY <1>1, <1>6, <1>8, <1>10, <1>11, <1>15

-----------------------------------------------------------------------------
(* The stack of variables. *)

Stack == INSTANCE TemplateStack

\* Executions whose variables have certain names and values.
Variables(Names, Values) == [name : Names, value : Values]
IsExecution(e, Names, Values) ==
    /\ e = [f \in DOMAIN e |-> e[f]]
    /\ {"vars", "value", "ended"} \subseteq DOMAIN e
    /\ e.vars \in Seq(Variables(Names, Values)) /\ e.value \in Values

\* The stack of x is that of e, with more on top of it.
Above(e, x) ==
    /\ Len(e.vars) <= Len(x.vars)
    /\ \A i \in 1..Len(e.vars) : x.vars[i] = e.vars[i]

\* What a lookup says: the value of a variable, or that there is none.
SameLookup(e, x, name) ==
    /\ Stack!Named(e, name) = Stack!Named(x, name)
    /\ Stack!Named(e, name) # {} => Stack!VarValue(e, name).value = Stack!VarValue(x, name).value

LEMMA TopmostFacts ==
    ASSUME NEW n \in Nat, NEW S \in SUBSET (1..n), S # {}
    PROVE  Stack!Topmost(S) \in S /\ \A j \in S : j <= Stack!Topmost(S)
<1>1. PICK up : up = {k \in Nat : \E j \in S : j + k = n}
  OBVIOUS
<1>2. up # {}
  <2>1. PICK j \in S : TRUE
    OBVIOUS
  <2>2. n - j \in Nat /\ j + (n - j) = n
    BY <2>1
  <2>3. n - j \in up
    BY <1>1, <2>1, <2>2
  <2> QED BY <2>3
<1>3. PICK k \in up : \A l \in up : k <= l
  BY <1>1, <1>2, First
<1>4. PICK i \in S : i + k = n
  BY <1>1, <1>3
<1>5. \A j \in S : j <= i
  <2> SUFFICES ASSUME NEW j \in S PROVE j <= i
    OBVIOUS
  <2>1. n - j \in Nat /\ j + (n - j) = n
    OBVIOUS
  <2>2. n - j \in up
    BY <1>1, <2>1
  <2>3. k <= n - j
    BY <1>3, <2>2
  <2> QED BY <1>1, <1>3, <1>4, <2>3
<1> QED BY <1>5 DEF Stack!Topmost

\* Which one is on top is a matter of the names alone.
LEMMA LookupFacts ==
    ASSUME NEW Names, NEW Values, NEW e, IsExecution(e, Names, Values), NEW name
    PROVE  /\ Stack!Named(e, name) = {} => Stack!VarValue(e, name) = Stack!Ends(e, "undefined")
           /\ \A i \in Stack!Named(e, name) :
                 (\A j \in Stack!Named(e, name) : j <= i) => Stack!VarValue(e, name).value = e.vars[i].value
<1>1. Stack!Named(e, name) = {} => Stack!VarValue(e, name) = Stack!Ends(e, "undefined")
  BY DEF Stack!VarValue
<1>2. ASSUME NEW i \in Stack!Named(e, name), \A j \in Stack!Named(e, name) : j <= i
      PROVE  Stack!VarValue(e, name).value = e.vars[i].value
  <2>1. PICK n, S : n = Len(e.vars) /\ n \in Nat /\ S = Stack!Named(e, name) /\ S \in SUBSET (1..n) /\ i \in S
    <3>1. Len(e.vars) \in Nat /\ DOMAIN e.vars = 1..Len(e.vars)
      BY DEF IsExecution
    <3>2. Stack!Named(e, name) \in SUBSET (1..Len(e.vars))
      BY <3>1 DEF Stack!Named
    <3> QED BY <1>2, <3>1, <3>2
  <2>2. Stack!Topmost(S) \in S /\ \A j \in S : j <= Stack!Topmost(S)
    BY <2>1, TopmostFacts
  <2>3. Stack!Topmost(S) = i
    BY <1>2, <2>1, <2>2
  <2>4. Stack!VarValue(e, name) = Stack!Give(e, e.vars[i].value)
    BY <2>1, <2>3 DEF Stack!VarValue
  <2>5. "value" \in DOMAIN e
    BY DEF IsExecution
  <2> QED BY <2>4, <2>5 DEF Stack!Give
<1> QED BY <1>1, <1>2

\* A variable hides those of its name that were declared before, and no others.
LEMMA LookupPushed ==
    ASSUME NEW Names, NEW Values, NEW e, IsExecution(e, Names, Values), NEW n \in Names, NEW v \in Values,
           NEW x, x = Stack!Push(e, n, v)
    PROVE  /\ IsExecution(x, Names, Values) /\ Above(e, x) /\ x.ended = e.ended
           /\ Len(x.vars) = Len(e.vars) + 1 /\ x.vars[Len(e.vars) + 1] = Stack!Var(n, v)
           /\ \A f \in DOMAIN e : f # "vars" => x[f] = e[f]
<1>1. PICK s : s = e.vars /\ s \in Seq(Variables(Names, Values)) /\ Len(s) \in Nat
  BY DEF IsExecution
<1>2. PICK b : b = Stack!Var(n, v) /\ b \in Variables(Names, Values)
  <2>1. Stack!Var(n, v) \in Variables(Names, Values)
    BY DEF Stack!Var, Variables
  <2> QED BY <2>1
<1>3. PICK t : t = Append(s, b)
  OBVIOUS
<1>4. /\ t \in Seq(Variables(Names, Values)) /\ Len(t) = Len(s) + 1 /\ t[Len(s) + 1] = b
      /\ \A i \in 1..Len(s) : t[i] = s[i]
  BY <1>1, <1>2, <1>3
<1>5. x = [e EXCEPT !.vars = t]
  BY <1>1, <1>2, <1>3 DEF Stack!Push
<1>6. x.vars = t /\ DOMAIN x = DOMAIN e /\ x = [f \in DOMAIN x |-> x[f]] /\ \A f \in DOMAIN e : f # "vars" => x[f] = e[f]
  BY <1>5 DEF IsExecution
<1>7. IsExecution(x, Names, Values) /\ x.ended = e.ended
  BY <1>4, <1>6 DEF IsExecution
<1> QED BY <1>1, <1>2, <1>4, <1>6, <1>7 DEF Above

LEMMA LookupSame ==
    ASSUME NEW Names, NEW Values, NEW e, IsExecution(e, Names, Values), NEW x, IsExecution(x, Names, Values),
           NEW name, Stack!Named(e, name) = Stack!Named(x, name),
           \A i \in Stack!Named(e, name) : e.vars[i].value = x.vars[i].value
    PROVE  SameLookup(e, x, name)
<1>1. PICK S : S = Stack!Named(e, name) /\ S = Stack!Named(x, name)
  OBVIOUS
<1>2. ASSUME S # {} PROVE Stack!VarValue(e, name).value = Stack!VarValue(x, name).value
  <2>1. PICK n : n \in Nat /\ S \in SUBSET (1..n)
    <3>1. Len(e.vars) \in Nat /\ DOMAIN e.vars = 1..Len(e.vars)
      BY DEF IsExecution
    <3>2. S \in SUBSET (1..Len(e.vars))
      BY <1>1, <3>1 DEF Stack!Named
    <3> QED BY <3>1, <3>2
  <2>2. PICK i : i \in S /\ \A j \in S : j <= i
    BY <1>2, <2>1, TopmostFacts
  <2>3. Stack!VarValue(e, name).value = e.vars[i].value
    BY <1>1, <2>2, LookupFacts
  <2>4. Stack!VarValue(x, name).value = x.vars[i].value
    BY <1>1, <2>2, LookupFacts
  <2> QED BY <1>1, <2>2, <2>3, <2>4
<1> QED BY <1>1, <1>2 DEF SameLookup

\* A variable hides those of its name that were declared before, and no other: what a
\* lookup finds is the last declaration, whatever is below it (exec.go:38-41, 58-67).
THEOREM DeclarationHides ==
    ASSUME NEW Names, NEW Values, NEW e, IsExecution(e, Names, Values), NEW n \in Names, NEW v \in Values,
           NEW x, x = Stack!Push(e, n, v)
    PROVE  /\ Stack!Named(x, n) # {} /\ Stack!VarValue(x, n).value = v
           /\ \A m : m # n => SameLookup(e, x, m)
<1>1. /\ IsExecution(x, Names, Values) /\ Above(e, x)
      /\ Len(x.vars) = Len(e.vars) + 1 /\ x.vars[Len(e.vars) + 1] = Stack!Var(n, v)
  BY LookupPushed
<1>2. PICK k : k = Len(e.vars) /\ k \in Nat /\ DOMAIN e.vars = 1..k /\ DOMAIN x.vars = 1..(k + 1)
  <2>1. DOMAIN e.vars = 1..Len(e.vars) /\ DOMAIN x.vars = 1..Len(x.vars) /\ Len(e.vars) \in Nat
    BY <1>1 DEF IsExecution
  <2> QED BY <1>1, <2>1
<1>3. x.vars[k + 1].name = n /\ x.vars[k + 1].value = v
  BY <1>1, <1>2 DEF Stack!Var
<1>4. \A i \in 1..k : x.vars[i] = e.vars[i]
  BY <1>1, <1>2 DEF Above
<1>5. Stack!Named(x, n) # {} /\ Stack!VarValue(x, n).value = v
  <2>1. k + 1 \in Stack!Named(x, n) /\ \A j \in Stack!Named(x, n) : j <= k + 1
    BY <1>2, <1>3 DEF Stack!Named
  <2>2. PICK i : i = k + 1
    OBVIOUS
  <2>3. i \in Stack!Named(x, n) /\ \A j \in Stack!Named(x, n) : j <= i
    BY <2>1, <2>2
  <2>4. Stack!VarValue(x, n).value = x.vars[i].value
    BY <1>1, <2>3, LookupFacts
  <2> QED BY <1>3, <2>2, <2>3, <2>4
<1>6. ASSUME NEW m, m # n PROVE SameLookup(e, x, m)
  <2>1. Stack!Named(e, m) = Stack!Named(x, m)
    BY <1>2, <1>3, <1>4, <1>6 DEF Stack!Named
  <2>2. \A i \in Stack!Named(e, m) : e.vars[i].value = x.vars[i].value
    BY <1>2, <1>4 DEF Stack!Named
  <2> QED BY <1>1, <2>1, <2>2, LookupSame
<1> QED BY <1>5, <1>6

LEMMA StackFacts ==
    ASSUME NEW Names, NEW Values, NEW e, IsExecution(e, Names, Values)
    PROVE  /\ Len(e.vars) \in Nat /\ DOMAIN e.vars = 1..Len(e.vars)
           /\ \A i \in 1..Len(e.vars) :
                 /\ e.vars[i] \in Variables(Names, Values)
                 /\ e.vars[i] = Stack!Var(e.vars[i].name, e.vars[i].value)
                 /\ e.vars[i].name \in Names /\ e.vars[i].value \in Values
<1>1. PICK s : s = e.vars /\ s \in Seq(Variables(Names, Values)) /\ Len(s) \in Nat /\ DOMAIN s = 1..Len(s)
  BY DEF IsExecution
<1>2. ASSUME NEW i \in 1..Len(s)
      PROVE  /\ s[i] \in Variables(Names, Values) /\ s[i] = Stack!Var(s[i].name, s[i].value)
             /\ s[i].name \in Names /\ s[i].value \in Values
  <2>1. s[i] \in Variables(Names, Values)
    BY <1>1, <1>2
  <2> QED BY <2>1 DEF Variables, Stack!Var
<1> QED BY <1>1, <1>2

LEMMA PopFacts ==
    ASSUME NEW Names, NEW Values, NEW x, IsExecution(x, Names, Values), Stack!Running(x),
           NEW mark \in 0..Len(x.vars), NEW y, y = Stack!Pop(x, mark)
    PROVE  /\ IsExecution(y, Names, Values) /\ y.ended = x.ended /\ Len(y.vars) = mark
           /\ \A i \in 1..mark : y.vars[i] = x.vars[i]
<1>1. PICK s : s = x.vars /\ s \in Seq(Variables(Names, Values)) /\ Len(s) \in Nat
  BY DEF IsExecution
<1>2. PICK t : t = SubSeq(s, 1, mark)
  OBVIOUS
<1>3. mark \in Nat /\ mark <= Len(s)
  BY <1>1
<1>4. t \in Seq(Variables(Names, Values)) /\ Len(t) = mark /\ \A i \in 1..mark : t[i] = s[i]
  <2>1. \A i \in 1..mark : s[i] \in Variables(Names, Values)
    BY <1>1, <1>3
  <2>2. Len(t) = mark /\ \A i \in 1..mark : t[i] = s[i]
    BY <1>1, <1>2, <1>3
  <2>3. t \in Seq(Variables(Names, Values))
    BY <1>1, <1>2, <1>3, <2>1, SubSeqProperties
  <2> QED BY <2>2, <2>3
<1>5. y = [x EXCEPT !.vars = t]
  BY <1>1, <1>2 DEF Stack!Pop
<1>6. y.vars = t /\ DOMAIN y = DOMAIN x /\ y = [f \in DOMAIN y |-> y[f]] /\ y.ended = x.ended /\ y.value = x.value
  BY <1>5 DEF IsExecution
<1> QED BY <1>1, <1>4, <1>6 DEF IsExecution

LEMMA PushAllFacts ==
    ASSUME NEW Names, NEW Values, NEW e, IsExecution(e, Names, Values), Stack!Running(e),
           NEW decl \in Seq(Names), NEW x, x = Stack!PushAll(e, decl)
    PROVE  /\ IsExecution(x, Names, Values) /\ x.ended = e.ended /\ Above(e, x)
           /\ Len(x.vars) = Len(e.vars) + Len(decl)
           /\ \A i \in 1..Len(decl) : x.vars[Len(e.vars) + i] = Stack!Var(decl[i], e.value)
<1>1. PICK s : s = e.vars /\ s \in Seq(Variables(Names, Values)) /\ Len(s) \in Nat
  BY DEF IsExecution
<1>2. PICK t : t = [i \in DOMAIN decl |-> Stack!Var(decl[i], e.value)]
  OBVIOUS
<1>3. t \in Seq(Variables(Names, Values)) /\ Len(t) = Len(decl) /\ \A i \in 1..Len(decl) : t[i] = Stack!Var(decl[i], e.value)
  <2>1. DOMAIN decl = 1..Len(decl) /\ Len(decl) \in Nat
    OBVIOUS
  <2>2. \A i \in 1..Len(decl) : Stack!Var(decl[i], e.value) \in Variables(Names, Values)
    BY <2>1 DEF Stack!Var, Variables, IsExecution
  <2>3. t \in [1..Len(decl) -> Variables(Names, Values)]
    BY <1>2, <2>1, <2>2
  <2>4. t \in Seq(Variables(Names, Values)) /\ Len(t) = Len(decl)
    BY <2>1, <2>3
  <2> QED BY <1>2, <2>1, <2>4
<1>4. PICK u : u = s \o t
  OBVIOUS
<1>5. /\ u \in Seq(Variables(Names, Values)) /\ Len(u) = Len(s) + Len(decl)
      /\ \A i \in 1..Len(s) : u[i] = s[i]
      /\ \A i \in 1..Len(decl) : u[Len(s) + i] = t[i]
  <2>0. Len(decl) \in Nat
    OBVIOUS
  <2>1. u \in Seq(Variables(Names, Values)) /\ Len(u) = Len(s) + Len(decl)
    <3>1. u \in Seq(Variables(Names, Values)) /\ Len(u) = Len(s) + Len(t)
      BY <1>1, <1>3, <1>4, ConcatProperties
    <3> QED BY <1>3, <3>1
  <2>2. \A i \in 1..(Len(s) + Len(t)) : u[i] = IF i <= Len(s) THEN s[i] ELSE t[i - Len(s)]
    BY <1>1, <1>3, <1>4, ConcatProperties
  <2>3. \A i \in 1..Len(s) : u[i] = s[i]
    BY <1>1, <1>3, <2>2
  <2>4. ASSUME NEW i \in 1..Len(decl) PROVE u[Len(s) + i] = t[i]
    <3>1. PICK j : j = Len(s) + i /\ j \in 1..(Len(s) + Len(t)) /\ ~(j <= Len(s)) /\ j - Len(s) = i
      <4>1. PICK l, m : l = Len(s) /\ m = Len(t) /\ l \in Nat /\ m \in Nat /\ i \in 1..m
        BY <1>1, <1>3, <2>0
      <4>2. l + i \in 1..(l + m) /\ ~(l + i <= l) /\ (l + i) - l = i
        BY <4>1
      <4> QED BY <4>1, <4>2
    <3> QED BY <2>2, <3>1
  <2> QED BY <2>1, <2>3, <2>4
<1>6. x = [e EXCEPT !.vars = u]
  BY <1>1, <1>2, <1>4 DEF Stack!PushAll
<1>7. x.vars = u /\ DOMAIN x = DOMAIN e /\ x = [f \in DOMAIN x |-> x[f]] /\ x.ended = e.ended /\ x.value = e.value
  BY <1>6 DEF IsExecution
<1>8. IsExecution(x, Names, Values)
  BY <1>5, <1>7 DEF IsExecution
<1>9. Len(s) + Len(decl) >= Len(s)
  BY <1>1
<1>10. Above(e, x)
  BY <1>1, <1>5, <1>7, <1>9 DEF Above
<1> QED BY <1>1, <1>3, <1>5, <1>7, <1>8, <1>10

\* The kth variable has another value.
SetAt(x, y, k, v) ==
    /\ y.vars[k] = Stack!Var(x.vars[k].name, v)
    /\ \A i \in 1..Len(x.vars) : i # k => y.vars[i] = x.vars[i]

LEMMA SetVarFacts ==
    ASSUME NEW Names, NEW Values, NEW x, IsExecution(x, Names, Values), NEW n \in 1..Len(x.vars), NEW v \in Values,
           NEW y, y = Stack!SetVar(x, n, v), NEW k, k = Len(x.vars) + 1 - n
    PROVE  /\ IsExecution(y, Names, Values) /\ y.ended = x.ended /\ Len(y.vars) = Len(x.vars)
           /\ SetAt(x, y, k, v)
<1>1. PICK s : s = x.vars /\ s \in Seq(Variables(Names, Values)) /\ Len(s) \in Nat /\ k \in 1..Len(s)
  BY DEF IsExecution
<1>2. PICK b : b = Stack!Var(s[k].name, v) /\ b \in Variables(Names, Values) /\ b = [s[k] EXCEPT !.value = v]
  <2>1. s[k] = Stack!Var(s[k].name, s[k].value) /\ s[k].name \in Names
    BY <1>1, StackFacts
  <2>2. Stack!Var(s[k].name, v) \in Variables(Names, Values)
    BY <2>1 DEF Stack!Var, Variables
  <2>3. [s[k] EXCEPT !.value = v] = Stack!Var(s[k].name, v)
    <3>1. PICK m, w : m = s[k].name /\ w = s[k].value /\ s[k] = [name |-> m, value |-> w]
      BY <2>1 DEF Stack!Var
    <3>2. [[name |-> m, value |-> w] EXCEPT !.value = v] = [name |-> m, value |-> v]
      OBVIOUS
    <3> QED BY <3>1, <3>2 DEF Stack!Var
  <2> QED BY <2>2, <2>3
<1>3. PICK t : t = [s EXCEPT ![k] = b]
  OBVIOUS
<1>4. t \in Seq(Variables(Names, Values)) /\ Len(t) = Len(s) /\ \A i \in 1..Len(s) : t[i] = IF i = k THEN b ELSE s[i]
  BY <1>1, <1>2, <1>3
<1>5. y = [x EXCEPT !.vars = t]
  <2>1. y = [x EXCEPT !.vars = [s EXCEPT ![k] = [s[k] EXCEPT !.value = v]]]
    BY <1>1 DEF Stack!SetVar
  <2> QED BY <1>2, <1>3, <2>1
<1>6. y.vars = t /\ DOMAIN y = DOMAIN x /\ y = [f \in DOMAIN y |-> y[f]] /\ y.ended = x.ended /\ y.value = x.value
  BY <1>5 DEF IsExecution
<1>7. IsExecution(y, Names, Values)
  BY <1>4, <1>6 DEF IsExecution
<1>8. SetAt(x, y, k, v)
  BY <1>1, <1>2, <1>4, <1>6 DEF SetAt
<1> QED BY <1>1, <1>4, <1>6, <1>7, <1>8

\* What a range has on the stack while it goes through its items: the variables below,
\* and its own ones.
Bound(e, decl, b) ==
    /\ Above(e, b) /\ Len(b.vars) = Len(e.vars) + Len(decl)
    /\ \A i \in 1..Len(decl) : b.vars[Len(e.vars) + i].name = decl[i]

\* The variables on top of y, as many as d, have been set.
SetOnTop(b, y, d, index, elem) ==
    LET k == Len(b.vars)
    IN  /\ \A i \in 1..k : i + d <= k => y.vars[i] = b.vars[i]
        /\ d > 0 => y.vars[k] = Stack!Var(b.vars[k].name, elem)
        /\ d = 2 => y.vars[k - 1] = Stack!Var(b.vars[k - 1].name, index)

LEMMA BindFacts ==
    ASSUME NEW Names, NEW Values, NEW b, IsExecution(b, Names, Values), NEW decl \in Seq(Names), Len(decl) <= 2,
           Len(decl) <= Len(b.vars), NEW index \in Values, NEW elem \in Values,
           NEW y, y = Stack!Bind(b, decl, <<index, elem>>)
    PROVE  /\ IsExecution(y, Names, Values) /\ y.ended = b.ended /\ Len(y.vars) = Len(b.vars)
           /\ SetOnTop(b, y, Len(decl), index, elem)
<1>1. PICK k, d : k = Len(b.vars) /\ d = Len(decl) /\ k \in Nat /\ d \in 0..2 /\ d <= k
  <2>1. Len(decl) \in Nat /\ Len(b.vars) \in Nat
    BY StackFacts
  <2> QED BY <2>1
<1>2. CASE d = 0
  <2>1. y = b
    BY <1>1, <1>2 DEF Stack!Bind
  <2>2. SetOnTop(b, b, d, index, elem)
    BY <1>2 DEF SetOnTop
  <2> QED BY <1>1, <2>1, <2>2
<1>3. CASE d # 0
  <2>1. PICK n, x : n = 1 /\ x = Stack!SetVar(b, n, elem)
    OBVIOUS
  <2>2. n \in 1..Len(b.vars) /\ k = Len(b.vars) + 1 - n
    BY <1>1, <1>3, <2>1
  <2>3. IsExecution(x, Names, Values) /\ x.ended = b.ended /\ Len(x.vars) = Len(b.vars) /\ SetAt(b, x, k, elem)
    BY <2>1, <2>2, SetVarFacts
  <2>4. /\ x.vars[k] = Stack!Var(b.vars[k].name, elem)
        /\ \A i \in 1..k : i # k => x.vars[i] = b.vars[i]
    BY <1>1, <2>3 DEF SetAt
  <2>5. CASE d = 1
    <3>1. y = x
      BY <1>1, <2>1, <2>5 DEF Stack!Bind
    <3>2. \A i \in 1..k : i + d <= k => i # k
      BY <1>1, <2>5
    <3>3. SetOnTop(b, x, d, index, elem)
      BY <1>1, <2>4, <2>5, <3>2 DEF SetOnTop
    <3> QED BY <1>1, <2>3, <3>1, <3>3
  <2>6. CASE d = 2
    <3>1. PICK m, p : m = 2 /\ y = Stack!SetVar(x, m, index) /\ p = k - 1
      BY <1>1, <2>1, <2>6 DEF Stack!Bind
    <3>2. m \in 1..Len(x.vars) /\ p = Len(x.vars) + 1 - m
      BY <1>1, <2>3, <2>6, <3>1
    <3>3. IsExecution(y, Names, Values) /\ y.ended = x.ended /\ Len(y.vars) = Len(x.vars) /\ SetAt(x, y, p, index)
      BY SMTT(30), <2>3, <3>1, <3>2, SetVarFacts
    <3>4. /\ y.vars[p] = Stack!Var(x.vars[p].name, index)
          /\ \A i \in 1..k : i # p => y.vars[i] = x.vars[i]
      BY <1>1, <2>3, <3>3 DEF SetAt
    <3>5. /\ \A i \in 1..k : i + d <= k => i # k /\ i # p
          /\ k # p /\ p \in 1..k /\ k \in 1..k
      BY <1>1, <2>6, <3>1
    <3>6. \A i \in 1..k : i + d <= k => y.vars[i] = b.vars[i]
      BY <2>4, <3>4, <3>5
    <3>7. y.vars[k] = Stack!Var(b.vars[k].name, elem)
      BY <2>4, <3>4, <3>5
    <3>8. y.vars[p] = Stack!Var(b.vars[p].name, index)
      BY <2>4, <3>4, <3>5
    <3>9. SetOnTop(b, y, d, index, elem)
      BY <1>1, <3>1, <3>6, <3>7, <3>8 DEF SetOnTop
    <3> QED BY <1>1, <2>3, <3>3, <3>9
  <2>7. d = 1 \/ d = 2
    BY <1>1, <1>3
  <2> QED BY <2>5, <2>6, <2>7
<1> QED BY <1>2, <1>3

\* Nothing that is done on top of a stack touches what is below: declarations, ends of
\* scopes that began there, and the items of a range, which are written over the
\* variables that the range has declared (exec.go:38-56, 250-258, 340-342).
THEOREM BelowUntouched ==
    ASSUME NEW Names, NEW Values, NEW e, IsExecution(e, Names, Values),
           NEW x, IsExecution(x, Names, Values), Stack!Running(x), Above(e, x)
    PROVE  /\ \A n \in Names, v \in Values : Above(e, Stack!Push(x, n, v))
           /\ \A decl \in Seq(Names) : Above(e, Stack!PushAll(x, decl))
           /\ \A mark \in Len(e.vars)..Len(x.vars) : Above(e, Stack!Pop(x, mark))
           /\ \A decl \in Seq(Names), index \in Values, elem \in Values :
                 Len(decl) <= 2 /\ Len(e.vars) + Len(decl) <= Len(x.vars)
                    => Above(e, Stack!Bind(x, decl, <<index, elem>>))
<1>1. PICK k, l : k = Len(e.vars) /\ l = Len(x.vars) /\ k \in Nat /\ l \in Nat /\ k <= l
  BY StackFacts DEF Above
<1>2. \A i \in 1..k : x.vars[i] = e.vars[i] /\ i \in 1..l
  BY <1>1 DEF Above
<1>3. ASSUME NEW y, Above(x, y), Len(y.vars) \in Nat PROVE Above(e, y)
  <2>1. l <= Len(y.vars) /\ \A i \in 1..l : y.vars[i] = x.vars[i]
    BY <1>1, <1>3 DEF Above
  <2>2. k <= Len(y.vars) /\ \A i \in 1..k : y.vars[i] = e.vars[i]
    BY <1>1, <1>2, <1>3, <2>1
  <2> QED BY <1>1, <2>2 DEF Above
<1>4. ASSUME NEW n \in Names, NEW v \in Values PROVE Above(e, Stack!Push(x, n, v))
  <2>1. PICK y : y = Stack!Push(x, n, v)
    OBVIOUS
  <2>2. IsExecution(y, Names, Values) /\ Above(x, y)
    BY <2>1, LookupPushed
  <2>3. Len(y.vars) \in Nat
    BY <2>2, StackFacts
  <2> QED BY <1>3, <2>1, <2>2, <2>3
<1>5. ASSUME NEW decl \in Seq(Names) PROVE Above(e, Stack!PushAll(x, decl))
  <2>1. PICK y : y = Stack!PushAll(x, decl)
    OBVIOUS
  <2>2. IsExecution(y, Names, Values) /\ Above(x, y)
    BY <2>1, PushAllFacts
  <2>3. Len(y.vars) \in Nat
    BY <2>2, StackFacts
  <2> QED BY <1>3, <2>1, <2>2, <2>3
<1>6. ASSUME NEW mark \in Len(e.vars)..Len(x.vars) PROVE Above(e, Stack!Pop(x, mark))
  <2>1. PICK y : y = Stack!Pop(x, mark)
    OBVIOUS
  <2>2. mark \in 0..Len(x.vars) /\ mark \in Nat /\ k <= mark
    BY <1>1, <1>6
  <2>3. Len(y.vars) = mark /\ \A i \in 1..mark : y.vars[i] = x.vars[i]
    BY <2>1, <2>2, PopFacts
  <2>4. \A i \in 1..k : y.vars[i] = e.vars[i]
    BY <1>1, <1>2, <2>2, <2>3
  <2> QED BY <1>1, <2>1, <2>2, <2>3, <2>4 DEF Above
<1>7. ASSUME NEW decl \in Seq(Names), NEW index \in Values, NEW elem \in Values,
             Len(decl) <= 2, Len(e.vars) + Len(decl) <= Len(x.vars)
      PROVE  Above(e, Stack!Bind(x, decl, <<index, elem>>))
  <2>1. PICK y : y = Stack!Bind(x, decl, <<index, elem>>)
    OBVIOUS
  <2>2. PICK d : d = Len(decl) /\ d \in Nat /\ d <= l /\ k + d <= l
    BY <1>1, <1>7
  <2>3. Len(y.vars) = l /\ \A i \in 1..l : i + d <= l => y.vars[i] = x.vars[i]
    <3>1. Len(y.vars) = Len(x.vars) /\ SetOnTop(x, y, Len(decl), index, elem)
      BY <1>1, <1>7, <2>1, <2>2, BindFacts
    <3> QED BY <1>1, <2>2, <3>1 DEF SetOnTop
  <2>4. \A i \in 1..k : i + d <= l
    BY <1>1, <2>2
  <2>5. \A i \in 1..k : y.vars[i] = e.vars[i]
    BY <1>1, <1>2, <2>3, <2>4
  <2> QED BY <1>1, <2>1, <2>3, <2>5 DEF Above
<1> QED BY <1>4, <1>5, <1>6, <1>7

\* Where a control structure ends, the variables are those it began with, and a lookup
\* finds what it would have found before: the last declaration that is not in a scope
\* that has ended (exec.go:43-51, 194-212).
THEOREM ScopeCloses ==
    ASSUME NEW Names, NEW Values, NEW e, IsExecution(e, Names, Values),
           NEW x, IsExecution(x, Names, Values), Stack!Running(x), Above(e, x),
           NEW y, y = Stack!Pop(x, Len(e.vars))
    PROVE  y.vars = e.vars /\ \A name : SameLookup(e, y, name)
<1>1. PICK k : k = Len(e.vars) /\ k \in Nat /\ k \in 0..Len(x.vars)
  BY StackFacts DEF Above
<1>2. IsExecution(y, Names, Values) /\ Len(y.vars) = k /\ \A i \in 1..k : y.vars[i] = x.vars[i]
  BY <1>1, PopFacts
<1>3. \A i \in 1..k : y.vars[i] = e.vars[i]
  BY <1>1, <1>2 DEF Above
<1>4. y.vars = e.vars
  <2>1. PICK s, t : s = y.vars /\ t = e.vars /\ s \in Seq(Variables(Names, Values)) /\ t \in Seq(Variables(Names, Values))
    BY <1>2 DEF IsExecution
  <2>2. Len(s) = Len(t) /\ \A i \in 1..Len(s) : s[i] = t[i]
    BY <1>1, <1>2, <1>3, <2>1
  <2> QED BY <2>1, <2>2, SeqEqual
<1>5. ASSUME NEW name PROVE SameLookup(e, y, name)
  <2>1. Stack!Named(e, name) = Stack!Named(y, name)
    BY <1>4 DEF Stack!Named
  <2>2. \A i \in Stack!Named(e, name) : e.vars[i].value = y.vars[i].value
    BY <1>4
  <2> QED BY <1>2, <2>1, <2>2, LookupSame
<1> QED BY <1>4, <1>5

\* A range begins with its variables on the stack.
LEMMA RangeDeclares ==
    ASSUME NEW Names, NEW Values, NEW e, IsExecution(e, Names, Values), Stack!Running(e), NEW decl \in Seq(Names),
           NEW b, b = Stack!PushAll(e, decl)
    PROVE  IsExecution(b, Names, Values) /\ Bound(e, decl, b)
<1>1. /\ IsExecution(b, Names, Values) /\ Above(e, b) /\ Len(b.vars) = Len(e.vars) + Len(decl)
      /\ \A i \in 1..Len(decl) : b.vars[Len(e.vars) + i] = Stack!Var(decl[i], e.value)
  BY PushAllFacts
<1>2. \A n, v : Stack!Var(n, v).name = n
  BY DEF Stack!Var
<1>3. \A i \in 1..Len(decl) : b.vars[Len(e.vars) + i].name = decl[i]
  BY <1>1, <1>2
<1> QED BY <1>1, <1>3 DEF Bound

\* Whatever an iteration of a range leaves on the stack, above the variables of the
\* range and in them, the next one starts as if it were the first: with the variables
\* that were there before the range, and the range's own set to the index and the
\* element, the last one being the element (exec.go:250-261).
THEOREM RangeBindsEachItem ==
    ASSUME NEW Names, NEW Values, NEW e, IsExecution(e, Names, Values), NEW decl \in Seq(Names), Len(decl) <= 2,
           NEW b, IsExecution(b, Names, Values), Bound(e, decl, b),
           NEW x, IsExecution(x, Names, Values), Stack!Running(x), Above(b, x),
           NEW index \in Values, NEW elem \in Values,
           NEW y, y = Stack!Bind(Stack!Pop(x, Len(b.vars)), decl, <<index, elem>>)
    PROVE  /\ IsExecution(y, Names, Values) /\ Stack!Running(y) /\ Bound(e, decl, y)
           /\ y.vars = e.vars \o [i \in 1..Len(decl) |-> Stack!Var(decl[i], IF i = Len(decl) THEN elem ELSE index)]
<1>1. PICK k, d, n : /\ k = Len(e.vars) /\ d = Len(decl) /\ n = Len(b.vars) /\ n = k + d
                     /\ k \in Nat /\ d \in Nat /\ n \in Nat /\ d <= n /\ k <= n /\ n \in 0..Len(x.vars)
  <2>1. Len(e.vars) \in Nat /\ Len(b.vars) \in Nat /\ Len(x.vars) \in Nat /\ Len(decl) \in Nat
    BY StackFacts
  <2>2. Len(b.vars) = Len(e.vars) + Len(decl) /\ Len(b.vars) <= Len(x.vars)
    BY DEF Bound, Above
  <2>3. \A k, d, m \in Nat : d <= k + d /\ k <= k + d /\ (k + d <= m => k + d \in 0..m)
    OBVIOUS
  <2> QED BY <2>1, <2>2, <2>3
<1>2. PICK p : p = Stack!Pop(x, n)
  OBVIOUS
<1>3. IsExecution(p, Names, Values) /\ p.ended = x.ended /\ Len(p.vars) = n /\ \A i \in 1..n : p.vars[i] = x.vars[i]
  BY <1>1, <1>2, PopFacts
<1>4. \A i \in 1..n : p.vars[i] = b.vars[i]
  BY <1>1, <1>3 DEF Above
<1>5. /\ IsExecution(y, Names, Values) /\ y.ended = p.ended /\ Len(y.vars) = n
      /\ \A i \in 1..n : i + d <= n => y.vars[i] = p.vars[i]
      /\ d > 0 => y.vars[n] = Stack!Var(p.vars[n].name, elem)
      /\ d = 2 => y.vars[n - 1] = Stack!Var(p.vars[n - 1].name, index)
  <2>1. y = Stack!Bind(p, decl, <<index, elem>>) /\ Len(decl) <= Len(p.vars)
    BY <1>1, <1>2, <1>3
  <2>2. /\ IsExecution(y, Names, Values) /\ y.ended = p.ended /\ Len(y.vars) = Len(p.vars)
        /\ SetOnTop(p, y, Len(decl), index, elem)
    BY <1>3, <2>1, BindFacts
  <2> QED BY <1>1, <1>3, <2>2 DEF SetOnTop
<1>6. \A i \in 1..k : y.vars[i] = e.vars[i]
  <2> SUFFICES ASSUME NEW i \in 1..k PROVE y.vars[i] = e.vars[i]
    OBVIOUS
  <2>1. i \in 1..n /\ i + d <= n
    BY <1>1
  <2>2. b.vars[i] = e.vars[i]
    BY <1>1 DEF Bound, Above
  <2>3. y.vars[i] = p.vars[i] /\ p.vars[i] = b.vars[i]
    BY <1>4, <1>5, <2>1
  <2> QED BY <2>2, <2>3
<1>7. ASSUME NEW i \in 1..d
      PROVE  y.vars[k + i] = Stack!Var(decl[i], IF i = d THEN elem ELSE index)
  <2>1. PICK j : j = k + i /\ j \in 1..n /\ (i = d => j = n) /\ (i # d => d = 2 /\ j = n - 1) /\ d > 0
    <3>1. k + i \in 1..n /\ (i = d => k + i = n) /\ (i # d => d = 2 /\ k + i = n - 1) /\ d > 0
      BY <1>1
    <3> QED BY <3>1
  <2>2. p.vars[j].name = decl[i]
    <3>1. b.vars[j].name = decl[i]
      BY <1>1, <2>1 DEF Bound
    <3> QED BY <1>4, <2>1, <3>1
  <2>3. CASE i = d
    BY <1>5, <2>1, <2>2, <2>3
  <2>4. CASE i # d
    BY <1>5, <2>1, <2>2, <2>4
  <2> QED BY <2>3, <2>4
<1>8. Stack!Running(y)
  BY <1>3, <1>5 DEF Stack!Running
<1>9. Bound(e, decl, y)
  <2>1. Above(e, y)
    BY <1>1, <1>5, <1>6 DEF Above
  <2>2. \A m, v : Stack!Var(m, v).name = m
    BY DEF Stack!Var
  <2>3. \A i \in 1..d : y.vars[k + i].name = decl[i]
    BY <1>7, <2>2
  <2> QED BY <1>1, <1>5, <2>1, <2>3 DEF Bound
<1>10. y.vars = e.vars \o [i \in 1..Len(decl) |-> Stack!Var(decl[i], IF i = Len(decl) THEN elem ELSE index)]
  <2>1. PICK t : t = [i \in 1..d |-> Stack!Var(decl[i], IF i = d THEN elem ELSE index)]
    OBVIOUS
  <2>2. t \in Seq(Variables(Names, Values)) /\ Len(t) = d
    <3>1. \A i \in 1..d : Stack!Var(decl[i], IF i = d THEN elem ELSE index) \in Variables(Names, Values)
      BY <1>1 DEF Stack!Var, Variables
    <3>2. t \in [1..d -> Variables(Names, Values)]
      BY <2>1, <3>1
    <3> QED BY <1>1, <3>2
  <2>3. \A i \in 1..d : t[i] = y.vars[k + i]
    BY <1>7, <2>1
  <2>4. PICK s, u : /\ s = y.vars /\ s \in Seq(Variables(Names, Values)) /\ Len(s) = n
                    /\ u = e.vars /\ u \in Seq(Variables(Names, Values)) /\ Len(u) = k
    BY <1>1, <1>5 DEF IsExecution
  <2>5. PICK w : w = u \o t
    OBVIOUS
  <2>6. w \in Seq(Variables(Names, Values)) /\ Len(w) = Len(u) + Len(t)
    BY <2>2, <2>4, <2>5, ConcatProperties
  <2>7. \A i \in 1..(Len(u) + Len(t)) : w[i] = IF i <= Len(u) THEN u[i] ELSE t[i - Len(u)]
    BY SMTT(30), <2>2, <2>4, <2>5, ConcatProperties
  <2>8. Len(w) = n /\ \A i \in 1..n : w[i] = IF i <= k THEN u[i] ELSE t[i - k]
    BY <1>1, <2>2, <2>4, <2>6, <2>7
  <2>9. ASSUME NEW i \in 1..n PROVE s[i] = w[i]
    <3>1. CASE i <= k
      <4>1. i \in 1..k
        BY <1>1, <3>1
      <4> QED BY <1>6, <2>4, <2>8, <3>1, <4>1
    <3>2. CASE ~(i <= k)
      <4>1. PICK j : j = i - k /\ j \in 1..d /\ k + j = i
        <5>1. i - k \in 1..d /\ k + (i - k) = i
          BY <1>1, <3>2
        <5> QED BY <5>1
      <4> QED BY <2>3, <2>4, <2>8, <3>2, <4>1
    <3> QED BY <3>1, <3>2
  <2>10. s = w
    BY <2>4, <2>6, <2>8, <2>9, SeqEqual
  <2> QED BY <1>1, <2>1, <2>4, <2>5, <2>10
<1> QED BY <1>5, <1>8, <1>9, <1>10

-----------------------------------------------------------------------------
(* Comparisons. *)

LEMMA Answers ==
    /\ Bool(TRUE) # Bool(FALSE) /\ Bool(TRUE) # Failure /\ Bool(FALSE) # Failure
    /\ Not(Bool(TRUE)) = Bool(FALSE) /\ Not(Bool(FALSE)) = Bool(TRUE) /\ Not(Failure) = Failure
<1>1. Bool(TRUE).b /\ ~Bool(FALSE).b /\ Bool(TRUE).tag = "bool" /\ Bool(FALSE).tag = "bool" /\ Failure.tag = "failure"
  BY DEF Bool, Failure
<1>2. Bool(TRUE) # Bool(FALSE) /\ Bool(TRUE) # Failure /\ Bool(FALSE) # Failure
  BY <1>1
<1>3. (~Bool(TRUE).b) = FALSE /\ (~Bool(FALSE).b) = TRUE
  BY <1>1
<1>4. Not(Bool(TRUE)) = Bool(FALSE) /\ Not(Bool(FALSE)) = Bool(TRUE)
  BY <1>2, <1>3, Zenon DEF Not
<1> QED BY <1>2, <1>4 DEF Not

\* A function with two arguments.
LEMMA OnTwo ==
    ASSUME NEW v, NEW w
    PROVE  /\ Compare("eq", v, <<w>>) = Eq(v, <<w>>) /\ Compare("ne", v, <<w>>) = Not(Eq(v, <<w>>))
           /\ Compare("lt", v, <<w>>) = Lt(v, w) /\ Compare("le", v, <<w>>) = Le(v, w)
           /\ Compare("gt", v, <<w>>) = Not(Le(v, w)) /\ Compare("ge", v, <<w>>) = Not(Lt(v, w))
<1>1. <<w>>[1] = w
  OBVIOUS
<1> QED BY <1>1 DEF Compare

LEMMA EqOfTwo ==
    ASSUME NEW v, NEW w
    PROVE  /\ ~Comparable(v, w) => Eq(v, <<w>>) = Failure
           /\ Comparable(v, w) /\ Same(v, w) => Eq(v, <<w>>) = Bool(TRUE)
           /\ Comparable(v, w) /\ ~Same(v, w) => Eq(v, <<w>>) = Bool(FALSE)
<1> DEFINE ws == <<w>>
           deciding == {i \in DOMAIN ws : ~Comparable(v, ws[i]) \/ Same(v, ws[i])}
           first == CHOOSE i \in deciding : \A j \in deciding : i <= j
<1>1. DOMAIN ws = {1} /\ ws[1] = w /\ ws # <<>>
  OBVIOUS
<1>2. ~Comparable(v, w) \/ Same(v, w) => deciding = {1}
  BY <1>1
<1>3. ~(~Comparable(v, w) \/ Same(v, w)) => deciding = {}
  BY <1>1
<1>4. deciding = {1} => first = 1
  <2> SUFFICES ASSUME deciding = {1} PROVE (CHOOSE i \in deciding : \A j \in deciding : i <= j) = 1
    OBVIOUS
  <2> HIDE DEF deciding
  <2>1. \E i \in deciding : \A j \in deciding : i <= j
    OBVIOUS
  <2> QED BY <2>1
<1>5. Eq(v, ws) = IF BasicKind(v) = "invalid" \/ ws = <<>> THEN Failure
                  ELSE IF deciding = {} THEN Bool(FALSE)
                  ELSE IF Comparable(v, ws[first]) THEN Bool(TRUE) ELSE Failure
  BY Zenon DEF Eq
<1> HIDE DEF ws, deciding, first
<1>6. Comparable(v, w) => BasicKind(v) # "invalid"
  BY DEF Comparable
<1> QED BY <1>1, <1>2, <1>3, <1>4, <1>5, <1>6 DEF ws

\* Values that have an order are before each other, or the same.
LEMMA Trichotomy ==
    ASSUME NEW v, IsValue(v), NEW w, IsValue(w), Comparable(v, w), BasicKind(v) # "bool"
    PROVE  /\ Comparable(w, v) /\ BasicKind(w) # "bool"
           /\ \/ Lt(v, w) = Bool(TRUE) /\ Lt(w, v) = Bool(FALSE) /\ ~Same(v, w) /\ ~Same(w, v)
              \/ Lt(v, w) = Bool(FALSE) /\ Lt(w, v) = Bool(TRUE) /\ ~Same(v, w) /\ ~Same(w, v)
              \/ Lt(v, w) = Bool(FALSE) /\ Lt(w, v) = Bool(FALSE) /\ Same(v, w) /\ Same(w, v)
<1>1. Comparable(w, v) /\ BasicKind(w) = BasicKind(v)
  BY DEF Comparable
<1>2. ASSUME NEW x \in Int, NEW y \in Int,
             Lt(v, w) = Bool(x < y), Lt(w, v) = Bool(y < x), Same(v, w) <=> x = y, Same(w, v) <=> x = y
      PROVE  \/ Lt(v, w) = Bool(TRUE) /\ Lt(w, v) = Bool(FALSE) /\ ~Same(v, w) /\ ~Same(w, v)
             \/ Lt(v, w) = Bool(FALSE) /\ Lt(w, v) = Bool(TRUE) /\ ~Same(v, w) /\ ~Same(w, v)
             \/ Lt(v, w) = Bool(FALSE) /\ Lt(w, v) = Bool(FALSE) /\ Same(v, w) /\ Same(w, v)
  <2>1. CASE x < y
    <3>1. (x < y) = TRUE /\ (y < x) = FALSE /\ x # y
      BY <2>1
    <3> QED BY <1>2, <3>1, Zenon
  <2>2. CASE y < x
    <3>1. (x < y) = FALSE /\ (y < x) = TRUE /\ x # y
      BY <2>2
    <3> QED BY <1>2, <3>1, Zenon
  <2>3. CASE x = y
    <3>1. (x < y) = FALSE /\ (y < x) = FALSE
      BY <2>3
    <3> QED BY <1>2, <2>3, <3>1, Zenon
  <2>4. x < y \/ y < x \/ x = y
    OBVIOUS
  <2> QED BY <2>1, <2>2, <2>3, <2>4, Zenon
<1>3. CASE BasicKind(v) = "int"
  <2>1. v.n \in Int /\ w.n \in Int
    BY <1>1, <1>3 DEF IsValue, BasicKind
  <2>2. Lt(v, w) = Bool(v.n < w.n) /\ Lt(w, v) = Bool(w.n < v.n)
    BY <1>1, <1>3, Zenon DEF Lt
  <2>3. (Same(v, w) <=> v.n = w.n) /\ (Same(w, v) <=> v.n = w.n)
    BY <1>1, <1>3 DEF Same
  <2> QED BY <1>1, <1>2, <2>1, <2>2, <2>3
<1>4. CASE BasicKind(v) = "string"
  <2>1. v.s \in DOMAIN Rank /\ w.s \in DOMAIN Rank
    BY <1>1, <1>4 DEF IsValue, BasicKind
  <2>2. Rank[v.s] \in Int /\ Rank[w.s] \in Int /\ (Rank[v.s] = Rank[w.s] <=> v.s = w.s)
    BY <2>1, RankAssumption
  <2>3. BasicKind(v) # "int" /\ BasicKind(w) # "int" /\ BasicKind(w) # "bool"
    BY <1>1, <1>4
  <2>4. Lt(v, w) = Bool(Rank[v.s] < Rank[w.s]) /\ Lt(w, v) = Bool(Rank[w.s] < Rank[v.s])
    BY <1>1, <2>3, Zenon DEF Lt
  <2>5. (Same(v, w) <=> v.s = w.s) /\ (Same(w, v) <=> v.s = w.s)
    BY <1>1, <1>4 DEF Same
  <2> QED BY <1>1, <1>2, <2>2, <2>4, <2>5
<1>5. BasicKind(v) = "int" \/ BasicKind(v) = "string"
  BY DEF IsValue, BasicKind, Comparable
<1> QED BY <1>1, <1>3, <1>4, <1>5

\* Values that have no order.
LEMMA NoOrder ==
    ASSUME NEW v, NEW w, ~Comparable(v, w) \/ BasicKind(v) = "bool"
    PROVE  Lt(v, w) = Failure /\ Le(v, w) = Failure
<1>1. Lt(v, w) = Failure
  BY Zenon DEF Lt
<1> QED BY <1>1, Answers, Zenon DEF Le

\* eq, ne, lt, le, gt and ge are computed one from the other, and agree: on every two
\* values, whatever they are (funcs.go:283-430).
THEOREM ComparisonsAgree == \A v, w : IsValue(v) /\ IsValue(w) => Consistent(v, w)
<1> SUFFICES ASSUME NEW v, NEW w, IsValue(v), IsValue(w) PROVE Consistent(v, w)
  OBVIOUS
<1> DEFINE Is(f) == Compare(f, v, <<w>>)
<1>1. /\ Is("eq") = Eq(v, <<w>>) /\ Compare("eq", w, <<v>>) = Eq(w, <<v>>) /\ Is("ne") = Not(Eq(v, <<w>>))
      /\ Is("lt") = Lt(v, w) /\ Compare("lt", w, <<v>>) = Lt(w, v)
      /\ Is("le") = Le(v, w) /\ Is("gt") = Not(Le(v, w)) /\ Is("ge") = Not(Lt(v, w))
  BY OnTwo
<1> HIDE DEF Is
<1>3. CASE ~Comparable(v, w)
  <2>1. ~Comparable(w, v)
    BY <1>3 DEF Comparable
  <2>2. Eq(v, <<w>>) = Failure /\ Eq(w, <<v>>) = Failure
    BY <1>3, <2>1, EqOfTwo
  <2>3. Lt(v, w) = Failure /\ Le(v, w) = Failure
    BY <1>3, NoOrder
  <2> QED BY <1>1, <2>2, <2>3, Answers DEF Consistent, Is
<1>4. CASE Comparable(v, w) /\ BasicKind(v) = "bool"
  <2>1. v.tag = "bool" /\ w.tag = "bool" /\ BasicKind(w) = "bool" /\ Comparable(w, v)
    BY <1>4 DEF Comparable, BasicKind
  <2>2. Same(v, w) <=> Same(w, v)
    BY <1>4, <2>1 DEF Same
  <2>3. Eq(v, <<w>>) = Eq(w, <<v>>)
    BY <1>4, <2>1, <2>2, EqOfTwo
  <2>4. Lt(v, w) = Failure /\ Le(v, w) = Failure
    BY <1>4, NoOrder
  <2> QED BY <1>1, <2>1, <2>3, <2>4, Answers DEF Consistent, Is
<1>5. CASE Comparable(v, w) /\ BasicKind(v) # "bool"
  <2> DEFINE Three(lt, eq, gt) == Lt(v, w) = Bool(lt) /\ Eq(v, <<w>>) = Bool(eq) /\ Eq(w, <<v>>) = Bool(eq) /\ Lt(w, v) = Bool(gt)
  <2>1. Three(TRUE, FALSE, FALSE) \/ Three(FALSE, FALSE, TRUE) \/ Three(FALSE, TRUE, FALSE)
    BY <1>5, Trichotomy, EqOfTwo
  <2>2. CASE Three(TRUE, FALSE, FALSE)
    <3>1. Le(v, w) = Bool(TRUE)
      BY <2>2, Answers DEF Le
    <3>2. /\ Is("lt") = Bool(TRUE) /\ Is("eq") = Bool(FALSE) /\ Is("gt") = Bool(FALSE)
          /\ Is("le") = Bool(TRUE) /\ Is("ge") = Bool(FALSE)
          /\ Compare("eq", w, <<v>>) = Bool(FALSE) /\ Compare("lt", w, <<v>>) = Bool(FALSE)
      BY <1>1, <2>2, <3>1, Answers
    <3>3. ("lt" = "lt") = TRUE /\ ("eq" = "lt") = FALSE /\ ("gt" = "lt") = FALSE
      OBVIOUS
    <3> HIDE DEF Three
    <3>4. \A g \in {"lt", "eq", "gt"} : Is(g) = Bool(g = "lt")
      BY <3>2, <3>3, Zenon
    <3> QED BY <1>1, <3>2, <3>4, Answers DEF Consistent, Is
  <2>3. CASE Three(FALSE, FALSE, TRUE)
    <3>1. Le(v, w) = Bool(FALSE)
      BY <2>3, Answers DEF Le
    <3>2. /\ Is("lt") = Bool(FALSE) /\ Is("eq") = Bool(FALSE) /\ Is("gt") = Bool(TRUE)
          /\ Is("le") = Bool(FALSE) /\ Is("ge") = Bool(TRUE)
          /\ Compare("eq", w, <<v>>) = Bool(FALSE) /\ Compare("lt", w, <<v>>) = Bool(TRUE)
      BY <1>1, <2>3, <3>1, Answers
    <3>3. ("lt" = "gt") = FALSE /\ ("eq" = "gt") = FALSE /\ ("gt" = "gt") = TRUE
      OBVIOUS
    <3> HIDE DEF Three
    <3>4. \A g \in {"lt", "eq", "gt"} : Is(g) = Bool(g = "gt")
      BY <3>2, <3>3, Zenon
    <3> QED BY <1>1, <3>2, <3>4, Answers DEF Consistent, Is
  <2>4. CASE Three(FALSE, TRUE, FALSE)
    <3>1. Le(v, w) = Bool(TRUE)
      BY <2>4, Answers DEF Le
    <3>2. /\ Is("lt") = Bool(FALSE) /\ Is("eq") = Bool(TRUE) /\ Is("gt") = Bool(FALSE)
          /\ Is("le") = Bool(TRUE) /\ Is("ge") = Bool(TRUE)
          /\ Compare("eq", w, <<v>>) = Bool(TRUE) /\ Compare("lt", w, <<v>>) = Bool(FALSE)
      BY <1>1, <2>4, <3>1, Answers
    <3>3. ("lt" = "eq") = FALSE /\ ("eq" = "eq") = TRUE /\ ("gt" = "eq") = FALSE
      OBVIOUS
    <3> HIDE DEF Three
    <3>4. \A g \in {"lt", "eq", "gt"} : Is(g) = Bool(g = "eq")
      BY <3>2, <3>3, Zenon
    <3> QED BY <1>1, <3>2, <3>4, Answers DEF Consistent, Is
  <2> QED BY <2>1, <2>2, <2>3, <2>4
<1> QED BY <1>3, <1>4, <1>5

\* eq of several values is what its comment says, a == b || a == c || ..., as long as
\* the values can be compared: looking at them in turn, and no further than the first
\* that is equal, makes no difference (funcs.go:301-351).
THEOREM EqIsDisjunction ==
    ASSUME NEW v, NEW S, NEW ws \in Seq(S), ws # <<>>, \A i \in DOMAIN ws : Comparable(v, ws[i])
    PROVE  Eq(v, ws) = Bool(\E i \in DOMAIN ws : Eq(v, <<ws[i]>>) = Bool(TRUE))
<1> DEFINE deciding == {i \in DOMAIN ws : ~Comparable(v, ws[i]) \/ Same(v, ws[i])}
           first == CHOOSE i \in deciding : \A j \in deciding : i <= j
           Found == \E i \in DOMAIN ws : Eq(v, <<ws[i]>>) = Bool(TRUE)
<1>1. deciding = {i \in DOMAIN ws : Eq(v, <<ws[i]>>) = Bool(TRUE)}
  BY EqOfTwo, Answers
<1>2. Eq(v, ws) = IF BasicKind(v) = "invalid" \/ ws = <<>> THEN Failure
                  ELSE IF deciding = {} THEN Bool(FALSE)
                  ELSE IF Comparable(v, ws[first]) THEN Bool(TRUE) ELSE Failure
  BY Zenon DEF Eq
<1>3. BasicKind(v) # "invalid" /\ deciding \subseteq Nat
  <2>1. DOMAIN ws = 1..Len(ws) /\ Len(ws) \in Nat \ {0}
    BY EmptySeq, LenProperties
  <2> QED BY <2>1 DEF Comparable
<1> HIDE DEF deciding
<1>4. CASE deciding = {}
  <2>1. Found = FALSE
    BY <1>1, <1>4
  <2> HIDE DEF Found
  <2> QED BY <1>2, <1>3, <1>4, <2>1, Zenon DEF Found
<1>5. CASE deciding # {}
  <2>1. first \in deciding
    BY <1>3, <1>5, First
  <2> HIDE DEF first
  <2>2. Eq(v, <<ws[first]>>) = Bool(TRUE) /\ first \in DOMAIN ws
    BY <1>1, <2>1
  <2>3. Found = TRUE /\ Comparable(v, ws[first])
    BY <2>2
  <2> HIDE DEF Found
  <2> QED BY <1>2, <1>3, <1>5, <2>3, Zenon DEF Found
<1> QED BY <1>4, <1>5
=============================================================================
