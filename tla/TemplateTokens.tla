--------------------------- MODULE TemplateTokens ---------------------------
(***************************************************************************)
(* The tokens of the parser: the functions of parse.go between the lexer   *)
(* and the grammar, which take tokens, look ahead and put tokens back.     *)
(* They use these fields of a parser: source, the items the lexer sends;   *)
(* got, how many of them have been received; held, the tokens that may be  *)
(* held back, of which peekCount are; token, the result of a function; and *)
(* state, see TemplateTree.                                                *)
(***************************************************************************)
EXTENDS Integers, Sequences

Parsing(p)     == p.state = "parsing"
Sees(p, types) == Parsing(p) /\ p.token.typ \in types

\* held[i + 1] is t.token[i].
NextToken(p) ==
    IF ~Parsing(p) THEN p
    ELSE IF p.peekCount > 0 THEN [p EXCEPT !.token = p.held[p.peekCount], !.peekCount = @ - 1]
    ELSE IF p.got = Len(p.source) THEN [p EXCEPT !.state = "waiting"]
    ELSE [p EXCEPT !.got = @ + 1, !.token = p.source[p.got + 1], !.held[1] = p.source[p.got + 1]]

Backup(p) == IF Parsing(p) THEN [p EXCEPT !.peekCount = @ + 1] ELSE p

Backup2(p, t1) == IF Parsing(p) THEN [p EXCEPT !.held[2] = t1, !.peekCount = 2] ELSE p

Backup3(p, t2, t1) ==
    IF Parsing(p) THEN [p EXCEPT !.held[2] = t1, !.held[3] = t2, !.peekCount = 3] ELSE p

Peek(p) == IF Parsing(p) /\ p.peekCount > 0 THEN [p EXCEPT !.token = p.held[p.peekCount]]
           ELSE Backup(NextToken(p))

-----------------------------------------------------------------------------
(* What lies ahead. *)

\* The tokens that next will return: those held back, the last one first, and
\* then what the lexer has sent.
Untaken(p)   == p.peekCount + Len(p.source) - p.got
Coming(p, i) == IF i <= p.peekCount THEN p.held[p.peekCount + 1 - i] ELSE p.source[p.got + i - p.peekCount]
Ahead(p)     == [i \in 1..Untaken(p) |-> Coming(p, i)]

\* A parser that has taken k tokens.
Taken(p, k) ==
    IF k = 0 THEN p
    ELSE IF k <= p.peekCount THEN [p EXCEPT !.token = Coming(p, k), !.peekCount = @ - k]
    ELSE [p EXCEPT !.token = Coming(p, k), !.held[1] = Coming(p, k), !.peekCount = 0, !.got = @ + k - p.peekCount]

\* The spaces that come first.
Spaces(p) ==
    CHOOSE k \in 0..Untaken(p) :
        /\ \A i \in 1..k : Coming(p, i).typ = "Space"
        /\ k < Untaken(p) => Coming(p, k + 1).typ # "Space"

\* Calls of next up to the first that does not return a space.
NonSpaceFrom(n) == IF Sees(n, {"Space"}) THEN NextToken(Taken(n, Spaces(n))) ELSE n
NextNonSpace(p) == NonSpaceFrom(NextToken(p))
PeekNonSpace(p) == Backup(NextNonSpace(p))

\* Mutant: of a variable, a space and a word, two go back.
PutBackTwo(variable, after, follow) ==
    Backup2(follow, IF after.token.typ = "Space" THEN after.token ELSE variable.token)

\* In pipeline: a variable and what has been looked at behind it go back, together
\* with the space between them.
PutBack(variable, after, follow) ==
    IF after.token.typ = "Space" THEN Backup3(follow, variable.token, after.token)
    ELSE Backup2(follow, variable.token)
=============================================================================
