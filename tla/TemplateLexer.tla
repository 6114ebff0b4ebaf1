--------------------------- MODULE TemplateLexer ---------------------------
(***************************************************************************)
(* The lexer of parse/lex.go: a goroutine that runs one state function     *)
(* after the other and sends what it finds over a channel without a        *)
(* buffer, to a parser that may stop reading at any item.                  *)
(*                                                                         *)
(* An input is a sequence of characters, some of which are spelled out.    *)
(* One keyword stands for all, and one or two members for each class of    *)
(* other characters, where the class is all that counts.  An item is a     *)
(* type and the part of the input it stands for, from its first character  *)
(* up to, and without, the one at `to`; an error stands for nothing.       *)
(***************************************************************************)
EXTENDS Integers, Sequences, FiniteSets

CONSTANT Inputs      \* templates to be scanned

VARIABLES
    input,
    lexer,       \* the state function that comes next ("nil": none), pos, start and parenDepth
    sending,     \* what that state function still has to send
    received,    \* what the parser has received
    parser       \* "reading", "done" after the last item, or "stopped" at a syntax error

vars == <<input, lexer, sending, received, parser>>

-----------------------------------------------------------------------------
(* Characters. *)

Digits       == {"0", "1"}
HexDigits    == Digits \cup {"a", "e", "f"}
Alphanumeric == HexDigits \cup {"i", "x"}
Printable    == {"{", "}", "/", "*", ",", "=", "backslash"}
Blank        == {" "}
EndOfLine    == {"newline", "return"}
Unprintable  == {"bell"}

Characters == Alphanumeric \cup Printable \cup Blank \cup EndOfLine \cup Unprintable
              \cup {".", "+", "$", ":", "|", "(", ")", "quote", "backquote", "apostrophe"}

ASSUME InputsAssumption == Inputs \subseteq Seq(Characters)

Key == [word \in {<<"i", "f">>} |-> "If"]

At(i) == IF i \in DOMAIN input THEN input[i] ELSE "eof"

Least(T) == CHOOSE j \in T : \A k \in T : j <= k

\* The first position from i on where there is no character of S.
RunEnd(i, S) == Least({j \in i..(Len(input) + 1) : At(j) \notin S})

Option(i, S) == IF At(i) \in S THEN i + 1 ELSE i

\* The first position from i on where x and y follow each other, or 0.
HasPrefix(i, x, y) == At(i) = x /\ At(i + 1) = y
Find(i, x, y) == LET at == {j \in i..Len(input) : HasPrefix(j, x, y)}
                 IN  IF at = {} THEN 0 ELSE Least(at)

AtTerminator(i) == At(i) \in (Blank \cup EndOfLine \cup {"eof", ".", ",", "|", ":", ")", "(", "}"})

\* A number's digits, hexadecimal ones after 0x, and its fraction.
Mantissa(i) ==
    LET sign     == Option(i, {"+"})
        zero     == Option(sign, {"0"})
        prefixed == IF zero > sign THEN Option(zero, {"x"}) ELSE zero
        digits   == IF prefixed > zero THEN HexDigits ELSE Digits
        whole    == RunEnd(prefixed, digits)
    IN  IF At(whole) = "." THEN RunEnd(whole + 1, digits) ELSE whole

Exponent(i) == IF At(i) = "e" THEN RunEnd(Option(i + 1, {"+"}), Digits) ELSE i

\* scanNumber from i: where the number ends.  Nothing alphanumeric may follow.
ScanNumber(i) == CHOOSE e \in {Option(Exponent(m), {"i"}) : m \in {Mantissa(i)}} : TRUE
Scanned(end)  == At(end) \notin Alphanumeric

-----------------------------------------------------------------------------
(* The state functions.  Each runs from one item to the next. *)

Item(typ, from, to) == [typ |-> typ, from |-> from, to |-> to]

Goto(fn, pos) ==
    /\ lexer' = [lexer EXCEPT !.fn = fn, !.pos = pos]
    /\ UNCHANGED sending

Emit(typ, to, fn) ==
    /\ sending' = <<Item(typ, lexer.start, to)>>
    /\ lexer' = [lexer EXCEPT !.fn = fn, !.pos = to, !.start = to]

Errorf ==
    /\ sending' = <<Item("Error", lexer.start, lexer.start)>>
    /\ lexer' = [lexer EXCEPT !.fn = "nil"]

EmitOrError(ok, typ, to) == IF ok THEN Emit(typ, to, "InsideAction") ELSE Errorf

Runs(fn) == lexer.fn = fn /\ sending = <<>> /\ UNCHANGED <<input, received, parser>>

LexText ==
    /\ Runs("Text")
    /\ LET delim == Find(lexer.pos, "{", "{")
           end   == IF delim = 0 THEN Len(input) + 1 ELSE delim
           text  == IF end > lexer.start THEN <<Item("Text", lexer.start, end)>> ELSE <<>>
       IN  /\ sending' = IF delim = 0 THEN Append(text, Item("EOF", end, end)) ELSE text
           /\ lexer' = [lexer EXCEPT !.fn = IF delim = 0 THEN "nil" ELSE "LeftDelim", !.pos = end, !.start = end]

LexLeftDelim ==
    /\ Runs("LeftDelim")
    /\ IF HasPrefix(lexer.pos + 2, "/", "*") THEN Goto("Comment", lexer.pos + 2)
       ELSE /\ sending' = <<Item("LeftDelim", lexer.start, lexer.pos + 2)>>
            /\ lexer' = [fn |-> "InsideAction", pos |-> lexer.pos + 2, start |-> lexer.pos + 2, parenDepth |-> 0]

\* Mutant: what is ignored is not left behind.
LexCommentKept ==
    /\ Runs("Comment")
    /\ LET close == Find(lexer.pos + 2, "*", "/")
       IN  IF close = 0 \/ ~HasPrefix(close + 2, "}", "}") THEN Errorf ELSE Goto("Text", close + 4)

\* A comment has a delimiter on either side, and is ignored.
LexComment ==
    /\ Runs("Comment")
    /\ LET close == Find(lexer.pos + 2, "*", "/")
       IN  IF close = 0 \/ ~HasPrefix(close + 2, "}", "}") THEN Errorf
           ELSE /\ lexer' = [lexer EXCEPT !.fn = "Text", !.pos = close + 4, !.start = close + 4]
                /\ UNCHANGED sending

LexRightDelim ==
    /\ Runs("RightDelim")
    /\ Emit("RightDelim", lexer.pos + 2, "Text")

Closed  == HasPrefix(lexer.pos, "}", "}")
IsField == At(lexer.pos) = "." /\ At(lexer.pos + 1) \notin (Digits \cup {"eof"})

\* The state function that the next character calls for.  A period starts a number
\* before a digit, and at the end of the input.
Starts ==
    LET c == At(lexer.pos)
    IN  IF c \in Blank THEN "Space"
        ELSE IF c = "quote" THEN "Quote"
        ELSE IF c = "backquote" THEN "RawQuote"
        ELSE IF c = "apostrophe" THEN "Char"
        ELSE IF c = "$" THEN "Variable"
        ELSE IF IsField THEN "Field"
        ELSE IF c \in ({"+", "."} \cup Digits) THEN "Number"
        ELSE IF c \in Alphanumeric THEN "Identifier"
        ELSE "none"

LexScanned ==
    /\ Runs("InsideAction") /\ ~Closed
    /\ Starts # "none"
    /\ Goto(Starts, IF Starts \in {"Number", "Identifier"} THEN lexer.pos ELSE lexer.pos + 1)

\* What is an item by itself, and what is none.
LexSymbol ==
    /\ Runs("InsideAction") /\ ~Closed
    /\ LET at == lexer.pos
       IN  \/ At(at) = ":" /\ (IF At(at + 1) = "=" THEN Emit("ColonEquals", at + 2, "InsideAction") ELSE Errorf)
           \/ At(at) = "|" /\ Emit("Pipe", at + 1, "InsideAction")
           \/ At(at) \in Printable /\ Emit("Char", at + 1, "InsideAction")
           \/ At(at) \in ({"eof"} \cup EndOfLine \cup Unprintable) /\ Errorf

LexLeftParen ==
    /\ Runs("InsideAction") /\ At(lexer.pos) = "("
    /\ sending' = <<Item("LeftParen", lexer.start, lexer.pos + 1)>>
    /\ lexer' = [lexer EXCEPT !.pos = @ + 1, !.start = lexer.pos + 1, !.parenDepth = @ + 1]

\* One that opens nothing is sent before the error.
LexRightParen ==
    /\ Runs("InsideAction") /\ At(lexer.pos) = ")"
    /\ LET next == lexer.pos + 1
           paren == Item("RightParen", lexer.start, next)
       IN  IF lexer.parenDepth > 0
           THEN /\ sending' = <<paren>>
                /\ lexer' = [lexer EXCEPT !.pos = next, !.start = next, !.parenDepth = @ - 1]
           ELSE /\ sending' = <<paren, Item("Error", next, next)>>
                /\ lexer' = [lexer EXCEPT !.fn = "nil", !.pos = next, !.start = next, !.parenDepth = @ - 1]

\* Mutant: with a parenthesis open, the delimiter is looked at again.
LexClosedAgain ==
    /\ Runs("InsideAction") /\ Closed
    /\ Goto(IF lexer.parenDepth = 0 THEN "RightDelim" ELSE lexer.fn, lexer.pos)

LexClosed ==
    /\ Runs("InsideAction") /\ Closed
    /\ IF lexer.parenDepth = 0 THEN Goto("RightDelim", lexer.pos) ELSE Errorf

LexSpace ==
    /\ Runs("Space")
    /\ Emit("Space", RunEnd(lexer.pos, Blank), "InsideAction")

LexIdentifier ==
    /\ Runs("Identifier")
    /\ LET end  == RunEnd(lexer.pos, Alphanumeric)
           word == SubSeq(input, lexer.start, end - 1)
       IN  EmitOrError(AtTerminator(end), IF word \in DOMAIN Key THEN Key[word] ELSE "Identifier", end)

\* lexField and lexVariable.
LexFieldOrVariable ==
    \E typ \in {"Field", "Variable"} :
        /\ Runs(typ)
        /\ LET end == RunEnd(lexer.pos, Alphanumeric)
               bare == AtTerminator(lexer.pos) /\ typ = "Field"
           IN  EmitOrError(AtTerminator(end), IF bare THEN "Dot" ELSE typ, end)

\* One turn of the loop of lexQuote, lexRawQuote or lexChar: a backslash takes the
\* next character with it, except in raw strings, and a new line closes none.
LexQuoted ==
    \E q \in {<<"Quote", "quote", "String">>, <<"RawQuote", "backquote", "RawString">>,
             <<"Char", "apostrophe", "CharConstant">>} :
        /\ Runs(q[1])
        /\ LET at      == lexer.pos
               none    == {"eof", "newline"}
               escapes == At(at) = "backslash" /\ q[1] # "RawQuote"
           IN  \/ At(at) = q[2] /\ Emit(q[3], at + 1, "InsideAction")
               \/ escapes /\ At(at + 1) \notin none /\ Goto(q[1], at + 2)
               \/ (At(at) \in none \/ (escapes /\ At(at + 1) \in none)) /\ Errorf
               \/ At(at) \notin (none \cup {q[2]}) /\ ~escapes /\ Goto(q[1], at + 1)

\* A number after which a sign comes is the real part of a complex one.
LexNumber ==
    /\ Runs("Number")
    /\ \E real \in {ScanNumber(lexer.pos)} :
         IF At(real) = "+"
         THEN \E imaginary \in {ScanNumber(real)} :
                EmitOrError(Scanned(imaginary) /\ At(imaginary - 1) = "i", "Complex", imaginary)
         ELSE EmitOrError(Scanned(real), "Number", real)

Run ==
    \/ LexText \/ LexLeftDelim \/ LexComment \/ LexRightDelim
    \/ LexScanned \/ LexSymbol \/ LexLeftParen \/ LexRightParen \/ LexClosed
    \/ LexSpace \/ LexIdentifier \/ LexFieldOrVariable \/ LexQuoted \/ LexNumber

-----------------------------------------------------------------------------
(* The parser, as far as the lexer notices it. *)

\* An item passes from one to the other when both are there.  After the last one
\* the parser asks for no more.
NextItem ==
    /\ parser = "reading" /\ sending # <<>>
    /\ received' = Append(received, Head(sending))
    /\ sending' = Tail(sending)
    /\ parser' = IF Head(sending).typ \in {"EOF", "Error"} THEN "done" ELSE parser
    /\ UNCHANGED <<input, lexer>>

\* The parser panics because of what it has got, and nobody receives any more.
StopParse ==
    /\ parser = "reading" /\ received # <<>>
    /\ parser' = "stopped"
    /\ UNCHANGED <<input, lexer, sending, received>>

\* The lexer has ended, or waits for a parser that is gone.
Idle ==
    /\ parser # "reading" /\ (lexer.fn = "nil" \/ sending # <<>>)
    /\ UNCHANGED vars

Init ==
    /\ input \in Inputs
    /\ lexer = [fn |-> "Text", pos |-> 1, start |-> 1, parenDepth |-> 0]
    /\ sending = <<>>
    /\ received = <<>>
    /\ parser = "reading"

Next == Run \/ NextItem \/ StopParse \/ Idle

\* Both goroutines run whenever they can; nothing makes the parser stop early.
Spec == Init /\ [][Next]_vars /\ WF_vars(Run) /\ WF_vars(NextItem)

-----------------------------------------------------------------------------
(* Properties. *)

Sent == received \o sending
Of(item) == SubSeq(input, item.from, item.to - 1)
Ends == {"EOF", "Error"}

\* All the characters from i on, up to and without the one at j.
Within(i, j, S) == \A k \in i..(j - 1) : At(k) \in S

\* What an item of each type looks like, and how far it goes.
Looks(item) ==
    LET first == At(item.from)
        rest(S) == Within(item.from + 1, item.to, S)
        length == item.to - item.from
        Is(typs) == item.typ \in typs
    IN  /\ Is({"Text"}) => \A i \in item.from..(item.to - 1) : ~HasPrefix(i, "{", "{")
        /\ Is({"LeftDelim"}) => length = 2 /\ HasPrefix(item.from, "{", "{")
        /\ Is({"RightDelim"}) => length = 2 /\ HasPrefix(item.from, "}", "}")
        /\ Is({"Space"}) => first \in Blank /\ rest(Blank) /\ At(item.to) \notin Blank
        /\ Is({"Field"}) => first = "." /\ length > 1 /\ rest(Alphanumeric) /\ AtTerminator(item.to)
        /\ Is({"Variable"}) => first = "$" /\ rest(Alphanumeric) /\ AtTerminator(item.to)
        /\ Is({"Identifier", "If"}) => /\ first \in (Alphanumeric \ Digits) /\ rest(Alphanumeric) /\ AtTerminator(item.to)
                                      /\ Is({"If"}) <=> Of(item) = <<"i", "f">>
        /\ Is({"Number", "Complex"}) => first \in (Digits \cup {"+", "."}) /\ At(item.to) \notin Alphanumeric
        /\ Is({"String", "RawString", "CharConstant"}) =>
              /\ length > 1 /\ first \in {"quote", "backquote", "apostrophe"} /\ first = At(item.to - 1)
              /\ \A i \in item.from..(item.to - 1) : At(i) # "newline"
        /\ Is({"ColonEquals", "Pipe", "LeftParen", "RightParen", "Dot", "Char"}) => length \in {1, 2}

\* One comment or several, from i up to j.
IsComments(i, j) ==
    j - i > 7 /\ HasPrefix(i, "{", "{") /\ HasPrefix(i + 2, "/", "*") /\ HasPrefix(j - 4, "*", "/") /\ HasPrefix(j - 2, "}", "}")

\* What can come after comments.  An action begins and ends without any.
AfterComments == {"Text", "LeftDelim", "EOF"}

\* Where the item before the i-th ends, and how many of a type there are up to the i-th.
Before(items, i) == IF i = 1 THEN 1 ELSE items[i - 1].to
UpTo(items, i, typ) == Cardinality({j \in 1..i : items[j].typ = typ})

\* Backing up, looking ahead and the escapes of eight scanning loops lose no
\* character and use none twice: the items, each of which looks as its type says,
\* are the template from its beginning to the end or to an error, without the
\* comments that are between its texts and actions; and no parenthesis is open where an action ends, which the parser of
\* pipelines counts on (lex.go:211-536).
ItemsTile ==
    \A i \in DOMAIN Sent :
        LET item == Sent[i]
            gap  == item.from - Before(Sent, i)
        IN  /\ item.typ \notin Ends => item.to > item.from /\ Looks(item)
            /\ gap >= 0
            /\ gap = 0 \/ item.typ = "Error" \/ (item.typ \in AfterComments /\ IsComments(Before(Sent, i), item.from))
            /\ item.typ = "RightDelim" => UpTo(Sent, i, "LeftParen") = UpTo(Sent, i, "RightParen")
            /\ item.typ = "EOF" => item.from = Len(input) + 1

\* A parser that reads on gets a last item, after which nothing is left to send:
\* the goroutine ends.  Only a parser that stops before leaves it behind, waiting
\* for ever (lex.go:162-167, 195-230).
LexerEnds == <>(parser = "stopped" \/ (parser = "done" /\ lexer.fn = "nil" /\ sending = <<>>))
=============================================================================
