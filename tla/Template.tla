------------------------------ MODULE Template ------------------------------
(***************************************************************************)
(* A template, from the items its lexer sends to its execution.  Someone   *)
(* writes a template piece by piece; the parser gets as far as it can with *)
(* the items of each piece, and refuses or accepts what there is at the    *)
(* end; a template that is accepted is executed on a document.             *)
(***************************************************************************)
EXTENDS TemplateExec, FiniteSets

CONSTANTS
    Styles,      \* ways to write, by name: pieces, which are sequences of items, and how many at most
    Documents    \* values a template is executed on

VARIABLES
    style,       \* the way this template is written
    pieces,      \* how many pieces have been written
    items,       \* what the lexer has sent
    parser,      \* the parser when it has received that
    run          \* the execution, once there has been one

vars == <<style, pieces, items, parser, run>>

NoRun == [ended |-> "not yet", out |-> <<>>, data |-> Missing]

-----------------------------------------------------------------------------
(* What the lexer sends. *)

Words == {"Identifier", "Field", "Variable", "Dot", "Bool", "Nil", "Number", "String", "If", "Range", "With",
          "Else", "End", "Define", "Template"}

\* A word ends at a space, a delimiter or a period (atTerminator), which a number
\* takes for its own; a run of spaces is one item.
MayFollow(a, b) ==
    /\ a \in Words \ {"String"} => b \notin Words \ {"Field", "Dot"}
    /\ a = "Number" => b \notin {"Field", "Dot"}
    /\ a = "Space" => b # "Space"

\* The parentheses that are open in the action at the end of s.
Depth(s) ==
    LET Step(d, item) == CASE item.typ = "LeftDelim"  -> 0
                           [] item.typ = "LeftParen"  -> d + 1
                           [] item.typ = "RightParen" -> d - 1
                           [] OTHER                   -> d
    IN  FoldLeft(Step, 0, s)

\* A right parenthesis too many is sent, and then an error.
Lexed(s, piece) ==
    LET all == s \o piece
    IN  /\ s # <<>> => MayFollow(Last(s).typ, Head(piece).typ)
        /\ Depth(s) >= 0
        /\ Last(piece).typ = "RightDelim" => Depth(all) = 0

\* At the end of the input, or where something is wrong with it.
InText(s) == s = <<>> \/ Last(s).typ \in {"Text", "RightDelim"}
Endings(s) == IF InText(s) THEN {"EOF", "Error"} ELSE {"Error"}
Ended == items # <<>> /\ Last(items).typ \in {"EOF", "Error"}

-----------------------------------------------------------------------------
Init ==
    /\ style \in DOMAIN Styles
    /\ pieces = 0
    /\ items = <<>>
    /\ parser = Parse(<<>>)
    /\ run = NoRun

Write(piece) ==
    /\ parser.state = "waiting" /\ ~Ended
    /\ pieces < Styles[style].most
    /\ Lexed(items, piece)
    /\ pieces' = pieces + 1
    /\ items' = items \o piece
    /\ parser' = Parse(items')
    /\ UNCHANGED <<style, run>>

Finish(typ) ==
    /\ parser.state = "waiting" /\ ~Ended
    /\ typ \in Endings(items)
    /\ items' = Append(items, Item(typ, ""))
    /\ parser' = Parse(items')
    /\ UNCHANGED <<style, pieces, run>>

Run(data) ==
    /\ parser.state = "parsed"
    /\ run = NoRun
    /\ LET e == Execute(parser.trees, data)
       IN  run' = [ended |-> IF Running(e) THEN "returned" ELSE e.ended, out |-> e.out, data |-> data]
    /\ UNCHANGED <<style, pieces, items, parser>>

\* The template is refused, or has been executed.
Done ==
    /\ parser.state \in {"failed", "crashed"} \/ run # NoRun
    /\ UNCHANGED vars

Next ==
    \/ \E piece \in Styles[style].pieces : Write(piece)
    \/ \E typ \in {"EOF", "Error"} : Finish(typ)
    \/ \E data \in Documents : Run(data)
    \/ Done

Spec == Init /\ [][Next]_vars

-----------------------------------------------------------------------------
(* Properties. *)

RECURSIVE Nodes(_)
\* A node and all the nodes below it.
Nodes(node) == <<node>> \o FlattenSeq([i \in DOMAIN node.kids |-> Nodes(node.kids[i])])

Trees == {parser.trees[name] : name \in DOMAIN parser.trees}

\* The channel is not closed after the last item: a parser that asked for one
\* more would wait forever.  It never does, whatever the template looks like
\* (parse.go:273-298 and 321-336 with lex.go:162-167 and 195-200).
NeverReadsPastEnd == Ended => parser.state # "waiting"

WordsOf(node) ==
    CASE node.kind \in {"Field", "Chain"} -> [i \in DOMAIN node.val |-> Item("Field", node.val[i])]
      [] node.kind = "Variable" -> [i \in DOMAIN node.val |->
                                      Item(IF i = 1 THEN "Variable" ELSE "Field", node.val[i])]
      [] node.kind = "Pipe"     -> [i \in DOMAIN node.val |-> Item("Variable", node.val[i])]
      [] node.kind \in {"Text", "Identifier", "Number", "Bool", "Nil", "If", "Range", "With"} ->
                                   <<Item(node.kind, IF node.val = <<>> THEN "" ELSE node.val[1])>>
      [] OTHER                  -> <<>>

Times(item, s) == Len(SelectSeq(s, LAMBDA i : i = item))

\* The parser looks three tokens ahead, throws spaces away while it has tokens in
\* hand, and lends the lexer to the parser of a definition.  None of this loses a
\* word, or has it twice: the trees have every text, field, variable, constant,
\* function and branch as often as the template has it; where no definition is
\* dropped because another of its name is empty (parse.go:58-119, 377-429).
EveryWordOnce ==
    parser.state = "parsed" /\ Cardinality(DOMAIN parser.trees) = 1 + Times(Item("Define", ""), items) =>
        LET names == SetToSeq(DOMAIN parser.trees)
            nodes == FlattenSeq([i \in DOMAIN names |-> Nodes(parser.trees[names[i]])])
            words == FlattenSeq([i \in DOMAIN nodes |-> WordsOf(nodes[i])])
        IN  \A w \in ToSet(items) :
              w.typ \in {"Text", "Field", "Variable", "Identifier", "Number", "Bool", "Nil", "If", "Range", "With"}
                  => Times(w, words) = Times(w, items)

RECURSIVE TextsJoined(_)
\* A node whose lists have one text where there were several next to each other.
TextsJoined(node) ==
    LET Join(s, kid) == IF s # <<>> /\ Last(s).kind = "Text" /\ kid.kind = "Text"
                        THEN [s EXCEPT ![Len(s)].val[1] = @ \o kid.val[1]] ELSE Append(s, kid)
        kids == [i \in DOMAIN node.kids |-> TextsJoined(node.kids[i])]
    IN  [node EXCEPT !.kids = IF node.kind = "List" THEN FoldLeft(Join, <<>>, kids) ELSE kids]

\* What String prints of an accepted tree is accepted, and is the same tree again:
\* pipelines in parentheses, chains, declarations and else-if included; but that
\* texts which only a comment or a definition kept apart are then one text
\* (node.go:96-102, 131-133, 161-179, 249-262, 426-478, 733-749, 821-826, with
\* lex.go:212-230).
Reprint ==
    parser.state = "parsed" =>
        \A tree \in Trees : LET again == Parse(Append(String(tree), Item("EOF", "")))
                            IN  again.state = "parsed" /\ again.trees = (TopName :> TextsJoined(tree))

-----------------------------------------------------------------------------
(* Scopes. *)

Mentions(nodes) == {n.val[1] : n \in {m \in ToSet(nodes) : m.kind = "Variable"}}
DeclaredIn(node) == UNION {ToSet(m.val) : m \in {n \in ToSet(Nodes(node)) : n.kind = "Pipe"}}

\* A pipeline that mentions a variable it declares.
OwnVariable(n) == n.kind = "Pipe" /\ Mentions(Nodes(n)) \cap ToSet(n.val) # {}

\* An else list that mentions a variable that the first list declares.
ElseMentions(n) ==
    n.kind \in {"If", "Range", "With"} /\ Len(n.kids) = 3
    /\ Mentions(Nodes(n.kids[3])) \cap DeclaredIn(n.kids[2]) # {}

\* A command that is no call of a function may not evaluate its arguments, which are
\* thrown away after parentheses and not looked at when a field is asked of nothing; a
\* variable that one of them declares is mentioned in the tree.
UnevaluatedMention(tree, n) ==
    n.kind = "Command" /\ n.kids[1].kind # "Identifier"
    /\ \E i \in 2..Len(n.kids) : Mentions(Nodes(tree)) \cap DeclaredIn(n.kids[i]) # {}

\* That a variable has been declared is checked once, by the parser; the
\* execution finds every variable it mentions, whichever branches it takes, but
\* for three: one in the pipeline that declares it, one of the first list of a
\* branch in the else list, and one that is declared in parentheses as an argument
\* of what takes none (parse.go:431-432 and 661-677 with exec.go:39-69, 362-364 and
\* 468-470).
VariablesFound ==
    run.ended = "undefined" =>
        \E tree \in Trees : \E n \in ToSet(Nodes(tree)) :
            OwnVariable(n) \/ ElseMentions(n) \/ UnevaluatedMention(tree, n)

RECURSIVE Scoped(_, _, _)

\* An iteration with its variables bound afresh, and then the others, in the scope of
\* what parentheses in the pipeline have declared.
RECURSIVE ScopedItems(_, _, _, _)
ScopedItems(s, scope, r, rest) ==
    LET decl  == r.kids[1].val
        bound == CASE Len(decl) = 0 -> scope
                   [] Len(decl) = 1 -> Append(scope, Var(decl[1], Head(rest)[2]))
                   [] OTHER -> scope \o <<Var(decl[1], Head(rest)[1]), Var(decl[2], Head(rest)[2])>>
    IN  IF rest = <<>> \/ ~Running(s) THEN s
        ELSE ScopedItems(Scoped([s EXCEPT !.vars = bound], Head(rest)[2], r.kids[2]), scope, r, Tail(rest))

\* A branch after its pipeline, in the scope of that pipeline and of nothing else.
ScopedBranch(s, dot, node) ==
    IF node.kind = "Range" /\ ItemsOf(s.value) # <<>>
    THEN ScopedItems(s, SubSeq(s.vars, 1, Len(s.vars) - Len(node.kids[1].val)), node, ItemsOf(s.value))
    ELSE IF node.kind # "Range" /\ Truth(s.value)
    THEN Scoped(s, IF node.kind = "With" THEN s.value ELSE dot, node.kids[2])
    ELSE IF Len(node.kids) = 3 THEN Scoped(s, dot, node.kids[3]) ELSE s

\* A template in a scope that has its argument only.
ScopedTemplate(s, name) ==
    IF s.depth >= MaxDepth THEN Ends(s, "crashed")
    ELSE Scoped([s EXCEPT !.vars = <<Var("$", s.value)>>, !.depth = @ + 1], s.value, parser.trees[name])

ScopedFrom(e, s, dot, node) ==
    IF ~Running(s) THEN s
    ELSE IF node.kind = "Action" THEN Walk(parser.trees, e, dot, node)
    ELSE IF node.kind = "Template" THEN [ScopedTemplate(s, node.val[1]) EXCEPT !.vars = s.vars, !.depth = s.depth]
    ELSE IF node.kind = "Range" /\ s.value.tag \notin {"list", "map", "null", "missing"} THEN Errorf(s)
    ELSE [ScopedBranch(s, dot, node) EXCEPT !.vars = e.vars]

\* The execution of a node, with each construct in the scope that its place in the
\* template gives it.
Scoped(e, dot, node) ==
    IF ~Running(e) THEN e
    ELSE IF node.kind = "List" THEN FoldLeft(LAMBDA s, kid : Scoped(s, dot, kid), e, node.kids)
    ELSE IF node.kind \in {"Text", "Else"} \/ (node.kind = "Template" /\ node.val[1] \notin DOMAIN parser.trees)
    THEN Walk(parser.trees, e, dot, node)
    ELSE ScopedFrom(e, IF HasPipeline(node) THEN EvalPipeline(e, dot, node.kids[1]) ELSE Give(e, Missing), dot, node)

\* The stack of variables that is marked, overwritten in place and popped gives
\* every variable the value of its innermost declaration around the place where
\* it is mentioned: that of this iteration, of this invocation of a template, and
\* none that a branch left behind (exec.go:39-69, 196-211, 244-325).
LexicalScope ==
    run # NoRun =>
        LET e == Scoped([vars |-> <<Var("$", run.data)>>, out |-> <<>>, value |-> Missing, ended |-> "", depth |-> 1],
                        run.data, parser.trees[TopName])
        IN  run.out = e.out /\ (run.ended = "returned" <=> Running(e))

-----------------------------------------------------------------------------
(* What ends the process. *)

\* A field of what is in parentheses, or of a dot, a constant or nil: evalArg is asked
\* for a value of no type.
FieldOfUntyped(n) == n.kind = "Chain" /\ n.kids[1].kind # "Identifier"

\* A function as the argument of one that takes a string: what it returns is not
\* validated.
UnvalidatedArgument(n) ==
    n.kind = "Command" /\ n.kids[1].kind = "Identifier"
    /\ \E i \in 2..Len(n.kids) : n.kids[i].kind = "Identifier" /\ TypeOf(n.kids[1].val[1], i - 1) = "string"

\* The templates that one of them invokes; and some of them, each of which invokes one.
InvokedBy(tree) == {n.val[1] : n \in {m \in ToSet(Nodes(tree)) : m.kind = "Template"}}
InvokesItself ==
    \E names \in (SUBSET DOMAIN parser.trees) \ {{}} :
        \A name \in names : InvokedBy(parser.trees[name]) \cap names # {}

\* "errRecover is the handler that turns panics into returns from the top level of
\* Parse" (exec.go:97-98): whatever is wrong with a template or with its document, the
\* execution returns, but for three panics which are no error that errRecover knows.
\* They are about a type that is not there, where a field is asked of something in
\* parentheses that is nothing, or of nil or a constant (exec.go:424 with 588-592 and
\* 628-644); reflect's own about an argument of the wrong type that is the result of
\* another function (exec.go:569 with 639-640); and the stack that overflows.
PanicsNamed ==
    run.ended = "crashed" =>
        \/ \E tree \in Trees : \E n \in ToSet(Nodes(tree)) : FieldOfUntyped(n) \/ UnvalidatedArgument(n)
        \/ InvokesItself
=============================================================================
