---------------------------- MODULE TemplateTree ----------------------------
(***************************************************************************)
(* From the items of a template to its trees, and back: the parser of      *)
(* parse/parse.go, function by function, and String of parse/node.go.      *)
(*                                                                         *)
(* A parser is a record that every function takes and returns: what it has *)
(* received from the lexer, the three tokens it may hold back, variables,  *)
(* and, as a function's result, a token or a node.  It is "waiting" when   *)
(* it needs an item that the lexer has not sent, "failed" when it has      *)
(* panicked with an error, which recover returns, and "crashed" when       *)
(* recover panics in turn.  Nothing happens to a parser that has stopped.  *)
(*                                                                         *)
(* Positions and line numbers, which only error messages show, are left    *)
(* out, and so is what is between quotes.                                  *)
(***************************************************************************)
EXTENDS TemplateTokens, SequencesExt, TLC

CONSTANTS
    Functions,    \* names of the functions in the maps given to Parse
    TopName       \* the name of the template that is parsed

Item(typ, val) == [typ |-> typ, val |-> val]
Node(kind, val, kids) == [kind |-> kind, val |-> val, kids |-> kids]

None    == Node("None", <<>>, <<>>)
NoItem  == Item("None", "")
Start   == [source |-> <<>>, got |-> 0, token |-> NoItem, held |-> <<NoItem, NoItem, NoItem>>,
            peekCount |-> 0, vars |-> <<"$">>, node |-> None, end |-> "", trees |-> << >>,
            state |-> "parsing"]

Fail(p)         == IF Parsing(p) THEN [p EXCEPT !.state = "failed"] ELSE p
Return(p, node) == [p EXCEPT !.node = node]

MustSee(n, types) == IF Sees(n, types) THEN n ELSE Fail(n)
Expect(p, types)  == MustSee(NextNonSpace(p), types)

-----------------------------------------------------------------------------
(* Pipelines. *)

RECURSIVE Pipeline(_, _), Command(_, _), Commands(_, _), Declarations(_, _, _)

\* A variable that is used, if it has been declared.
UseVar(p) == IF p.token.val \in ToSet(p.vars)
             THEN Return(p, Node("Variable", <<p.token.val>>, <<>>)) ELSE Fail(p)

\* The right parenthesis of a pipeline.
Closed(inner) == Return(MustSee(NextToken(inner), {"RightParen"}), inner.node)

\* A term whose first token has been read, or None if what comes is none.
TermFrom(n) ==
    CASE Sees(n, {"Identifier"}) -> IF n.token.val \in Functions
                                    THEN Return(n, Node("Identifier", <<n.token.val>>, <<>>)) ELSE Fail(n)
      [] Sees(n, {"Variable"})   -> UseVar(n)
      [] Sees(n, {"Dot", "Nil", "Field", "Bool", "Number", "String"}) ->
             Return(n, Node(n.token.typ, <<n.token.val>>, <<>>))
      [] Sees(n, {"LeftParen"})  -> Closed(Pipeline(n, "Paren"))
      [] Sees(n, {"Error"})      -> Fail(n)
      [] OTHER                   -> Return(Backup(n), None)

Term(p) == TermFrom(NextNonSpace(p))

RECURSIVE Fields(_)
Fields(p) == LET n == Peek(p)
             IN  IF Sees(n, {"Field"}) THEN Fields([NextToken(n) EXCEPT !.node.val = Append(@, n.token.val)])
                 ELSE n

\* Fields after a field or variable are part of it, those after another term make a chain.
Extended(term, next) ==
    IF ~Parsing(term) \/ term.node = None THEN term
    ELSE IF ~Sees(next, {"Field"}) THEN next
    ELSE Fields(IF term.node.kind \in {"Field", "Variable"} THEN next
                ELSE Return(next, Node("Chain", <<>>, <<term.node>>)))

WithFields(term) == Extended(term, Peek(term))
Operand(p)       == WithFields(Term(p))

\* A command of which words have been read, the last token after them; the
\* delimiter stays, a pipe does not.
CommandFrom(n, words) ==
    CASE Sees(n, {"Space"}) -> Command(n, words)
      [] Sees(n, {"RightDelim", "RightParen"}) /\ words # <<>> -> Return(Backup(n), Node("Command", <<>>, words))
      [] Sees(n, {"Pipe"}) /\ words # <<>> -> Return(n, Node("Command", <<>>, words))
      [] OTHER -> Fail(n)

OneMoreWord(operand, args) ==
    CommandFrom(NextToken(operand), IF operand.node = None THEN args ELSE Append(args, operand.node))

Command(p, args) == OneMoreWord(Operand(PeekNonSpace(p)), args)

OneMoreCommand(command, pipe) == Commands(command, [pipe EXCEPT !.kids = Append(@, command.node)])

CommandsFrom(n, pipe) ==
    CASE Sees(n, {"RightDelim"}) /\ pipe.kids # <<>> -> Return(n, pipe)
      [] Sees(n, {"RightParen"}) /\ pipe.kids # <<>> -> Return(Backup(n), pipe)
      [] Sees(n, {"Bool", "Dot", "Field", "Identifier", "Number", "Nil", "String", "Variable", "LeftParen"}) ->
             OneMoreCommand(Command(Backup(n), <<>>), pipe)
      [] OTHER -> Fail(n)

Commands(p, pipe) == CommandsFrom(NextNonSpace(p), pipe)

\* What a comma or := after a variable makes of it; taken is the parser behind that.
Declare(taken, context, names, comma) ==
    IF ~comma THEN Return(taken, Node("Pipe", names, <<>>))
    ELSE IF context = "Range" /\ Len(names) < 2 THEN Declarations(taken, context, names)
    ELSE Fail(taken)

\* A variable is a declaration when := or a comma follows it, after a space or
\* not; otherwise it goes back together with the space.
VariableAt(v, after, follow, context, decl) ==
    LET comma == follow.token = Item("Char", ",")
    IN  IF ~Parsing(follow) THEN follow
        ELSE IF comma \/ Sees(follow, {"ColonEquals"})
        THEN Declare([NextNonSpace(follow) EXCEPT !.vars = Append(@, v.token.val)],
                     context, Append(decl, v.token.val), comma)
        ELSE Return(PutBack(v, after, follow), Node("Pipe", decl, <<>>))

DeclarationAt(v, context, decl) ==
    IF ~Sees(v, {"Variable"}) THEN Return(v, Node("Pipe", decl, <<>>))
    ELSE LET after == Peek(NextToken(v)) IN VariableAt(v, after, PeekNonSpace(after), context, decl)

Declarations(p, context, decl) == DeclarationAt(PeekNonSpace(p), context, decl)

DeclaredCommands(d) == Commands(d, d.node)
Pipeline(p, context) == DeclaredCommands(Declarations(p, context, <<>>))

-----------------------------------------------------------------------------
(* Actions. *)

RECURSIVE Control(_, _), ItemList(_, _)

\* Else is left with the If pending when an if follows it.
ElseControl(p) == LET n == PeekNonSpace(p)
                  IN  Return(IF Sees(n, {"If"}) THEN n ELSE Expect(n, {"RightDelim"}), Node("Else", <<>>, <<>>))

Piped(pipe, kind, val) == Return(pipe, Node(kind, val, <<pipe.node>>))

TemplateFrom(n, name) ==
    IF Sees(n, {"RightDelim"}) THEN Return(n, Node("Template", name, <<>>))
    ELSE Piped(Pipeline(Backup(n), "Template"), "Template", name)

TemplateNamed(n)   == TemplateFrom(NextNonSpace(n), <<n.token.val>>)
TemplateControl(p) == TemplateNamed(Expect(p, {"String"}))

ActionFrom(n) ==
    CASE Sees(n, {"Else"})                -> ElseControl(n)
      [] Sees(n, {"End"})                 -> Return(Expect(n, {"RightDelim"}), Node("End", <<>>, <<>>))
      [] Sees(n, {"If", "Range", "With"}) -> Control(n, n.token.typ)
      [] Sees(n, {"Template"})            -> TemplateControl(n)
      [] OTHER                            -> Piped(Pipeline(Backup(n), "Command"), "Action", <<>>)

Action(p) == ActionFrom(NextNonSpace(p))

\* Mutant: what is not expected is taken for text.
TextOrActionAny(n) ==
    IF Sees(n, {"LeftDelim"}) THEN Action(n) ELSE Return(n, Node("Text", <<n.token.val>>, <<>>))

TextOrActionFrom(n) ==
    CASE Sees(n, {"Text"})      -> Return(n, Node("Text", <<n.token.val>>, <<>>))
      [] Sees(n, {"LeftDelim"}) -> Action(n)
      [] OTHER                  -> Fail(n)

TextOrAction(p) == TextOrActionFrom(NextNonSpace(p))

\* An item that has been read, after those of a list.
ListFrom(n, list) ==
    IF ~Parsing(n) THEN n
    ELSE IF n.node.kind \in {"End", "Else"} THEN [n EXCEPT !.node = Node("List", <<>>, list), !.end = n.node.kind]
    ELSE ItemList(n, Append(list, n.node))

\* Up to an end or else, which `end` then tells.
ItemListAt(first, list) ==
    IF Sees(first, {"EOF"}) THEN Fail(first) ELSE ListFrom(TextOrAction(first), list)

ItemList(p, list) == ItemListAt(PeekNonSpace(p), list)

\* Mutant: the variables of the body stay.
PopVarsNever(p, n) == p

PopVars(p, n) == [p EXCEPT !.vars = SubSeq(@, 1, n)]

\* What has to end with an end.
MustEnd(list) == IF list.end = "End" THEN list ELSE Fail(list)

ElseIf(nested) == Return(nested, Node("List", <<>>, <<nested.node>>))

\* After an else that is followed by if, the if is parsed as the only item of the
\* else list, and its end is the end of both.
ElseFrom(peeked, kind) ==
    IF kind = "If" /\ Sees(peeked, {"If"}) THEN ElseIf(Control(NextToken(peeked), "If"))
    ELSE MustEnd(ItemList(peeked, <<>>))

ElseAfter(list, kind) == ElseFrom(IF kind = "If" THEN Peek(list) ELSE list, kind)

EndControl(p, kind, last, parts) ==
    PopVars(Return(last, Node(kind, <<>>, Append(parts, last.node))), Len(p.vars))

ControlFrom(p, kind, pipe, list) ==
    IF ~Parsing(list) THEN list
    ELSE IF list.end = "End" THEN EndControl(p, kind, list, <<pipe>>)
    ELSE EndControl(p, kind, ElseAfter(list, kind), <<pipe, list.node>>)

\* parseControl.  Of the variables it declares, those of the first list are still
\* there in the else list.
ControlLists(p, kind, pipe) == ControlFrom(p, kind, pipe.node, ItemList(pipe, <<>>))
Control(p, kind)            == ControlLists(p, kind, Pipeline(p, kind))

-----------------------------------------------------------------------------
(* Trees. *)

\* IsEmptyTree: a list is empty up to the first item that is not, and an else
\* among its items makes IsEmptyTree panic.
IsBlank(node) == node.kind = "Text" /\ \A i \in 1..Len(node.val[1]) : SubSeq(node.val[1], i, i) = " "
IsEmptyTree(root) == \A i \in DOMAIN root.kids : IsBlank(root.kids[i])
EmptyTreePanics(root) ==
    \E i \in DOMAIN root.kids : root.kids[i].kind = "Else" /\ \A j \in 1..(i - 1) : IsBlank(root.kids[j])

Add(p, name) ==
    LET old == name \in DOMAIN p.trees
    IN  IF ~Parsing(p) THEN p
        ELSE IF ~old THEN [p EXCEPT !.trees = (name :> p.node) @@ @]
        ELSE IF EmptyTreePanics(p.trees[name]) THEN [p EXCEPT !.state = "crashed"]
        ELSE IF IsEmptyTree(p.trees[name]) THEN [p EXCEPT !.trees = (name :> p.node) @@ @]
        ELSE IF EmptyTreePanics(p.node) THEN [p EXCEPT !.state = "crashed"]
        ELSE IF IsEmptyTree(p.node) THEN p
        ELSE Fail(p)

\* parseDefinition, in a tree of its own that reads from the same lexer.
Definition(p) ==
    LET fresh == [p EXCEPT !.held = Start.held, !.peekCount = 0, !.vars = Start.vars]
        name  == Expect(fresh, {"String"})
        added == Add(MustEnd(ItemList(Expect(name, {"RightDelim"}), <<>>)), name.token.val)
    IN  [added EXCEPT !.held = p.held, !.peekCount = p.peekCount, !.vars = p.vars]

\* parse, with the items of the root that have been parsed.
RECURSIVE ParseItems(_, _)

ParseFrom(n, list) ==
    IF ~Parsing(n) THEN n
    ELSE IF n.node.kind = "End" THEN Fail(n)
    ELSE ParseItems(n, Append(list, n.node))

ParseItemsAt(first, word, list) ==
    LET action == Sees(first, {"LeftDelim"})
    IN  IF Sees(first, {"EOF"}) THEN Return(first, Node("List", <<>>, list))
        ELSE IF action /\ Sees(word, {"Define"}) THEN ParseItems(Definition(word), list)
        ELSE ParseFrom(TextOrAction(IF action THEN Backup2(word, first.token) ELSE first), list)

ParseItems(p, list) ==
    LET first == Peek(p) IN ParseItemsAt(first, NextNonSpace(NextToken(first)), list)

\* Parse of the items that the lexer has sent so far.
Parsed(p)    == IF Parsing(p) THEN [p EXCEPT !.state = "parsed"] ELSE p
Parse(items) == Parsed(Add(ParseItems([Start EXCEPT !.source = items], <<>>), TopName))

-----------------------------------------------------------------------------
(* String: the items that the text of a node has. *)

Space == Item("Space", " ")
Left  == Item("LeftDelim", "{{")
Right == Item("RightDelim", "}}")
Word(typ) == <<Left, Item(typ, "")>>

\* The parts, with something between any two.
Joined(parts, between) ==
    FoldLeft(LAMBDA s, part : IF s = <<>> THEN part ELSE s \o between \o part, <<>>, parts)

RECURSIVE String(_)
Strings(nodes) == [i \in DOMAIN nodes |-> String(nodes[i])]

\* The items of what node.val names, from the first or a later one.
Names(node, from, typ) == [i \in 1..(Len(node.val) + 1 - from) |-> Item(typ, node.val[from + i - 1])]

\* A pipeline inside a command or a chain.
InParens(node) == IF node.kind = "Pipe" THEN <<Item("LeftParen", "(")>> \o String(node) \o <<Item("RightParen", ")")>>
                  ELSE String(node)

\* Texts that are printed one after the other are scanned as one.
Scanned(printed) ==
    FoldLeft(LAMBDA s, item : IF s # <<>> /\ Last(s).typ = "Text" /\ item.typ = "Text"
                              THEN [s EXCEPT ![Len(s)].val = @ \o item.val] ELSE Append(s, item), <<>>, printed)

ListString(node)     == Scanned(FlattenSeq(Strings(node.kids)))
VariableString(node) == <<Item("Variable", node.val[1])>> \o Names(node, 2, "Field")
FieldString(node)    == Names(node, 1, "Field")
ChainString(node)    == InParens(node.kids[1]) \o Names(node, 1, "Field")
CommandString(node)  == Joined([i \in DOMAIN node.kids |-> InParens(node.kids[i])], <<Space>>)
ActionString(node)   == <<Left>> \o String(node.kids[1]) \o <<Right>>
ElseString           == Word("Else") \o <<Right>>

PipeString(node) ==
    LET decl == Joined([i \in DOMAIN node.val |-> <<Item("Variable", node.val[i])>>], <<Item("Char", ","), Space>>)
    IN  (IF decl = <<>> THEN decl ELSE decl \o <<Space, Item("ColonEquals", ":="), Space>>)
        \o Joined(Strings(node.kids), <<Space, Item("Pipe", "|"), Space>>)

\* Mutant: the else list is printed as part of the first one.
BranchStringFlat(node) ==
    Word(node.kind) \o <<Space>> \o String(node.kids[1]) \o <<Right>> \o FlattenSeq(Tail(Strings(node.kids)))
    \o Word("End") \o <<Right>>

BranchString(node) ==
    Word(node.kind) \o <<Space>> \o String(node.kids[1]) \o <<Right>> \o String(node.kids[2])
    \o (IF Len(node.kids) = 2 THEN <<>> ELSE ElseString \o String(node.kids[3]))
    \o Word("End") \o <<Right>>

TemplateString(node) ==
    Word("Template") \o <<Space, Item("String", node.val[1])>>
    \o (IF node.kids = <<>> THEN <<>> ELSE <<Space>> \o String(node.kids[1])) \o <<Right>>

String(node) ==
    CASE node.kind = "List"     -> ListString(node)
      [] node.kind = "Field"    -> FieldString(node)
      [] node.kind = "Variable" -> VariableString(node)
      [] node.kind = "Chain"    -> ChainString(node)
      [] node.kind = "Command"  -> CommandString(node)
      [] node.kind = "Pipe"     -> PipeString(node)
      [] node.kind = "Action"   -> ActionString(node)
      [] node.kind = "Template" -> TemplateString(node)
      [] node.kind = "Else"     -> ElseString
      [] node.kind \in {"If", "Range", "With"} -> BranchString(node)
      [] OTHER                  -> <<Item(node.kind, node.val[1])>>
=============================================================================
