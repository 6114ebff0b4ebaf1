----------------------------- MODULE MCTemplate -----------------------------
(* Templates of a few pieces, on a few documents. *)
EXTENDS Template

MCSignatures ==
    [f \in {"and", "or", "eq"} |-> [in |-> <<"any", "any">>, variadic |-> TRUE]]
    @@ [f \in {"ne", "lt", "le", "gt", "ge"} |-> [in |-> <<"any", "any">>, variadic |-> FALSE]]
    @@ "not" :> [in |-> <<"any">>, variadic |-> FALSE]
    @@ "context" :> [in |-> <<>>, variadic |-> FALSE]
    @@ "user_data" :> [in |-> <<"string">>, variadic |-> FALSE]
MCFunctions == DOMAIN MCSignatures
MCLiterals  == "1" :> 1
MCRank == [s \in {"a", "b", "l", "t", "x", "y", "0", "1"} |->
             CASE s = "0" -> 0 [] s = "1" -> 1 [] s = "a" -> 2 [] s = "b" -> 3 [] s = "l" -> 4 [] s = "t" -> 5 [] s = "x" -> 6
               [] OTHER -> 7]

MCDocuments ==
    { Object([a |-> Text("x"), b |-> Number("0"), l |-> List(<<Text("x"), Text("y")>>)]),
      Object([a |-> Null, b |-> Text("y"), l |-> List(<<>>)]) }

\* The values of the documents, and what else a comparison can get: the comparisons
\* are consistent on them (which is proved for all values).
MCOperands ==
    {Missing, Bool(TRUE), Bool(FALSE), Integer(0), Integer(1)}
    \cup UNION {{data.fields[f] : f \in DOMAIN data.fields} : data \in MCDocuments}
ASSUME ConsistentAssumption == \A v, w \in MCOperands : Consistent(v, w)

FieldItem(f) == Item("Field", f)
X  == Item("Variable", "$x")
I  == Item("Variable", "$i")
In == Item("ColonEquals", ":=")
Tag(s) == <<Left>> \o s \o <<Right>>
Keyword(k, s) == Tag(<<Item(k, ""), Space>> \o s)
T == Item("String", "t")

\* Whole actions, which control structures are built from.
Actions ==
    { Tag(<<X>>),
      Keyword("If", <<FieldItem("a")>>),
      Keyword("With", <<X, Space, In, Space, FieldItem("a")>>),
      Keyword("Range", <<I, Item("Char", ","), Space, X, Space, In, Space, FieldItem("l")>>),
      Tag(<<X, In, Item("Variable", "$")>>), Tag(<<Item("Variable", "$y"), Space, In, X>>),
      Tag(<<Item("Else", "")>>), Tag(<<Item("Else", ""), Space, Item("If", ""), Space, FieldItem("b")>>),
      Tag(<<Item("End", "")>>) }

\* Actions that definitions are built from, of a template t and of the one that is parsed.
DefinitionActions ==
    { <<Item("Text", " ")>>, Tag(<<X, In, FieldItem("a")>>), Tag(<<X>>), Tag(<<Item("Else", "")>>),
      Tag(<<Item("End", "")>>), Keyword("Define", <<T>>), Keyword("Define", <<Item("String", "top")>>),
      Keyword("Template", <<T, Space, X, In, Item("Dot", ".")>>), Keyword("Template", <<Item("String", "top")>>) }

\* Actions in which words come after a variable, or parentheses are arguments or what
\* a range goes through; and texts.
Parens(s) == <<Item("LeftParen", "(")>> \o s \o <<Item("RightParen", ")")>>
Y == Item("Variable", "$y")
Declares(v, f) == Parens(<<v, Space, In, Space, FieldItem(f)>>)
ArgumentActions ==
    { Tag(<<X, In, FieldItem("a")>>), Tag(<<X>>), Tag(<<X, Space, FieldItem("a")>>),
      Tag(<<X, Space, Item("Pipe", "|"), Space, Item("Identifier", "not")>>),
      Tag(Parens(<<FieldItem("a")>>) \o <<Space>> \o Declares(X, "b")),
      Tag(<<FieldItem("m"), FieldItem("f"), Space>> \o Declares(X, "b")),
      Tag(<<Item("Identifier", "not"), Space, FieldItem("m")>>), Keyword("Range", Declares(Y, "l")), Tag(<<Y>>), Tag(<<Item("End", "")>>), <<Item("Text", "a")>> }

\* The words of one action.
WordsOfAction ==
    {<<Left>>, <<Left, Item("LeftParen", "(")>>, <<Left, Item("Range", ""), Space, X>>, <<Right>>,
     <<Space>>, <<Item("Pipe", "|")>>, <<In>>, <<Item("Char", ",")>>, <<Item("RightParen", ")")>>,
     <<Space, Item("LeftParen", "(")>>, <<X>>, <<FieldItem("a")>>, <<Item("Identifier", "not")>>, <<Item("Dot", ".")>>,
     <<Item("Nil", "nil")>>, <<T>>, <<Left, Item("End", "")>>}

\* A function and its arguments, each after a space.
Function(f) == Item("Identifier", f)
WordsOfCall ==
    {<<Left, Function(f)>> : f \in MCFunctions \ {"or", "ne", "gt", "ge", "context"}}
    \cup {<<Space, i>> : i \in {FieldItem("a"), FieldItem("b"), X, T, Item("Number", "1"), Item("Nil", "nil"),
                                Function("context")}}
    \cup {<<Space, Item("Pipe", "|"), Space, Function(f)>> : f \in {"not", "ne", "gt"}}
    \cup {<<Right>>}

MCStyles ==
    "actions" :> [pieces |-> Actions, most |-> 5]
    @@ "definitions" :> [pieces |-> DefinitionActions, most |-> 5]
    @@ "arguments" :> [pieces |-> ArgumentActions, most |-> 4]
    @@ "words" :> [pieces |-> WordsOfAction, most |-> 5]
    @@ "calls" :> [pieces |-> WordsOfCall, most |-> 4]
=============================================================================
