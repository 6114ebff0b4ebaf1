---------------------------- MODULE TemplateExec ----------------------------
(***************************************************************************)
(* The execution of a template's trees on a document: exec.go, with the    *)
(* logical functions of funcs.go.                                          *)
(*                                                                         *)
(* The state of an execution is a record that every function takes and     *)
(* returns: the stack of variables, the values visited, the value a        *)
(* function returns, and how the execution has ended, if it has: with an   *)
(* "error", because of an "undefined" variable, which is one, or, when the *)
(* panic is none that errRecover knows, with the process ("crashed").      *)
(***************************************************************************)
EXTENDS TemplateTree, TemplateStack, TemplateValues

CONSTANTS
    Signatures,   \* for each function the types of its parameters, and whether it is variadic
    Literals,     \* the integers that number constants stand for
    MaxDepth      \* templates that may be active at once before the stack overflows

ASSUME SignaturesAssumption == Functions = DOMAIN Signatures
ASSUME MaxDepthAssumption == MaxDepth \in Nat \ {0}

Errorf(e) == Ends(e, "error")

-----------------------------------------------------------------------------
(* Values. *)

Truth(v) ==
    CASE v.tag = "bool"               -> v.b
      [] v.tag = "int"                -> v.n # 0
      [] v.tag \in {"string", "number"} -> v.s # ""
      [] v.tag = "list"               -> v.values # <<>>
      [] v.tag = "map"                -> DOMAIN v.fields # {}
      [] OTHER                        -> v.tag = "struct"

\* evalField, of names that are no methods and no fields of a struct.
EvalField(e, receiver, name, hasArgs) ==
    CASE receiver.tag = "missing"              -> Give(e, Missing)
      [] receiver.tag = "map" /\ ~hasArgs      -> Give(e, IF name \in DOMAIN receiver.fields
                                                          THEN receiver.fields[name] ELSE Missing)
      [] OTHER                                 -> Errorf(e)

HasArgs(args, final) == Len(args) > 1 \/ final # Missing

\* The rest of a chain: arguments go to its last name.
RECURSIVE EvalFields(_, _, _, _)
EvalFields(e, names, args, final) ==
    IF ~Running(e) THEN e
    ELSE IF Len(names) = 1 THEN EvalField(e, e.value, names[1], HasArgs(args, final))
    ELSE EvalFields(EvalField(e, e.value, Head(names), FALSE), Tail(names), args, final)

EvalFieldChain(e, receiver, names, args, final) == EvalFields(Give(e, receiver), names, args, final)

NotAFunction(e, args, final) == IF HasArgs(args, final) THEN Errorf(e) ELSE e

\* Mutant: what is nothing is passed on to no parameter.
ValidateTypeOfAny(e, typ) ==
    IF ~Running(e) THEN e
    ELSE IF e.value = Missing /\ typ # "string" THEN Ends(e, "crashed")
    ELSE IF typ = "string" /\ e.value.tag # "string" THEN Errorf(e)
    ELSE e

\* validateType of the value of e.  reflect.Zero of no type panics, and not with an error.
ValidateType(e, typ) ==
    IF ~Running(e) THEN e
    ELSE IF e.value = Missing /\ typ = "any" THEN Give(e, Null)
    ELSE IF e.value = Missing /\ typ = "none" THEN Ends(e, "crashed")
    ELSE IF typ = "string" /\ e.value.tag # "string" THEN Errorf(e)
    ELSE e

Constant(node) ==
    CASE node.kind = "Bool"   -> Bool(node.val[1] = "true")
      [] node.kind = "Number" -> Integer(Literals[node.val[1]])
      [] OTHER                -> Text(node.val[1])

-----------------------------------------------------------------------------
(* Functions. *)

\* and, or: the first argument that decides, or the last one.
FirstThat(args, truth) ==
    LET at == SelectInSeq(args, LAMBDA v : Truth(v) = truth)
    IN  IF at = 0 THEN Last(args) ELSE args[at]

Call(name, args) ==
    CASE name = "and" -> FirstThat(args, FALSE)
      [] name = "or"  -> FirstThat(args, TRUE)
      [] name = "not" -> Bool(~Truth(args[1]))
      [] name \in {"eq", "ne", "lt", "le", "gt", "ge"} -> Compare(name, args[1], Tail(args))
      [] OTHER        -> Struct            \* context, user_data

-----------------------------------------------------------------------------
(* Pipelines. *)

RECURSIVE EvalPipeline(_, _, _), EvalOperand(_, _, _, _, _), EvalArgs(_, _, _, _, _), EvalArg(_, _, _, _)

TypeOf(name, i) == LET in == Signatures[name].in IN in[IF i <= Len(in) THEN i ELSE Len(in)]

EvalRest(arg, dot, name, nodes, args) == EvalArgs(arg, dot, name, Tail(nodes), Append(args, arg.value))

\* The arguments one after the other; their values follow those in args.
EvalArgs(e, dot, name, nodes, args) ==
    IF ~Running(e) \/ nodes = <<>> THEN [e |-> e, args |-> args]
    ELSE EvalRest(EvalArg(e, dot, TypeOf(name, Len(args) + 1), Head(nodes)), dot, name, nodes, args)

\* What the function returns, or the error.
Returned(e, result) == IF result = Failure THEN Errorf(e) ELSE Give(e, result)

\* The call itself.  The value of a function that is an argument has not been
\* validated, and reflect panics when it has the wrong type.
Invoke(e, name, args) ==
    IF ~Running(e) THEN e
    ELSE IF \E i \in DOMAIN args : TypeOf(name, i) = "string" /\ args[i].tag # "string" THEN Ends(e, "crashed")
    ELSE Returned(e, Call(name, args))

\* The argument of the pipeline comes last.
WithFinal(evaluated, name, final) ==
    LET in    == Signatures[name].in
        piped == ValidateType(Give(evaluated.e, final), in[Len(in)])
    IN  IF final = Missing THEN Invoke(evaluated.e, name, evaluated.args)
        ELSE Invoke(piped, name, Append(evaluated.args, piped.value))

EvalCall(e, dot, name, nodes, final) ==
    LET in    == Signatures[name].in
        numIn == Len(nodes) + (IF final = Missing THEN 0 ELSE 1)
        fits  == IF Signatures[name].variadic THEN numIn >= Len(in) - 1 ELSE numIn = Len(in)
    IN  IF fits THEN WithFinal(EvalArgs(e, dot, name, nodes, <<>>), name, final) ELSE Errorf(e)

FieldsOf(e, names, args, final) ==
    IF names = <<>> THEN NotAFunction(e, args, final) ELSE EvalFields(e, names, args, final)

\* What a node is as a command, or as an argument with no arguments of its own.
EvalOperand(e, dot, node, args, final) ==
    CASE node.kind = "Field"      -> EvalFieldChain(e, dot, node.val, args, final)
      [] node.kind = "Chain"      -> EvalFields(EvalArg(e, dot, "none", node.kids[1]), node.val, args, final)
      [] node.kind = "Variable"   -> FieldsOf(VarValue(e, node.val[1]), Tail(node.val), args, final)
      [] node.kind = "Identifier" -> EvalCall(e, dot, node.val[1], IF args = <<>> THEN args ELSE Tail(args), final)
      [] node.kind = "Pipe"       -> EvalPipeline(e, dot, node)
      [] node.kind = "Dot"        -> NotAFunction(Give(e, dot), args, final)
      [] node.kind = "Nil"        -> Errorf(e)
      [] OTHER                    -> NotAFunction(Give(e, Constant(node)), args, final)

\* A constant without a type to go by, or nil, dereferences the type that is not there.
EvalArg(e, dot, typ, node) ==
    IF node.kind = "Identifier" THEN EvalOperand(e, dot, node, <<>>, Missing)
    ELSE IF node.kind \in {"Dot", "Field", "Variable", "Pipe", "Chain"}
    THEN ValidateType(EvalOperand(e, dot, node, <<>>, Missing), typ)
    ELSE IF typ = "none" THEN Ends(e, "crashed")
    ELSE IF node.kind = "Nil" /\ typ = "any" THEN Give(e, Null)
    ELSE IF node.kind = "Nil" THEN Errorf(e)
    ELSE IF typ = "string" /\ node.kind # "String" THEN Errorf(e)
    ELSE Give(e, Constant(node))

\* Null is nothing for the next command.
Unwrapped(c) == IF c.value = Null THEN Give(c, Missing) ELSE c

\* The value of one command is the last argument of the next.
EvalPipeline(e, dot, pipe) ==
    LET Evaluate(s, command) ==
            IF Running(s) THEN Unwrapped(EvalOperand(s, dot, command.kids[1], command.kids, s.value)) ELSE s
    IN  PushAll(FoldLeft(Evaluate, Give(e, Missing), pipe.kids), pipe.val)

-----------------------------------------------------------------------------
(* Walking a tree. *)

Visit(e, v) == IF Running(e) THEN [e EXCEPT !.out = Append(@, IF v = Missing THEN Null ELSE v)] ELSE e

RECURSIVE Walk(_, _, _, _), Iterate(_, _, _, _, _)

\* Mutant: what an iteration declares is still there in the next one.
OneIterationKeeping(trees, e, r, item, mark) == Walk(trees, Bind(e, r.kids[1].val, item), item[2], r.kids[2])

OneIteration(trees, e, r, item, mark) == Pop(Walk(trees, Bind(e, r.kids[1].val, item), item[2], r.kids[2]), mark)

\* The rest of a range: pairs of an index and an element.
Iterate(trees, e, r, items, mark) ==
    IF items = <<>> \/ ~Running(e) THEN e
    ELSE Iterate(trees, OneIteration(trees, e, r, Head(items), mark), r, Tail(items), mark)

\* What a range goes through: a list in order, an object by the order of its keys.
ItemsOf(v) ==
    CASE v.tag = "list" -> [i \in DOMAIN v.values |-> <<Integer(i - 1), v.values[i]>>]
      [] v.tag = "map"  -> LET keys == SetToSortSeq(DOMAIN v.fields, LAMBDA a, b : Rank[a] < Rank[b])
                           IN  [i \in DOMAIN keys |-> <<Text(keys[i]), v.fields[keys[i]]>>]
      [] OTHER          -> <<>>

WalkElse(trees, e, dot, node) ==
    IF Len(node.kids) = 3 THEN Walk(trees, e, dot, node.kids[3]) ELSE e

\* s is the execution after the pipeline of the node in each of these.
WalkRange(trees, e, s, dot, r) ==
    LET items == ItemsOf(s.value)
    IN  IF s.value.tag \notin {"list", "map", "null", "missing"} THEN Errorf(s)
        ELSE Pop(IF items = <<>> THEN WalkElse(trees, s, dot, r) ELSE Iterate(trees, s, r, items, Len(s.vars)),
                 Len(e.vars))

WalkIfOrWith(trees, e, s, dot, node) ==
    Pop(IF Truth(s.value) THEN Walk(trees, s, IF node.kind = "With" THEN s.value ELSE dot, node.kids[2])
        ELSE WalkElse(trees, s, dot, node),
        Len(e.vars))

\* A template has variables of its own; those its pipeline declares are the caller's.
WalkTemplate(trees, s, name) ==
    IF s.depth >= MaxDepth THEN Ends(s, "crashed")
    ELSE [Walk(trees, [s EXCEPT !.vars = <<Var("$", s.value)>>, !.depth = @ + 1], s.value, trees[name])
             EXCEPT !.vars = s.vars, !.depth = s.depth]

WalkFrom(trees, e, s, dot, node) ==
    IF ~Running(s) THEN s
    ELSE CASE node.kind = "Action"   -> IF node.kids[1].val = <<>> THEN Visit(s, s.value) ELSE s
           [] node.kind = "Range"    -> WalkRange(trees, e, s, dot, node)
           [] node.kind = "Template" -> WalkTemplate(trees, s, node.val[1])
           [] OTHER                  -> WalkIfOrWith(trees, e, s, dot, node)

HasPipeline(node) == node.kind \in {"Action", "If", "With", "Range"} \/ (node.kind = "Template" /\ node.kids # <<>>)

Walk(trees, e, dot, node) ==
    IF ~Running(e) THEN e
    ELSE CASE node.kind = "Template" /\ node.val[1] \notin DOMAIN trees -> Errorf(e)
           [] node.kind = "List"     -> FoldLeft(LAMBDA r, kid : Walk(trees, r, dot, kid), e, node.kids)
           [] node.kind = "Text"     -> Visit(e, Text(node.val[1]))
           [] node.kind = "Else"     -> Errorf(e)
           [] OTHER -> WalkFrom(trees, e, IF HasPipeline(node) THEN EvalPipeline(e, dot, node.kids[1])
                                          ELSE Give(e, Missing), dot, node)

\* Execute, the trees being those of one Parse.
Execute(trees, data) ==
    Walk(trees, [vars |-> <<Var("$", data)>>, out |-> <<>>, value |-> Missing, ended |-> "", depth |-> 1],
         data, trees[TopName])
=============================================================================
