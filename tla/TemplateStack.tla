---------------------------- MODULE TemplateStack ----------------------------
(***************************************************************************)
(* The stack of variables of an execution: the functions of exec.go that   *)
(* push, overwrite, look up and pop.  They use these fields of an          *)
(* execution: vars, the stack; value, what a function returns; and ended,  *)
(* see TemplateExec.                                                       *)
(***************************************************************************)
EXTENDS Integers, Sequences

Var(name, v) == [name |-> name, value |-> v]

Running(e)    == e.ended = ""
Give(e, v)    == [e EXCEPT !.value = v]
Ends(e, how)  == IF Running(e) THEN [e EXCEPT !.ended = how] ELSE e

Push(e, name, v) == [e EXCEPT !.vars = Append(@, Var(name, v))]
Pop(e, mark)     == IF Running(e) THEN [e EXCEPT !.vars = SubSeq(@, 1, mark)] ELSE e

\* The nth variable from the top.
SetVar(e, n, v)  == [e EXCEPT !.vars[Len(e.vars) + 1 - n].value = v]

Named(e, name)   == {i \in DOMAIN e.vars : e.vars[i].name = name}
Topmost(places)  == CHOOSE i \in places : \A j \in places : j <= i
VarValue(e, name) ==
    IF Named(e, name) = {} THEN Ends(e, "undefined")
    ELSE Give(e, e.vars[Topmost(Named(e, name))].value)

\* The variables that a pipeline declares are pushed with its value.
PushAll(done, names) ==
    IF Running(done) THEN [done EXCEPT !.vars = @ \o [i \in DOMAIN names |-> Var(names[i], done.value)]] ELSE done

\* The variables of a range, set for one item of it, a pair of an index and an element.
Bind(e, decl, item) ==
    LET elem == IF Len(decl) > 0 THEN SetVar(e, 1, item[2]) ELSE e
    IN  IF Len(decl) > 1 THEN SetVar(elem, 2, item[1]) ELSE elem
=============================================================================
