-------------------------- MODULE MCTransformation --------------------------
(* Documents and transformations for TLC. *)
EXTENDS Transformation, FiniteSets, TLC

Label(s) == (<<"name">> :> Text(s))

\* An issue as GitHub sends it, with a nested object that may be absent or null
\* and up to two labels.  Objects 3 and 4 are the labels.
MCDocuments ==
    {<< (<<"number">> :> Number(7)) @@ (<<"labels">> :> List(d.labels)) @@ d.nested,
        (<<"title">> :> Text("t")) @@ (<<"state">> :> Text("")),
        Label("l1"), Label("l2") >> :
       d \in [labels : {<<>>, <<Ref(3)>>, <<Ref(3), Ref(4)>>}, nested : {<<"item">> :> Ref(2)}]
             \cup [labels : {<<Ref(3)>>}, nested : {EmptyObject, <<"item">> :> Null}]}

MCKeys == {<<"a">>, <<"b">>, <<"b", "x">>, <<"b", "y">>, <<"_type">>, <<"_score">>}

MCTemplates ==
    {Literal("s"), Field(<<"item">>), Field(<<"item", "title">>), When(<<"item">>, <<"item", "title">>),
     Each(<<"labels">>, <<"name">>), Apply("nested", <<"item">>)}

\* Transformations of up to three keys.
MCTables == UNION {[keys -> MCTemplates] : keys \in {s \in SUBSET MCKeys : Cardinality(s) <= 3}}

MCUnderscored == SpecialFields \cup {"_score"}

MCNamed == [nested |-> (<<"a">> :> Field(<<"title">>)) @@ (<<"b">> :> When(<<"state">>, <<"title">>)),
            simple |-> (<<"a">> :> Field(<<"item">>)) @@ (<<"b">> :> Each(<<"labels">>, <<"name">>))]

=============================================================================
