--------------------------- MODULE MCTemplateLexer ---------------------------
(* Templates of one action, with text or comments around it. *)
EXTENDS TemplateLexer

Tag(s) == <<"{", "{">> \o s \o <<"}", "}">>
Chars == {" ", "a", "e", "i", "f", "x", "0", "1", ".", "$", ":", "=", "|", "quote", "backquote", "apostrophe",
          "backslash", "(", ")", ",", "+", "}", "newline", "return", "bell"}
Few   == {" ", "a", "0", "x", "+", "i", ".", "$", "quote", "backslash", "(", ")"}
Words(S, n) == UNION {[1..k -> S] : k \in 0..n}

MCInputs ==
    {Tag(w) : w \in Words(Chars, 2)} \cup {<<"{", "{">> \o w : w \in Words(Chars, 2)} \cup {Tag(w) : w \in Words(Few, 3)}
    \cup {w \o Tag(<<"/", "*">> \o v \o <<"*", "/">>) \o u : w \in Words({"a", "{"}, 1), u \in Words({"a", "{", "}"}, 2),
                                                            v \in Words({"/", "*", "a"}, 2)}
    \cup Words({"{", "/", "*", "}", "a"}, 5)
=============================================================================
