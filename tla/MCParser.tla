------------------------------- MODULE MCParser -------------------------------
(***************************************************************************)
(* The texts the parser is checked on.  Each language lets one part of the *)
(* grammar, with its neighbours, combine in every way.                     *)
(***************************************************************************)
EXTENDS Parser

Tokens(S) == {<<t>> : t \in S}
Size(n)   == <<"[", n, "]">>
Int       == <<"(", "int", ")">>
If        == <<"if", "(", "a", ")">>
Of_(kind, start, end, pieces_, max) ==
  [kind |-> kind, start |-> start, end |-> end, pieces |-> pieces_, max |-> max]
Expressions(pieces_, max) == Of_("expression", <<>>, <<>>, pieces_, max)
Statements_(pieces_, max) == Of_("statement", <<>>, <<>>, pieces_, max)
Declarations(start, pieces_, max) == Of_("program", start, <<";">>, pieces_, max)
\* a, then operators with an operand each.
Chains(ops, max) == Of_("expression", <<"a">>, <<>>,
                        {IF op = "?" THEN <<"?", "a", ":", "a">> ELSE <<op, "a">> : op \in ops}, max)

MCLanguages == {
  \* every binary operator; operators of many strengths; what binds tighter
  Chains(InfixOps, 2),
  Chains({"=", "?", "||", "&", "<", "+", "-", "*"}, 4),
  Expressions(Tokens({"a", "=", "?", ":", "<", "+"}), 6),
  Expressions(Tokens({"a", "-", "*", "++", "(", ")"}) \cup {Size("2")}, 5),
  Expressions(Tokens({"a", "sizeof", "(", ")", "++", "*", "int"}) \cup {Size("2")}, 5),
  Expressions(Tokens({"a", "+", ",", "(", ")"}), 6),
  Expressions(Tokens({"a", "-", "*", "=", "?", ":"}) \cup {Int}, 6),
  \* declarators, parameters, initializers, specifiers
  Declarations(<<"int">>, Tokens({"x", "*", "(", ")"}) \cup {Size("2"), Size("3")}, 6),
  Declarations(<<"void">>, Tokens({"x", "*", "(", ")", "void"}) \cup {Size("2"), Size("0")}, 5),
  Declarations(<<"int", "f", "(">>, Tokens({"int", "x", "*", "(", ")", ","}) \cup {Size("2")}, 5),
  Declarations(<<"int", "x", "=">>, Tokens({"a", "+", "{", "}", ",", "="}), 6),
  Of_("program", <<>>, <<"x", ";">>, Tokens(TypeWords \cup Specifiers), 4),
  Of_("program", <<>>, <<>>, {<<"int", "f", "(">>, <<"int", "a">>, <<"a", ";">>} \cup
                             Tokens({",", ")", "{", "}", "void", "static", ";"}), 5),
  \* statements
  Statements_({If, <<"a", ";">>, <<"while", "(", "a", ")">>, <<"while", "(", "a", ")", ";">>}
              \cup Tokens({"else", "do", "{", "}"}), 5),
  Statements_({If, <<"a", ";">>, <<"a", ":">>, <<"int", "x", ";">>} \cup Tokens({"else", "{", "}"}), 5),
  Statements_({If, <<"a", ";">>, <<"while", "(", "a", ")">>} \cup Tokens({"else", "{", "}"}), 6),
  Statements_({<<"do">>, <<"a", ";">>, <<"while", "(", "a", ")">>, <<"while", "(", "a", ")", ";">>}, 6),
  Statements_({If, <<"for", "(", ";", ";", ")">>, <<"case", "2", ":">>, <<"switch", "(", "a", ")">>}
              \cup Tokens({";", "else", "{", "}"}), 5),
  Of_("statement", <<"for", "(">>, <<";">>, Tokens({"a", ";", ")", "int", "x", "=", "("}), 5),
  Of_("statement", <<>>, <<";">>, Tokens({"a", ";", ":", "return", "break", "goto", "case", "default", "2",
                                          "if", "(", ")", "while", "{", "}"}), 3)
}
\* Casts before assignments.
MCCasts == {Expressions(Tokens({"a", "=", "+="}) \cup {Int}, 5)}
===============================================================================
