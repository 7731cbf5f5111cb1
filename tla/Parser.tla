-------------------------------- MODULE Parser --------------------------------
(***************************************************************************)
(* The parser as a whole.  A text grows by one piece at a time, out of     *)
(* the pieces of one of the given languages, and after every piece is      *)
(* parsed from its first token to the end.                                 *)
(***************************************************************************)
EXTENDS CGrammar

CONSTANT Languages   \* a set of records
\* kind: what a text is an instance of; start and end: what stands around
\* every text; pieces: the sequences of tokens it grows by; max: how many.
ASSUME LanguagesAssumption ==
  \A l \in Languages :
     l.kind \in {"expression", "statement", "program"} /\ l.max \in Nat

VARIABLES
  language,  \* which of the languages the text is of
  pieces,    \* how many pieces the text has
  text,      \* the tokens
  parsed,    \* what the parser answers
  meant      \* the trees C has for the text, for the properties only
vars == <<language, pieces, text, parsed, meant>>

\* The parsers called for each kind; an answer that leaves tokens unread is
\* not one (the caller would go on and find no statement there).
Answer(kind, s) ==
  Then(CASE kind = "expression" -> parse_expr(s, 1, 0)
         [] kind = "statement" -> parse_stmt_multi(s, 1)
         [] kind = "program" -> parse_init(s),
       LAMBDA r : IF r.pos = Len(s) + 1 THEN r ELSE Failed).tree

\* The trees C has for the text.
Trees(kind, s) == CASE kind = "expression" -> Expression(s)
                    [] kind = "statement" -> {List(l) : l \in Statement(s)}
                    [] kind = "program" -> Program(s)

\* No text that C allows has u after t.  Texts that go wrong are read up to
\* their first mistake and no further.
EndsOperand(t)  == t \in Identifiers \cup Integers_ \cup Doubles_ \cup TypeWords \cup {")", "]", "++", "--", "*"}
NeverFollows(t, u) ==
  \/ u \in Identifiers \cup Integers_ \cup {"sizeof", "~", "!"} /\ t \in Identifiers \cup Integers_ \cup Doubles_ \cup {"]"}
  \/ u \in (InfixOps \ PrefixOps) \cup {")", "]", "[", ":", ","} /\ ~ EndsOperand(t) /\ ~ (u = ")" /\ t \in {"(", ";"})
  \/ u \in TypeWords /\ t \in Identifiers \cup Integers_
Unbalanced(s) == \E b \in {<<"(", ")">>, <<"[", "]">>, <<"{", "}">>} :
                    Count(s, 1, Len(s), b[1]) < Count(s, 1, Len(s), b[2])
Hopeless(s) == Unbalanced(s) \/ \E i \in 1 .. Len(s) - 1 : NeverFollows(s[i], s[i + 1])

Init == /\ language \in Languages
        /\ pieces = 0
        /\ text = language.start
        /\ parsed = <<"error">>
        /\ meant = {}
Grow == /\ pieces < language.max
        /\ ~ Hopeless(text)
        /\ pieces' = pieces + 1
        /\ \E p \in language.pieces : text' = text \o p
        /\ parsed' = Answer(language.kind, text' \o language.end)
        /\ meant' = Trees(language.kind, text' \o language.end)
        /\ UNCHANGED language
Next == Grow
Spec == Init /\ [][Next]_vars
-------------------------------------------------------------------------------
Accepted == parsed # <<"error">>

(***************************************************************************)
(* The trees.                                                              *)
(***************************************************************************)
RECURSIVE Subtrees(_)
Subtrees(t) == {t} \cup UNION {Subtrees(t[i]) : i \in 2 .. Len(t)}
Infix(t) == t[1] \in InfixOps /\ Len(t) > 2
Leaf(t, S) == Len(t) = 1 /\ t[1] \in S

(***************************************************************************)
(* What is known to be read otherwise than C reads it.                     *)
(***************************************************************************)
\* Does what t is written as end in the operand of a cast?
RECURSIVE EndsInCast(_)
EndsInCast(t) == \/ t[1] = "cast"
                 \/ t[1] \in PrefixOps \cup InfixOps /\ Len(t) > 1 /\ EndsInCast(Last(t))
RECURSIVE CastOnly(_)
CastOnly(t) == IF t[1] = "cast" THEN CastOnly(t[3]) ELSE ~ EndsInCast(t)
\* parse_factor reads a cast with everything after it, then moves the cast to
\* the left side of one operator.  t is the last thing in its expression if
\* "last" says so.
RECURSIVE CastMisread(_, _)
CastMisread(t, last) ==
  \/ Infix(t) /\ EndsInCast(t[2]) /\ ~ (last /\ CastOnly(t[2]) /\ CastsLeftSide(t[1]))
  \/ Infix(t) /\ (CastMisread(t[2], FALSE) \/ CastMisread(Last(t), last))
  \/ Infix(t) /\ Len(t) = 4 /\ CastMisread(t[3], TRUE)
  \/ t[1] = "cast" /\ CastMisread(t[3], last)
  \/ ~ Infix(t) /\ t[1] # "cast" /\ \E i \in 2 .. Len(t) : CastMisread(t[i], TRUE)

\* The postfix operators of t, the first one first.
RECURSIVE PostfixOps(_)
PostfixOps(t) == IF t[1] \in {"[]", "post++", "post--"} THEN Append(PostfixOps(t[2]), t[1]) ELSE <<>>
\* parse_factor looks for ++ before the subscripts and once after them,
LongChain(t) == \E i \in 2 .. Len(PostfixOps(t)) - 1 : PostfixOps(t)[i] # "[]"
\* and takes what stands in the parentheses after sizeof for all of its operand.
SizeofParens(s) == \E i \in 1 .. Len(s) - 1 : s[i] = "sizeof" /\ s[i + 1] = "(" /\
                     \E j \in i + 3 .. Len(s) - 1 : s[j] = ")" /\ s[j + 1] \in {"++", "--", "["}
                            /\ Count(s, i, j, "(") = Count(s, i, j, ")")
Misread(t) == CastMisread(t, TRUE) \/ \E u \in Subtrees(t) : LongChain(u)

\* The groups of a declarator are searched for what they hold, wherever it
\* stands, and what is not searched for is passed over.
Disordered(s) ==
  \/ \E i \in 1 .. Len(s) - 1 :
       \/ s[i] \in Identifiers \cup {")", "]"} /\ s[i + 1] \in {"*"} \cup Identifiers \cup TypeWords \cup Specifiers
       \/ s[i] \in TypeWords \cup {"*"} /\ s[i + 1] = "["
       \/ s[i] = "*" /\ s[i + 1] \in TypeWords
       \/ s[i] = "]" /\ s[i + 1] = "("
       \/ s[i] \in Identifiers \cup {")"} /\ s[i + 1] = "(" /\ At(s, i + 2) \notin TypeWords
       \/ s[i] \notin Identifiers \cup {")"} /\ s[i + 1] = "(" /\ At(s, i + 2) \in TypeWords
  \/ \E i \in DOMAIN s : s[i] = "," /\ Count(s, 1, i, "(") = Count(s, 1, i, ")") /\ Count(s, 1, i, "{") = 0

\* What the parser takes and a later pass refuses: an assignment to what
\* designates nothing, a function that returns an array.
RECURSIVE Designates(_)
Designates(t) == Leaf(t, Identifiers) \/ t[1] = "[]" \/ (t[1] = "*" /\ Len(t) = 2) \/ (t[1] = "()" /\ Designates(t[2]))
RefusedLater(t) == \E u \in Subtrees(t) :
                      \/ u[1] \in Assignments \cup {"++", "--", "post++", "post--"} /\ ~ Designates(u[2])
                      \/ u[1] = "function" /\ u[3][1] \in Integers_
CastTakes(t, ops) == \E u \in Subtrees(t) : u[1] = "cast" /\ Infix(u[3]) /\ u[3][1] \in ops

(***************************************************************************)
(* The parser against the grammar.                                         *)
(***************************************************************************)

\* A text that C derives is parsed, and as C derives it: every operator has
\* the operands its strength and its side give it, an else goes to the
\* nearest if, a star, a subscript and a parenthesis in a declarator apply in
\* C's order, a type name in parentheses is a cast (parse_expr and
\* get_precedence, parse_factor, parse_stmt_multi, parse_declarator).  Left
\* out are casts, chains of postfix operators and operands of sizeof that
\* enqcc is known to read otherwise.
FollowsTheGrammar ==
  pieces > 0 => \A t \in meant : parsed = t \/ Misread(t) \/ SizeofParens(text)

\* A text that C does not derive gets a diagnostic, from the parser or from a
\* pass after it: no token is passed over and none is made up (the tests of
\* the next token in parse.c, expression.c and block.c, and
\* parse_declarator_group_precheck, _split, _scan and _postfix).  Left out are
\* declarators whose parts stand in an order the groups do not look at.
RejectsTheRest ==
  Accepted => \/ meant # {} \/ RefusedLater(parsed)
              \/ CastTakes(parsed, InfixOps) \/ SizeofParens(text)
              \/ language.kind = "program" /\ Disordered(text)

\* expression.c says of a cast before an assignment that it is a "cast LHS of
\* assignment, not assignment as a whole".
CastsLeaveAssignments == Accepted => ~ CastTakes(parsed, Assignments)
=============================================================================
