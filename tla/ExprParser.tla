------------------------------ MODULE ExprParser ------------------------------
(***************************************************************************)
(* Expressions of src/passes/parse/expression.c: precedence climbing over  *)
(* factors.  Strings are left out; a constant is one token.                *)
(***************************************************************************)
EXTENDS Declarators

Assignments == {"=", "+=", "-=", "*=", "/=", "%=", "&=", "|=", "^=", "<<=", ">>="}
\* Operators of equal precedence, the weakest first.
Weakest == <<Assignments, {"?"}, {"||"}, {"&&"}, {"|"}, {"^"}, {"&"}, {"==", "!="},
             {"<", "<=", ">", ">="}, {"<<", ">>"}, {"+", "-"}, {"*", "/", "%"}>>
get_precedence(op) == CHOOSE n \in DOMAIN Weakest : op \in Weakest[n]
InfixOps   == UNION {Weakest[n] : n \in DOMAIN Weakest}
PrefixOps  == {"~", "-", "!", "*", "&", "sizeof", "--", "++"}
RightAssociative(op) == op \in Assignments \cup {"?"}
Climb_NotOneMore(op) == get_precedence(op)   \* mutant: a - b - c is a - (b - c)
Climb(op) == get_precedence(op) + (IF RightAssociative(op) THEN 0 ELSE 1)

\* What is read must be followed by the token t.
Expect_Anything(s, r, t) == Then(r, LAMBDA x : Read(x.pos + 1, x.tree))   \* mutant: it is not looked at
Expect(s, r, t) == IF IsFailure(r) \/ At(s, r.pos) # t THEN Failed ELSE Read(r.pos + 1, r.tree)
Node(op, r)     == Then(r, LAMBDA x : Read(x.pos, <<op, x.tree>>))

\* parse_needs_weird_hack_for_cast_lhs_precedence: the operators under which
\* a cast is moved from the whole operand to its left side.
CastsLeftSide(op) == op \in (InfixOps \ (Assignments \cup {"?"})) \cup {"="}
Cast(type, tree) ==
  IF CastsLeftSide(tree[1]) /\ Len(tree) = 3
  THEN <<tree[1], <<"cast", type, tree[2]>>, tree[3]>>
  ELSE <<"cast", type, tree>>

\* parse_postfix: at most one ++ or --.
parse_postfix(s, r) ==
  IF ~ IsFailure(r) /\ At(s, r.pos) \in {"++", "--"}
  THEN Read(r.pos + 1, <<"post" \o At(s, r.pos), r.tree>>) ELSE r

RECURSIVE parse_expr(_, _, _), parse_factor(_, _), Arguments(_, _), Operators(_, _, _), Bracketed(_, _)

\* A type, or an expression if what stands there is not one.
TypeOrExpr(s, p, type) ==
  IF IsFailure(type) THEN parse_expr(s, p, 0) ELSE Read(type.pos, <<"typed", type.tree[2]>>)
parse_sizeof_with_parens(s, p) ==
  Node("sizeof", Expect(s, TypeOrExpr(s, p, parse_type(s, p, {"abstract"})), ")"))

\* The arguments of a call, after its parenthesis or a comma.
Arguments(s, p) ==
  Then(parse_expr(s, p, 0), LAMBDA one :
    IF At(s, one.pos) # "," THEN Read(one.pos, <<one.tree>>)
    ELSE Then(Arguments(s, one.pos + 1), LAMBDA rest : Read(rest.pos, <<one.tree>> \o rest.tree)))
parse_symbol(s, p) ==
  LET call == <<"call", <<s[p]>>>>
  IN  CASE At(s, p + 1) # "(" -> Read(p + 1, <<s[p]>>)
        [] At(s, p + 1) = "(" /\ At(s, p + 2) = ")" -> Read(p + 3, call)
        [] OTHER -> Then(Expect(s, Arguments(s, p + 2), ")"),
                         LAMBDA args : Read(args.pos, call \o args.tree))

parse_cast(s, p) ==
  Then(Expect(s, parse_type(s, p, {"abstract"}), ")"), LAMBDA type :
    Then(parse_expr(s, type.pos, 0), LAMBDA expr :
      Read(expr.pos, Cast(type.tree[2], expr.tree))))

\* The subscripts that follow r.
Bracketed(s, r) ==
  IF IsFailure(r) \/ At(s, r.pos) # "[" THEN r
  ELSE Bracketed(s, Then(Expect(s, parse_expr(s, r.pos + 1, 0), "]"),
                         LAMBDA sub : Read(sub.pos, <<"[]", r.tree, sub.tree>>)))

Operand(s, p) ==
  LET t == At(s, p)
      parens == t = "(" /\ At(s, p + 1) \notin TypeWords
  IN  CASE t = "sizeof" /\ At(s, p + 1) = "(" -> parse_sizeof_with_parens(s, p + 2)
        [] t \in PrefixOps /\ ~ (t = "sizeof" /\ At(s, p + 1) = "(") -> Node(t, parse_factor(s, p + 1))
        [] t \in Integers_ \cup Doubles_ -> Read(p + 1, <<t>>)
        [] t \in Identifiers -> parse_symbol(s, p)
        [] t = "(" /\ ~ parens -> parse_cast(s, p + 1)
        [] parens -> Node("()", Expect(s, parse_expr(s, p + 1, 0), ")"))
        [] OTHER -> Failed
parse_factor(s, p) == parse_postfix(s, Bracketed(s, parse_postfix(s, Operand(s, p))))

\* The operators of at least the given precedence that follow r.
Operators(s, r, min) ==
  LET op == At(s, r.pos)
      Right(p, left) ==
        Then(parse_expr(s, p, Climb(op)), LAMBDA right :
          Operators(s, Read(right.pos, left \o <<right.tree>>), min))
  IN  CASE IsFailure(r) \/ op \notin InfixOps -> r
        [] op \in InfixOps /\ get_precedence(op) < min -> r
        [] op \in InfixOps \ {"?"} /\ get_precedence(op) >= min -> Right(r.pos + 1, <<op, r.tree>>)
        [] OTHER -> Then(Expect(s, parse_expr(s, r.pos + 1, 0), ":"),
                         LAMBDA middle : Right(middle.pos, <<op, r.tree, middle.tree>>))
parse_expr(s, p, min) == Operators(s, parse_factor(s, p), min)
=============================================================================
