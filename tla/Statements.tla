------------------------------ MODULE Statements ------------------------------
(***************************************************************************)
(* Statements, blocks and declarations: src/passes/parse.c, block.c and    *)
(* the end of declaration.c.  A label, a case or a default is a node of    *)
(* its own that comes before the statement it labels.                      *)
(***************************************************************************)
EXTENDS ExprParser

Null == <<"null">>
Semicolon(s, r) == Expect(s, r, ";")
\* An expression, unless it is left out and the token t follows.
parse_optional(s, p, t) == IF At(s, p) = t THEN Read(p, Null) ELSE parse_expr(s, p, 0)
\* What stands in parentheses.
parse_condition(s, p) == IF At(s, p) # "(" THEN Failed ELSE Expect(s, parse_expr(s, p + 1, 0), ")")

RECURSIVE parse_stmt_one(_, _), parse_stmt_multi(_, _), Items(_, _), Initializers(_, _)

(***************************************************************************)
(* Declarations.                                                           *)
(***************************************************************************)
parse_initializer(s, p) ==
  IF At(s, p) = "{" THEN Expect(s, Initializers(s, p + 1), "}") ELSE Node("init", parse_expr(s, p, 0))
\* parse_initializer_arr: a comma may stand before the brace.
Initializers(s, p) ==
  IF At(s, p) = "}" THEN Read(p, <<"inits">>)
  ELSE Then(parse_initializer(s, p), LAMBDA one :
         IF At(s, one.pos) # "," THEN Read(one.pos, <<"inits", one.tree>>)
         ELSE Then(Initializers(s, one.pos + 1), LAMBDA rest :
                Read(rest.pos, <<"inits", one.tree>> \o Tail(rest.tree))))

parse_block(s, p) == IF At(s, p) # "{" THEN Failed
                     ELSE IF At(s, p + 1) = "}" THEN Read(p + 2, <<"block", Null>>)
                     ELSE Items(s, p + 1)

parse_variable(s, d) ==
  IF d.tree.type = <<"void">> THEN Failed
  ELSE Then(Semicolon(s, IF At(s, d.pos) = "=" THEN parse_initializer(s, d.pos + 1) ELSE Read(d.pos, Null)),
            LAMBDA init : Read(init.pos, <<"declare", d.tree.spec, d.tree.type, d.tree.name, init.tree>>))

parse_function(s, d) ==
  IF \E i \in 2 .. Len(d.tree.params) : d.tree.params[i][2] = <<"void">> THEN Failed
  ELSE Then(IF At(s, d.pos) = ";" THEN Read(d.pos + 1, Null) ELSE parse_block(s, d.pos), LAMBDA body :
         Read(body.pos, <<"function", d.tree.spec, d.tree.type, d.tree.name, d.tree.params, body.tree>>))

parse_fn_or_var_declaration(s, p, accept_function) ==
  Then(specifiers_and_type(s, p), LAMBDA d :
    CASE ~ d.tree.fn -> parse_variable(s, d)
      [] d.tree.fn /\ accept_function -> parse_function(s, d)
      [] d.tree.fn /\ ~ accept_function -> Failed)

(***************************************************************************)
(* Statements.                                                             *)
(***************************************************************************)
IsLabel(s, p) == At(s, p) \in Identifiers \cup {"default"} /\ At(s, p + 1) = ":"
CallAgain(s, p) == IsLabel(s, p) \/ At(s, p) = "case"

\* Statements as long as the last one asks for another.
parse_stmt_multi(s, p) ==
  Then(parse_stmt_one(s, p), LAMBDA one :
    IF ~ CallAgain(s, p) THEN Read(one.pos, <<"list", one.tree>>)
    ELSE Then(parse_stmt_multi(s, one.pos), LAMBDA rest :
           Read(rest.pos, <<"list", one.tree>> \o Tail(rest.tree))))

\* The items of a block, up to its brace.
Items(s, p) ==
  Then(IF At(s, p) \in TypeWords \cup Specifiers
       THEN parse_fn_or_var_declaration(s, p, TRUE) ELSE parse_stmt_one(s, p), LAMBDA one :
    IF At(s, one.pos) = "}" THEN Read(one.pos + 1, <<"block", one.tree>>)
    ELSE Then(Items(s, one.pos), LAMBDA rest :
           Read(rest.pos, <<"block", one.tree>> \o Tail(rest.tree))))

parse_if_else(s, p) ==
  Then(parse_condition(s, p + 1), LAMBDA cond :
    Then(parse_stmt_multi(s, cond.pos), LAMBDA then :
      IF At(s, then.pos) # "else" THEN Read(then.pos, <<"if", cond.tree, then.tree, Null>>)
      ELSE Then(parse_stmt_multi(s, then.pos + 1), LAMBDA else :
             Read(else.pos, <<"if", cond.tree, then.tree, else.tree>>))))

parse_switch(s, p) ==
  Then(parse_condition(s, p + 1), LAMBDA control :
    Then(parse_stmt_multi(s, control.pos), LAMBDA body :
      Read(body.pos, <<"switch", control.tree, body.tree>>)))

\* A loop is <<"loop", precond, incr, postcond, body>>.
parse_while(s, p) ==
  Then(parse_condition(s, p + 1), LAMBDA cond :
    Then(parse_stmt_multi(s, cond.pos), LAMBDA body :
      Read(body.pos, <<"loop", cond.tree, Null, Null, body.tree>>)))

parse_do(s, p) ==
  Then(Expect(s, parse_stmt_multi(s, p + 1), "while"), LAMBDA body :
    Then(Semicolon(s, parse_condition(s, body.pos)), LAMBDA cond :
      Read(cond.pos, <<"loop", Null, Null, cond.tree, body.tree>>)))

parse_loop_for_init(s, p) ==
  IF At(s, p) \in TypeWords THEN parse_fn_or_var_declaration(s, p, FALSE)
  ELSE Semicolon(s, parse_optional(s, p, ";"))

\* A for loop stands in a block with what it starts with.
parse_for(s, p) ==
  IF At(s, p + 1) # "(" THEN Failed ELSE
  Then(parse_loop_for_init(s, p + 2), LAMBDA init :
    Then(Semicolon(s, parse_optional(s, init.pos, ";")), LAMBDA cond :
      Then(Expect(s, parse_optional(s, cond.pos, ")"), ")"), LAMBDA incr :
        Then(parse_stmt_multi(s, incr.pos), LAMBDA body :
          Read(body.pos, <<"block", init.tree,
                           <<"loop", cond.tree, incr.tree, Null, body.tree>>>>)))))

parse_case(s, p) ==
  IF At(s, p + 1) \in Integers_ \cup Doubles_ /\ At(s, p + 2) = ":"
  THEN Read(p + 3, <<"case", <<s[p + 1]>>>>) ELSE Failed

parse_stmt_one(s, p) ==
  LET t == At(s, p) IN
  CASE t = "return" -> Node("return", Semicolon(s, parse_optional(s, p + 1, ";")))
    [] t = ";" -> Read(p + 1, Null)
    [] t = "{" -> parse_block(s, p)
    [] t = "if" -> parse_if_else(s, p)
    [] t = "while" -> parse_while(s, p)
    [] t = "do" -> parse_do(s, p)
    [] t = "for" -> parse_for(s, p)
    [] t \in {"break", "continue"} -> Semicolon(s, Read(p + 1, <<t>>))
    [] t = "goto" /\ At(s, p + 1) \in Identifiers -> Semicolon(s, Read(p + 2, <<"goto", <<s[p + 1]>>>>))
    [] IsLabel(s, p) -> Read(p + 2, IF t = "default" THEN <<"default">> ELSE <<"label", <<t>>>>)
    [] t = "switch" -> parse_switch(s, p)
    [] t = "case" -> parse_case(s, p)
    [] OTHER -> Semicolon(s, parse_expr(s, p, 0))

\* parse_init, up to where the names are resolved: the declarations of a file.
RECURSIVE Globals(_, _)
Globals(s, p) ==
  IF p > Len(s) THEN Read(p, <<"program">>)
  ELSE Then(parse_fn_or_var_declaration(s, p, TRUE), LAMBDA one :
         Then(Globals(s, one.pos), LAMBDA rest :
           Read(rest.pos, <<"program", one.tree>> \o Tail(rest.tree))))
parse_init(s) == Globals(s, 1)
=============================================================================
