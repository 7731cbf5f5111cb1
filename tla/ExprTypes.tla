------------------------------ MODULE ExprTypes ------------------------------
(***************************************************************************)
(* The passes of sema_typecheck of src/passes/sema.c that give expressions *)
(* their types, check them and insert the implicit casts.  Each pass walks *)
(* the whole tree; a check answers "ok", "error" (a diagnostic) or         *)
(* "assert" (a failed assertion).                                          *)
(***************************************************************************)
EXTENDS Types, Integers

(***************************************************************************)
(* struct ast.  type is expr_type; to is to_type of a cast and the type a  *)
(* function returns in its return statement; n is the number of a constant *)
(* or the ID of a variable; twin is 0, or names the two uses of the left   *)
(* operand of a compound assignment, which share one node.                 *)
(***************************************************************************)
Node(op, kids) ==
  [op |-> op, kids |-> kids, type |-> Zeroed, to |-> Zeroed, n |-> 0, twin |-> 0]
Unary(op, a)      == Node(op, <<a>>)
Binary(op, a, b)  == Node(op, <<a, b>>)
Variable(id, c)   == [Node("var", <<>>) EXCEPT !.n = id, !.type = c]
Constant(num, c)  == [Node("const", <<>>) EXCEPT !.n = num, !.type = c]
NullExpr(c)       == [Node("null", <<>>) EXCEPT !.type = c]
CastTo(c, a)      == [Unary("cast", a) EXCEPT !.to = c]
Return(c, a)      == [Unary("return", a) EXCEPT !.to = c]

Steps       == {"++x", "--x", "x++", "x--"}
Compares    == {"==", "!=", "<", "<=", ">", ">="}
Shifts      == {"<<", ">>"}
Arithmetics == {"+", "-", "*", "/", "%", "&", "|", "^"}
Logicals    == {"&&", "||"}
Expanded    == [x \in {"+=", "-=", "*=", "/=", "%=", "&=", "|=", "^=", "<<=", ">>="} |->
                CASE x = "+=" -> "+" [] x = "-=" -> "-" [] x = "*=" -> "*" [] x = "/=" -> "/"
                  [] x = "%=" -> "%" [] x = "&=" -> "&" [] x = "|=" -> "|" [] x = "^=" -> "^"
                  [] x = "<<=" -> "<<" [] x = ">>=" -> ">>"]
Compounds   == DOMAIN Expanded

RECURSIVE unpack_parens(_)
unpack_parens(a) == IF a.op = "paren" THEN unpack_parens(a.kids[1]) ELSE a

\* The nodes of a tree as sema_walk enters and as it leaves them.
RECURSIVE Entered(_)
Entered(a) ==
  LET upto[k \in 0 .. Len(a.kids)] ==
        IF k = 0 THEN <<a>> ELSE upto[k - 1] \o Entered(a.kids[k])
  IN  upto[Len(a.kids)]

RECURSIVE Left(_)
Left(a) ==
  LET upto[k \in 0 .. Len(a.kids)] ==
        IF k = 0 THEN <<>> ELSE upto[k - 1] \o Left(a.kids[k])
  IN  upto[Len(a.kids)] \o <<a>>

\* The first answer other than "ok".
Answer(answers) ==
  IF \E k \in DOMAIN answers : answers[k] # "ok"
  THEN answers[CHOOSE k \in DOMAIN answers :
                 answers[k] # "ok" /\ \A j \in 1 .. k - 1 : answers[j] = "ok"]
  ELSE "ok"
Reject(bad)    == IF bad THEN "error" ELSE "ok"
Require(cond)  == IF cond THEN "ok" ELSE "assert"

(***************************************************************************)
(* sema_compound_assignment and sema_subscript.  A node is named by its    *)
(* position p in the tree.                                                 *)
(***************************************************************************)
RECURSIVE sema_compound_assignment(_, _)
sema_compound_assignment(a, p) ==
  LET kids == [k \in DOMAIN a.kids |-> sema_compound_assignment(a.kids[k], 4 * p + k)]
      lhs  == [kids[1] EXCEPT !.twin = p]
  IN  IF a.op \in Compounds
      THEN [a EXCEPT !.op = "=",
                     !.kids = <<lhs, Binary(Expanded[a.op], lhs, kids[2])>>]
      ELSE [a EXCEPT !.kids = kids]

\* Mutation: only the root is expanded.
sema_subscript_Root(a) ==
  IF a.op = "subscript" THEN [a EXCEPT !.op = "deref", !.kids = <<Node("+", a.kids)>>] ELSE a

RECURSIVE sema_subscript(_)
sema_subscript(a) ==
  LET kids == [k \in DOMAIN a.kids |-> sema_subscript(a.kids[k])]
  IN  IF a.op = "subscript"
      THEN [a EXCEPT !.op = "deref", !.kids = <<Node("+", kids)>>]
      ELSE [a EXCEPT !.kids = kids]

(***************************************************************************)
(* sema_expr_types.                                                        *)
(***************************************************************************)
\* cast_if and promote_if_char
cast_if(c, a) ==
  IF is_equal(a.type, c) THEN a ELSE [CastTo(c, a) EXCEPT !.type = c]
promote_if_char(a) == IF is_charlike(a.type) THEN cast_if(INT, a) ELSE a
Promoted(a) == [a EXCEPT !.kids = [k \in DOMAIN a.kids |-> promote_if_char(a.kids[k])]]

\* The type of a node whose operands have theirs.
TypeOf(a) ==
  LET c(k) == a.kids[k].type
  IN  CASE a.op \in {"neg", "~", "paren", "return", "=", "<<", ">>"} \cup Steps -> c(1)
        [] a.op = "deref" -> IF is_pointer(c(1)) THEN Referent(c(1)) ELSE Type("error")
        [] a.op = "addr" ->   \* assert(a->expr_type.referent == NULL)
             IF a.type.of # <<>> THEN Type("assert") ELSE PointerTo(c(1))
        [] a.op = "sizeof" -> LIKE_SIZE_T
        [] a.op \in Compares \cup Logicals \cup {"!"} -> INT
        [] a.op = "-" /\ is_pointer(c(1)) /\ is_pointer(c(2)) -> LIKE_PTRDIFF_T
        [] a.op \in Arithmetics /\ ~ (a.op = "-" /\ is_pointer(c(1)) /\ is_pointer(c(2))) ->
             common_ctype(c(1), c(2))
        [] a.op = "?:" -> common_ctype(c(2), c(3))
        [] a.op = "cast" -> a.to
        [] OTHER -> a.type   \* leaves, if, switch

\* Mutation: shifts do not promote.
Promoting_NotShifts == {"neg", "~", "switch"} \cup Compares \cup Arithmetics

Promoting == {"neg", "~", "switch"} \cup Compares \cup Arithmetics \cup Shifts

\* Mutation: comparisons do not promote their operands.
Leave_ComparesNarrow(a) ==
  LET b == IF a.op \in Promoting \ Compares THEN Promoted(a) ELSE a
  IN  [b EXCEPT !.type = TypeOf(b)]

Leave(a) ==
  LET b == IF a.op \in Promoting THEN Promoted(a) ELSE a
  IN  [b EXCEPT !.type = TypeOf(b)]

TypeAnswer(a) == IF a.type.t \in {"error", "assert"} THEN a.type.t ELSE "ok"
TypesAnswer(a) == Answer([k \in DOMAIN Left(a) |-> TypeAnswer(Left(a)[k])])

\* sema_walk meets the condition of a ternary operator twice, and so it does
\* with the node that the two sides of a compound assignment share.
VisitedTwice(a, k) == a.kids[k].twin > 0 \/ (a.op = "?:" /\ k = 1)

RECURSIVE sema_expr_types(_)
sema_expr_types(a) ==
  LET visit(k) == LET once == sema_expr_types(a.kids[k])
                  IN  IF VisitedTwice(a, k) /\ TypesAnswer(once) = "ok"
                      THEN sema_expr_types(once) ELSE once
  IN  Leave([a EXCEPT !.kids = [k \in DOMAIN a.kids |-> visit(k)]])

(***************************************************************************)
(* The checks.                                                             *)
(***************************************************************************)
\* is_node_lvalue
is_lvalue(a) ==
  LET b == unpack_parens(a)
  IN  b.op = "var" \/ (b.op = "deref" /\ ~ is_void_ptr(b.kids[1].type))

\* Mutation: ++ and -- are not checked.
sema_lvalue_NotSteps(a) ==
  Reject(/\ a.op \in {"=", "addr"}
         /\ \/ ~ is_lvalue(a.kids[1])
            \/ a.op # "addr" /\ is_array(a.kids[1].type))

\* sema_lvalue
sema_lvalue(a) ==
  Reject(/\ a.op \in Steps \cup {"=", "addr"}
         /\ \/ ~ is_lvalue(a.kids[1])
            \/ a.op # "addr" /\ is_array(a.kids[1].type))

\* sema_non_scalar; arrays count as scalars, on their way to pointers.
sema_non_scalar(a) ==
  LET scalar(k) == ~ is_void(a.kids[k].type)
  IN  CASE a.op \in {"if", "switch", "neg", "!", "~", "deref", "addr"} -> Reject(~ scalar(1))
        [] a.op \in Arithmetics \cup Shifts \cup Logicals \cup Compares ->
             Reject(~ scalar(1) \/ ~ scalar(2))
        [] a.op = "?:" -> Reject(~ scalar(1) \/ scalar(2) # scalar(3))
        [] a.op = "cast" -> Reject(is_array(a.to) \/ (~ is_void(a.to) /\ ~ scalar(1)))
        [] a.op = "=" -> IF ~ scalar(1) THEN "assert" ELSE Reject(~ scalar(2))
        [] a.op \in Steps -> Require(scalar(1))
        [] OTHER -> "ok"

\* sema_incomplete_types
sema_incomplete_types(a) ==
  IF a.op # "sizeof" THEN "ok"
  ELSE IF ~ is_equal(a.type, LIKE_SIZE_T) THEN "assert"
  ELSE Reject(is_void(a.kids[1].type))

\* sema_double
sema_double(a) ==
  LET fp(k)  == is_floating_point(a.kids[k].type)
      ptr(k) == is_pointer(a.kids[k].type)
  IN  Reject(CASE a.op = "switch" -> fp(1)
               [] a.op = "~" -> is_floating_point(a.type)
               [] a.op \in {"%", "&", "|", "^"} \cup Shifts -> fp(1) \/ fp(2)
               [] a.op \in {"+", "-"} -> (fp(1) /\ ptr(2)) \/ (fp(2) /\ ptr(1))
               [] a.op = "cast" -> \/ is_floating_point(a.to) /\ ptr(1)
                                   \/ fp(1) /\ is_pointer(a.to)
               [] OTHER -> FALSE)

\* Mutation: void * always goes with any pointer.
Conflict_VoidIsAny(lhs, rhs, zero_as_null, voidp_as_any) ==
  /\ ~ is_equal(lhs, rhs)
  /\ IF is_pointer(lhs) /\ is_pointer(rhs) THEN ~ is_void_ptr(lhs) /\ ~ is_void_ptr(rhs)
     ELSE \/ is_pointer(lhs) /\ ~ (zero_as_null /\ nullptr_ish(rhs))
          \/ is_pointer(rhs) /\ ~ (zero_as_null /\ nullptr_ish(lhs))

\* sema_pointer_cmp_impl answers whether the types conflict.
Conflict(lhs, rhs, zero_as_null, voidp_as_any) ==
  CASE is_equal(lhs, rhs) -> FALSE
    [] ~ is_equal(lhs, rhs) /\ is_strlike_array(lhs) /\ is_strlike_array(rhs) ->
         lhs.sz + 1 < rhs.sz
    [] OTHER ->
         IF is_pointer(lhs) /\ is_pointer(rhs)
         THEN ~ (voidp_as_any /\ (is_void_ptr(lhs) \/ is_void_ptr(rhs)))
         ELSE \/ is_pointer(lhs) /\ ~ (zero_as_null /\ nullptr_ish(rhs))
              \/ is_pointer(rhs) /\ ~ (zero_as_null /\ nullptr_ish(lhs))

\* sema_pointer with sema_pointer_cmp_ptr_math
sema_pointer(a) ==
  LET c(k)      == a.kids[k].type
      ptr(k)    == is_pointer(c(k))
      voidp(k)  == is_void_ptr(c(k))
      as(x, y)  == Reject(Conflict(x, y, TRUE, TRUE))   \* sema_pointer_cmp
      strict(x, y) == Reject(Conflict(x, y, FALSE, FALSE))
  IN  CASE a.op = "return" -> as(a.to, c(1))
        [] a.op \in {"switch", "~", "neg"} -> Reject(ptr(1))
        [] a.op \in {"deref"} \cup Steps -> Reject(voidp(1))
        [] a.op = "+" -> Reject((ptr(1) /\ ptr(2)) \/ voidp(1) \/ voidp(2))
        [] a.op = "-" -> IF voidp(1) \/ voidp(2) THEN "error"
                         ELSE IF ptr(1) /\ is_integer(c(2)) THEN Require(is_equal(a.type, c(1)))
                         ELSE strict(c(1), c(2))
        [] a.op \in {"==", "!=", "="} -> as(c(1), c(2))
        [] a.op \in Compares \ {"==", "!="} -> strict(c(1), c(2))
        [] a.op \in {"*", "/", "%", "&", "|", "^"} \cup Shifts -> Reject(ptr(1) \/ ptr(2))
        [] a.op = "?:" -> as(c(2), c(3))
        [] OTHER -> "ok"

Checks == <<"lvalue", "non_scalar", "incomplete_types", "double", "pointer">>
Check(name, a) ==
  CASE name = "lvalue" -> sema_lvalue(a)
    [] name = "non_scalar" -> sema_non_scalar(a)
    [] name = "incomplete_types" -> sema_incomplete_types(a)
    [] name = "double" -> sema_double(a)
    [] name = "pointer" -> sema_pointer(a)

\* Every check enters a node before its operands.
CheckAnswer(name, a) == Answer([k \in DOMAIN Entered(a) |-> Check(name, Entered(a)[k])])

(***************************************************************************)
(* sema_implicit_cast.                                                     *)
(***************************************************************************)
PointerAndInteger(a) ==
  /\ a.op \in {"+", "-"}
  /\ \/ is_pointer(a.kids[1].type) /\ is_integer(a.kids[2].type)
     \/ is_integer(a.kids[1].type) /\ is_pointer(a.kids[2].type)

\* The type operand k of a is cast to.
CastType(a, k) ==
  LET c(j) == a.kids[j].type
  IN  CASE a.op = "return" -> a.to
        [] PointerAndInteger(a) -> IF is_integer(c(k)) THEN LIKE_PTRDIFF_T ELSE c(k)
        [] a.op \in Arithmetics \cup Logicals \cup Compares /\ ~ PointerAndInteger(a) ->
             common_ctype(c(1), c(2))
        [] a.op \in Shifts \cup {"="} -> IF k = 2 THEN c(1) ELSE c(k)
        [] a.op = "?:" -> IF k = 1 THEN c(k) ELSE common_ctype(c(2), c(3))
        [] OTHER -> c(k)

RECURSIVE sema_implicit_cast(_)
sema_implicit_cast(a) ==
  [a EXCEPT !.kids = [k \in DOMAIN a.kids |->
                        cast_if(CastType(a, k), sema_implicit_cast(a.kids[k]))]]

\* A function returns a value or none, as its type says.
ReturnAnswer(a) ==
  Reject(a.op = "return" /\ is_void(a.to) # is_void(a.kids[1].type))
=============================================================================
