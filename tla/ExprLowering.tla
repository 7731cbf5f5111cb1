----------------------------- MODULE ExprLowering -----------------------------
(***************************************************************************)
(* ir_expr of src/passes/ir.c and the functions it calls: an expression    *)
(* that went through the passes of module ExprTypes becomes a list of      *)
(* operations.  Calls are in module Calls and statements in Lowering.      *)
(* One counter, n, numbers temporaries and labels here.                    *)
(***************************************************************************)
EXTENDS ExprTypes, Assembly, TLC

\* What ir_expr answers: operations, the value and the counter.
Lowered(ops, val, n) == [ops |-> ops, val |-> val, n |-> n]

IRType(c)     == IF c.t = "schar" THEN "char" ELSE c.t
TempOf(c, n)  == Temp(IRType(c), n)
LabelOf(n)    == Val("label", "char", n, "")
Op1(op, a)    == Op(op, a, NoVal, NoVal, NoVal)
Op2(op, a, b) == Op(op, a, b, NoVal, NoVal)
Op3(op, a, b, c) == Op(op, a, b, c, NoVal)

Opcode == [x \in {"neg", "~", "!", "+", "-", "*", "/", "%", "&", "|", "^", "<<", ">>"}
                 \cup Compares |->
  CASE x = "neg" -> "neg" [] x = "~" -> "com" [] x = "!" -> "not"
    [] x = "+" -> "add" [] x = "-" -> "sub" [] x = "*" -> "mul" [] x = "/" -> "div"
    [] x = "%" -> "rem" [] x = "&" -> "and" [] x = "|" -> "or" [] x = "^" -> "xor"
    [] x = "<<" -> "shl" [] x = ">>" -> "shr" [] OTHER -> x]

\* The operation of ir_cast.
CastOpcode(from, to) ==
  IF is_floating_point(from) # is_floating_point(to)
  THEN IF is_floating_point(from)
       THEN IF is_signed(to) \/ is_charlike(to) THEN "d2i" ELSE "d2u"
       ELSE IF is_signed(from) THEN "i2d" ELSE "u2d"
  ELSE IF size_bytes(from) = size_bytes(to) \/ (is_pointer(from) /\ is_pointer(to)) THEN "copy"
  ELSE IF size_bytes(from) > size_bytes(to) THEN "trunc"
  ELSE IF is_signed(from) THEN "sext" ELSE "zext"

\* ir_expr_get_addr_implicit: an array stands for its address.
get_addr_implicit(r) ==
  LET len  == Len(r.ops)
      used == {k \in 1 .. 4 : r.ops[len - 1].args[k].sub # "none"}
  IN  CASE r.val.type # "array" -> r
        [] r.val.type = "array" /\ len > 1 /\ r.ops[len].op = "load" ->
             [r EXCEPT !.ops = SubSeq(@, 1, len - 1),
                       !.val = r.ops[len - 1].args[CHOOSE k \in used : \A j \in used : j =< k]]
        [] OTHER -> Lowered(Append(r.ops, Op2("addr", r.val, Temp("ptr", r.n))),
                            Temp("ptr", r.n), r.n + 1)

\* ir_assignment_lvalue: the node whose value is the address of the object
\* that is assigned to, if it is not a variable.
Indirect(a) ==
  LET candidate == unpack_parens(a.kids[1])
      inner     == unpack_parens(candidate.kids[1])
  IN  candidate.op = "deref" /\ inner.op # "addr"
AddressNode(a) == unpack_parens(unpack_parens(a.kids[1]).kids[1])

\* The node itself must be a variable, unless it is one under a cast.
DirectNode(a) ==
  LET b == unpack_parens(a.kids[1])
  IN  IF a.op = "=" /\ b.op = "cast" THEN b.kids[1] ELSE b
Direct(a) == TempOf(a.type, DirectNode(a).n)

ScaleOf(c) == size_bytes(Referent(c))

(***************************************************************************)
(* glue maps the left operand of a compound assignment that is being       *)
(* lowered (kludge.userdata) to the value that was loaded from it.         *)
(***************************************************************************)
RECURSIVE ir_expr(_, _, _)

\* ir_unary_op
ir_unary_op(a, n, glue) ==
  LET k     == a.kids[1]
      inner == ir_expr(k, n, glue)
      op    == CASE a.op = "deref" -> IF is_array(a.type) THEN "copy" ELSE "load"
                 [] a.op = "addr"  -> "addr"
                 [] OTHER -> Opcode[a.op]
      to    == TempOf(decay(a.type), inner.n)
  IN  IF a.op = "addr" /\ is_array(k.type) THEN inner
      ELSE Lowered(Append(inner.ops, Op2(op, inner.val, to)), to, inner.n + 1)

\* ir_cast
ir_cast(a, n, glue) ==
  LET inner == ir_expr(a.kids[1], n, glue)
      from  == a.kids[1].type
      to    == TempOf(decay(a.type), inner.n)
  IN  CASE is_void(a.to) -> [inner EXCEPT !.val = Dummy]
        [] ~ is_void(a.to) /\ is_equal(from, a.to) -> inner
        [] OTHER -> Lowered(Append(inner.ops, Op2(CastOpcode(from, a.to), inner.val, to)),
                            to, inner.n + 1)

\* ir_ptr_ptr_math and ir_ptr_math, after both operands.
ir_ptr_ptr_math(a, l, r) ==
  LET diff == TempOf(a.type, r.n)
      quot == TempOf(a.type, r.n + 1)
  IN  Lowered(l.ops \o r.ops \o
              <<Op3("sub", l.val, r.val, diff),
                Op3("div", diff, Const(IRType(a.type), ScaleOf(a.kids[1].type)), quot)>>,
              quot, r.n + 2)

ir_ptr_math(a, l, r) ==
  LET swap    == a.op = "+" /\ ~ is_pointer(a.kids[1].type)
      base    == IF swap THEN a.kids[2] ELSE a.kids[1]
      minus   == TempOf(a.kids[2].type, r.n + 1)
      to      == TempOf(decay(a.type), r.n)
      index   == IF a.op = "-" THEN minus ELSE IF swap THEN l.val ELSE r.val
  IN  Lowered(l.ops \o r.ops
              \o (IF a.op = "-" THEN <<Op2("neg", r.val, minus)>> ELSE <<>>)
              \o <<Op("ptr_add", IF swap THEN r.val ELSE l.val, index,
                      Const("char", ScaleOf(base.type)), to)>>,
              to, r.n + 2)

\* ir_binary_op
ir_binary_op(a, n, glue) ==
  LET l  == ir_expr(a.kids[1], n, glue)
      r  == ir_expr(a.kids[2], l.n, glue)
      p  == is_pointer(a.kids[1].type)
      q  == is_pointer(a.kids[2].type)
      to == TempOf(a.type, r.n)
  IN  CASE a.op = "-" /\ p /\ q -> ir_ptr_ptr_math(a, l, r)
        [] (a.op = "+" /\ (p \/ q)) \/ (a.op = "-" /\ p /\ ~ q) -> ir_ptr_math(a, l, r)
        [] OTHER -> Lowered(l.ops \o r.ops \o <<Op3(Opcode[a.op], l.val, r.val, to)>>,
                            to, r.n + 1)

\* ir_logical_op: the constants it copies keep the first type of all.
ir_logical_op(a, n, glue) ==
  LET l     == ir_expr(a.kids[1], n, glue)
      r     == ir_expr(a.kids[2], l.n, glue)
      jump  == IF a.op = "&&" THEN "jz" ELSE "jnz"
      lf    == LabelOf(r.n)
      end   == LabelOf(r.n + 1)
      to    == TempOf(a.type, r.n + 2)
      truth(b) == Op2("copy", Const("char", IF b THEN 1 ELSE 0), to)
  IN  Lowered(l.ops \o <<Op2(jump, l.val, lf)>> \o r.ops \o <<Op2(jump, r.val, lf)>>
              \o <<truth(a.op = "&&"), Op1("jump", end), Op1("label", lf),
                   truth(a.op = "||"), Op1("label", end)>>,
              to, r.n + 3)

\* ir_if_else for the ternary operator
ir_ternary(a, n, glue) ==
  LET c    == ir_expr(a.kids[1], n, glue)
      t    == ir_expr(a.kids[2], c.n, glue)
      e    == ir_expr(a.kids[3], t.n, glue)
      else == LabelOf(e.n)
      end  == LabelOf(e.n + 1)
      none == is_void(a.kids[2].type) \/ is_void(a.kids[3].type)
      give(k, r) == IF none THEN <<>>
                    ELSE <<Op2("copy", r.val, TempOf(a.kids[k].type, e.n + 2))>>
  IN  Lowered(c.ops \o <<Op2("jz", c.val, else)>> \o t.ops \o give(2, t)
              \o <<Op1("jump", end), Op1("label", else)>> \o e.ops \o give(3, e)
              \o <<Op1("label", end)>>,
              IF none THEN Dummy ELSE TempOf(a.type, e.n + 2), e.n + 3)

\* Mutation: the value is not kept for the right side.
ir_assignment_EvaluatesTwice(a, n, glue) ==
  LET addr == ir_expr(AddressNode(a), n, glue)
      rhs(m) == ir_expr(a.kids[2], m, glue)
  IN  IF Indirect(a)
      THEN Lowered(addr.ops \o rhs(addr.n).ops \o <<Op2("store", rhs(addr.n).val, addr.val)>>,
                   rhs(addr.n).val, rhs(addr.n).n)
      ELSE Lowered(Append(rhs(n).ops, Op2("copy", rhs(n).val, Direct(a))), rhs(n).val, rhs(n).n)

\* ir_assignment: the value of a compound assignment's left operand is loaded
\* once, before the right side.
ir_assignment(a, n, glue) ==
  LET addr   == ir_expr(AddressNode(a), n, glue)
      twin   == a.kids[1].twin
      loaded == TempOf(Referent(AddressNode(a).type), addr.n)
      rhs    == CASE ~ Indirect(a) -> ir_expr(a.kids[2], n, glue)
                  [] Indirect(a) /\ twin = 0 -> ir_expr(a.kids[2], addr.n, glue)
                  [] Indirect(a) /\ twin > 0 ->
                       ir_expr(a.kids[2], addr.n + 1, (twin :> loaded) @@ glue)
  IN  CASE ~ Indirect(a) ->
             Lowered(Append(rhs.ops, Op2("copy", rhs.val, Direct(a))), rhs.val, rhs.n)
        [] Indirect(a) ->
             Lowered(addr.ops
                     \o (IF twin > 0 THEN <<Op2("load", addr.val, loaded)>> ELSE <<>>)
                     \o rhs.ops \o <<Op2("store", rhs.val, addr.val)>>,
                     rhs.val, rhs.n)

\* ir_incr_decr
ir_incr_decr(a, n, glue) ==
  LET addr    == IF Indirect(a) THEN ir_expr(AddressNode(a), n, glue) ELSE Lowered(<<>>, NoVal, n)
      object  == IF Indirect(a) THEN TempOf(Referent(AddressNode(a).type), addr.n) ELSE Direct(a)
      stash   == TempOf(a.type, addr.n + 1)
      up      == a.op \in {"++x", "x++"}
      post    == a.op \in {"x++", "x--"}
      step    == IF is_pointer(a.type)
                 THEN Op("ptr_add", object, Const("long", IF up THEN 1 ELSE -1),
                         Const("long", ScaleOf(a.type)), object)
                 ELSE Op2(IF up THEN "inc" ELSE "dec", object, object)
  IN  Lowered(addr.ops
              \o (CASE ~ post -> <<>>
                    [] post /\ Indirect(a) -> <<Op2("load", addr.val, stash)>>
                    [] post /\ ~ Indirect(a) -> <<Op2("copy", object, stash)>>)
              \o (IF Indirect(a) THEN <<Op2("load", addr.val, object)>> ELSE <<>>)
              \o <<step>>
              \o (IF Indirect(a) THEN <<Op2("store", object, addr.val)>> ELSE <<>>),
              IF post THEN stash ELSE object, addr.n + 2)

\* *& and &* cancel.
Cancels(a) ==
  \/ a.op = "deref" /\ unpack_parens(a.kids[1]).op = "addr"
  \/ a.op = "addr" /\ unpack_parens(a.kids[1]).op = "deref"

ir_node(a, n, glue) ==
  CASE a.op = "const" -> Lowered(<<>>, Const(IRType(a.type), a.n), n)
    [] a.op = "var"   -> Lowered(<<>>, TempOf(a.type, a.n), n)
    [] a.op = "null"  -> Lowered(<<>>, NoVal, n)
    [] a.op = "sizeof" -> Lowered(<<>>, Const("ulong", size_bytes(a.kids[1].type)), n)
    [] a.op \in {"paren", "if", "switch"} -> ir_expr(a.kids[1], n, glue)
    [] Cancels(a) -> ir_expr(unpack_parens(a.kids[1]).kids[1], n, glue)
    [] a.op \in {"neg", "~", "!", "deref", "addr"} /\ ~ Cancels(a) -> ir_unary_op(a, n, glue)
    [] a.op = "cast"  -> ir_cast(a, n, glue)
    [] a.op \in Steps -> ir_incr_decr(a, n, glue)
    [] a.op = "="     -> ir_assignment(a, n, glue)
    [] a.op \in Logicals -> ir_logical_op(a, n, glue)
    [] a.op = "?:"    -> ir_ternary(a, n, glue)
    [] a.op \in Arithmetics \cup Shifts \cup Compares -> ir_binary_op(a, n, glue)
    [] a.op = "return" ->   \* ir_ret_op
         LET r == ir_expr(a.kids[1], n, glue)
             v == IF a.kids[1].op = "null" THEN Dummy ELSE r.val
         IN  [r EXCEPT !.ops = Append(@, Op1("ret", v)), !.val = v]

ir_expr(a, n, glue) ==
  IF a.twin \in DOMAIN glue THEN Lowered(<<>>, glue[a.twin], n)
  ELSE get_addr_implicit(ir_node(a, n, glue))

NoGlue == [x \in {} |-> NoVal]

(***************************************************************************)
(* The assertions that the tree must not fail on the way.                  *)
(***************************************************************************)
NodeAsserts(a) ==
  CASE a.op \in Steps \cup {"="} -> Indirect(a) \/ DirectNode(a).op = "var"
    [] OTHER -> TRUE

\* The nodes of a that ir_expr comes to.
RECURSIVE Reached(_)
Reached(a) ==
  {a} \cup (IF a.op = "sizeof" THEN {}
           ELSE UNION {Reached(a.kids[k]) : k \in DOMAIN a.kids})
LoweringAnswer(a) == Require(\A b \in Reached(a) : NodeAsserts(b))
=============================================================================
