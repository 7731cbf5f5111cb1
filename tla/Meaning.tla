------------------------------- MODULE Meaning -------------------------------
(***************************************************************************)
(* What the operations of the intermediate representation mean.  The code  *)
(* generator is checked against it (module Instructions), and the lowering *)
(* of expressions is run by it (module Typing).                            *)
(***************************************************************************)
EXTENDS Machine

\* The number that the bits v are in an integer type.
Number2(v, t) == IF IsSigned(t) THEN Signed(v, Word(t)) ELSE v

Comparison(op, a, b) ==
  CASE op = "==" -> a = b [] op = "!=" -> a # b [] op = "<" -> a < b
    [] op = "<=" -> a =< b [] op = ">" -> a > b [] op = ">=" -> a >= b

\* Is v the zero of its type?
IsZero(v, t) == IF IsFp(t) THEN ~ IsNaN(v) /\ Number(v) = 0 ELSE v = 0

\* Does C define the operation on these values, of type t, with a result of
\* type to?
Defined(ir, v, u, t, to) ==
  LET a == Number2(v, t)  b == Number2(u, t)
  IN  /\ ir.op \in {"div", "rem"} /\ ~ IsFp(t) => b # 0 /\ ~ (b = -1 /\ a = - 2^(Word(t) - 1))
      /\ ir.op \in {"shl", "shr"} => b \in 0 .. Word(t) - 1
      /\ ir.op \in {"d2i", "d2u"} =>
           /\ ~ IsNaN(v)
           /\ IF IsSigned(to)
              THEN - 2^(Word(to) - 1) =< Toward0(v) /\ Toward0(v) < 2^(Word(to) - 1)
              ELSE 0 =< Toward0(v) /\ Toward0(v) < 2^Word(to)

\* Division of integers rounds toward zero.
Truncated(a, b) ==
  IF (a < 0) = (b < 0) THEN Abs(a) \div Abs(b) ELSE - (Abs(a) \div Abs(b))

\* The bits of the result of an operation on integers.
IntegerMeaning(ir, v, u, t, w) ==
  LET a == Number2(v, t)  b == Number2(u, t)
  IN  CASE ir.op = "neg" -> Low(- a, w)
        [] ir.op = "com" -> Low(- a - 1, w)
        [] ir.op = "inc" -> Low(a + 1, w)
        [] ir.op = "dec" -> Low(a - 1, w)
        [] ir.op = "add" -> Low(a + b, w)
        [] ir.op = "sub" -> Low(a - b, w)
        [] ir.op = "mul" -> Low(a * b, w)
        [] ir.op = "div" -> Low(Truncated(a, b), w)
        [] ir.op = "rem" -> Low(a - b * Truncated(a, b), w)
        [] ir.op \in {"and", "or", "xor"} -> Low(Bitwise2(ir.op, v, u), w)
        [] ir.op = "shl" -> Low(a * 2^b, w)
        [] ir.op = "shr" -> Low(a \div 2^b, w)
        [] ir.op \in {"copy", "ret", "store"} -> Low(a, w)
        [] ir.op = "sext" -> Low(Signed(v, Word(t)), w)
        [] ir.op \in {"zext", "trunc"} -> Low(v, w)
        [] ir.op = "i2d" -> FromInt(Signed(v, Word(t)))
        [] ir.op = "u2d" -> FromInt(v)
        [] ir.op = "ptr_add" -> Low(v + Signed(u, W64) * ir.args[3].n, w)

FpMeaning(ir, v, u, w) ==
  CASE ir.op = "neg" -> Negated(v)
    [] ir.op = "inc" -> FpArith("add", v, FromInt(1))
    [] ir.op = "dec" -> FpArith("sub", v, FromInt(1))
    [] ir.op \in {"add", "sub", "mul", "div"} -> FpArith(ir.op, v, u)
    [] ir.op \in {"copy", "ret", "store"} -> v
    [] ir.op \in {"d2i", "d2u"} -> Low(Toward0(v), w)

Truth(b) == IF b THEN 1 ELSE 0

\* The bits of the result, w of them, of an operation whose arguments are v and
\* u, the first of type t.
Meaning(ir, v, u, t, w) ==
  CASE ir.op = "not" -> Truth(IsZero(v, t))
    [] ir.op \in Comparisons ->
         Truth(IF ~ IsFp(t) THEN Comparison(ir.op, Number2(v, t), Number2(u, t))
               ELSE IF IsNaN(v) \/ IsNaN(u) THEN ir.op = "!="
               ELSE Comparison(ir.op, Number(v), Number(u)))
    [] OTHER -> IF IsFp(t) THEN FpMeaning(ir, v, u, w) ELSE IntegerMeaning(ir, v, u, t, w)

\* The argument that takes the result.
ResultArg(ir) ==
  CASE ir.op \in Comparisons \cup Arithmetic \cup Bitwises \cup {"div", "rem"} -> 3
    [] ir.op = "ptr_add" -> 4
    [] ir.op \in {"ret", "jz", "jnz"} -> 1
    [] OTHER -> 2
=============================================================================
