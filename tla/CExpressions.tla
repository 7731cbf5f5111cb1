---------------------------- MODULE CExpressions ----------------------------
(***************************************************************************)
(* What C89 says of expressions: the type of an expression, or that a      *)
(* constraint is violated, and its value and side effects.  It is written  *)
(* over the trees the parser makes and knows nothing of the compiler.      *)
(***************************************************************************)
EXTENDS ExprTypes, Meaning, TLC

(***************************************************************************)
(* Types.                                                                  *)
(***************************************************************************)
Invalid       == Type("error")
IsInvalid(c)  == c.t = "error"
Arithmetical(c) == is_integer(c) \/ c.t = "double"
Scalar(c)     == Arithmetical(c) \/ c.t = "ptr"
ToObject(c)   == c.t = "ptr" /\ ~ is_void(Referent(c))
Plain(c)      == [c EXCEPT !.null = FALSE]
IntegralPromotion(c) == IF is_charlike(c) THEN INT ELSE Plain(c)

\* The usual arithmetic conversions; a long holds every unsigned int.
UsualConversion(c, d) ==
  LET kinds == {IntegralPromotion(c).t, IntegralPromotion(d).t}
  IN  CASE "double" \in kinds -> Type("double")
        [] "double" \notin kinds /\ "ulong" \in kinds -> Type("ulong")
        [] kinds \cap {"double", "ulong"} = {} /\ "long" \in kinds -> Type("long")
        [] kinds \subseteq {"int", "uint"} -> Type(IF "uint" \in kinds THEN "uint" ELSE "int")

\* A null pointer constant, as far as the trees here have any.
RECURSIVE NullConstant(_)
NullConstant(a) ==
  \/ a.op = "const" /\ is_integer(a.type) /\ a.n = 0
  \/ a.op = "paren" /\ NullConstant(a.kids[1])
  \/ a.op = "cast" /\ NullConstant(a.kids[1]) /\ (is_integer(a.to) \/ is_void_ptr(a.to))

RECURSIVE IsLvalue(_)
IsLvalue(a) == a.op \in {"var", "deref", "subscript"} \/ (a.op = "paren" /\ IsLvalue(a.kids[1]))

\* May a value of type d, of the expression a, be assigned to an object of
\* type c?
Assignable(c, d, a) ==
  \/ Arithmetical(c) /\ Arithmetical(d)
  \/ c.t = "ptr" /\ (c = d \/ (d.t = "ptr" /\ (is_void_ptr(c) \/ is_void_ptr(d))) \/ NullConstant(a))

\* The type of a binary operator over operands of types c and d.
BinaryType(op, c, d) ==
  LET arithmetic == Arithmetical(c) /\ Arithmetical(d)
      integers   == is_integer(c) /\ is_integer(d)
      common     == UsualConversion(c, d)
  IN  CASE op = "+" /\ ToObject(c) /\ is_integer(d) -> c
        [] op = "+" /\ is_integer(c) /\ ToObject(d) -> d
        [] op = "-" /\ ToObject(c) /\ is_integer(d) -> c
        [] op = "-" /\ ToObject(c) /\ c = d -> LONG
        [] op \in {"+", "-", "*", "/"} /\ arithmetic -> common
        [] op \in {"%", "&", "|", "^"} /\ integers -> common
        [] op \in Shifts /\ integers -> IntegralPromotion(c)
        [] OTHER -> Invalid

\* The type of a from the types of its operands: raw as they are, c as they
\* are when an array has become a pointer.
TypeFrom(a, raw, c) ==
  LET ok(b, t) == IF b THEN t ELSE Invalid
      same    == c[1] = c[2]
      voidps  == c[1].t = "ptr" /\ c[2].t = "ptr" /\ (is_void_ptr(c[1]) \/ is_void_ptr(c[2]))
      nulls(j, k) == (c[j].t = "ptr" /\ NullConstant(a.kids[k]))
  IN  CASE a.op \in {"const", "var", "null"} -> a.type
        [] a.op = "paren"  -> raw[1]
        [] a.op = "neg"    -> ok(Arithmetical(c[1]), IntegralPromotion(c[1]))
        [] a.op = "~"      -> ok(is_integer(c[1]), IntegralPromotion(c[1]))
        [] a.op = "!"      -> ok(Scalar(c[1]), INT)
        [] a.op = "deref"  -> ok(ToObject(c[1]), IF c[1].t = "ptr" THEN Referent(c[1]) ELSE Invalid)
        [] a.op = "addr"   -> ok(IsLvalue(a.kids[1]), PointerTo(raw[1]))
        [] a.op = "sizeof" -> ok(~ is_void(raw[1]), LIKE_SIZE_T)
        [] a.op \in Steps  -> ok(/\ IsLvalue(a.kids[1]) /\ raw[1].t # "array"
                                 /\ Arithmetical(c[1]) \/ ToObject(c[1]), raw[1])
        [] a.op \in Arithmetics \cup Shifts -> BinaryType(a.op, c[1], c[2])
        [] a.op \in Compares ->
             ok(\/ Arithmetical(c[1]) /\ Arithmetical(c[2])
                \/ c[1].t = "ptr" /\ same
                \/ a.op \in {"==", "!="} /\ (voidps \/ nulls(1, 2) \/ nulls(2, 1)), INT)
        [] a.op \in Logicals -> ok(Scalar(c[1]) /\ Scalar(c[2]), INT)
        [] a.op = "subscript" ->
             LET p == BinaryType("+", c[1], c[2])
             IN  IF p.t = "ptr" THEN Referent(p) ELSE Invalid
        [] a.op = "cast"   -> ok(\/ is_void(a.to)
                                 \/ /\ Scalar(a.to) /\ Scalar(c[1])
                                    /\ {a.to.t, c[1].t} # {"ptr", "double"}, a.to)
        [] a.op = "="      -> ok(/\ IsLvalue(a.kids[1]) /\ raw[1].t # "array"
                                 /\ Assignable(c[1], c[2], a.kids[2]), Plain(raw[1]))
        [] a.op \in Compounds ->
             LET t == BinaryType(Expanded[a.op], c[1], c[2])
             IN  ok(/\ IsLvalue(a.kids[1]) /\ raw[1].t # "array" /\ ~ IsInvalid(t)
                    /\ IF c[1].t = "ptr" THEN t = c[1] ELSE Arithmetical(t), Plain(raw[1]))
        [] a.op = "?:" ->
             LET d == c[2]  e == c[3]
             IN  IF ~ Scalar(c[1]) THEN Invalid ELSE
                 CASE Arithmetical(d) /\ Arithmetical(e) -> UsualConversion(d, e)
                   [] is_void(d) /\ is_void(e) -> d
                   [] d.t = "ptr" /\ (d = e \/ nulls(2, 3)) -> d
                   [] e.t = "ptr" /\ d # e /\ nulls(3, 2) -> e
                   [] d.t = "ptr" /\ e.t = "ptr" /\ d # e /\ (is_void_ptr(d) \/ is_void_ptr(e)) ->
                        PointerTo(Type("void"))
                   [] OTHER -> Invalid
        [] a.op = "if"     -> ok(Scalar(c[1]), a.type)
        [] a.op = "switch" -> ok(is_integer(c[1]), a.type)
        [] a.op = "return" ->
             ok(IF is_void(a.to) THEN a.kids[1].op = "null"
                ELSE Assignable(a.to, c[1], a.kids[1]), a.to)

RECURSIVE CType(_)
TypeOver(a, raw) ==
  IF \E k \in DOMAIN raw : IsInvalid(raw[k]) THEN Invalid
  ELSE TypeFrom(a, raw, [k \in DOMAIN raw |-> Plain(decay(raw[k]))])
CType(a) == TypeOver(a, [k \in DOMAIN a.kids |-> CType(a.kids[k])])

(***************************************************************************)
(* Values.  Memory maps an address to the bits of the scalar that is there *)
(* and their number.  ok is FALSE when C does not define what happens.     *)
(***************************************************************************)
Home(id) == 64 * id   \* the address of the variable with this ID
Kind(c) == IF c.t = "schar" THEN "char" ELSE IF c.t = "array" THEN "ptr" ELSE c.t
Bits(c) == Word(Kind(c))
Answered(v, mem, ok) == [v |-> v, mem |-> mem, ok |-> ok]

Written(mem, at, v, w) ==
  [mem EXCEPT ![at] = IF @.w =< w THEN [v |-> v, w |-> w]
                      ELSE [@ EXCEPT !.v = v + (@ - Low(@, w))]]

InRange(n, w, signed) ==
  IF signed THEN - 2^(w - 1) =< n /\ n < 2^(w - 1) ELSE 0 =< n /\ n < 2^w

\* Conversion of the value v from type c to type d.
Converted(v, c, d) ==
  CASE is_void(d) -> 0
    [] c.t = "double" /\ d.t = "double" -> v
    [] c.t = "double" /\ d.t # "double" /\ ~ is_void(d) -> Low(Toward0(v), Bits(d))
    [] c.t # "double" /\ d.t = "double" -> FromInt(Number2(v, Kind(c)))
    [] OTHER -> Low(Number2(v, Kind(c)), Bits(d))
Convertible(v, c, d) ==
  c.t = "double" /\ is_integer(d) => ~ IsNaN(v) /\ InRange(Toward0(v), Bits(d), is_signed(d))

\* An operator on two values of one arithmetic type, and on two pointers.
MeaningOf == [x \in {"+", "-", "*", "/", "%", "&", "|", "^", "<<", ">>"} |->
  CASE x = "+" -> "add" [] x = "-" -> "sub" [] x = "*" -> "mul" [] x = "/" -> "div"
    [] x = "%" -> "rem" [] x = "&" -> "and" [] x = "|" -> "or" [] x = "^" -> "xor"
    [] x = "<<" -> "shl" [] x = ">>" -> "shr"]
OpOf(x)             == Op(IF x \in Compares THEN x ELSE MeaningOf[x], NoVal, NoVal, NoVal, NoVal)
Applied(x, v, u, c) == Meaning(OpOf(x), v, u, Kind(c), Bits(c))
Applicable(x, v, u, c) == Defined(OpOf(x), v, u, Kind(c), Kind(c))

\* op over the values v of type c and u of type d.
Computed(op, v, c, u, d) ==
  LET t == UsualConversion(c, d)
      size(p) == size_bytes(Referent(p))
      steps(n, k) == Number2(n, Kind(k))
      diff == Signed(Low(v - u, W64), W64)
  IN  CASE c.t = "ptr" /\ op \in {"+", "-"} /\ d.t # "ptr" ->
             Answered(Low(IF op = "+" THEN v + steps(u, d) * size(c)
                          ELSE v - steps(u, d) * size(c), W64), <<>>, TRUE)
        [] d.t = "ptr" /\ op = "+" ->
             Answered(Low(u + steps(v, c) * size(d), W64), <<>>, TRUE)
        [] c.t = "ptr" /\ d.t = "ptr" /\ op = "-" ->
             Answered(Low(Truncated(diff, size(c)), W64), <<>>, diff % size(c) = 0)
        [] op \in Compares /\ (c.t = "ptr" \/ d.t = "ptr") ->
             Answered(Truth(Comparison(op, v, u)), <<>>, TRUE)
        [] op \in Shifts ->
             LET p == IntegralPromotion(c)  n == Number2(u, Kind(d))
                 by == IF InRange(n, Bits(p), FALSE) /\ n < Bits(p) THEN n ELSE 0
             IN  Answered(Applied(op, Converted(v, c, p), by, p), <<>>, by = n)
        [] OTHER ->
             LET x == Converted(v, c, t)  y == Converted(u, d, t)
             IN  IF Applicable(op, x, y, t) THEN Answered(Applied(op, x, y, t), <<>>, TRUE)
                 ELSE Answered(0, <<>>, FALSE)

\* The object a designates, by its address, and the value of a.
RECURSIVE Location(_, _)
RECURSIVE Value(_, _)

Location(a, mem) ==
  CASE a.op = "var" -> Answered(Home(a.n), mem, TRUE)
    [] a.op = "paren" -> Location(a.kids[1], mem)
    [] a.op = "deref" -> Value(a.kids[1], mem)
    [] a.op = "subscript" -> Value(Binary("+", a.kids[1], a.kids[2]), mem)

\* What object e holds at type c.
Held(e, c) ==
  IF ~ e.ok \/ e.v \notin DOMAIN e.mem THEN [e EXCEPT !.ok = FALSE]
  ELSE [e EXCEPT !.v = Low(e.mem[e.v].v, Bits(c)), !.ok = e.mem[e.v].w >= Bits(c)]

\* The value v of type from goes to the object at of type c; give is the value
\* of the expression.
Stored(mem, at, v, from, c, ok) ==
  IF ~ ok \/ at \notin DOMAIN mem THEN Answered(0, mem, FALSE)
  ELSE IF ~ Convertible(v, from, c) \/ mem[at].w < Bits(c) THEN Answered(0, mem, FALSE)
  ELSE Answered(Converted(v, from, c), Written(mem, at, Converted(v, from, c), Bits(c)), TRUE)

\* The value of a, of type t, over operands of the types C.
ValueFrom(a, t, C, mem) ==
  LET x     == Value(a.kids[1], mem)
      y     == Value(a.kids[2], x.mem)   \* after the first operand
      true(e, k) == ~ IsZero(e.v, Kind(C[k]))
      result(v, e) == Answered(v, e.mem, e.ok)
  IN
  CASE a.op = "const" -> Answered(IF a.type.t = "double" THEN a.n ELSE Low(a.n, Bits(a.type)), mem, TRUE)
    [] a.op = "null"  -> Answered(0, mem, TRUE)
    [] a.op = "paren" -> x
    [] a.op = "if" -> x
    [] a.op = "switch" -> result(Converted(x.v, C[1], IntegralPromotion(C[1])), x)
    [] a.op = "addr"  -> Location(a.kids[1], mem)
    [] a.op \in {"var", "deref", "subscript"} ->
         IF is_array(t) THEN Location(a, mem) ELSE Held(Location(a, mem), t)
    [] a.op \in {"neg", "~"} ->
         LET v == Converted(x.v, C[1], t)
         IN  result(IF a.op = "~" THEN Low(- 1 - v, Bits(t))
                    ELSE IF t.t = "double" THEN Negated(v) ELSE Low(- v, Bits(t)), x)
    [] a.op = "!"     -> result(Truth(~ true(x, 1)), x)
    [] a.op = "sizeof" -> Answered(size_bytes(CType(a.kids[1])), mem, TRUE)
    [] a.op = "cast"  -> Answered(Converted(x.v, C[1], a.to), x.mem,
                                  x.ok /\ Convertible(x.v, C[1], a.to))
    [] a.op = "return" -> Answered(Converted(x.v, C[1], a.to), x.mem,
                                   x.ok /\ Convertible(x.v, C[1], a.to))
    [] a.op \in Steps ->
         LET at  == Location(a.kids[1], mem)
             old == Held(at, t)
             op  == IF a.op \in {"++x", "x++"} THEN "+" ELSE "-"
             new == Computed(op, old.v, t, 1, INT)
             of  == IF t.t = "ptr" THEN t ELSE UsualConversion(t, INT)
             put == Stored(old.mem, at.v, new.v, of, t, old.ok)
         IN  IF a.op \in {"x++", "x--"} THEN result(old.v, put) ELSE put
    [] a.op \in Arithmetics \cup Shifts \cup Compares ->
         LET r == Computed(a.op, x.v, C[1], y.v, C[2])
         IN  Answered(r.v, y.mem, x.ok /\ y.ok /\ r.ok)
    [] a.op \in Logicals ->
         IF ~ x.ok \/ true(x, 1) = (a.op = "||") THEN result(Truth(a.op = "||"), x)
         ELSE result(Truth(true(y, 2)), y)
    [] a.op = "?:"    ->
         LET k == IF true(x, 1) THEN 2 ELSE 3
             e == Value(a.kids[k], x.mem)
         IN  Answered(Converted(e.v, C[k], t), e.mem, x.ok /\ e.ok)
    [] a.op = "="     ->
         LET at == Location(a.kids[1], mem)
             e  == Value(a.kids[2], at.mem)
         IN  Stored(e.mem, at.v, e.v, C[2], t, at.ok /\ e.ok)
    [] a.op \in Compounds ->
         LET at  == Location(a.kids[1], mem)
             old == Held(at, t)
             e   == Value(a.kids[2], old.mem)
             op  == Expanded[a.op]
             new == Computed(op, old.v, C[1], e.v, C[2])
         IN  Stored(e.mem, at.v, new.v, BinaryType(op, C[1], C[2]), t,
                    old.ok /\ e.ok /\ new.ok)
Value(a, mem) == ValueFrom(a, CType(a), [k \in DOMAIN a.kids |-> decay(CType(a.kids[k]))], mem)
=============================================================================
