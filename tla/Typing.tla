------------------------------- MODULE Typing -------------------------------
(***************************************************************************)
(* An expression on its way through sema_typecheck of src/passes/sema.c    *)
(* and ir_expr of src/passes/ir.c: the passes of module ExprTypes in their *)
(* order, then the lowering of module ExprLowering.  What comes out is     *)
(* compared with what C says of the expression (module CExpressions), and  *)
(* the operations are run by what they mean (module Meaning).              *)
(***************************************************************************)
EXTENDS ExprLowering, CExpressions, FiniteSets

CONSTANTS
  Sources,   \* the expressions, as the parser makes them, in a sequence of sets
  FirstTemp, \* the number of the first temporary
  Shapes     \* the operations that instruction selection is checked on

VARIABLES
  src,     \* the expression that was parsed
  tree,    \* the expression as the passes leave it
  pass,    \* the number of passes it went through
  verdict, \* "ok", "error" (a diagnostic), or "assert" (a failed assertion)
  lowered  \* what ir_expr answers

vars == <<src, tree, pass, verdict, lowered>>

Nothing == Lowered(<<>>, NoVal, FirstTemp)

Init ==
  /\ \E k \in DOMAIN Sources : src \in Sources[k]
  /\ tree = src
  /\ pass = 0 /\ verdict = "ok" /\ lowered = Nothing

\* A pass runs only if all before it succeeded.
Turn(n) == verdict = "ok" /\ pass = n - 1 /\ pass' = n /\ UNCHANGED src

CompoundAssignment ==
  Turn(1) /\ tree' = sema_compound_assignment(tree, 1) /\ UNCHANGED <<verdict, lowered>>

Subscript == Turn(2) /\ tree' = sema_subscript(tree) /\ UNCHANGED <<verdict, lowered>>

ExprTypesPass ==
  Turn(3) /\ tree' = sema_expr_types(tree) /\ verdict' = TypesAnswer(tree')
          /\ UNCHANGED lowered

CheckPass ==
  \E n \in DOMAIN Checks :
    Turn(3 + n) /\ verdict' = CheckAnswer(Checks[n], tree) /\ UNCHANGED <<tree, lowered>>

ImplicitCast ==
  /\ Turn(9) /\ verdict' = ReturnAnswer(tree)
  /\ tree' = IF verdict' = "ok" THEN sema_implicit_cast(tree) ELSE tree
  /\ UNCHANGED lowered

Lower ==
  /\ Turn(10) /\ verdict' = LoweringAnswer(tree)
  /\ lowered' = IF verdict' = "ok" THEN ir_expr(tree, FirstTemp, NoGlue) ELSE lowered
  /\ UNCHANGED tree

Next ==
  \/ CompoundAssignment \/ Subscript \/ ExprTypesPass \/ CheckPass
  \/ ImplicitCast \/ Lower
Spec == Init /\ [][Next]_vars

Done == pass = 10 \/ verdict # "ok"
Compiled == pass = 10 /\ verdict = "ok"

(***************************************************************************)
(* Running the operations.  A temporary is a cell like those of variables. *)
(***************************************************************************)
ValueOf(v, mem) ==
  CASE v.sub = "const" -> IF IsFp(v.type) THEN v.n ELSE Low(v.n, Word(v.type))
    [] v.sub = "temp"  -> Low(mem[Home(v.at)].v, Word(v.type))
    [] OTHER -> 0

\* Is v a value that is there?
Readable(v, mem) ==
  v.sub = "temp" => /\ Home(v.at) \in DOMAIN mem
                    /\ v.type = "array" \/ mem[Home(v.at)].w >= Word(v.type)

Put(v, n, mem) ==
  IF v.at >= FirstTemp THEN (Home(v.at) :> [v |-> n, w |-> Word(v.type)]) @@ mem
  ELSE Written(mem, Home(v.at), n, Word(v.type))

Target(code, label) == CHOOSE k \in DOMAIN code : code[k] = Op1("label", label)

\* The memory after the operations from pc on; <<>> when one of them reads or
\* writes what is not there.
RECURSIVE Executed(_, _, _)
Executed(code, pc, mem) ==
  IF pc > Len(code) THEN mem ELSE
  LET ir == code[pc]
      a  == ir.args[1]
      b  == ir.args[2]
      to == ir.args[ResultArg(ir)]
      reads == IF ir.op \in {"addr", "label", "jump"} THEN {}
               ELSE {1} \cup (IF ir.op = "store" \/ ResultArg(ir) > 2 THEN {2} ELSE {})
      v  == ValueOf(a, mem)
      u  == IF 2 \in reads THEN ValueOf(b, mem) ELSE 0
      next(m) == Executed(code, pc + 1, m)
  IN  IF \E k \in reads : ~ Readable(ir.args[k], mem) THEN <<>>
      ELSE CASE ir.op \in {"label", "ret"} -> next(mem)
        [] ir.op = "jump" -> Executed(code, Target(code, a), mem)
        [] ir.op \in Jumps ->
             Executed(code, IF IsZero(v, a.type) = (ir.op = "jz") THEN Target(code, b)
                            ELSE pc + 1, mem)
        [] ir.op = "addr" -> next(Put(to, Home(a.at), mem))
        [] ir.op = "load" ->
             IF v \notin DOMAIN mem THEN <<>>
             ELSE IF mem[v].w < Word(to.type) THEN <<>>
             ELSE next(Put(to, Low(mem[v].v, Word(to.type)), mem))
        [] ir.op = "store" ->
             IF u \notin DOMAIN mem THEN <<>>
             ELSE IF mem[u].w < Word(a.type) THEN <<>>
             ELSE next(Written(mem, u, v, Word(a.type)))
        [] OTHER -> next(Put(to, Meaning(ir, v, u, a.type, Word(to.type)), mem))

(***************************************************************************)
(* The memory an expression is evaluated in.  Pointers point into two      *)
(* arrays of three elements.                                               *)
(***************************************************************************)
Pools == {Variable(7, ArrayOf(Type("char"), 3)), Variable(8, ArrayOf(INT, 3))}
Pool(c) == Home(IF is_charlike(c) THEN 7 ELSE 8)

Samples(c) ==
  CASE is_charlike(c) -> {0, 3, 2^W8 - 1}
    [] c.t = "double" -> {FromInt(0), Rounded(1), FromInt(-3)}
    [] c.t \in {"int", "uint"} -> {0, 1, 2^W32 - 1}
    [] c.t \in {"long", "ulong"} -> {0, 2^W32 + 1, 2^W64 - 1}
    [] c.t = "ptr" -> {0, Pool(Referent(c)) + 2 * size_bytes(Referent(c))}
    [] c.t = "array" -> {0}

VariablesOf(a) == {b \in {Entered(a)[k] : k \in DOMAIN Entered(a)} : b.op = "var"}

Element(c) == IF is_array(c) THEN Referent(c) ELSE c
CellsOf(x)  == {Home(x.n) + k * size_bytes(Element(x.type)) :
               k \in 0 .. (IF is_array(x.type) THEN x.type.sz ELSE 1) - 1}

Memories(a) ==
  LET xs    == VariablesOf(a)
      all   == xs \cup Pools
      at(c) == CHOOSE x \in all : c \in CellsOf(x)
      picks == {f \in [xs -> UNION {Samples(x.type) : x \in xs}] :
                \A x \in xs : f[x] \in Samples(x.type)}
      cell(f, c) == [v |-> IF is_array(at(c).type) THEN 1 + c - Home(at(c).n) ELSE f[at(c)],
                     w |-> Bits(Element(at(c).type))]
  IN  {[c \in UNION {CellsOf(x) : x \in all} |-> cell(f, c)] : f \in picks}

(***************************************************************************)
(* Properties.                                                             *)
(***************************************************************************)
AnyNode(a, P(_)) == \E k \in DOMAIN Entered(a) : P(Entered(a)[k])

\* A tree of the right shape: what the first two passes expand is gone, and
\* every node has a type once types are propagated.
TypeOK ==
  /\ pass \in 0 .. 10 /\ verdict \in {"ok", "error", "assert"}
  /\ pass >= 1 => ~ AnyNode(tree, LAMBDA b : b.op \in Compounds)
  /\ pass >= 2 => ~ AnyNode(tree, LAMBDA b : b.op = "subscript")
  /\ pass >= 3 /\ verdict = "ok" =>
       ~ AnyNode(tree, LAMBDA b : b.type.t \in {"error", "assert"})

(***************************************************************************)
(* The expressions that are known to go wrong.                             *)
(***************************************************************************)
KidType(b, k) == CType(b.kids[k])
HasAddr(b)    == AnyNode(b, LAMBDA c : c.op = "addr")

\* & in a node that sema_walk meets twice fails assert(referent == NULL).
AddressVisitedTwice(b) == b.op \in Compounds \cup {"?:"} /\ HasAddr(b.kids[1])

\* *&x cannot be assigned to: ir_assignment and ir_incr_decr assert that what
\* is left is a variable.
AssignedThroughAddress(b) ==
  /\ b.op \in Steps \cup {"="}
  /\ LET c == unpack_parens(b.kids[1]) IN c.op = "deref" /\ unpack_parens(c.kids[1]).op = "addr"

FailsAssertion(a) ==
  AnyNode(a, LAMBDA b : AddressVisitedTwice(b) \/ AssignedThroughAddress(b))

\* Arrays of different sizes do not become pointers of one type.
ArraysOfTwoSizes(b) ==
  /\ Len(b.kids) > 1
  /\ LET c == KidType(b, Len(b.kids) - 1)  d == KidType(b, Len(b.kids))
     IN  is_array(c) /\ is_array(d) /\ c # d /\ decay(c) = decay(d)

\* The result of arithmetic on a null pointer constant keeps its flag, and
\* that of a cast loses it.
NullOperand(b) ==
  /\ b.op \in Arithmetics \cup {"neg", "~"} \/ (b.op = "cast" /\ is_integer(b.to))
  /\ \E k \in DOMAIN b.kids : NullConstant(b.kids[k])

WrongVerdict(a) == AnyNode(a, LAMBDA b : ArraysOfTwoSizes(b) \/ NullOperand(b))

\* A pointer and a double are converted to one type to be conditions.
MixedConditions(b) ==
  /\ b.op \in Logicals
  /\ \E k \in 1 .. 2 : is_pointer(KidType(b, k)) /\ KidType(b, 3 - k).t = "double"

\* The operands of ?: are not promoted, nor do arrays become pointers.
UnpromotedTernary(b) ==
  /\ b.op = "?:"
  /\ \/ is_charlike(KidType(b, 2)) /\ is_charlike(KidType(b, 3))
     \/ is_array(KidType(b, 2)) \/ is_array(KidType(b, 3))

\* An array that is converted is converted by the size of the array.
ConvertedArray(b) ==
  \/ b.op = "cast" /\ is_array(KidType(b, 1)) /\ is_integer(b.to)
  \/ /\ b.op \in Compares \cup Logicals
     /\ \E k \in 1 .. 2 : is_array(KidType(b, k)) /\ ~ is_pointer(KidType(b, 3 - k))

\* The result of array arithmetic keeps the type of the array.
SizeOfArithmetic(b) ==
  /\ b.op = "sizeof"
  /\ AnyNode(b, LAMBDA c : c.op \in {"+", "-"} /\ \E k \in 1 .. 2 : is_array(KidType(c, k)))

WrongCode(a) ==
  AnyNode(a, LAMBDA b : \/ MixedConditions(b) \/ UnpromotedTernary(b)
                       \/ ConvertedArray(b) \/ SizeOfArithmetic(b))

(***************************************************************************)
(* Properties.                                                             *)
(***************************************************************************)
\* No assertion of the passes or of the lowering fails, whatever expression
\* the parser accepts: what a later pass asserts, an earlier one has checked.
AssertionsHold == verdict # "assert" \/ FailsAssertion(src)

\* The passes reject an expression exactly when it violates a constraint of C:
\* the checks run one after the other over types that an earlier pass may have
\* changed, and together they neither miss a constraint nor add one.
RejectsExactly ==
  Done /\ verdict # "assert" /\ ~ WrongVerdict(src) =>
    (verdict = "error") = IsInvalid(CType(src))

Accepted == verdict = "ok" /\ ~ IsInvalid(CType(src))

\* sema_expr_types gives every expression that C gives a type that type, also
\* where it visits a node twice.  (A return statement has the type of its
\* operand until the implicit casts are in.)
TypesFollowC ==
  pass = 3 /\ Accepted /\ src.op # "return" /\ ~ WrongCode(src) =>
    is_equal_impl(decay(tree.type), decay(CType(src)), FALSE)

OperationShape(o) ==
  LET type(k) == IF o.args[k].type = "array" THEN "ptr" ELSE o.args[k].type
  IN  <<o.op, [k \in 1 .. 4 |-> <<o.args[k].sub, type(k)>>]>>

\* Every operation that ir_expr makes has the kinds and the types of operands
\* that instruction selection takes: the promotions and implicit casts leave
\* no narrow operand, no two types, nothing void.
OperationsAreSelected ==
  Compiled /\ Accepted /\ ~ WrongCode(src) =>
    \A k \in DOMAIN lowered.ops :
      lowered.ops[k].op \in {"label", "jump"} \/ OperationShape(lowered.ops[k]) \in Shapes

\* got is the memory that was asked for, with the value in it.
Matches(want, got, m) ==
  want.ok =>
    /\ \A c \in DOMAIN m : c \in DOMAIN got /\ got[c] = want.mem[c]
    /\ ~ is_void(CType(src)) /\ lowered.val.sub # "none" =>
         Readable(lowered.val, got) /\ ValueOf(lowered.val, got) = want.v
\* Run in the memory m, the operations leave the memory and the value that C
\* prescribes, if it prescribes any.
Agrees(m) == Matches(Value(src, m), Executed(lowered.ops, 1, m), m)

\* The expression that was lowered has the value and the side effects of the
\* expression in the source: conversions by width and sign, pointer steps,
\* the operand of a compound assignment evaluated once, && || ?: evaluating
\* only what they choose.
ComputesTheValue ==
  Compiled /\ Accepted /\ ~ WrongCode(src) => \A m \in Memories(src) : Agrees(m)
=============================================================================
