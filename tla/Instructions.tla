---------------------------- MODULE Instructions ----------------------------
(***************************************************************************)
(* The back end on one operation of the intermediate representation:       *)
(* instruction selection (module Selection), the replacement of pseudo     *)
(* registers by memory, the twelve fixers (module Fixup), and the          *)
(* processor that runs the result (module Machine).  No register carries a *)
(* value from one operation to the next, so that operations can be taken   *)
(* one at a time.                                                          *)
(***************************************************************************)
EXTENDS Selection, Fixup, Meaning, FiniteSets

CONSTANTS Scales   \* sizes of the types that pointers point to

ASSUME DoubleAssumption ==
  /\ PlusZero = FromInt(0) /\ MinusZero = Negated(PlusZero) /\ One = FromInt(1)
  /\ IntMaxAsDouble = FromInt(INT_MAX)
ASSUME ScaleAssumption == Scales \subseteq Nat \ {0}

VARIABLES
  ir,    \* the operation
  code,  \* struct asm_op, the instructions so far
  stage  \* the next step: 0 select, 1 replace pseudo registers, n + 1 fixer n

vars == <<ir, code, stage>>
LastStage == Fixers + 2

(***************************************************************************)
(* The operations src/passes/ir.c makes, as the casts that                 *)
(* src/passes/sema.c puts in allow them.  The variables x and y hold the   *)
(* operands, z takes the result, p is what a pointer points to.            *)
(***************************************************************************)
ConstNumbers(t) ==
  CASE t = "int"    -> {0, 2^W8, INT_MAX}
    [] t = "uint"   -> {2^W8, 2^W32 - 1}
    [] t = "long"   -> {1, 2^W32 + 1}
    [] t = "ulong"  -> {0, 2^W64 - 1}
    [] t = "double" -> {PlusZero, One, FromInt(2^(W64 - 1))}
    [] OTHER -> {}
Variables(t, at) == {Temp(t, at), Data(t, at)}
Operands(t, at)  == Variables(t, at) \cup {Const(t, n) : n \in ConstNumbers(t)}
NonFp            == Scalars \ {"double"}
Result(t)        == Temp(t, "z")
Label            == Val("label", "char", 0, "")

Unary(op, from, to) ==
  UNION {{Op(op, a, Result(to), NoVal, NoVal) : a \in Operands(t, "x")} : t \in from}
InPlace ==
  UNION {{Op(op, a, a, NoVal, NoVal) : op \in {"inc", "dec"}, a \in Variables(t, "x")} :
         t \in Integral \cup {"double"}}
Binary(ops, types) ==
  UNION {{Op(op, a, b, Result(IF op \in Comparisons THEN "int" ELSE t), NoVal) :
          op \in ops, a \in Operands(t, "x"), b \in Operands(t, "y")} : t \in types}
PointerDifference ==
  {Op("sub", a, b, Result("long"), NoVal) :
   a \in Variables("ptr", "x"), b \in Variables("ptr", "y")}
\* In IR_OP_POINTER_ADD the scale of an increment is a long, and that of an
\* addition has the first type of all, which is char.
PointerAdds ==
  {Op("ptr_add", a, b, Const("char", scale), Result("ptr")) :
   a \in Variables("ptr", "x"), b \in Operands("long", "y"), scale \in Scales}
  \cup
  {Op("ptr_add", a, Const("long", n), Const("long", scale), a) :
   a \in Variables("ptr", "x"), n \in {-1, 1}, scale \in Scales}
Copies ==
  UNION {{Op("copy", a, z, NoVal, NoVal) :
          a \in Operands(t, "x"), z \in Variables(t, "z")} : t \in Scalars}
\* The opcode of a cast follows from the two types.
Casts ==
  (UNION {  Unary("copy", {u \in NonFp \ {t} : Word(u) = Word(t)}, t)
       \cup Unary("sext", {u \in NonFp : Word(u) < Word(t) /\ IsSigned(u)}, t)
       \cup Unary("zext", {u \in NonFp : Word(u) < Word(t) /\ ~ IsSigned(u)}, t)
       \cup Unary("trunc", {u \in NonFp : Word(u) > Word(t)}, t) : t \in NonFp})
  \cup (UNION {Unary("d2i", {"double"}, t) : t \in Charlike \cup {"int", "long"}})
  \cup (UNION {Unary("d2u", {"double"}, t) : t \in {"uint", "ulong"}})
  \cup Unary("i2d", {"char", "int", "long"}, "double")
  \cup Unary("u2d", {"uchar", "uint", "ulong"}, "double")
\* The results of && and ||, and what a function returns at its end, are
\* constants of the first type of all, which is char.
Truths ==
  {Op("copy", Const("char", n), Result("int"), NoVal, NoVal) : n \in {0, 1}}
  \cup {Op("ret", Const("char", 0), NoVal, NoVal, NoVal)}
GetAddresses ==
  {Op("addr", a, Result("ptr"), NoVal, NoVal) :
   a \in (UNION {Variables(t, "x") : t \in Scalars})
         \cup {Val("string", "ptr", 0, "s")}}
Loads  == {Op("load", a, Result(t), NoVal, NoVal) : a \in Variables("ptr", "x"), t \in Scalars}
Stores ==
  UNION {{Op("store", a, b, NoVal, NoVal) :
          a \in Operands(t, "y"), b \in Variables("ptr", "x")} : t \in Scalars}
Branches ==
  UNION {{Op(op, a, Label, NoVal, NoVal) : op \in Jumps, a \in Operands(t, "x")} :
         t \in Scalars}
Returns ==
  {Op("ret", Dummy, NoVal, NoVal, NoVal)}
  \cup (UNION {{Op("ret", a, NoVal, NoVal, NoVal) : a \in Operands(t, "x")} : t \in Scalars})

Operations ==
  (UNION {Unary("neg", {t}, t) : t \in Ints \cup {"double"}})
  \cup (UNION {Unary("com", {t}, t) : t \in Ints})
  \cup Unary("not", Scalars, "int")
  \cup InPlace
  \cup Binary(Arithmetic \cup Bitwises \cup {"div", "rem"}, Ints)
  \cup Binary(Arithmetic \cup {"div"}, {"double"})
  \cup Binary(Comparisons, Ints \cup {"double", "ptr"})
  \cup PointerDifference \cup PointerAdds \cup Copies \cup Casts \cup Truths
  \cup GetAddresses \cup Loads \cup Stores \cup Branches \cup Returns

Init == ir \in Operations /\ code = <<>> /\ stage = 0

Select == stage = 0 /\ code' = statement_one(ir) /\ stage' = 1 /\ UNCHANGED ir

\* Mutation: pseudo registers of a byte are forgotten.
InMemory_NotBytes(o) == IF o.k = "temp" /\ o.w # W8 THEN [o EXCEPT !.k = "mem"] ELSE o

\* codegen_replace_pseudo: module StackSlots gives every variable its place,
\* here a variable keeps its name.
InMemory(o) == IF o.k = "temp" THEN [o EXCEPT !.k = "mem"] ELSE o
ReplacePseudo ==
  /\ stage = 1
  /\ code' = [k \in DOMAIN code |-> Instr(code[k].op, InMemory(code[k].a), InMemory(code[k].b))]
  /\ stage' = 2 /\ UNCHANGED ir

FixupInstructions ==
  /\ stage \in 2 .. Fixers + 1
  /\ code' = fixup_function(stage - 1, code)
  /\ stage' = stage + 1 /\ UNCHANGED ir

Next == Select \/ ReplacePseudo \/ FixupInstructions
Spec == Init /\ [][Next]_vars

Done == stage = LastStage

(***************************************************************************)
(* What an operation means.                                                *)
(***************************************************************************)
\* The values tried for a variable of a type.
Sample(t) ==
  CASE Word(t) = W8  -> 0 .. 2^W8 - 1
    [] Word(t) = W32 -> {0, 1, 2^W8, 2^W8 + 1, INT_MAX, INT_MAX + 1, 2^W32 - 2, 2^W32 - 1}
    [] Word(t) = W64 /\ ~ IsFp(t) ->
         {0, 1, 2^W8, INT_MAX, INT_MAX + 1, 2^W32 - 1, 2^W32, 2^W32 + 1,
          2^(W64 - 1) - 1, 2^(W64 - 1), 2^W64 - 2, 2^W64 - 1}
    [] OTHER ->
         {PlusZero, MinusZero, One, Negated(One), Rounded(1), Rounded(-1), Rounded(5),
          FromInt(INT_MAX), FromInt(- 2^W32), FromInt(2^W32), FromInt(2^(W64 - 1)),
          FromInt(3 * 2^(W64 - 2)), NaN}

\* Does the operation go through the pointer in its argument k?
Points(k) == (ir.op = "load" /\ k = 1) \/ (ir.op = "store" /\ k = 2)

Inputs(k) ==
  CASE ir.args[k].sub = "const" ->
         {IF IsFp(ir.args[k].type) THEN ir.args[k].n ELSE Low(ir.args[k].n, Word(ir.args[k].type))}
    [] Points(k) -> {Addresses["p"]}
    [] ir.args[k].sub \in {"temp", "data"} /\ ir.args[k].at # "z" /\ ~ Points(k) ->
         Sample(ir.args[k].type)
    [] OTHER -> {0}

(***************************************************************************)
(* Running the code.  Every bit that does not belong to an operand starts  *)
(* as the bits of fill: registers, the variables the operation does not    *)
(* read, and what lies above an operand that is narrower than its cell.    *)
(***************************************************************************)
Fills == {0, 2^W64 - 1}

Start(v, u, fill) ==
  LET put(k, n) == Merge(fill, n, Word(ir.args[k].type))
      at(k, c)  == ir.args[k].sub \in {"temp", "data"} /\ ir.args[k].at = c
  IN  [reg |-> [r \in General |-> fill], xmm |-> [r \in XmmNames |-> <<fill, fill>>],
       mem |-> [c \in Cells |-> CASE at(1, c) -> put(1, v)
                                  [] ~ at(1, c) /\ at(2, c) -> put(2, u)
                                  [] OTHER -> fill],
       flags |-> AnyFlags, jumped |-> FALSE]

\* Loads take the value they load from p.
StartLoad(u, fill) ==
  [Start(Addresses["p"], 0, fill) EXCEPT
     !.mem["p"] = Merge(fill, u, Word(ir.args[2].type))]

\* What must hold at the end of the code that was started in s.
Ends(s, e, v, u) ==
  LET t == TypeA(ir)
      to == ir.args[ResultArg(ir)].type
  IN  CASE ir.op \in Jumps ->
             e.jumped = (IsZero(v, t) = (ir.op = "jz")) /\ e.mem = s.mem
        [] ir.op = "ret" /\ ir.args[1] # Dummy ->
             /\ e.mem = s.mem
             /\ IF IsFp(t) THEN e.xmm["xmm0"][1] = v ELSE Low(e.reg["ax"], Word(t)) = v
        [] ir.op = "ret" /\ ir.args[1] = Dummy -> e.mem = s.mem
        [] ir.op = "store" ->
             e.mem = [s.mem EXCEPT !["p"] = Merge(@, Meaning(ir, v, u, t, Word(t)), Word(t))]
        [] ir.op = "load" -> e.mem = [s.mem EXCEPT !["z"] = Merge(@, u, Word(to))]
        [] OTHER ->
             e.mem = [s.mem EXCEPT ![ir.args[ResultArg(ir)].at] =
                        Merge(@, IF ir.op = "addr" THEN Addresses[ir.args[1].at]
                                 ELSE Meaning(ir, v, u, t, Word(to)), Word(to))]

SecondInputs == CASE ir.op = "load" -> Sample(ir.args[2].type)
                  [] ir.op \in {"inc", "dec"} -> {0}
                  [] OTHER -> Inputs(2)

Correct(v, u) ==
  Defined(ir, v, u, TypeA(ir), ir.args[ResultArg(ir)].type) =>
    \A fill \in Fills :
      LET s == IF ir.op = "load" THEN StartLoad(u, fill) ELSE Start(v, u, fill)
      IN  Ends(s, RunAll(code, s), v, u)

(***************************************************************************)
(* Properties.                                                             *)
(***************************************************************************)
Kinds == {"imm", "reg", "temp", "mem", "data", "fconst", "longs", "quads", "string",
          "indexed", "label", "none"}

\* Operands are well formed, and pseudo registers are gone once they are
\* replaced: emit_asm_operand asserts so.
TypeOK ==
  /\ ir \in Operations /\ stage \in 0 .. LastStage
  /\ \A k \in DOMAIN code : \A o \in {code[k].a, code[k].b} :
       o.k \in (IF stage > 1 THEN Kinds \ {"temp"} ELSE Kinds) /\ o.w \in Words

\* No assertion of instruction selection, of a fixer that is about to run or
\* of emit_asm_op fails on an operation the front end makes.
AssertionsHold ==
  /\ StatementAsserts(ir)
  /\ stage \in 2 .. Fixers + 1 => \A k \in DOMAIN code : FixAsserts(stage - 1, code[k])
  /\ Done => \A k \in DOMAIN code : EmitAsserts(code[k])

\* No fixer puts in what an earlier one, or the fixer itself, would have had
\* to replace: once a fixer has run, nothing is left for it.  The fixers run
\* once each, in the order of the table.  (fix_shift would take a count that
\* is in %cl already a second time, to no effect.)
NothingLeftToFix ==
  \A n \in 1 .. Fixers : stage > n + 1 =>
    \A k \in DOMAIN code :
      Fix(n, code[k]) = <<code[k]>> \/ (code[k].op \in Shifts /\ code[k].a = Ecx(code[k].a))

\* Every instruction that reaches the assembler exists: no two operands in
\* memory, no large immediate, no immediate or memory where only a register
\* will do.
InstructionsExist == Done => \A k \in DOMAIN code : Encodable(Emitted(code[k]))

\* The three operations that are known to go wrong, see the properties below.
ConstantCondition ==
  ir.op \in {"not", "jz", "jnz"} /\ ir.args[1].sub = "const" /\ ~ IsFp(TypeA(ir))
NotOfDouble == ir.op = "not" /\ IsFp(TypeA(ir))
DoubleToUnsigned == ir.op = "d2u"

KnownWrong(v) ==
  \/ ConstantCondition /\ Low(v, W8) = 0
  \/ NotOfDouble /\ v = MinusZero
  \/ DoubleToUnsigned /\ Number(v) >= 2 * 2^(W64 - 1)

\* The code of an operation computes what the operation means, whatever the
\* registers and the rest of memory hold before it, and changes no other
\* variable, nor the bytes next to a narrow one.
ComputesTheOperation ==
  Done => \A v \in Inputs(1), u \in SecondInputs : KnownWrong(v) \/ Correct(v, u)

\* A condition that is a constant holds unless the constant is zero.
ConstantsAreConditions ==
  Done /\ ConstantCondition => \A v \in Inputs(1) : Correct(v, 0)
=============================================================================
