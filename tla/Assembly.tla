------------------------------ MODULE Assembly ------------------------------
(***************************************************************************)
(* What passes between the back-end passes: types with their widths, the   *)
(* values of the intermediate representation (struct ir_val, struct ir_op  *)
(* of src/passes/ir.h) and the operands and instructions of code           *)
(* generation (struct asm_operand, struct asm_op of src/passes/codegen.h). *)
(* Widths are scaled: a value of 8, 32 or 64 bits has W8, W32 or W64 bits  *)
(* here and a value is the natural number of its bits.                     *)
(***************************************************************************)
EXTENDS Integers, Sequences

CONSTANTS W8, W32   \* bits of a char and of an int

\* A char holds the count of any shift.
ASSUME WidthAssumption ==
  W8 \in Nat \ {0} /\ W32 \in Nat /\ W8 < W32 /\ 2 * W32 =< 2^W8

W64   == 2 * W32
Words == {W8, W32, W64}

Low(n, w)     == n % 2^w
Signed(n, w)  == IF n < 2^(w - 1) THEN n ELSE n - 2^w
INT_MAX       == 2^(W32 - 1) - 1

(***************************************************************************)
(* Types.  char and signed char are one; an array is a pointer wherever an *)
(* operation takes it.                                                     *)
(***************************************************************************)
Charlike == {"char", "uchar"}
Ints     == {"int", "uint", "long", "ulong"}   \* integers after promotion
Integral == Charlike \cup Ints
Scalars  == Integral \cup {"double", "ptr"}

IsSigned(t) == t \in {"char", "int", "long", "double"}
IsFp(t)     == t = "double"

\* codegen_map_ctype_impl
Word(t) ==
  CASE t \in Charlike -> W8
    [] t \in {"int", "uint"} -> W32
    [] t \in {"long", "ulong", "double", "ptr"} -> W64

(***************************************************************************)
(* A value of the intermediate representation.  sub is "const", "temp" (a  *)
(* temporary or local variable), "data" (static storage), "string",        *)
(* "label", "dummy" or "none"; n is the number of a constant, at names a   *)
(* variable.                                                               *)
(***************************************************************************)
Val(sub, type, n, at) == [sub |-> sub, type |-> type, n |-> n, at |-> at]
Const(type, n) == Val("const", type, n, "")
Temp(type, at) == Val("temp", type, 0, at)
Data(type, at) == Val("data", type, 0, at)
NoVal          == Val("none", "char", 0, "")
Dummy          == Val("dummy", "char", 0, "")   \* the value of a void expression

\* An operation with its arguments; the last one used is the result.
Op(op, a, b, c, d) == [op |-> op, args |-> <<a, b, c, d>>]

\* Opcodes by kind.
Comparisons == {"==", "!=", "<", "<=", ">", ">="}
Arithmetic  == {"add", "sub", "mul"}
Bitwises    == {"and", "or", "xor", "shl", "shr"}
Jumps       == {"jz", "jnz"}

(***************************************************************************)
(* An operand.  k is the operand_type: "imm", "reg", "temp" (a pseudo      *)
(* register), "mem", "data", "fconst", "longs", "quads", "string",         *)
(* "indexed", "label" or "none"; w is the word_type; at names a register   *)
(* or a variable; n is a number, the bits of a double or a scale.          *)
(***************************************************************************)
Operand(k, w, at, n) == [k |-> k, w |-> w, at |-> at, n |-> n]
NoOperand == Operand("none", W8, "", 0)

\* codegen_set_operand_immediate_zero leaves the word_type of a zeroed
\* operand, which is ASM_WORD_08BIT.
Zero        == Operand("imm", W8, "", 0)
Imm(n)      == Operand("imm", W8, "", n)
Reg(at, w)  == Operand("reg", w, at, 0)
FConst(n)   == Operand("fconst", W8, "", n)
Rax(w)      == Reg("ax", w)
Rcx         == Reg("cx", W64)
Rdx         == Reg("dx", W64)
R10(o)      == Reg("r10", o.w)   \* codegen_set_operand_r10
R11(o)      == Reg("r11", o.w)
Ecx(o)      == Reg("cx", o.w)
XMM(at)     == Reg(at, W64)
XmmNames    == {"xmm0", "xmm1", "xmm2", "xmm15"}

is_xmm_register(o) == o.k = "reg" /\ o.at \in XmmNames
in_memory(o) == o.k \in {"mem", "data", "fconst", "longs", "quads", "string"}

\* codegen_map_operand; a void result or a missing argument has no operand.
map_operand(v) ==
  CASE v.sub = "const" /\ ~ IsFp(v.type) -> Operand("imm", Word(v.type), "", v.n)
    [] v.sub = "const" /\ IsFp(v.type)   -> Operand("fconst", W64, "", v.n)
    [] v.sub \in {"temp", "data", "string", "label"} ->
         Operand(v.sub, Word(v.type), v.at, 0)

\* codegen_set_operand_memory and codegen_set_operand_indexed.  The memory
\* that %rax points to takes the word of the value it is named after.
Pointee(v)        == Operand("mem", Word(v.type), "ax", 0)
Indexed(v, scale) == Operand("indexed", Word(v.type), "ax", scale)

Instr(op, a, b) == [op |-> op, a |-> a, b |-> b]
Instr1(op, a)   == Instr(op, a, NoOperand)
Mov(a, b)       == Instr("mov", a, b)
=============================================================================
