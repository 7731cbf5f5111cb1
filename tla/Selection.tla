------------------------------ MODULE Selection ------------------------------
(***************************************************************************)
(* Instruction selection: codegen_statement_one of src/passes/codegen.c    *)
(* and the functions it calls, one operator for each.  An operation of the *)
(* intermediate representation becomes a list of instructions over         *)
(* registers and over operands the processor may not accept; module Fixup  *)
(* corrects those.  Calls are in module Calls.                             *)
(***************************************************************************)
EXTENDS Assembly

\* The bits of the doubles 0.0, -0.0, 1.0 and (double)INT_MAX.
CONSTANTS PlusZero, MinusZero, One, IntMaxAsDouble

A(ir) == map_operand(ir.args[1])
B(ir) == map_operand(ir.args[2])
C(ir) == map_operand(ir.args[3])
D(ir) == map_operand(ir.args[4])
TypeA(ir) == ir.args[1].type
SignedA(ir) == IsSigned(TypeA(ir))

in_place_update(ir, result) ==
  /\ ir.args[1].sub = ir.args[result].sub
  /\ ir.args[1].n = ir.args[result].n
  /\ ir.args[1].at = ir.args[result].at

\* codegen_statement_unary_op
unary_op(ir) ==
  CASE ir.op = "neg" -> <<Mov(A(ir), B(ir)), Instr1("neg", B(ir))>>
    [] ir.op = "com" -> <<Mov(A(ir), B(ir)), Instr1("not", B(ir))>>
    [] ir.op = "not" -> <<Instr("cmp", Zero, A(ir)), Mov(Zero, B(ir)),
                          Instr1("sete", B(ir))>>
    [] ir.op = "dec" -> <<Instr1("dec", A(ir))>>
    [] ir.op = "inc" -> <<Instr1("inc", A(ir))>>

BinaryOpcode(ir) ==
  CASE ir.op = "mul" -> "imul"
    [] ir.op = "shl" -> IF SignedA(ir) THEN "sal" ELSE "shl"
    [] ir.op = "shr" -> IF SignedA(ir) THEN "sar" ELSE "shr"
    [] OTHER -> ir.op   \* add, sub, and, or, xor

\* The left operand is copied to the result first, unless it is the result.
CopyLeft(ir) == IF in_place_update(ir, 3) THEN <<>> ELSE <<Mov(A(ir), C(ir))>>

\* codegen_statement_binary_op
binary_op(ir) == CopyLeft(ir) \o <<Instr(BinaryOpcode(ir), B(ir), C(ir))>>

\* codegen_statement_div_rem
div_rem(ir) ==
  <<Mov(A(ir), Rax(Word(TypeA(ir)))),
    CASE TypeA(ir) = "int"  -> Instr1("cdq", NoOperand)
      [] TypeA(ir) = "long" -> Instr1("cqo", NoOperand)
      [] TypeA(ir) \in {"uint", "ulong"} -> Mov(Zero, Rdx),
    Instr1(IF SignedA(ir) THEN "idiv" ELSE "div", B(ir)),
    Mov(Reg(IF ir.op = "div" THEN "ax" ELSE "dx", Word(TypeA(ir))), C(ir))>>

SetIf(op, signed) ==
  CASE op = "==" -> "sete"
    [] op = "!=" -> "setne"
    [] op = "<"  -> IF signed THEN "setl"  ELSE "setb"
    [] op = "<=" -> IF signed THEN "setle" ELSE "setbe"
    [] op = ">"  -> IF signed THEN "setg"  ELSE "seta"
    [] op = ">=" -> IF signed THEN "setge" ELSE "setae"

\* codegen_statement_cmp_op: the processor compares its second operand with
\* its first.
cmp_op(ir) ==
  <<Instr("cmp", B(ir), A(ir)), Mov(Zero, C(ir)),
    Instr1(SetIf(ir.op, SignedA(ir)), C(ir))>>

\* codegen_statement_ptr_add_op
ptr_add_op(ir) ==
  LET scale == ir.args[3].n
      lea(n) == Instr("lea", Indexed(ir.args[1], n), [D(ir) EXCEPT !.w = W64])
  IN  <<Mov(A(ir), Rax(W64)), Mov(B(ir), Rdx)>>
      \o (IF scale \in {1, 2, 4, 8} THEN <<lea(scale)>>
          ELSE <<Instr("imul", C(ir), Rdx), lea(1)>>)

FpOpcode(op) ==
  CASE op = "add" -> "addsd" [] op = "sub" -> "subsd"
    [] op = "mul" -> "mulsd" [] op = "div" -> "divsd"

\* codegen_statement_fp_arithmetic_op
fp_arithmetic_op(ir) == CopyLeft(ir) \o <<Instr(FpOpcode(ir.op), B(ir), C(ir))>>

\* Mutation: the flag of unordered operands is not consulted.
fp_cmp_op_IgnoresNaN(ir) ==
  <<Instr("comisd", B(ir), A(ir)), Mov(Zero, C(ir)),
    Instr1(SetIf(ir.op, FALSE), C(ir))>>

\* codegen_statement_fp_cmp_op: != holds when the operands are unordered,
\* the other comparisons do not.
fp_cmp_op(ir) ==
  <<Instr("comisd", B(ir), A(ir)), Mov(Zero, C(ir)), Mov(Zero, Rcx),
    Instr1(IF ir.op = "!=" THEN "setp" ELSE "setnp", Rcx),
    Instr1(SetIf(ir.op, FALSE), C(ir)),
    Instr(IF ir.op = "!=" THEN "or" ELSE "and", Rcx, C(ir))>>

\* IR_OP_CTYPE_DOUBLE_TO_INT and IR_OP_CTYPE_INT_TO_DOUBLE: a char goes
\* through %eax.
fp_int(ir) ==
  CASE TypeA(ir) \in Charlike ->
         <<Instr("movsx", A(ir), Rax(W32)), Instr("cvtsi2sd", Rax(W32), B(ir))>>
    [] ir.args[2].type \in Charlike ->
         <<Instr("cvttsd2si", A(ir), Rax(W32)), Mov(Rax(W8), B(ir))>>
    [] OTHER ->
         <<Instr(IF ir.op = "d2i" THEN "cvttsd2si" ELSE "cvtsi2sd", A(ir), B(ir))>>

\* IR_OP_CTYPE_DOUBLE_TO_UINT: without a branch, %rdx is all ones when the
\* conversion as a signed number came out negative.
fp_to_uint(ir) ==
  <<Mov(A(ir), XMM("xmm0")), Mov(FConst(IntMaxAsDouble), XMM("xmm2")),
    Mov(XMM("xmm0"), XMM("xmm1")),
    Instr("subsd", XMM("xmm2"), XMM("xmm1")),
    Instr("cvttsd2si", XMM("xmm1"), Rcx),
    Instr("cvttsd2si", XMM("xmm0"), Rax(W64)),
    Mov(Rax(W64), Rdx), Instr("sar", Imm(W64 - 1), Rdx),
    Instr("and", Rdx, Rcx), Instr("or", Rcx, Rax(W64)),
    Mov(Rax(W64), B(ir))>>

\* IR_OP_CTYPE_UINT_TO_DOUBLE: the halves of an unsigned long become the
\* low halves of two doubles with known high halves, which are subtracted
\* again; the sum of the two is the result.
uint_to_fp(ir) ==
  CASE TypeA(ir) = "uchar" ->
         <<Instr("movzx", A(ir), Rax(W32)), Instr("cvtsi2sd", Rax(W64), B(ir))>>
    [] TypeA(ir) = "uint" ->
         <<Mov(A(ir), Rax(W32)), Instr("cvtsi2sd", Rax(W64), B(ir))>>
    [] TypeA(ir) = "ulong" ->
         <<Mov(A(ir), XMM("xmm0")),
           Instr("punpckldq", Operand("longs", W8, "", 0), XMM("xmm0")),
           Instr("subpd", Operand("quads", W8, "", 0), XMM("xmm0")),
           Mov(XMM("xmm0"), XMM("xmm1")),
           Instr("unpckhpd", XMM("xmm0"), XMM("xmm0")),
           Instr("addsd", XMM("xmm1"), XMM("xmm0")),
           Mov(XMM("xmm0"), B(ir))>>

\* A jump on a double: the condition is 0.0 /= x or unordered.
fp_jump(ir) ==
  <<Mov(Zero, Rax(W64)), Mov(Zero, Rcx),
    Instr("comisd", FConst(PlusZero), A(ir)),
    Instr1("setne", Rax(W64)), Instr1("setp", Rcx),
    Instr("or", Rax(W64), Rcx), Instr("cmp", Zero, Rcx),
    Instr1(IF ir.op = "jz" THEN "je" ELSE "jne", B(ir))>>

\* codegen_statement_fp; the empty list leaves the operation to the common
\* handling.
statement_fp(ir) ==
  CASE ir.op = "ret" -> <<Mov(A(ir), XMM("xmm0")), Instr1("ret", NoOperand)>>
    [] ir.op = "neg" ->
         <<Mov(A(ir), XMM("xmm1")), Mov(FConst(MinusZero), XMM("xmm0")),
           Instr("xorpd", XMM("xmm0"), XMM("xmm1")), Mov(XMM("xmm1"), B(ir))>>
    [] ir.op \in {"inc", "dec"} ->
         <<Mov(FConst(One), XMM("xmm0")),
           Instr(IF ir.op = "dec" THEN "subsd" ELSE "addsd", XMM("xmm0"), A(ir))>>
    [] ir.op \in {"add", "sub", "mul", "div"} -> fp_arithmetic_op(ir)
    [] ir.op \in Comparisons -> fp_cmp_op(ir)
    [] ir.op \in {"d2i", "i2d"} -> fp_int(ir)
    [] ir.op = "d2u" -> fp_to_uint(ir)
    [] ir.op = "u2d" -> uint_to_fp(ir)
    [] ir.op \in Jumps -> fp_jump(ir)
    [] OTHER -> <<>>

\* IR_OP_CTYPE_TRUNCATE: only what fits is read from the source.
truncate(ir) == <<Mov([A(ir) EXCEPT !.w = B(ir).w], B(ir))>>

\* codegen_statement_one without its call of codegen_statement_fp
statement_common(ir) ==
  CASE ir.op = "ret" /\ ir.args[1] # Dummy ->
         <<Mov(A(ir), Rax(Word(TypeA(ir)))), Instr1("ret", NoOperand)>>
    [] ir.op = "ret" /\ ir.args[1] = Dummy -> <<Instr1("ret", NoOperand)>>
    [] ir.op \in {"com", "neg", "not", "dec", "inc"} -> unary_op(ir)
    [] ir.op \in Arithmetic \cup Bitwises -> binary_op(ir)
    [] ir.op \in {"div", "rem"} -> div_rem(ir)
    [] ir.op \in Comparisons -> cmp_op(ir)
    [] ir.op = "copy" -> <<Mov(A(ir), B(ir))>>
    [] ir.op = "sext" -> <<Instr("movsx", A(ir), B(ir))>>
    [] ir.op = "zext" -> <<Instr("movzx", A(ir), B(ir))>>
    [] ir.op = "trunc" -> truncate(ir)
    [] ir.op = "addr" -> <<Instr("lea", A(ir), B(ir))>>
    [] ir.op = "load" -> <<Mov(A(ir), Rax(W64)), Mov(Pointee(ir.args[1]), B(ir))>>
    [] ir.op = "store" -> <<Mov(B(ir), Rax(Word(ir.args[2].type))),
                            Mov(A(ir), Pointee(ir.args[1]))>>
    [] ir.op = "ptr_add" -> ptr_add_op(ir)
    [] ir.op \in Jumps -> <<Instr("cmp", Zero, A(ir)),
                            Instr1(IF ir.op = "jz" THEN "je" ELSE "jne", B(ir))>>

\* codegen_statement_one
statement_one(ir) ==
  LET fp == IF IsFp(TypeA(ir)) \/ IsFp(ir.args[2].type) THEN statement_fp(ir) ELSE <<>>
  IN  IF fp # <<>> THEN fp ELSE statement_common(ir)

\* The assertions of codegen_statement_one and its helpers.
StatementAsserts(ir) ==
  /\ ir.op \in {"sext", "zext"} => A(ir).w < W64 /\ A(ir).w < B(ir).w
  /\ ir.op = "trunc" => B(ir).w < W64 /\ B(ir).w < A(ir).w
  /\ ir.op = "addr" => B(ir).w = W64
  /\ ir.op = "store" => B(ir).w = W64
  /\ ir.op \in {"inc", "dec"} => in_place_update(ir, 2)
  /\ ir.op \in {"div", "rem"} => TypeA(ir) = ir.args[2].type /\ TypeA(ir) \in Ints \cup {"double"}
=============================================================================
