-------------------------------- MODULE Fixup --------------------------------
(***************************************************************************)
(* codegen_fixup_instructions of src/passes/codegen.c: twelve fixers run   *)
(* over the code of a function, one after the other.  A fixer replaces an  *)
(* instruction the processor does not have by two or three it has, and     *)
(* does not look at what it put in; only the fixers after it do.           *)
(***************************************************************************)
EXTENDS Assembly

Binaryish == {"add", "sub", "and", "or", "xor", "cmp"}
Shifts    == {"sal", "sar", "shl", "shr"}
FpOps     == {"comisd", "addsd", "subsd", "mulsd", "divsd", "xorpd"}

Big(o) == o.k = "imm" /\ o.n > INT_MAX

\* Mutation: a comparison of two operands in memory is left as it is.
fix_s2s_NotCompare(i) ==
  IF i.op \in (Binaryish \ {"cmp"}) \cup {"mov"} /\ in_memory(i.a) /\ in_memory(i.b)
  THEN <<Mov(i.a, R10(i.a)), Instr(i.op, R10(i.b), i.b)>>
  ELSE <<i>>

fix_s2s(i) ==
  IF i.op \in Binaryish \cup {"mov"} /\ in_memory(i.a) /\ in_memory(i.b)
  THEN <<Mov(i.a, R10(i.a)), Instr(i.op, R10(i.b), i.b)>>
  ELSE <<i>>

fix_imm_big(i) ==
  IF \/ i.op \in Binaryish \cup {"imul", "push"} /\ Big(i.a)
     \/ i.op = "mov" /\ Big(i.a) /\ in_memory(i.b)
     \/ i.op = "mov" /\ i.a.k = "imm" /\ is_xmm_register(i.b)
  THEN <<Mov(i.a, Reg("r10", W64)), Instr(i.op, Reg("r10", W64), i.b)>>
  ELSE <<i>>

\* Mutation: the operands are exchanged instead.
fix_cmp_Swapped(i) ==
  IF i.op = "cmp" /\ i.b.k = "imm"
  THEN <<Mov(i.b, R11(i.b)), Instr("cmp", R11(i.a), i.a)>>
  ELSE <<i>>

\* The register takes the word of the left operand, which is the zero of a
\* condition as often as not.
fix_cmp(i) ==
  IF i.op = "cmp" /\ i.b.k = "imm"
  THEN <<Mov(i.b, R11(i.b)), Instr("cmp", i.a, R11(i.a))>>
  ELSE <<i>>

fix_div(i) ==
  IF i.op \in {"idiv", "div"} /\ i.a.k = "imm"
  THEN <<Mov(i.a, R10(i.a)), Instr1(i.op, R10(i.a))>>
  ELSE <<i>>

fix_mul(i) ==
  IF i.op = "imul" /\ in_memory(i.b)
  THEN <<Mov(i.b, R11(i.b)), Instr("imul", i.a, R11(i.a)), Mov(R11(i.b), i.b)>>
  ELSE <<i>>

fix_shift(i) ==
  IF i.op \in Shifts /\ i.a.k # "imm"
  THEN <<Mov(i.a, Ecx(i.a)), Instr(i.op, Ecx(i.b), i.b)>>
  ELSE <<i>>

\* Mutation: the register the result goes through has the word of the source.
fix_movsx_and_movzx_Narrow(i) ==
  IF /\ \/ i.op = "movsx" /\ i.a.w < W64
        \/ i.op = "movzx" /\ i.a.w < W32
     /\ i.a.k = "imm" \/ in_memory(i.b)
  THEN <<Mov(i.a, R10(i.a)), Instr(i.op, R10(i.a), R11(i.a)), Mov(R11(i.b), i.b)>>
  ELSE <<i>>

fix_movsx_and_movzx(i) ==
  IF /\ \/ i.op = "movsx" /\ i.a.w < W64
        \/ i.op = "movzx" /\ i.a.w < W32
     /\ i.a.k = "imm" \/ in_memory(i.b)
  THEN <<Mov(i.a, R10(i.a)), Instr(i.op, R10(i.a), R11(i.b)), Mov(R11(i.b), i.b)>>
  ELSE <<i>>

\* A 32-bit mov clears the upper half of the register.
fix_movzx_32bit(i) ==
  CASE i.op = "movzx" /\ i.a.w # W8 /\ i.b.k = "reg" -> <<Mov(i.a, i.b)>>
    [] i.op = "movzx" /\ i.a.w # W8 /\ i.b.k # "reg" ->
         <<Mov(i.a, R11(i.a)), Mov(R11(i.b), i.b)>>
    [] OTHER -> <<i>>

\* The double is converted at the word of the source: 64 bits.
fix_cvt_double_to_int(i) ==
  IF i.op = "cvttsd2si" /\ in_memory(i.b)
  THEN <<Instr("cvttsd2si", i.a, R11(i.a)), Mov(R11(i.b), i.b)>>
  ELSE <<i>>

fix_cvt_int_to_double(i) ==
  IF i.op = "cvtsi2sd" /\ (i.a.k = "imm" \/ in_memory(i.b))
  THEN <<Mov(i.a, R10(i.a)), Instr("cvtsi2sd", R10(i.a), XMM("xmm15")),
         Mov(XMM("xmm15"), i.b)>>
  ELSE <<i>>

fix_arithmetic_on_double(i) ==
  IF i.op \in FpOps /\ in_memory(i.b)
  THEN <<Mov(i.b, XMM("xmm15")), Instr(i.op, i.a, XMM("xmm15"))>>
       \o (IF i.op = "comisd" THEN <<>> ELSE <<Mov(XMM("xmm15"), i.b)>>)
  ELSE <<i>>

fix_lea(i) ==
  IF i.op = "lea" /\ in_memory(i.b)
  THEN <<Instr("lea", i.a, R10(i.b)), Mov(R10(i.b), i.b)>>
  ELSE <<i>>

Fixers == 12

\* The table fixers[] of codegen_fixup_instructions.
Fix(n, i) ==
  CASE n = 1 -> fix_s2s(i)             [] n = 2 -> fix_imm_big(i)
    [] n = 3 -> fix_cmp(i)             [] n = 4 -> fix_div(i)
    [] n = 5 -> fix_mul(i)             [] n = 6 -> fix_shift(i)
    [] n = 7 -> fix_movsx_and_movzx(i) [] n = 8 -> fix_movzx_32bit(i)
    [] n = 9 -> fix_cvt_double_to_int(i)
    [] n = 10 -> fix_cvt_int_to_double(i)
    [] n = 11 -> fix_arithmetic_on_double(i)
    [] n = 12 -> fix_lea(i)

\* codegen_fixup_function with codegen_fixup_apply: every instruction is
\* replaced in place and the cursor moves past what replaced it.
fixup_function(n, code) ==
  LET upto[k \in 0 .. Len(code)] ==
        IF k = 0 THEN <<>> ELSE upto[k - 1] \o Fix(n, code[k])
  IN  upto[Len(code)]

\* What the fixers assert of an instruction they are about to replace:
\* codegen_fixup_apply wants two instructions at least, the fixers of the
\* extensions want words that grow.
FixAsserts(n, i) ==
  /\ Fix(n, i) # <<i>> => Len(Fix(n, i)) \in 2 .. 3
  /\ n \in {7, 8} /\ Fix(n, i) # <<i>> => i.a.w < W64 /\ i.a.w < i.b.w
  /\ n = 8 /\ i.op = "movzx" => i.a.w \in {W8, W32}
=============================================================================
