------------------------------- MODULE Machine -------------------------------
(***************************************************************************)
(* The processor that runs the generated code (x86-64), as far as the      *)
(* instructions of src/passes/codegen.c need it, and the rules by which an *)
(* assembler accepts an instruction.  All of it is external to the         *)
(* compiler except Emitted, which is emit_asm_op of src/passes/emit.c.     *)
(***************************************************************************)
EXTENDS Assembly

\* The variables, each with 64 bits of memory at its address.
Addresses == [x |-> 2^(W64 - 2), y |-> 2^(W64 - 2) + 8, z |-> 2^(W64 - 2) + 16,
              p |-> 2^(W64 - 2) + 24, s |-> 2^(W64 - 2) + 32]
Cells   == DOMAIN Addresses
General == {"ax", "cx", "dx", "r10", "r11"}

(***************************************************************************)
(* Doubles: a sign, 4 bits of exponent, the others of fraction; magnitudes *)
(* are counted in halves so that fractions occur.  The greatest magnitude  *)
(* is not a number.  There are no infinities: greater results become the   *)
(* greatest number.                                                        *)
(***************************************************************************)
SignBit == 2^(W64 - 1)
NaN     == SignBit - 1
FracBits == W64 - 5
Frac    == 2^FracBits
IsNaN(d) == Low(d, W64 - 1) = NaN
Halves(m) ==
  IF m \div Frac = 0 THEN m ELSE (Frac + (m % Frac)) * 2^((m \div Frac) - 1)
Number(d) == IF d >= SignBit THEN - Halves(d - SignBit) ELSE Halves(d)
Abs(n)    == IF n < 0 THEN - n ELSE n

\* The magnitude nearest to n halves, the even one of two.
Nearest(n) ==
  IF n < 2 * Frac THEN n
  ELSE IF n >= Halves(NaN - 1) THEN NaN - 1
  ELSE LET e == CHOOSE e \in 1 .. 14 : Frac * 2^e =< n /\ n < 2 * Frac * 2^e
           below == e * Frac + (n \div 2^e)
           twice == 2 * (n % 2^e)
       IN  IF twice < 2^e \/ (twice = 2^e /\ below % 2 = 0) THEN below ELSE below + 1

\* A double from a number of halves; zero is positive.
Rounded(n) == (IF n < 0 THEN SignBit ELSE 0) + Nearest(Abs(n))
FromInt(n) == Rounded(2 * n)
Toward0(d) == IF Number(d) < 0 THEN - (Abs(Number(d)) \div 2) ELSE Number(d) \div 2
Negated(d) == IF d >= SignBit THEN d - SignBit ELSE d + SignBit

FpArith(op, a, b) ==
  IF IsNaN(a) \/ IsNaN(b) THEN NaN
  ELSE CASE op = "add" -> IF a = SignBit /\ b = SignBit THEN a
                          ELSE Rounded(Number(a) + Number(b))
         [] op = "sub" -> IF a = SignBit /\ b = 0 THEN a
                          ELSE Rounded(Number(a) - Number(b))
         [] op = "mul" -> (IF (a >= SignBit) = (b >= SignBit) THEN 0 ELSE SignBit)
                          + Nearest(Abs(Number(a) * Number(b)) \div 2)
         [] op = "div" -> IF Number(b) = 0 THEN NaN
                          ELSE (IF (a >= SignBit) = (b >= SignBit) THEN 0 ELSE SignBit)
                               + Nearest((2 * Abs(Number(a))) \div Abs(Number(b)))

(***************************************************************************)
(* Bitwise operations on numbers of W64 bits.                              *)
(***************************************************************************)
Bit(n, k) == (n \div 2^k) % 2
Bitwise2(op, a, b) ==
  LET upto[k \in 0 .. W64] ==
        IF k = 0 THEN 0
        ELSE upto[k - 1] + 2^(k - 1) *
             (LET s == Bit(a, k - 1) + Bit(b, k - 1)
              IN  CASE op = "and" -> s \div 2 [] op = "or" -> (s + 1) \div 2
                    [] op = "xor" -> s % 2)
  IN  upto[W64]

(***************************************************************************)
(* emit_asm_op: the suffix of the instruction and the names of its         *)
(* registers follow the word of the last operand; some instructions name   *)
(* the first operand by another width.                                     *)
(***************************************************************************)
Sets == {"sete", "setne", "setl", "setle", "setg", "setge", "setb", "setbe",
         "seta", "setae", "setp", "setnp"}
ShiftOps == {"sal", "sar", "shl", "shr"}

Emitted(i) ==
  LET w == IF i.b.k # "none" THEN i.b.w ELSE i.a.w
  IN  [op |-> i.op, a |-> i.a, b |-> i.b, w |-> w,
       from |-> CASE i.op \in {"movsx", "movzx", "cvtsi2sd"} -> i.a.w
                  [] i.op \in ShiftOps \cup Sets -> W8
                  [] OTHER -> w]

EmitAsserts(i) ==
  i.op \in {"movsx", "movzx"} => i.a.w < i.b.w /\ i.a.w < W64 /\ i.b.w > W8

(***************************************************************************)
(* What an assembler accepts.                                              *)
(***************************************************************************)
Xmm(o)   == is_xmm_register(o)
Gpr(o)   == o.k = "reg" /\ ~ Xmm(o)
RM(o)    == Gpr(o) \/ in_memory(o)
XM(o)    == Xmm(o) \/ o.k \in {"mem", "data", "fconst"}
SmallImm(o, w) ==
  /\ o.k = "imm"
  /\ IF w = W64 THEN - 2^(W32 - 1) =< o.n /\ o.n =< INT_MAX
     ELSE w = W32 => - 2^(W32 - 1) =< o.n /\ o.n < 2^W32
Writable(o) == Gpr(o) \/ o.k \in {"mem", "data"}

EncodableMov(e) ==
  \/ Gpr(e.b) /\ (e.a.k = "imm" \/ RM(e.a))
  \/ e.b.k \in {"mem", "data"} /\ (SmallImm(e.a, e.w) \/ Gpr(e.a))
  \/ e.w = W64 /\ Xmm(e.a) /\ (Xmm(e.b) \/ Writable(e.b))
  \/ e.w = W64 /\ Xmm(e.b) /\ RM(e.a)

Encodable(e) ==
  CASE e.op = "mov" -> EncodableMov(e)
    [] e.op \in {"add", "sub", "and", "or", "xor"} ->
         /\ Writable(e.b) /\ (RM(e.a) \/ SmallImm(e.a, e.w))
         /\ ~ (in_memory(e.a) /\ in_memory(e.b))
    [] e.op = "cmp" -> /\ RM(e.b) /\ (RM(e.a) \/ SmallImm(e.a, e.w))
                       /\ ~ (in_memory(e.a) /\ in_memory(e.b))
    [] e.op = "imul" -> Gpr(e.b) /\ e.w > W8 /\ (RM(e.a) \/ SmallImm(e.a, e.w))
    [] e.op \in ShiftOps -> Writable(e.b) /\ (e.a.k = "imm" \/ (Gpr(e.a) /\ e.a.at = "cx"))
    [] e.op \in {"neg", "not", "inc", "dec"} -> Writable(e.a)
    [] e.op \in {"idiv", "div"} -> RM(e.a)
    [] e.op \in {"cdq", "cqo", "ret"} -> TRUE
    [] e.op \in {"je", "jne"} -> e.a.k = "label"
    [] e.op \in Sets -> Writable(e.a)
    [] e.op = "movsx" -> Gpr(e.b) /\ RM(e.a)
    [] e.op = "movzx" -> Gpr(e.b) /\ RM(e.a) /\ e.from = W8
    [] e.op = "lea" -> Gpr(e.b) /\ e.w = W64 /\ (in_memory(e.a) \/ e.a.k = "indexed")
    [] e.op = "cvttsd2si" -> Gpr(e.b) /\ e.w > W8 /\ XM(e.a)
    [] e.op = "cvtsi2sd" -> Xmm(e.b) /\ RM(e.a) /\ e.from > W8
    [] e.op \in {"addsd", "subsd", "mulsd", "divsd", "comisd"} -> Xmm(e.b) /\ XM(e.a)
    [] e.op \in {"xorpd", "unpckhpd"} -> Xmm(e.b) /\ Xmm(e.a)
    [] e.op = "subpd" -> Xmm(e.b) /\ e.a.k = "quads"
    [] e.op = "punpckldq" -> Xmm(e.b) /\ e.a.k = "longs" /\ e.w = W64
    [] OTHER -> FALSE

(***************************************************************************)
(* A state of the machine: reg, the general registers; xmm, the low and    *)
(* the high lane of the others; mem, the cells; flags; jumped.             *)
(***************************************************************************)
Flags(zf, cf, lt, pf) == [zf |-> zf, cf |-> cf, lt |-> lt, pf |-> pf]
AnyFlags == Flags(FALSE, TRUE, TRUE, FALSE)   \* those nobody may rely on

CellAt(address) == CHOOSE c \in Cells : Addresses[c] = address
Cell(s, o) == IF o.at = "ax" THEN CellAt(s.reg["ax"]) ELSE o.at

Read(s, o, w) ==
  CASE o.k = "imm" -> Low(o.n, w)
    [] Gpr(o) -> Low(s.reg[o.at], w)
    [] Xmm(o) -> s.xmm[o.at][1]
    [] o.k \in {"mem", "data"} -> Low(s.mem[Cell(s, o)], w)
    [] o.k = "fconst" -> o.n

Merge(old, v, w) == old - Low(old, w) + v

\* Writing 32 bits of a register clears the others, writing 8 does not.
Write(s, o, w, v) ==
  CASE Gpr(o) -> [s EXCEPT !.reg[o.at] = IF w = W8 THEN Merge(@, v, w) ELSE v]
    [] Xmm(o) -> [s EXCEPT !.xmm[o.at] = <<v, 0>>]
    [] o.k \in {"mem", "data"} -> [s EXCEPT !.mem[Cell(s, o)] = Merge(@, v, w)]

\* The low lane of an xmm register, the other being left alone.
WriteLow(s, o, v) == [s EXCEPT !.xmm[o.at][1] = v]

Holds(f, cc) ==
  CASE cc \in {"sete", "je"} -> f.zf
    [] cc \in {"setne", "jne"} -> ~ f.zf
    [] cc = "setl"  -> f.lt
    [] cc = "setle" -> f.lt \/ f.zf
    [] cc = "setg"  -> ~ f.lt /\ ~ f.zf
    [] cc = "setge" -> ~ f.lt
    [] cc = "setb"  -> f.cf
    [] cc = "setbe" -> f.cf \/ f.zf
    [] cc = "seta"  -> ~ f.cf /\ ~ f.zf
    [] cc = "setae" -> ~ f.cf
    [] cc = "setp"  -> f.pf
    [] cc = "setnp" -> ~ f.pf

Alu(op, d, v, w) ==
  CASE op = "add" -> Low(d + v, w)
    [] op = "sub" -> Low(d - v, w)
    [] op = "imul" -> Low(d * v, w)
    [] op \in {"and", "or", "xor"} -> Bitwise2(op, d, v)
    [] op \in {"sal", "shl"} -> Low(d * 2^v, w)
    [] op = "shr" -> d \div 2^v
    [] op = "sar" -> Low(Signed(d, w) \div 2^v, w)

\* Division of %rdx:%rax, truncating; the quotient and the remainder.
Divide(s, v, w, signed) ==
  LET whole == Low(s.reg["dx"], w) * 2^w + Low(s.reg["ax"], w)
      n == IF signed THEN Signed(whole, 2 * w) ELSE whole
      d == IF signed THEN Signed(v, w) ELSE v
      q == IF (n < 0) = (d < 0) THEN Abs(n) \div Abs(d) ELSE - (Abs(n) \div Abs(d))
  IN  <<Low(q, w), Low(n - q * d, w)>>

\* Conversion to w bits; what does not fit becomes the least number.
Convert(d, w) ==
  IF IsNaN(d) \/ Toward0(d) < - 2^(w - 1) \/ Toward0(d) >= 2^(w - 1) THEN 2^(w - 1)
  ELSE Low(Toward0(d), w)

\* A lane whose upper half is one of the two magic words is written beyond
\* the numbers of W64 bits.
Magic(k, word) == k * 2^W64 + word
Unmagic(lane) ==
  CASE lane \div 2^W64 = 1 -> FromInt(lane % 2^W64)
    [] lane \div 2^W64 = 2 -> FromInt((lane % 2^W64) * 2^W32)
    [] OTHER -> NaN

Run(e, s) ==
  LET v == Read(s, e.a, e.from)
      d == Read(s, e.b, e.w)
      fpv == Read(s, e.a, W64)
      fpd == Read(s, e.b, W64)
      n == Read(s, e.a, e.w)
  IN
  CASE e.op = "mov" -> Write(s, e.b, e.w, v)
    [] e.op \in {"add", "sub", "imul", "and", "or", "xor"} ->
         [Write(s, e.b, e.w, Alu(e.op, d, v, e.w)) EXCEPT !.flags = AnyFlags]
    [] e.op \in ShiftOps ->
         LET count == (IF e.a.k = "imm" THEN e.a.n ELSE v) % e.w
         IN  [Write(s, e.b, e.w, Alu(e.op, d, count, e.w)) EXCEPT !.flags = AnyFlags]
    [] e.op = "cmp" ->
         [s EXCEPT !.flags = Flags(d = v, d < v, Signed(d, e.w) < Signed(v, e.w), FALSE)]
    [] e.op = "neg" -> [Write(s, e.a, e.w, Low(- n, e.w)) EXCEPT !.flags = AnyFlags]
    [] e.op = "not" -> Write(s, e.a, e.w, 2^e.w - 1 - n)
    [] e.op = "inc" -> [Write(s, e.a, e.w, Low(n + 1, e.w)) EXCEPT !.flags = AnyFlags]
    [] e.op = "dec" -> [Write(s, e.a, e.w, Low(n - 1, e.w)) EXCEPT !.flags = AnyFlags]
    [] e.op = "cdq" ->
         [s EXCEPT !.reg["dx"] = Bit(s.reg["ax"], W32 - 1) * (2^W32 - 1)]
    [] e.op = "cqo" ->
         [s EXCEPT !.reg["dx"] = Bit(s.reg["ax"], W64 - 1) * (2^W64 - 1)]
    [] e.op \in {"idiv", "div"} ->
         LET qr == Divide(s, n, e.w, e.op = "idiv")
         IN  [s EXCEPT !.reg["ax"] = qr[1], !.reg["dx"] = qr[2], !.flags = AnyFlags]
    [] e.op \in Sets -> Write(s, e.a, W8, IF Holds(s.flags, e.op) THEN 1 ELSE 0)
    [] e.op \in {"je", "jne"} -> [s EXCEPT !.jumped = Holds(s.flags, e.op)]
    [] e.op = "ret" -> s
    [] e.op = "movsx" -> Write(s, e.b, e.w, Low(Signed(v, e.from), e.w))
    [] e.op = "movzx" -> Write(s, e.b, e.w, v)
    [] e.op = "lea" ->
         Write(s, e.b, e.w,
               IF e.a.k = "indexed"
               THEN Low(s.reg["ax"] + s.reg["dx"] * e.a.n, W64) ELSE Addresses[e.a.at])
    [] e.op = "cvttsd2si" -> Write(s, e.b, e.w, Convert(fpv, e.w))
    [] e.op = "cvtsi2sd" -> WriteLow(s, e.b, FromInt(Signed(v, e.from)))
    [] e.op \in {"addsd", "subsd", "mulsd", "divsd"} ->
         WriteLow(s, e.b,
           FpArith(CASE e.op = "addsd" -> "add" [] e.op = "subsd" -> "sub"
                     [] e.op = "mulsd" -> "mul" [] e.op = "divsd" -> "div", fpd, fpv))
    [] e.op = "xorpd" -> WriteLow(s, e.b, Bitwise2("xor", fpd, fpv))
    [] e.op = "comisd" ->
         LET unordered == IsNaN(fpd) \/ IsNaN(fpv)
         IN  [s EXCEPT !.flags = Flags(unordered \/ Number(fpd) = Number(fpv),
                                       unordered \/ Number(fpd) < Number(fpv),
                                       FALSE, unordered)]
    [] e.op = "punpckldq" ->
         [s EXCEPT !.xmm[e.b.at] = <<Magic(1, fpd % 2^W32), Magic(2, fpd \div 2^W32)>>]
    [] e.op = "subpd" ->
         [s EXCEPT !.xmm[e.b.at] = [k \in 1 .. 2 |->
            IF s.xmm[e.b.at][k] \div 2^W64 = k THEN Unmagic(s.xmm[e.b.at][k]) ELSE NaN]]
    [] e.op = "unpckhpd" ->
         [s EXCEPT !.xmm[e.b.at] = <<s.xmm[e.b.at][2], s.xmm[e.a.at][2]>>]

\* The code, an instruction at a time.
RunAll(code, s) ==
  LET after[k \in 0 .. Len(code)] ==
        IF k = 0 THEN s ELSE Run(Emitted(code[k]), after[k - 1])
  IN  after[Len(code)]
=============================================================================
