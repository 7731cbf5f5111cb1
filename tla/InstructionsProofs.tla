-------------------------- MODULE InstructionsProofs --------------------------
(***************************************************************************)
(* Proofs about module Instructions, for integers of any width, any        *)
(* constants and any sizes of what pointers point to: no assertion of the  *)
(* back end fails, operands are well formed, the fixers leave nothing to   *)
(* each other, and the processor has every instruction that is emitted.    *)
(***************************************************************************)
EXTENDS Instructions, Inductions, FiniteSetTheorems, SequenceTheorems, TLAPS

(***************************************************************************)
(* Operands and instructions.                                              *)
(***************************************************************************)
\* An operand of one of the kinds K.
Formed(o, K) == o = Operand(o.k, o.w, o.at, o.n) /\ o.k \in K /\ o.w \in Words

\* The extensions extend; no register takes an unsigned int that is extended.
Extends(i) ==
  i.op \in {"movsx", "movzx"} =>
    /\ i.a.w < i.b.w
    /\ i.op = "movzx" /\ i.a.w # W8 => i.b.k # "reg"

Good(i, K) == Formed(i.a, K) /\ Formed(i.b, K) /\ Extends(i)

Elements(c) == {c[k] : k \in DOMAIN c}
GoodCode(c, K) == c \in Seq(Elements(c)) /\ \A i \in Elements(c) : Good(i, K)

\* What fixer n would replace.
Needs(n, i) ==
  CASE n = 1 -> i.op \in Binaryish \cup {"mov"} /\ in_memory(i.a) /\ in_memory(i.b)
    [] n = 2 -> \/ i.op \in Binaryish \cup {"imul", "push"} /\ Big(i.a)
                \/ i.op = "mov" /\ Big(i.a) /\ in_memory(i.b)
                \/ i.op = "mov" /\ i.a.k = "imm" /\ is_xmm_register(i.b)
    [] n = 3 -> i.op = "cmp" /\ i.b.k = "imm"
    [] n = 4 -> i.op \in {"idiv", "div"} /\ i.a.k = "imm"
    [] n = 5 -> i.op = "imul" /\ in_memory(i.b)
    [] n = 6 -> i.op \in Shifts /\ i.a.k # "imm" /\ i.a # Ecx(i.a)
    [] n = 7 -> /\ \/ i.op = "movsx" /\ i.a.w < W64
                   \/ i.op = "movzx" /\ i.a.w < W32
                /\ i.a.k = "imm" \/ in_memory(i.b)
    [] n = 8 -> i.op = "movzx" /\ i.a.w # W8
    [] n = 9 -> i.op = "cvttsd2si" /\ in_memory(i.b)
    [] n = 10 -> i.op = "cvtsi2sd" /\ (i.a.k = "imm" \/ in_memory(i.b))
    [] n = 11 -> i.op \in FpOps /\ in_memory(i.b)
    [] n = 12 -> i.op = "lea" /\ in_memory(i.b)

\* The fixers up to n have nothing to do.
Clean(n, i) == \A m \in 1 .. n : ~ Needs(m, i)

\* What the operands of an instruction are before the fixers: what is asked
\* of them there is what the fixers cannot mend.
Numeral(o) == o.k = "imm" /\ o.n \in Int /\ -1 =< o.n
Place(o)   == o.k \in {"temp", "mem", "data"}
Target(o)  == Gpr(o) \/ Place(o)
Source(o)  == Gpr(o) \/ Numeral(o) \/ o.k = "temp" \/ in_memory(o)
Double(o)  == Xmm(o) \/ Place(o) \/ o.k = "fconst"
DoubleTarget(o) == o.w = W64 /\ (Xmm(o) \/ Place(o))

FitsMov(i) ==
  \/ Target(i.b) /\ Source(i.a)
  \/ i.b.w = W64 /\ Xmm(i.a) /\ (Xmm(i.b) \/ Target(i.b))
  \/ i.b.w = W64 /\ Xmm(i.b) /\ Source(i.a)

Fits(i) ==
  CASE i.op = "mov" -> FitsMov(i)
    [] i.op \in {"add", "sub", "and", "or", "xor"} \cup ShiftOps -> Target(i.b) /\ Source(i.a)
    [] i.op = "cmp" -> Source(i.b) /\ Source(i.a)
    [] i.op = "imul" ->
         Target(i.b) /\ Source(i.a) /\ i.b.w > W8 /\ (Place(i.b) => i.a.w > W8)
    [] i.op \in {"neg", "not", "inc", "dec"} \cup Sets -> Target(i.a)
    [] i.op \in {"idiv", "div"} -> Source(i.a)
    [] i.op \in {"cdq", "cqo", "ret"} -> TRUE
    [] i.op \in {"je", "jne"} -> i.a.k = "label"
    [] i.op \in {"movsx", "movzx"} -> Target(i.b) /\ Source(i.a)
    [] i.op = "lea" ->
         Target(i.b) /\ i.b.w = W64 /\ (i.a.k \in {"temp", "indexed"} \/ in_memory(i.a))
    [] i.op = "cvttsd2si" -> Target(i.b) /\ i.b.w > W8 /\ Double(i.a) /\ i.a.w > W8
    [] i.op = "cvtsi2sd" -> DoubleTarget(i.b) /\ Source(i.a) /\ i.a.w > W8
    [] i.op = "comisd" -> Double(i.b) /\ Double(i.a)
    [] i.op \in {"addsd", "subsd", "mulsd", "divsd"} -> DoubleTarget(i.b) /\ Double(i.a)
    [] i.op \in {"xorpd", "unpckhpd"} -> Xmm(i.b) /\ Xmm(i.a)
    [] i.op = "subpd" -> Xmm(i.b) /\ i.a.k = "quads"
    [] i.op = "punpckldq" -> Xmm(i.b) /\ i.a.k = "longs" /\ i.b.w = W64
    [] OTHER -> FALSE

FitCode(c) == c \in Seq(Elements(c)) /\ \A i \in Elements(c) : Fits(i)

InvKinds == IF stage > 1 THEN Kinds \ {"temp"} ELSE Kinds

IInv ==
  /\ ir \in Operations /\ stage \in 0 .. LastStage
  /\ GoodCode(code, InvKinds) /\ FitCode(code)
  /\ stage > 1 => \A i \in Elements(code) : Clean(stage - 2, i)

(***************************************************************************)
(* Words and registers.                                                    *)
(***************************************************************************)
LEMMA WordsAre ==
  /\ W8 \in Nat /\ W32 \in Nat /\ W64 \in Nat /\ W8 < W32 /\ W32 < W64 /\ W8 > 0
  /\ Words = {W8, W32, W64}
BY WidthAssumption DEF W64, Words

LEMMA RegFormed ==
  ASSUME NEW at, NEW w \in Words, NEW K, "reg" \in K
  PROVE  Formed(Reg(at, w), K)
BY DEF Formed, Reg, Operand

LEMMA SequenceOfThese ==
  /\ \A a : <<a>> \in Seq({a}) /\ Elements(<<a>>) = {a}
  /\ \A a, b : <<a, b>> \in Seq({a, b}) /\ Elements(<<a, b>>) = {a, b}
  /\ \A a, b, c : <<a, b, c>> \in Seq({a, b, c}) /\ Elements(<<a, b, c>>) = {a, b, c}
<1>1. ASSUME NEW a PROVE <<a>> \in Seq({a}) /\ Elements(<<a>>) = {a}
  BY DEF Elements
<1>2. ASSUME NEW a, NEW b PROVE <<a, b>> \in Seq({a, b}) /\ Elements(<<a, b>>) = {a, b}
  BY DEF Elements
<1>3. ASSUME NEW a, NEW b, NEW c
      PROVE  <<a, b, c>> \in Seq({a, b, c}) /\ Elements(<<a, b, c>>) = {a, b, c}
  BY DEF Elements
<1> QED BY <1>1, <1>2, <1>3

LEMMA ElementsOf ==
  ASSUME NEW S, NEW c \in Seq(S)
  PROVE  c \in Seq(Elements(c)) /\ Elements(c) \subseteq S
<1>1. DOMAIN c = 1 .. Len(c) /\ Len(c) \in Nat
  OBVIOUS
<1>2. \A k \in 1 .. Len(c) : c[k] \in S
  OBVIOUS
<1>3. \A k \in 1 .. Len(c) : c[k] \in Elements(c)
  BY <1>1 DEF Elements
<1>4. c = [k \in 1 .. Len(c) |-> c[k]]
  OBVIOUS
<1>5. c \in [1 .. Len(c) -> Elements(c)]
  BY <1>3, <1>4
<1>6. c \in Seq(Elements(c))
  BY <1>1, <1>5
<1> QED BY <1>1, <1>2, <1>6 DEF Elements

\* A list of these instructions, and two lists in a row.
LEMMA GoodTuples ==
  ASSUME NEW K
  PROVE  /\ GoodCode(<<>>, K)
         /\ \A a : Good(a, K) => GoodCode(<<a>>, K)
         /\ \A a, b : Good(a, K) /\ Good(b, K) => GoodCode(<<a, b>>, K)
         /\ \A a, b, c : Good(a, K) /\ Good(b, K) /\ Good(c, K) => GoodCode(<<a, b, c>>, K)
<1>1. GoodCode(<<>>, K)
  BY DEF GoodCode, Elements
<1> QED BY <1>1, SequenceOfThese DEF GoodCode

LEMMA GoodJoin ==
  ASSUME NEW K, NEW c, NEW d, GoodCode(c, K), GoodCode(d, K)
  PROVE  GoodCode(c \o d, K) /\ Elements(c \o d) \subseteq Elements(c) \cup Elements(d)
<1> DEFINE S == Elements(c) \cup Elements(d)
<1>1. c \in Seq(S) /\ d \in Seq(S)
  BY DEF GoodCode
<1>2. c \o d \in Seq(S)
  BY <1>1
<1>3. c \o d \in Seq(Elements(c \o d)) /\ Elements(c \o d) \subseteq S
  <2> HIDE DEF S
  <2> QED BY <1>2, ElementsOf
<1> QED BY <1>3 DEF GoodCode

(***************************************************************************)
(* The fixers.                                                             *)
(***************************************************************************)
\* Instructions for which no fixer has a use.
LEMMA CleanMoves ==
  /\ \A a, at, w : at \notin XmmNames => Clean(Fixers, Mov(a, Reg(at, w)))
  /\ \A b, at, w : Clean(Fixers, Mov(Reg(at, w), b))
  /\ \A a, at, w : a.k # "imm" => Clean(Fixers, Mov(a, Reg(at, w)))
BY DEF Clean, Needs, Fixers, Mov, Instr, Reg, Operand, in_memory, Big, is_xmm_register,
       Binaryish, Shifts, FpOps

LEMMA CleanLess ==
  ASSUME NEW i, NEW n \in 0 .. Fixers, NEW m \in 0 .. n, Clean(n, i)
  PROVE  Clean(m, i)
BY DEF Clean, Fixers

LEMMA CleanMore ==
  ASSUME NEW i, NEW n \in 1 .. Fixers, Clean(n - 1, i), ~ Needs(n, i)
  PROVE  Clean(n, i)
<1>1. \A m \in 1 .. n : m \in 1 .. n - 1 \/ m = n
  BY DEF Fixers
<1> QED BY <1>1 DEF Clean

\* What fixer n makes of i.
FixedBy(n, i, K) ==
  /\ GoodCode(Fix(n, i), K) /\ \A j \in Elements(Fix(n, i)) : Clean(n, j)
  /\ FixAsserts(n, i)

\* i is left as it is.
LEMMA FixIdle ==
  ASSUME NEW i, NEW K, NEW n \in 1 .. Fixers, Good(i, K), Clean(n - 1, i), ~ Needs(n, i),
         Fix(n, i) = <<i>>
  PROVE  FixedBy(n, i, K)
<1>1. GoodCode(<<i>>, K) /\ Elements(<<i>>) = {i}
  BY GoodTuples, SequenceOfThese
<1>2. Clean(n, i)
  BY CleanMore
<1>3. n = 8 /\ i.op = "movzx" => i.a.w \in {W8, W32}
  BY WordsAre DEF Needs
<1>4. FixAsserts(n, i)
  BY <1>3 DEF FixAsserts
<1> QED BY <1>1, <1>2, <1>4 DEF FixedBy

\* i is replaced by two instructions or three.
LEMMA FixTwo ==
  ASSUME NEW i, NEW K, NEW n \in 1 .. Fixers, NEW a, NEW b, Fix(n, i) = <<a, b>>,
         Good(a, K), Good(b, K), Clean(n, a), Clean(n, b),
         n \in {7, 8} => i.a.w < W64 /\ i.a.w < i.b.w,
         n = 8 /\ i.op = "movzx" => i.a.w \in {W8, W32}
  PROVE  FixedBy(n, i, K)
<1>1. GoodCode(<<a, b>>, K) /\ Elements(<<a, b>>) = {a, b}
  BY GoodTuples, SequenceOfThese
<1>2. Len(<<a, b>>) \in 2 .. 3
  OBVIOUS
<1> QED BY <1>1, <1>2 DEF FixedBy, FixAsserts

LEMMA FixThree ==
  ASSUME NEW i, NEW K, NEW n \in 1 .. Fixers, NEW a, NEW b, NEW c, Fix(n, i) = <<a, b, c>>,
         Good(a, K), Good(b, K), Good(c, K), Clean(n, a), Clean(n, b), Clean(n, c),
         n \in {7, 8} => i.a.w < W64 /\ i.a.w < i.b.w,
         n = 8 /\ i.op = "movzx" => i.a.w \in {W8, W32}
  PROVE  FixedBy(n, i, K)
<1>1. GoodCode(<<a, b, c>>, K) /\ Elements(<<a, b, c>>) = {a, b, c}
  BY GoodTuples, SequenceOfThese
<1>2. Len(<<a, b, c>>) \in 2 .. 3
  OBVIOUS
<1> QED BY <1>1, <1>2 DEF FixedBy, FixAsserts

LEMMA GoodInstr ==
  ASSUME NEW K, NEW a, NEW b, NEW op, Formed(a, K), Formed(b, K),
         op \in {"movsx", "movzx"} => a.w < b.w,
         op = "movzx" => a.w = W8 \/ b.k # "reg"
  PROVE  /\ Good(Instr(op, a, b), K) /\ Instr(op, a, b).op = op
         /\ Instr(op, a, b).a = a /\ Instr(op, a, b).b = b
BY DEF Good, Instr, Extends

\* The operands the fixers put in.
LEMMA Scratch ==
  ASSUME NEW K, {"reg", "none"} \subseteq K, NEW o, Formed(o, K)
  PROVE  /\ Formed(R10(o), K) /\ Formed(R11(o), K) /\ Formed(Ecx(o), K)
         /\ Formed(XMM("xmm15"), K) /\ Formed(Reg("r10", W64), K) /\ Formed(NoOperand, K)
BY WordsAre, RegFormed DEF R10, R11, Ecx, XMM, NoOperand, Operand, Formed

(***************************************************************************)
(* Fixer by fixer: what earlier fixers left, the fixer leaves as well.     *)
(***************************************************************************)
Fixable(i, K, n) ==
  {"reg", "none"} \subseteq K /\ "temp" \notin K /\ Good(i, K) /\ Clean(n - 1, i)

LEMMA Replaced ==
  ASSUME NEW i, NEW K, NEW n, Fixable(i, K, n)
  PROVE  /\ Formed(i.a, K) /\ Formed(i.b, K) /\ i.a.w \in Words /\ i.b.w \in Words
         /\ Formed(R10(i.a), K) /\ Formed(R11(i.a), K) /\ Formed(Ecx(i.a), K)
         /\ Formed(R10(i.b), K) /\ Formed(R11(i.b), K) /\ Formed(Ecx(i.b), K)
         /\ Formed(XMM("xmm15"), K) /\ Formed(Reg("r10", W64), K) /\ Formed(NoOperand, K)
BY Scratch DEF Fixable, Good, Formed

LEMMA Registers ==
  /\ \A o : R10(o).k = "reg" /\ R10(o).w = o.w /\ ~ is_xmm_register(R10(o))
  /\ \A o : R11(o).k = "reg" /\ R11(o).w = o.w /\ ~ is_xmm_register(R11(o))
  /\ \A o : Ecx(o).k = "reg" /\ Ecx(o).w = o.w /\ Ecx(o) = Ecx(Ecx(o))
  /\ XMM("xmm15").k = "reg" /\ Reg("r10", W64).k = "reg" /\ NoOperand.k = "none"
BY DEF R10, R11, Ecx, XMM, Reg, NoOperand, Operand, is_xmm_register, XmmNames

\* A register is neither in memory nor a number.
LEMMA NotInMemory ==
  \A o : o.k = "reg" \/ o.k = "none" => ~ in_memory(o) /\ ~ Big(o) /\ o.k # "imm"
BY DEF in_memory, Big

\* One fixer after the other.
LEMMA CleanIs ==
  ASSUME NEW i, NEW n \in 1 .. Fixers,
         ~ Needs(1, i),
         n > 1 => ~ Needs(2, i), n > 2 => ~ Needs(3, i), n > 3 => ~ Needs(4, i),
         n > 4 => ~ Needs(5, i), n > 5 => ~ Needs(6, i), n > 6 => ~ Needs(7, i),
         n > 7 => ~ Needs(8, i), n > 8 => ~ Needs(9, i), n > 9 => ~ Needs(10, i),
         n > 10 => ~ Needs(11, i), n > 11 => ~ Needs(12, i)
  PROVE  Clean(n, i)
<1>1. \A m \in 1 .. n :
        \/ m = 1 \/ m = 2 \/ m = 3 \/ m = 4 \/ m = 5 \/ m = 6
        \/ m = 7 \/ m = 8 \/ m = 9 \/ m = 10 \/ m = 11 \/ m = 12
  BY DEF Fixers
<1> QED BY <1>1 DEF Clean

LEMMA FixS2s == ASSUME NEW i, NEW K, Fixable(i, K, 1) PROVE FixedBy(1, i, K)
<1>1. Good(i, K) /\ Clean(1 - 1, i) /\ 1 \in 1 .. Fixers
  BY DEF Fixable, Fixers
<1>2. CASE ~ (Needs(1, i))
  <2>1. Fix(1, i) = <<i>> /\ ~ Needs(1, i)
    BY <1>2 DEF Fix, fix_s2s, Needs
  <2> QED BY <1>1, <1>2, <2>1, FixIdle
<1>3. CASE Needs(1, i)
  <2> DEFINE a == Mov(i.a, R10(i.a))
             b == Instr(i.op, R10(i.b), i.b)
  <2>1. Fix(1, i) = <<a, b>>
    BY <1>1, <1>3 DEF Fix, fix_s2s, Needs
  <2>2. Good(a, K) /\ Good(b, K)
    BY <1>1, <1>3, Replaced, GoodInstr, Registers DEF Mov, Instr1, Needs, Binaryish, Shifts, FpOps
  <2>3. Clean(1, a)
    <3>1. Clean(Fixers, a)
      BY <1>3, CleanMoves DEF R10, R11, Ecx, XMM, XmmNames, Needs, in_memory
    <3> QED BY <3>1, CleanLess DEF Fixers
  <2>4. b.op = i.op /\ b.a = R10(i.b) /\ b.b = i.b
    BY DEF Instr, Instr1
  <2> HIDE DEF a, b
  <2>5. ~ Needs(1, b)
    BY <1>1, <1>3, <2>4, Registers, NotInMemory DEF Needs, Clean, Fixers, Binaryish, Shifts, FpOps
  <2>6. Clean(1, b)
    BY <1>1, <2>5, CleanIs
  <2> QED BY <1>1, <2>1, <2>2, <2>3, <2>6, FixTwo
<1> QED BY <1>2, <1>3

LEMMA FixImmBig == ASSUME NEW i, NEW K, Fixable(i, K, 2) PROVE FixedBy(2, i, K)
<1>1. Good(i, K) /\ Clean(2 - 1, i) /\ 2 \in 1 .. Fixers
  BY DEF Fixable, Fixers
<1>2. CASE ~ (Needs(2, i))
  <2>1. Fix(2, i) = <<i>> /\ ~ Needs(2, i)
    BY <1>2 DEF Fix, fix_imm_big, Needs
  <2> QED BY <1>1, <1>2, <2>1, FixIdle
<1>3. CASE Needs(2, i)
  <2> DEFINE a == Mov(i.a, Reg("r10", W64))
             b == Instr(i.op, Reg("r10", W64), i.b)
  <2>1. Fix(2, i) = <<a, b>>
    BY <1>1, <1>3 DEF Fix, fix_imm_big, Needs
  <2>2. Good(a, K) /\ Good(b, K)
    BY <1>1, <1>3, Replaced, GoodInstr, Registers DEF Mov, Instr1, Needs, Binaryish, Shifts, FpOps
  <2>3. Clean(2, a)
    <3>1. Clean(Fixers, a)
      BY <1>3, CleanMoves DEF R10, R11, Ecx, XMM, XmmNames, Needs, in_memory
    <3> QED BY <3>1, CleanLess DEF Fixers
  <2>4. b.op = i.op /\ b.a = Reg("r10", W64) /\ b.b = i.b
    BY DEF Instr, Instr1
  <2> HIDE DEF a, b
  <2>5. ~ Needs(1, b) /\ ~ Needs(2, b)
    BY <1>1, <1>3, <2>4, Registers, NotInMemory DEF Needs, Clean, Fixers, Binaryish, Shifts, FpOps
  <2>6. Clean(2, b)
    BY <1>1, <2>5, CleanIs
  <2> QED BY <1>1, <2>1, <2>2, <2>3, <2>6, FixTwo
<1> QED BY <1>2, <1>3

LEMMA FixCmp == ASSUME NEW i, NEW K, Fixable(i, K, 3) PROVE FixedBy(3, i, K)
<1>1. Good(i, K) /\ Clean(3 - 1, i) /\ 3 \in 1 .. Fixers
  BY DEF Fixable, Fixers
<1>2. CASE ~ (Needs(3, i))
  <2>1. Fix(3, i) = <<i>> /\ ~ Needs(3, i)
    BY <1>2 DEF Fix, fix_cmp, Needs
  <2> QED BY <1>1, <1>2, <2>1, FixIdle
<1>3. CASE Needs(3, i)
  <2> DEFINE a == Mov(i.b, R11(i.b))
             b == Instr("cmp", i.a, R11(i.a))
  <2>1. Fix(3, i) = <<a, b>>
    BY <1>1, <1>3 DEF Fix, fix_cmp, Needs
  <2>2. Good(a, K) /\ Good(b, K)
    BY <1>1, <1>3, Replaced, GoodInstr, Registers DEF Mov, Instr1, Needs, Binaryish, Shifts, FpOps
  <2>3. Clean(3, a)
    <3>1. Clean(Fixers, a)
      BY <1>3, CleanMoves DEF R10, R11, Ecx, XMM, XmmNames, Needs, in_memory
    <3> QED BY <3>1, CleanLess DEF Fixers
  <2>4. b.op = "cmp" /\ b.a = i.a /\ b.b = R11(i.a)
    BY DEF Instr, Instr1
  <2> HIDE DEF a, b
  <2>5. ~ Needs(1, b) /\ ~ Needs(2, b) /\ ~ Needs(3, b)
    BY <1>1, <1>3, <2>4, Registers, NotInMemory DEF Needs, Clean, Fixers, Binaryish, Shifts, FpOps
  <2>6. Clean(3, b)
    BY <1>1, <2>5, CleanIs
  <2> QED BY <1>1, <2>1, <2>2, <2>3, <2>6, FixTwo
<1> QED BY <1>2, <1>3

LEMMA FixDiv == ASSUME NEW i, NEW K, Fixable(i, K, 4) PROVE FixedBy(4, i, K)
<1>1. Good(i, K) /\ Clean(4 - 1, i) /\ 4 \in 1 .. Fixers
  BY DEF Fixable, Fixers
<1>2. CASE ~ (Needs(4, i))
  <2>1. Fix(4, i) = <<i>> /\ ~ Needs(4, i)
    BY <1>2 DEF Fix, fix_div, Needs
  <2> QED BY <1>1, <1>2, <2>1, FixIdle
<1>3. CASE Needs(4, i)
  <2> DEFINE a == Mov(i.a, R10(i.a))
             b == Instr1(i.op, R10(i.a))
  <2>1. Fix(4, i) = <<a, b>>
    BY <1>1, <1>3 DEF Fix, fix_div, Needs
  <2>2. Good(a, K) /\ Good(b, K)
    BY <1>1, <1>3, Replaced, GoodInstr, Registers DEF Mov, Instr1, Needs, Binaryish, Shifts, FpOps
  <2>3. Clean(4, a)
    <3>1. Clean(Fixers, a)
      BY <1>3, CleanMoves DEF R10, R11, Ecx, XMM, XmmNames, Needs, in_memory
    <3> QED BY <3>1, CleanLess DEF Fixers
  <2>4. b.op = i.op /\ b.a = R10(i.a) /\ b.b = NoOperand
    BY DEF Instr, Instr1
  <2> HIDE DEF a, b
  <2>5. ~ Needs(1, b) /\ ~ Needs(2, b) /\ ~ Needs(3, b) /\ ~ Needs(4, b)
    BY <1>1, <1>3, <2>4, Registers, NotInMemory DEF Needs, Clean, Fixers, Binaryish, Shifts, FpOps
  <2>6. Clean(4, b)
    BY <1>1, <2>5, CleanIs
  <2> QED BY <1>1, <2>1, <2>2, <2>3, <2>6, FixTwo
<1> QED BY <1>2, <1>3

LEMMA FixMul == ASSUME NEW i, NEW K, Fixable(i, K, 5) PROVE FixedBy(5, i, K)
<1>1. Good(i, K) /\ Clean(5 - 1, i) /\ 5 \in 1 .. Fixers
  BY DEF Fixable, Fixers
<1>2. CASE ~ (Needs(5, i))
  <2>1. Fix(5, i) = <<i>> /\ ~ Needs(5, i)
    BY <1>2 DEF Fix, fix_mul, Needs
  <2> QED BY <1>1, <1>2, <2>1, FixIdle
<1>3. CASE Needs(5, i)
  <2> DEFINE a == Mov(i.b, R11(i.b))
             b == Instr("imul", i.a, R11(i.a))
             c == Mov(R11(i.b), i.b)
  <2>1. Fix(5, i) = <<a, b, c>>
    BY <1>1, <1>3 DEF Fix, fix_mul, Needs
  <2>2. Good(a, K) /\ Good(b, K) /\ Good(c, K)
    BY <1>1, <1>3, Replaced, GoodInstr, Registers DEF Mov, Instr1, Needs, Binaryish, Shifts, FpOps
  <2>3. Clean(5, a) /\ Clean(5, c)
    <3>1. Clean(Fixers, a) /\ Clean(Fixers, c)
      BY <1>3, CleanMoves DEF R10, R11, Ecx, XMM, XmmNames, Needs, in_memory
    <3> QED BY <3>1, CleanLess DEF Fixers
  <2>4. b.op = "imul" /\ b.a = i.a /\ b.b = R11(i.a)
    BY DEF Instr, Instr1
  <2> HIDE DEF a, b, c
  <2>5. /\ ~ Needs(1, b) /\ ~ Needs(2, b) /\ ~ Needs(3, b) /\ ~ Needs(4, b)
        /\ ~ Needs(5, b)
    BY <1>1, <1>3, <2>4, Registers, NotInMemory DEF Needs, Clean, Fixers, Binaryish, Shifts, FpOps
  <2>6. Clean(5, b)
    BY <1>1, <2>5, CleanIs
  <2> QED BY <1>1, <2>1, <2>2, <2>3, <2>6, FixThree
<1> QED BY <1>2, <1>3

LEMMA FixShift == ASSUME NEW i, NEW K, Fixable(i, K, 6) PROVE FixedBy(6, i, K)
<1>1. Good(i, K) /\ Clean(6 - 1, i) /\ 6 \in 1 .. Fixers
  BY DEF Fixable, Fixers
<1>2. CASE ~ (i.op \in Shifts /\ i.a.k # "imm")
  <2>1. Fix(6, i) = <<i>> /\ ~ Needs(6, i)
    BY <1>2 DEF Fix, fix_shift, Needs
  <2> QED BY <1>1, <1>2, <2>1, FixIdle
<1>3. CASE i.op \in Shifts /\ i.a.k # "imm"
  <2> DEFINE a == Mov(i.a, Ecx(i.a))
             b == Instr(i.op, Ecx(i.b), i.b)
  <2>1. Fix(6, i) = <<a, b>>
    BY <1>1, <1>3 DEF Fix, fix_shift, Needs
  <2>2. Good(a, K) /\ Good(b, K)
    BY <1>1, <1>3, Replaced, GoodInstr, Registers DEF Mov, Instr1, Needs, Binaryish, Shifts, FpOps
  <2>3. Clean(6, a)
    <3>1. Clean(Fixers, a)
      BY <1>3, CleanMoves DEF R10, R11, Ecx, XMM, XmmNames, Needs, in_memory
    <3> QED BY <3>1, CleanLess DEF Fixers
  <2>4. b.op = i.op /\ b.a = Ecx(i.b) /\ b.b = i.b
    BY DEF Instr, Instr1
  <2> HIDE DEF a, b
  <2>5. /\ ~ Needs(1, b) /\ ~ Needs(2, b) /\ ~ Needs(3, b) /\ ~ Needs(4, b)
        /\ ~ Needs(5, b) /\ ~ Needs(6, b)
    BY <1>1, <1>3, <2>4, Registers, NotInMemory DEF Needs, Clean, Fixers, Binaryish, Shifts, FpOps
  <2>6. Clean(6, b)
    BY <1>1, <2>5, CleanIs
  <2> QED BY <1>1, <2>1, <2>2, <2>3, <2>6, FixTwo
<1> QED BY <1>2, <1>3

LEMMA FixExtensions == ASSUME NEW i, NEW K, Fixable(i, K, 7) PROVE FixedBy(7, i, K)
<1>1. Good(i, K) /\ Clean(7 - 1, i) /\ 7 \in 1 .. Fixers
  BY DEF Fixable, Fixers
<1>2. CASE ~ (Needs(7, i))
  <2>1. Fix(7, i) = <<i>> /\ ~ Needs(7, i)
    BY <1>2 DEF Fix, fix_movsx_and_movzx, Needs
  <2> QED BY <1>1, <1>2, <2>1, FixIdle
<1>3. CASE Needs(7, i)
  <2> DEFINE a == Mov(i.a, R10(i.a))
             b == Instr(i.op, R10(i.a), R11(i.b))
             c == Mov(R11(i.b), i.b)
  <2>1. Fix(7, i) = <<a, b, c>>
    BY <1>1, <1>3, WordsAre DEF Fix, fix_movsx_and_movzx, Needs
  <2>2. Good(a, K) /\ Good(b, K) /\ Good(c, K)
    BY <1>1, <1>3, Replaced, GoodInstr, Registers, WordsAre
       DEF Mov, Instr1, Needs, Binaryish, Shifts, FpOps, Good, Extends
  <2>3. Clean(7, a) /\ Clean(7, c)
    <3>1. Clean(Fixers, a) /\ Clean(Fixers, c)
      BY <1>3, CleanMoves DEF R10, R11, Ecx, XMM, XmmNames, Needs, in_memory
    <3> QED BY <3>1, CleanLess DEF Fixers
  <2>4. b.op = i.op /\ b.a = R10(i.a) /\ b.b = R11(i.b)
    BY DEF Instr, Instr1
  <2> HIDE DEF a, b, c
  <2>5. /\ ~ Needs(1, b) /\ ~ Needs(2, b) /\ ~ Needs(3, b) /\ ~ Needs(4, b)
        /\ ~ Needs(5, b) /\ ~ Needs(6, b) /\ ~ Needs(7, b)
    BY <1>1, <1>3, <2>4, Registers, NotInMemory DEF Needs, Clean, Fixers, Binaryish, Shifts, FpOps
  <2>6. Clean(7, b)
    BY <1>1, <2>5, CleanIs
  <2>7. i.a.w < W64 /\ i.a.w < i.b.w /\ i.a.w \in {W8, W32}
    BY <1>1, <1>3, WordsAre, Replaced DEF Needs, Good, Extends
  <2> QED BY <1>1, <2>1, <2>2, <2>3, <2>6, <2>7, FixThree
<1> QED BY <1>2, <1>3

LEMMA FixMovzx32 == ASSUME NEW i, NEW K, Fixable(i, K, 8) PROVE FixedBy(8, i, K)
<1>1. Good(i, K) /\ Clean(8 - 1, i) /\ 8 \in 1 .. Fixers
  BY DEF Fixable, Fixers
<1>2. CASE ~ (Needs(8, i))
  <2>1. Fix(8, i) = <<i>> /\ ~ Needs(8, i)
    BY <1>2 DEF Fix, fix_movzx_32bit, Needs
  <2> QED BY <1>1, <1>2, <2>1, FixIdle
<1>3. CASE Needs(8, i)
  <2> DEFINE a == Mov(i.a, R11(i.a))
             b == Mov(R11(i.b), i.b)
  <2>1. Fix(8, i) = <<a, b>>
    BY <1>1, <1>3 DEF Fix, fix_movzx_32bit, Needs, Good, Extends
  <2>2. Good(a, K) /\ Good(b, K)
    BY <1>1, <1>3, Replaced, GoodInstr, Registers DEF Mov, Instr1, Needs, Binaryish, Shifts, FpOps
  <2>3. Clean(8, a) /\ Clean(8, b)
    <3>1. Clean(Fixers, a) /\ Clean(Fixers, b)
      BY <1>3, CleanMoves DEF R10, R11, Ecx, XMM, XmmNames, Needs, in_memory
    <3> QED BY <3>1, CleanLess DEF Fixers
  <2> HIDE DEF a, b
  <2>7. i.a.w < W64 /\ i.a.w < i.b.w /\ i.a.w \in {W8, W32}
    BY <1>1, <1>3, WordsAre, Replaced DEF Needs, Good, Extends
  <2> QED BY <1>1, <2>1, <2>2, <2>3, <2>7, FixTwo
<1> QED BY <1>2, <1>3

LEMMA FixToInt == ASSUME NEW i, NEW K, Fixable(i, K, 9) PROVE FixedBy(9, i, K)
<1>1. Good(i, K) /\ Clean(9 - 1, i) /\ 9 \in 1 .. Fixers
  BY DEF Fixable, Fixers
<1>2. CASE ~ (Needs(9, i))
  <2>1. Fix(9, i) = <<i>> /\ ~ Needs(9, i)
    BY <1>2 DEF Fix, fix_cvt_double_to_int, Needs
  <2> QED BY <1>1, <1>2, <2>1, FixIdle
<1>3. CASE Needs(9, i)
  <2> DEFINE a == Instr("cvttsd2si", i.a, R11(i.a))
             b == Mov(R11(i.b), i.b)
  <2>1. Fix(9, i) = <<a, b>>
    BY <1>1, <1>3 DEF Fix, fix_cvt_double_to_int, Needs
  <2>2. Good(a, K) /\ Good(b, K)
    BY <1>1, <1>3, Replaced, GoodInstr, Registers DEF Mov, Instr1, Needs, Binaryish, Shifts, FpOps
  <2>3. Clean(9, b)
    <3>1. Clean(Fixers, b)
      BY <1>3, CleanMoves DEF R10, R11, Ecx, XMM, XmmNames, Needs, in_memory
    <3> QED BY <3>1, CleanLess DEF Fixers
  <2>4. a.op = "cvttsd2si" /\ a.a = i.a /\ a.b = R11(i.a)
    BY DEF Instr, Instr1
  <2> HIDE DEF a, b
  <2>5. /\ ~ Needs(1, a) /\ ~ Needs(2, a) /\ ~ Needs(3, a) /\ ~ Needs(4, a)
        /\ ~ Needs(5, a) /\ ~ Needs(6, a) /\ ~ Needs(7, a) /\ ~ Needs(8, a)
        /\ ~ Needs(9, a)
    BY <1>1, <1>3, <2>4, Registers, NotInMemory DEF Needs, Clean, Fixers, Binaryish, Shifts, FpOps
  <2>6. Clean(9, a)
    BY <1>1, <2>5, CleanIs
  <2> QED BY <1>1, <2>1, <2>2, <2>3, <2>6, FixTwo
<1> QED BY <1>2, <1>3

LEMMA FixToDouble == ASSUME NEW i, NEW K, Fixable(i, K, 10) PROVE FixedBy(10, i, K)
<1>1. Good(i, K) /\ Clean(10 - 1, i) /\ 10 \in 1 .. Fixers
  BY DEF Fixable, Fixers
<1>2. CASE ~ (Needs(10, i))
  <2>1. Fix(10, i) = <<i>> /\ ~ Needs(10, i)
    BY <1>2 DEF Fix, fix_cvt_int_to_double, Needs
  <2> QED BY <1>1, <1>2, <2>1, FixIdle
<1>3. CASE Needs(10, i)
  <2> DEFINE a == Mov(i.a, R10(i.a))
             b == Instr("cvtsi2sd", R10(i.a), XMM("xmm15"))
             c == Mov(XMM("xmm15"), i.b)
  <2>1. Fix(10, i) = <<a, b, c>>
    BY <1>1, <1>3 DEF Fix, fix_cvt_int_to_double, Needs
  <2>2. Good(a, K) /\ Good(b, K) /\ Good(c, K)
    BY <1>1, <1>3, Replaced, GoodInstr, Registers DEF Mov, Instr1, Needs, Binaryish, Shifts, FpOps
  <2>3. Clean(10, a) /\ Clean(10, c)
    <3>1. Clean(Fixers, a) /\ Clean(Fixers, c)
      BY <1>3, CleanMoves DEF R10, R11, Ecx, XMM, XmmNames, Needs, in_memory
    <3> QED BY <3>1, CleanLess DEF Fixers
  <2>4. b.op = "cvtsi2sd" /\ b.a = R10(i.a) /\ b.b = XMM("xmm15")
    BY DEF Instr, Instr1
  <2> HIDE DEF a, b, c
  <2>5. /\ ~ Needs(1, b) /\ ~ Needs(2, b) /\ ~ Needs(3, b) /\ ~ Needs(4, b)
        /\ ~ Needs(5, b) /\ ~ Needs(6, b) /\ ~ Needs(7, b) /\ ~ Needs(8, b)
        /\ ~ Needs(9, b) /\ ~ Needs(10, b)
    BY <1>1, <1>3, <2>4, Registers, NotInMemory DEF Needs, Clean, Fixers, Binaryish, Shifts, FpOps
  <2>6. Clean(10, b)
    BY <1>1, <2>5, CleanIs
  <2> QED BY <1>1, <2>1, <2>2, <2>3, <2>6, FixThree
<1> QED BY <1>2, <1>3

LEMMA FixComisd == ASSUME NEW i, NEW K, Fixable(i, K, 11), i.op = "comisd" PROVE FixedBy(11, i, K)
<1>1. Good(i, K) /\ Clean(11 - 1, i) /\ 11 \in 1 .. Fixers
  BY DEF Fixable, Fixers
<1>2. CASE ~ (Needs(11, i))
  <2>1. Fix(11, i) = <<i>> /\ ~ Needs(11, i)
    BY <1>2 DEF Fix, fix_arithmetic_on_double, Needs
  <2> QED BY <1>1, <1>2, <2>1, FixIdle
<1>3. CASE Needs(11, i)
  <2> DEFINE a == Mov(i.b, XMM("xmm15"))
             b == Instr(i.op, i.a, XMM("xmm15"))
  <2>1. Fix(11, i) = <<a, b>>
    <3>1. Fix(11, i) = <<a, b>> \o <<>>
      BY <1>3 DEF Fix, fix_arithmetic_on_double, Needs
    <3> HIDE DEF a, b
    <3>2. <<a, b>> \o <<>> = <<a, b>>
      OBVIOUS
    <3> QED BY <3>1, <3>2
  <2>2. Good(a, K) /\ Good(b, K)
    BY <1>1, <1>3, Replaced, GoodInstr, Registers DEF Mov, Instr1, Needs, Binaryish, Shifts, FpOps
  <2>3. Clean(11, a)
    <3>1. Clean(Fixers, a)
      BY <1>3, CleanMoves DEF R10, R11, Ecx, XMM, XmmNames, Needs, in_memory
    <3> QED BY <3>1, CleanLess DEF Fixers
  <2>4. b.op = i.op /\ b.a = i.a /\ b.b = XMM("xmm15")
    BY DEF Instr, Instr1
  <2> HIDE DEF a, b
  <2>5. /\ ~ Needs(1, b) /\ ~ Needs(2, b) /\ ~ Needs(3, b) /\ ~ Needs(4, b)
        /\ ~ Needs(5, b) /\ ~ Needs(6, b) /\ ~ Needs(7, b) /\ ~ Needs(8, b)
        /\ ~ Needs(9, b) /\ ~ Needs(10, b) /\ ~ Needs(11, b)
    BY <1>1, <1>3, <2>4, Registers, NotInMemory DEF Needs, Clean, Fixers, Binaryish, Shifts, FpOps
  <2>6. Clean(11, b)
    BY <1>1, <2>5, CleanIs
  <2> QED BY <1>1, <2>1, <2>2, <2>3, <2>6, FixTwo
<1> QED BY <1>2, <1>3

LEMMA FixArithmetic ==
  ASSUME NEW i, NEW K, Fixable(i, K, 11), i.op # "comisd"
  PROVE  FixedBy(11, i, K)
<1>1. Good(i, K) /\ Clean(11 - 1, i) /\ 11 \in 1 .. Fixers
  BY DEF Fixable, Fixers
<1>2. CASE ~ (Needs(11, i))
  <2>1. Fix(11, i) = <<i>> /\ ~ Needs(11, i)
    BY <1>2 DEF Fix, fix_arithmetic_on_double, Needs
  <2> QED BY <1>1, <1>2, <2>1, FixIdle
<1>3. CASE Needs(11, i)
  <2> DEFINE a == Mov(i.b, XMM("xmm15"))
             b == Instr(i.op, i.a, XMM("xmm15"))
             c == Mov(XMM("xmm15"), i.b)
  <2>1. Fix(11, i) = <<a, b>> \o <<c>>
    BY <1>3 DEF Fix, fix_arithmetic_on_double, Needs
  <2>2. Good(a, K) /\ Good(b, K) /\ Good(c, K)
    BY <1>1, <1>3, Replaced, GoodInstr, Registers DEF Mov, Instr1, Needs, Binaryish, Shifts, FpOps
  <2>3. Clean(11, a) /\ Clean(11, c)
    <3>1. Clean(Fixers, a) /\ Clean(Fixers, c)
      BY <1>3, CleanMoves DEF R10, R11, Ecx, XMM, XmmNames, Needs, in_memory
    <3> QED BY <3>1, CleanLess DEF Fixers
  <2>4. b.op = i.op /\ b.a = i.a /\ b.b = XMM("xmm15")
    BY DEF Instr, Instr1
  <2> HIDE DEF a, b, c
  <2>5. /\ ~ Needs(1, b) /\ ~ Needs(2, b) /\ ~ Needs(3, b) /\ ~ Needs(4, b)
        /\ ~ Needs(5, b) /\ ~ Needs(6, b) /\ ~ Needs(7, b) /\ ~ Needs(8, b)
        /\ ~ Needs(9, b) /\ ~ Needs(10, b) /\ ~ Needs(11, b)
    BY <1>1, <1>3, <2>4, Registers, NotInMemory DEF Needs, Clean, Fixers, Binaryish, Shifts, FpOps
  <2>6. Clean(11, b)
    BY <1>1, <2>5, CleanIs
  <2>7. /\ GoodCode(<<a, b>>, K) /\ Elements(<<a, b>>) = {a, b}
        /\ GoodCode(<<c>>, K) /\ Elements(<<c>>) = {c}
    BY <2>2, GoodTuples, SequenceOfThese
  <2> DEFINE s == <<a, b>> \o <<c>>
  <2>8. GoodCode(s, K) /\ Elements(s) \subseteq {a, b, c}
    BY <2>7, GoodJoin
  <2>9. Len(s) = 3 /\ Fix(11, i) = s
    BY <2>1
  <2> HIDE DEF s
  <2>10. \A j \in Elements(s) : Clean(11, j)
    BY <2>3, <2>6, <2>8
  <2> QED BY <2>8, <2>9, <2>10 DEF FixedBy, FixAsserts
<1> QED BY <1>2, <1>3

LEMMA FixLea == ASSUME NEW i, NEW K, Fixable(i, K, 12) PROVE FixedBy(12, i, K)
<1>1. Good(i, K) /\ Clean(12 - 1, i) /\ 12 \in 1 .. Fixers
  BY DEF Fixable, Fixers
<1>2. CASE ~ (Needs(12, i))
  <2>1. Fix(12, i) = <<i>> /\ ~ Needs(12, i)
    BY <1>2 DEF Fix, fix_lea, Needs
  <2> QED BY <1>1, <1>2, <2>1, FixIdle
<1>3. CASE Needs(12, i)
  <2> DEFINE a == Instr("lea", i.a, R10(i.b))
             b == Mov(R10(i.b), i.b)
  <2>1. Fix(12, i) = <<a, b>>
    BY <1>1, <1>3 DEF Fix, fix_lea, Needs
  <2>2. Good(a, K) /\ Good(b, K)
    BY <1>1, <1>3, Replaced, GoodInstr, Registers DEF Mov, Instr1, Needs, Binaryish, Shifts, FpOps
  <2>3. Clean(12, b)
    <3>1. Clean(Fixers, b)
      BY <1>3, CleanMoves DEF R10, R11, Ecx, XMM, XmmNames, Needs, in_memory
    <3> QED BY <3>1, CleanLess DEF Fixers
  <2>4. a.op = "lea" /\ a.a = i.a /\ a.b = R10(i.b)
    BY DEF Instr, Instr1
  <2> HIDE DEF a, b
  <2>5. /\ ~ Needs(1, a) /\ ~ Needs(2, a) /\ ~ Needs(3, a) /\ ~ Needs(4, a)
        /\ ~ Needs(5, a) /\ ~ Needs(6, a) /\ ~ Needs(7, a) /\ ~ Needs(8, a)
        /\ ~ Needs(9, a) /\ ~ Needs(10, a) /\ ~ Needs(11, a) /\ ~ Needs(12, a)
    BY <1>1, <1>3, <2>4, Registers, NotInMemory DEF Needs, Clean, Fixers, Binaryish, Shifts, FpOps
  <2>6. Clean(12, a)
    BY <1>1, <2>5, CleanIs
  <2> QED BY <1>1, <2>1, <2>2, <2>3, <2>6, FixTwo
<1> QED BY <1>2, <1>3

LEMMA FixEach ==
  ASSUME NEW n \in 1 .. Fixers, NEW i, NEW K, Fixable(i, K, n)
  PROVE  FixedBy(n, i, K)
<1>1. \/ n = 1 \/ n = 2 \/ n = 3 \/ n = 4 \/ n = 5 \/ n = 6
      \/ n = 7 \/ n = 8 \/ n = 9 \/ n = 10 \/ n = 11 \/ n = 12
  BY DEF Fixers
<1> QED BY <1>1, FixS2s, FixImmBig, FixCmp, FixDiv, FixMul, FixShift, FixExtensions,
           FixMovzx32, FixToInt, FixToDouble, FixComisd, FixArithmetic, FixLea

(***************************************************************************)
(* Powers of two, as the sizes of power sets.                              *)
(***************************************************************************)
LEMMA Powers ==
  ASSUME NEW m \in Nat, NEW n \in Nat, m =< n
  PROVE  2^m \in Nat \ {0} /\ 2^n \in Nat \ {0} /\ 2^m =< 2^n
<1> DEFINE M == SUBSET (1 .. m)
           N == SUBSET (1 .. n)
<1>1. /\ IsFiniteSet(1 .. m) /\ Cardinality(1 .. m) = m
      /\ IsFiniteSet(1 .. n) /\ Cardinality(1 .. n) = n
  BY FS_Interval
<1>2. /\ IsFiniteSet(M) /\ Cardinality(M) = 2^m
      /\ IsFiniteSet(N) /\ Cardinality(N) = 2^n
  BY <1>1, FS_SUBSET
<1>3. M \in SUBSET N /\ M # {} /\ N # {}
  <2>1. 1 .. m \subseteq 1 .. n
    OBVIOUS
  <2>2. M \subseteq N /\ {} \in M /\ {} \in N
    BY <2>1, Zenon
  <2> QED BY <2>2
<1> HIDE DEF M, N
<1>4. Cardinality(M) =< Cardinality(N)
  BY <1>2, <1>3, FS_Subset
<1>5. Cardinality(M) \in Nat \ {0} /\ Cardinality(N) \in Nat \ {0}
  BY <1>2, <1>3, FS_CardinalityType, FS_EmptySet
<1> QED BY <1>2, <1>4, <1>5

LEMMA WidthPowers ==
  /\ 2^W8 \in Nat \ {0} /\ 2^W32 \in Nat \ {0} /\ 2^W64 \in Nat \ {0}
  /\ 2^(W32 - 1) \in Nat \ {0}
  /\ INT_MAX \in Nat /\ INT_MAX < 2^W32 /\ INT_MAX =< 2^(W32 - 1)
<1>1. W8 \in Nat /\ W32 \in Nat /\ W64 \in Nat /\ W32 - 1 \in Nat /\ W32 - 1 =< W32
  BY WordsAre
<1>2. /\ 2^W8 \in Nat \ {0} /\ 2^W32 \in Nat \ {0} /\ 2^W64 \in Nat \ {0}
      /\ 2^(W32 - 1) \in Nat \ {0} /\ 2^(W32 - 1) =< 2^W32
  BY <1>1, Powers
<1>3. \A x, y \in Nat \ {0} : x =< y => x - 1 \in Nat /\ x - 1 < y /\ x - 1 =< x
  OBVIOUS
<1> QED BY <1>2, <1>3 DEF INT_MAX

(***************************************************************************)
(* What fits and is left alone by every fixer, the processor has.          *)
(***************************************************************************)
LEMMA SmallNumerals ==
  ASSUME NEW o, Numeral(o), ~ Big(o), NEW w
  PROVE  SmallImm(o, w)
<1>1. o.n \in Int /\ -1 =< o.n /\ ~ (o.n > INT_MAX) /\ o.k = "imm"
  BY DEF Numeral, Big
<1> DEFINE x == 2^(W32 - 1)  y == 2^W32  z == INT_MAX
<1>2. x \in Nat \ {0} /\ y \in Nat \ {0} /\ z \in Nat /\ z < y
  BY WidthPowers
<1> HIDE DEF x, y, z
<1>3. o.n =< z /\ o.n < y /\ - x =< o.n
  <2>1. o.n =< z
    BY <1>1, <1>2 DEF z
  <2> QED BY <1>1, <1>2, <2>1
<1> QED BY <1>1, <1>3 DEF SmallImm, x, y, z

\* The words that emit_asm_op names.
LEMMA EmittedIs ==
  ASSUME NEW i
  PROVE  /\ Emitted(i).op = i.op /\ Emitted(i).a = i.a /\ Emitted(i).b = i.b
         /\ i.b.k # "none" => Emitted(i).w = i.b.w
         /\ i.op = "cvtsi2sd" \/ i.op = "movzx" => Emitted(i).from = i.a.w
BY DEF Emitted, Sets, ShiftOps

\* What the fixers leave alone, in one place.
LEMMA NothingNeeded ==
  ASSUME NEW i, Clean(Fixers, i)
  PROVE  /\ i.op \in Binaryish \cup {"mov"} => ~ (in_memory(i.a) /\ in_memory(i.b))
         /\ i.op \in Binaryish \cup {"imul", "push"} => ~ Big(i.a)
         /\ i.op = "mov" => /\ ~ (Big(i.a) /\ in_memory(i.b))
                            /\ ~ (i.a.k = "imm" /\ is_xmm_register(i.b))
         /\ i.op = "cmp" => i.b.k # "imm"
         /\ i.op \in {"idiv", "div"} => i.a.k # "imm"
         /\ i.op = "imul" => ~ in_memory(i.b)
         /\ i.op \in Shifts => i.a.k = "imm" \/ i.a = Ecx(i.a)
         /\ i.op = "movsx" /\ i.a.w < W64 => i.a.k # "imm" /\ ~ in_memory(i.b)
         /\ i.op = "movzx" /\ i.a.w < W32 => i.a.k # "imm" /\ ~ in_memory(i.b)
         /\ i.op = "movzx" => i.a.w = W8
         /\ i.op = "cvttsd2si" => ~ in_memory(i.b)
         /\ i.op = "cvtsi2sd" => i.a.k # "imm" /\ ~ in_memory(i.b)
         /\ i.op \in FpOps => ~ in_memory(i.b)
         /\ i.op = "lea" => ~ in_memory(i.b)
<1>1. \A m \in 1 .. 12 : ~ Needs(m, i)
  BY DEF Clean, Fixers
<1>2. ~ Needs(1, i) /\ ~ Needs(2, i) /\ ~ Needs(3, i) /\ ~ Needs(4, i)
  BY <1>1
<1>3. ~ Needs(5, i) /\ ~ Needs(6, i) /\ ~ Needs(7, i) /\ ~ Needs(8, i)
  BY <1>1
<1>4. ~ Needs(9, i) /\ ~ Needs(10, i) /\ ~ Needs(11, i) /\ ~ Needs(12, i)
  BY <1>1
<1> QED BY <1>2, <1>3, <1>4 DEF Needs

LEMMA Encoded ==
  ASSUME NEW i, NEW K, Good(i, K), "temp" \notin K, Fits(i), Clean(Fixers, i)
  PROVE  Encodable(Emitted(i))
<1> DEFINE e == Emitted(i)
<1>1. /\ e.op = i.op /\ e.a = i.a /\ e.b = i.b
      /\ i.b.k # "none" => e.w = i.b.w
      /\ i.op = "cvtsi2sd" \/ i.op = "movzx" => e.from = i.a.w
  BY EmittedIs
<1> HIDE DEF e
<1>2. i.a.k # "temp" /\ i.b.k # "temp" /\ i.a.w \in Words /\ i.b.w \in Words /\ Extends(i)
  BY DEF Good, Formed
<1>3. Numeral(i.a) /\ ~ Big(i.a) => SmallImm(i.a, e.w)
  BY SmallNumerals
<1>4. /\ Target(i.b) => Writable(i.b) /\ (Gpr(i.b) \/ in_memory(i.b)) /\ i.b.k # "none"
      /\ Target(i.a) => Writable(i.a)
      /\ Xmm(i.b) => i.b.k # "none"
  BY <1>2 DEF Target, Place, Writable, in_memory, Gpr, Xmm, is_xmm_register
<1>5. /\ Source(i.a) => RM(i.a) \/ Numeral(i.a)
      /\ Source(i.b) => RM(i.b) \/ Numeral(i.b)
      /\ Double(i.a) => XM(i.a)
  BY <1>2 DEF Source, RM, Double, XM, Place
<1>6. (Numeral(i.a) => i.a.k = "imm") /\ (Numeral(i.b) => i.b.k = "imm")
  BY DEF Numeral
<1>7. CASE i.op = "mov"
  <2>1. FitsMov(i)
    BY <1>7 DEF Fits, Sets, ShiftOps
  <2>2. ~ (in_memory(i.a) /\ in_memory(i.b)) /\ ~ (Big(i.a) /\ in_memory(i.b))
        /\ ~ (i.a.k = "imm" /\ is_xmm_register(i.b))
    BY <1>7, NothingNeeded
  <2>3. CASE Target(i.b) /\ Source(i.a)
    <3>1. RM(i.a) \/ Numeral(i.a)
      BY <1>5, <2>3
    <3>2. Gpr(i.b) => EncodableMov(e)
      BY <1>1, <1>6, <3>1 DEF EncodableMov
    <3>3. i.b.k \in {"mem", "data"} => EncodableMov(e)
      <4>1. i.b.k \in {"mem", "data"} => in_memory(i.b)
        BY DEF in_memory
      <4>2. in_memory(i.b) => Gpr(i.a) \/ SmallImm(i.a, e.w)
        BY <1>3, <1>6, <2>2, <3>1 DEF RM
      <4> QED BY <1>1, <4>1, <4>2 DEF EncodableMov
    <3>4. Gpr(i.b) \/ i.b.k \in {"mem", "data"}
      BY <1>2, <2>3 DEF Target, Place
    <3>5. EncodableMov(e)
      BY <3>2, <3>3, <3>4
    <3> QED BY <1>1, <1>7, <3>5 DEF Encodable, Sets, ShiftOps, e
  <2>4. CASE i.b.w = W64 /\ Xmm(i.a) /\ (Xmm(i.b) \/ Target(i.b))
    <3>1. EncodableMov(e)
      BY <1>1, <1>4, <2>4 DEF EncodableMov
    <3> QED BY <1>1, <1>7, <3>1 DEF Encodable, e, Sets, ShiftOps
  <2>5. CASE i.b.w = W64 /\ Xmm(i.b) /\ Source(i.a)
    <3>1. RM(i.a)
      BY <1>5, <1>6, <2>2, <2>5 DEF Xmm
    <3>2. EncodableMov(e)
      BY <1>1, <1>4, <2>5, <3>1 DEF EncodableMov
    <3> QED BY <1>1, <1>7, <3>2 DEF Encodable, e, Sets, ShiftOps
  <2> QED BY <2>1, <2>3, <2>4, <2>5 DEF FitsMov
<1>8. CASE i.op \in {"add", "sub", "and", "or", "xor"}
  <2>1. Target(i.b) /\ Source(i.a)
    BY <1>8 DEF Fits, Sets, ShiftOps
  <2>2. ~ (in_memory(i.a) /\ in_memory(i.b)) /\ ~ Big(i.a)
    BY <1>8, NothingNeeded DEF Binaryish
  <2>3. Writable(i.b) /\ (RM(i.a) \/ SmallImm(i.a, e.w))
    BY <1>3, <1>4, <1>5, <2>1, <2>2
  <2> QED BY <1>1, <1>8, <2>2, <2>3 DEF Encodable, e, Sets, ShiftOps
<1>9. CASE i.op = "cmp"
  <2>1. Source(i.b) /\ Source(i.a)
    BY <1>9 DEF Fits, Sets, ShiftOps
  <2>2. ~ (in_memory(i.a) /\ in_memory(i.b)) /\ ~ Big(i.a) /\ i.b.k # "imm"
    BY <1>9, NothingNeeded DEF Binaryish
  <2>3. RM(i.b) /\ (RM(i.a) \/ SmallImm(i.a, e.w))
    BY <1>3, <1>5, <1>6, <2>1, <2>2
  <2> QED BY <1>1, <1>9, <2>2, <2>3 DEF Encodable, e, Sets, ShiftOps
<1>10. CASE i.op = "imul"
  <2>1. Target(i.b) /\ Source(i.a) /\ i.b.w > W8
    BY <1>10 DEF Fits, Sets, ShiftOps
  <2>2. ~ Big(i.a) /\ ~ in_memory(i.b)
    BY <1>10, NothingNeeded
  <2>3. Gpr(i.b) /\ e.w > W8 /\ (RM(i.a) \/ SmallImm(i.a, e.w))
    BY <1>1, <1>3, <1>4, <1>5, <2>1, <2>2
  <2> QED BY <1>1, <1>10, <2>3 DEF Encodable, e, Sets, ShiftOps
<1>11. CASE i.op \in ShiftOps
  <2>1. Target(i.b) /\ Source(i.a)
    BY <1>11 DEF Fits, ShiftOps, Sets
  <2>2. i.a.k = "imm" \/ i.a = Ecx(i.a)
    BY <1>11, NothingNeeded DEF ShiftOps, Shifts
  <2>3. i.a = Ecx(i.a) => Gpr(i.a) /\ i.a.at = "cx"
    BY DEF Ecx, Reg, Operand, Gpr, Xmm, is_xmm_register, XmmNames
  <2>4. Writable(i.b) /\ (i.a.k = "imm" \/ (Gpr(i.a) /\ i.a.at = "cx"))
    BY <1>4, <2>1, <2>2, <2>3
  <2> QED BY <1>1, <1>11, <2>4 DEF Encodable, ShiftOps, e, Sets
<1>12. CASE i.op \in {"neg", "not", "inc", "dec"} \cup Sets
  <2>1. Writable(i.a)
    BY <1>4, <1>12 DEF Fits, Sets, ShiftOps
  <2> QED BY <1>1, <1>12, <2>1 DEF Encodable, Sets, ShiftOps, e
<1>13. CASE i.op \in {"idiv", "div"}
  <2>1. Source(i.a) /\ i.a.k # "imm"
    BY <1>13, NothingNeeded DEF Fits, Sets, ShiftOps
  <2> QED BY <1>1, <1>5, <1>6, <1>13, <2>1 DEF Encodable, ShiftOps, e, Sets
<1>14. CASE i.op \in {"cdq", "cqo", "ret"}
  BY <1>1, <1>14 DEF Encodable, ShiftOps, e, Sets
<1>15. CASE i.op \in {"je", "jne"}
  BY <1>1, <1>15 DEF Fits, Encodable, ShiftOps, Sets, e
<1>16. CASE i.op = "movsx"
  <2>1. Target(i.b) /\ Source(i.a)
    BY <1>16 DEF Fits, Sets, ShiftOps
  <2>2. i.a.w < W64
    BY <1>2, <1>16, WordsAre DEF Extends
  <2>3. Gpr(i.b) /\ RM(i.a)
    BY <1>4, <1>5, <1>6, <1>16, <2>1, <2>2, NothingNeeded
  <2> QED BY <1>1, <1>16, <2>3 DEF Encodable, ShiftOps, Sets, e
<1>17. CASE i.op = "movzx"
  <2>1. Target(i.b) /\ Source(i.a)
    BY <1>17 DEF Fits, Sets, ShiftOps
  <2>2. i.a.w = W8 /\ i.a.w < W32
    BY <1>17, WordsAre, NothingNeeded
  <2>3. Gpr(i.b) /\ RM(i.a)
    BY <1>4, <1>5, <1>6, <1>17, <2>1, <2>2, NothingNeeded
  <2> QED BY <1>1, <1>17, <2>2, <2>3 DEF Encodable, ShiftOps, Sets, e
<1>18. CASE i.op = "lea"
  <2>1. /\ Target(i.b) /\ i.b.w = W64
        /\ i.a.k \in {"temp", "indexed"} \/ in_memory(i.a)
    BY <1>18 DEF Fits, Sets, ShiftOps
  <2>2. Gpr(i.b) /\ e.w = W64
    BY <1>1, <1>4, <1>18, <2>1, NothingNeeded
  <2> QED BY <1>1, <1>2, <1>18, <2>1, <2>2 DEF Encodable, ShiftOps, Sets, e
<1>19. CASE i.op = "cvttsd2si"
  <2>1. Target(i.b) /\ i.b.w > W8 /\ Double(i.a)
    BY <1>19 DEF Fits, Sets, ShiftOps
  <2>2. Gpr(i.b) /\ e.w > W8 /\ XM(i.a)
    BY <1>1, <1>4, <1>5, <1>19, <2>1, NothingNeeded
  <2> QED BY <1>1, <1>19, <2>2 DEF Encodable, ShiftOps, Sets, e
<1>20. CASE i.op = "cvtsi2sd"
  <2>1. (Xmm(i.b) \/ Place(i.b)) /\ Source(i.a) /\ i.a.w > W8
    BY <1>20 DEF Fits, DoubleTarget, Sets, ShiftOps
  <2>2. i.a.k # "imm" /\ ~ in_memory(i.b)
    BY <1>20, NothingNeeded
  <2>3. Xmm(i.b)
    BY <1>2, <2>1, <2>2 DEF Place, in_memory
  <2>4. RM(i.a) /\ e.from > W8
    BY <1>1, <1>5, <1>6, <1>20, <2>1, <2>2
  <2> QED BY <1>1, <1>20, <2>3, <2>4 DEF Encodable, ShiftOps, Sets, e
<1>21. CASE i.op \in {"addsd", "subsd", "mulsd", "divsd", "comisd"}
  <2>1. (Xmm(i.b) \/ Place(i.b) \/ i.b.k = "fconst") /\ Double(i.a)
    BY <1>21 DEF Fits, DoubleTarget, Double, Sets, ShiftOps
  <2>2. ~ in_memory(i.b)
    BY <1>21, NothingNeeded DEF FpOps
  <2>3. Xmm(i.b) /\ XM(i.a)
    BY <1>2, <1>5, <2>1, <2>2 DEF Place, in_memory
  <2> QED BY <1>1, <1>21, <2>3 DEF Encodable, ShiftOps, Sets, e
<1>22. CASE i.op \in {"xorpd", "unpckhpd"}
  BY <1>1, <1>22 DEF Fits, Encodable, ShiftOps, Sets, e
<1>23. CASE i.op = "subpd"
  BY <1>1, <1>23 DEF Fits, Encodable, ShiftOps, Sets, e
<1>24. CASE i.op = "punpckldq"
  BY <1>1, <1>4, <1>24 DEF Fits, Encodable, ShiftOps, Sets, e
<1>25. i.op \in {"mov", "add", "sub", "and", "or", "xor", "cmp", "imul", "neg", "not", "inc", "dec",
                 "idiv", "div", "cdq", "cqo", "ret", "je", "jne", "movsx", "movzx", "lea",
                 "cvttsd2si", "cvtsi2sd", "addsd", "subsd", "mulsd", "divsd", "comisd", "xorpd",
                 "unpckhpd", "subpd", "punpckldq"} \cup ShiftOps \cup Sets
  BY DEF Fits, Sets, ShiftOps
<1> QED BY <1>7, <1>8, <1>9, <1>10, <1>11, <1>12, <1>13, <1>14, <1>15, <1>16, <1>17, <1>18,
           <1>19, <1>20, <1>21, <1>22, <1>23, <1>24, <1>25 DEF e

(***************************************************************************)
(* The fixers put in what fits.                                            *)
(***************************************************************************)
LEMMA FitsMoves ==
  ASSUME NEW a, NEW b, \/ Target(b) /\ Source(a)
                       \/ b.w = W64 /\ Xmm(a) /\ (Xmm(b) \/ Target(b))
                       \/ b.w = W64 /\ Xmm(b) /\ Source(a)
  PROVE  Fits(Mov(a, b))
BY DEF Fits, FitsMov, Mov, Instr, Sets, ShiftOps

\* The registers the fixers put in.
LEMMA ScratchFits ==
  ASSUME NEW o
  PROVE  /\ Gpr(R10(o)) /\ Gpr(R11(o)) /\ Gpr(Ecx(o)) /\ Gpr(Reg("r10", W64))
         /\ R10(o).w = o.w /\ R11(o).w = o.w /\ Ecx(o).w = o.w
         /\ Xmm(XMM("xmm15")) /\ XMM("xmm15").w = W64 /\ Reg("r10", W64).w = W64
         /\ ~ Place(R10(o)) /\ ~ Place(R11(o)) /\ ~ Place(Reg("r10", W64))
BY DEF R10, R11, Ecx, XMM, Reg, Operand, Gpr, Xmm, is_xmm_register, XmmNames, Place

LEMMA KindsOfOperands ==
  ASSUME NEW o
  PROVE  /\ Gpr(o) => Target(o) /\ Source(o)
         /\ Place(o) => Target(o) /\ Source(o) /\ Double(o)
         /\ Xmm(o) => Double(o)
         /\ in_memory(o) => Source(o) /\ ~ Gpr(o) /\ ~ Xmm(o)
         /\ Target(o) /\ in_memory(o) => Place(o)
         /\ Double(o) => Xmm(o) \/ Source(o)
         /\ Source(o) /\ o.k = "imm" => Numeral(o)
BY DEF Gpr, Xmm, is_xmm_register, Place, Target, Source, Double, in_memory, Numeral

\* The instructions fixer n puts in fit.
FixFits(n, i) == FitCode(Fix(n, i))

LEMMA ElementsJoin ==
  ASSUME NEW c, NEW d, c \in Seq(Elements(c)), d \in Seq(Elements(d))
  PROVE  c \o d \in Seq(Elements(c \o d)) /\ Elements(c \o d) \subseteq Elements(c) \cup Elements(d)
<1> DEFINE S == Elements(c) \cup Elements(d)
<1>1. c \in Seq(S) /\ d \in Seq(S)
  OBVIOUS
<1>2. c \o d \in Seq(S)
  BY <1>1
<1> HIDE DEF S
<1>3. c \o d \in Seq(Elements(c \o d)) /\ Elements(c \o d) \subseteq S
  BY <1>2, ElementsOf
<1> QED BY <1>3 DEF S

LEMMA FitJoin ==
  ASSUME NEW c, NEW d, FitCode(c), FitCode(d)
  PROVE  FitCode(c \o d)
BY ElementsJoin DEF FitCode

LEMMA FitTuples ==
  /\ FitCode(<<>>)
  /\ \A a : Fits(a) => FitCode(<<a>>)
  /\ \A a, b : Fits(a) /\ Fits(b) => FitCode(<<a, b>>)
  /\ \A a, b, c : Fits(a) /\ Fits(b) /\ Fits(c) => FitCode(<<a, b, c>>)
<1>1. Elements(<<>>) = {} /\ <<>> \in Seq({})
  BY DEF Elements
<1> QED BY <1>1, SequenceOfThese DEF FitCode

LEMMA InstrIs ==
  /\ \A op, a, b : Instr(op, a, b).op = op /\ Instr(op, a, b).a = a /\ Instr(op, a, b).b = b
  /\ \A op, a : Instr1(op, a).op = op /\ Instr1(op, a).a = a
BY DEF Instr, Instr1

LEMMA FitFixS2s == ASSUME NEW i, Fits(i) PROVE FixFits(1, i)
<1>1. CASE Fix(1, i) = <<i>>
  BY <1>1, FitTuples DEF FixFits
<1>2. CASE Fix(1, i) # <<i>>
  <2> DEFINE a == Mov(i.a, R10(i.a))
             b == Instr(i.op, R10(i.b), i.b)
  <2>1. /\ i.op \in Binaryish \cup {"mov"} /\ in_memory(i.a) /\ in_memory(i.b)
        /\ Fix(1, i) = <<a, b>>
    BY <1>2 DEF Fix, fix_s2s
  <2>2. Fits(a)
    BY <2>1, FitsMoves, ScratchFits, KindsOfOperands
  <2>3. b.op = i.op /\ b.a = R10(i.b) /\ b.b = i.b /\ Source(R10(i.b))
    BY InstrIs, ScratchFits, KindsOfOperands
  <2> HIDE DEF a, b
  <2>4. Fits(b)
    BY <2>1, <2>3, KindsOfOperands DEF Fits, FitsMov, Binaryish, Sets, ShiftOps
  <2> QED BY <2>1, <2>2, <2>4, FitTuples DEF FixFits
<1> QED BY <1>1, <1>2

LEMMA FitFixImmBig == ASSUME NEW i, Fits(i) PROVE FixFits(2, i)
<1>1. CASE Fix(2, i) = <<i>>
  BY <1>1, FitTuples DEF FixFits
<1>2. CASE Fix(2, i) # <<i>>
  <2> DEFINE r == Reg("r10", W64)
             a == Mov(i.a, r)
             b == Instr(i.op, r, i.b)
  <2>1. /\ i.op \in Binaryish \cup {"imul", "push", "mov"} /\ i.a.k = "imm"
        /\ Fix(2, i) = <<a, b>>
    BY <1>2 DEF Fix, fix_imm_big, Big
  <2>2. Gpr(r) /\ Source(r) /\ Target(r) /\ r.w = W64 /\ ~ Xmm(i.a)
    BY <2>1, ScratchFits, KindsOfOperands DEF Xmm, is_xmm_register
  <2>3. Source(i.a)
    BY <2>1, <2>2 DEF Fits, FitsMov, Binaryish, Sets, ShiftOps
  <2> HIDE DEF r
  <2>4. Fits(a)
    BY <2>2, <2>3, FitsMoves
  <2>5. b.op = i.op /\ b.a = r /\ b.b = i.b
    BY InstrIs
  <2>6. W64 > W8
    BY WordsAre
  <2> HIDE DEF a, b
  <2>7. Fits(b)
    BY <2>1, <2>2, <2>5, <2>6 DEF Fits, FitsMov, Binaryish, Sets, ShiftOps
  <2> QED BY <2>1, <2>4, <2>7, FitTuples DEF FixFits
<1> QED BY <1>1, <1>2

LEMMA FitFixCmp == ASSUME NEW i, Fits(i) PROVE FixFits(3, i)
<1>1. CASE Fix(3, i) = <<i>>
  BY <1>1, FitTuples DEF FixFits
<1>2. CASE Fix(3, i) # <<i>>
  <2> DEFINE a == Mov(i.b, R11(i.b))
             b == Instr("cmp", i.a, R11(i.a))
  <2>1. i.op = "cmp" /\ Fix(3, i) = <<a, b>>
    BY <1>2 DEF Fix, fix_cmp
  <2>2. Source(i.a) /\ Source(i.b)
    BY <2>1 DEF Fits, Sets, ShiftOps
  <2>3. Fits(a)
    BY <2>2, FitsMoves, ScratchFits, KindsOfOperands
  <2>4. b.op = "cmp" /\ b.a = i.a /\ b.b = R11(i.a) /\ Source(R11(i.a))
    BY InstrIs, ScratchFits, KindsOfOperands
  <2> HIDE DEF a, b
  <2>5. Fits(b)
    BY <2>2, <2>4 DEF Fits, Sets, ShiftOps
  <2> QED BY <2>1, <2>3, <2>5, FitTuples DEF FixFits
<1> QED BY <1>1, <1>2

LEMMA FitFixDiv == ASSUME NEW i, Fits(i) PROVE FixFits(4, i)
<1>1. CASE Fix(4, i) = <<i>>
  BY <1>1, FitTuples DEF FixFits
<1>2. CASE Fix(4, i) # <<i>>
  <2> DEFINE a == Mov(i.a, R10(i.a))
             b == Instr1(i.op, R10(i.a))
  <2>1. i.op \in {"idiv", "div"} /\ Fix(4, i) = <<a, b>>
    BY <1>2 DEF Fix, fix_div
  <2>2. Source(i.a)
    BY <2>1 DEF Fits, Sets, ShiftOps
  <2>3. Fits(a)
    BY <2>2, FitsMoves, ScratchFits, KindsOfOperands
  <2>4. b.op = i.op /\ b.a = R10(i.a) /\ Source(R10(i.a))
    BY InstrIs, ScratchFits, KindsOfOperands
  <2> HIDE DEF a, b
  <2>5. Fits(b)
    BY <2>1, <2>4 DEF Fits, Sets, ShiftOps
  <2> QED BY <2>1, <2>3, <2>5, FitTuples DEF FixFits
<1> QED BY <1>1, <1>2

LEMMA FitFixMul == ASSUME NEW i, Fits(i) PROVE FixFits(5, i)
<1>1. CASE Fix(5, i) = <<i>>
  BY <1>1, FitTuples DEF FixFits
<1>2. CASE Fix(5, i) # <<i>>
  <2> DEFINE a == Mov(i.b, R11(i.b))
             b == Instr("imul", i.a, R11(i.a))
             c == Mov(R11(i.b), i.b)
  <2>1. i.op = "imul" /\ in_memory(i.b) /\ Fix(5, i) = <<a, b, c>>
    BY <1>2 DEF Fix, fix_mul
  <2>2. Source(i.a) /\ Target(i.b) /\ Place(i.b) /\ i.a.w > W8
    BY <2>1, KindsOfOperands DEF Fits, Sets, ShiftOps
  <2>3. Fits(a) /\ Fits(c)
    BY <2>2, FitsMoves, ScratchFits, KindsOfOperands
  <2>4. /\ b.op = "imul" /\ b.a = i.a /\ b.b = R11(i.a) /\ Target(R11(i.a)) /\ b.b.w = i.a.w
        /\ ~ Place(b.b)
    BY InstrIs, ScratchFits, KindsOfOperands
  <2> HIDE DEF a, b, c
  <2>5. Fits(b)
    BY <2>2, <2>4 DEF Fits, Sets, ShiftOps
  <2> QED BY <2>1, <2>3, <2>5, FitTuples DEF FixFits
<1> QED BY <1>1, <1>2

LEMMA FitFixShift == ASSUME NEW i, Fits(i) PROVE FixFits(6, i)
<1>1. CASE Fix(6, i) = <<i>>
  BY <1>1, FitTuples DEF FixFits
<1>2. CASE Fix(6, i) # <<i>>
  <2> DEFINE a == Mov(i.a, Ecx(i.a))
             b == Instr(i.op, Ecx(i.b), i.b)
  <2>1. i.op \in Shifts /\ Fix(6, i) = <<a, b>>
    BY <1>2 DEF Fix, fix_shift
  <2>2. Source(i.a) /\ Target(i.b)
    BY <2>1 DEF Fits, Shifts, Sets, ShiftOps
  <2>3. Fits(a)
    BY <2>2, FitsMoves, ScratchFits, KindsOfOperands
  <2>4. b.op = i.op /\ b.a = Ecx(i.b) /\ b.b = i.b /\ Source(Ecx(i.b))
    BY InstrIs, ScratchFits, KindsOfOperands
  <2> HIDE DEF a, b
  <2>5. Fits(b)
    BY <2>1, <2>2, <2>4 DEF Fits, Shifts, Sets, ShiftOps
  <2> QED BY <2>1, <2>3, <2>5, FitTuples DEF FixFits
<1> QED BY <1>1, <1>2

LEMMA FitFixExtensions == ASSUME NEW i, Fits(i) PROVE FixFits(7, i)
<1>1. CASE Fix(7, i) = <<i>>
  BY <1>1, FitTuples DEF FixFits
<1>2. CASE Fix(7, i) # <<i>>
  <2> DEFINE a == Mov(i.a, R10(i.a))
             b == Instr(i.op, R10(i.a), R11(i.b))
             c == Mov(R11(i.b), i.b)
  <2>1. i.op \in {"movsx", "movzx"} /\ Fix(7, i) = <<a, b, c>>
    BY <1>2 DEF Fix, fix_movsx_and_movzx
  <2>2. Source(i.a) /\ Target(i.b)
    BY <2>1 DEF Fits, Sets, ShiftOps
  <2>3. Fits(a) /\ Fits(c)
    BY <2>2, FitsMoves, ScratchFits, KindsOfOperands
  <2>4. b.op = i.op /\ Target(b.b) /\ Source(b.a)
    BY InstrIs, ScratchFits, KindsOfOperands
  <2> HIDE DEF a, b, c
  <2>5. Fits(b)
    BY <2>1, <2>4 DEF Fits, Sets, ShiftOps
  <2> QED BY <2>1, <2>3, <2>5, FitTuples DEF FixFits
<1> QED BY <1>1, <1>2

LEMMA FitFixMovzx32 == ASSUME NEW i, Fits(i) PROVE FixFits(8, i)
<1>1. CASE Fix(8, i) = <<i>>
  BY <1>1, FitTuples DEF FixFits
<1>2. CASE Fix(8, i) # <<i>>
  <2> DEFINE a == Mov(i.a, i.b)
             b == Mov(i.a, R11(i.a))
             c == Mov(R11(i.b), i.b)
  <2>1. i.op = "movzx" /\ (Fix(8, i) = <<a>> \/ Fix(8, i) = <<b, c>>)
    BY <1>2 DEF Fix, fix_movzx_32bit
  <2>2. Source(i.a) /\ Target(i.b)
    BY <2>1 DEF Fits, Sets, ShiftOps
  <2>3. Fits(a) /\ Fits(b) /\ Fits(c)
    BY <2>2, FitsMoves, ScratchFits, KindsOfOperands
  <2> HIDE DEF a, b, c
  <2> QED BY <2>1, <2>3, FitTuples DEF FixFits
<1> QED BY <1>1, <1>2

LEMMA FitFixToInt == ASSUME NEW i, Fits(i) PROVE FixFits(9, i)
<1>1. CASE Fix(9, i) = <<i>>
  BY <1>1, FitTuples DEF FixFits
<1>2. CASE Fix(9, i) # <<i>>
  <2> DEFINE a == Instr("cvttsd2si", i.a, R11(i.a))
             b == Mov(R11(i.b), i.b)
  <2>1. i.op = "cvttsd2si" /\ Fix(9, i) = <<a, b>>
    BY <1>2 DEF Fix, fix_cvt_double_to_int
  <2>2. Double(i.a) /\ i.a.w > W8 /\ Target(i.b)
    BY <2>1 DEF Fits, Sets, ShiftOps
  <2>3. Fits(b)
    BY <2>2, FitsMoves, ScratchFits, KindsOfOperands
  <2>4. a.op = "cvttsd2si" /\ a.a = i.a /\ Target(a.b) /\ a.b.w = i.a.w
    BY InstrIs, ScratchFits, KindsOfOperands
  <2> HIDE DEF a, b
  <2>5. Fits(a)
    BY <2>2, <2>4 DEF Fits, Sets, ShiftOps
  <2> QED BY <2>1, <2>3, <2>5, FitTuples DEF FixFits
<1> QED BY <1>1, <1>2

LEMMA FitFixToDouble == ASSUME NEW i, Fits(i) PROVE FixFits(10, i)
<1>1. CASE Fix(10, i) = <<i>>
  BY <1>1, FitTuples DEF FixFits
<1>2. CASE Fix(10, i) # <<i>>
  <2> DEFINE x == XMM("xmm15")
             a == Mov(i.a, R10(i.a))
             b == Instr("cvtsi2sd", R10(i.a), x)
             c == Mov(x, i.b)
  <2>1. i.op = "cvtsi2sd" /\ Fix(10, i) = <<a, b, c>>
    BY <1>2 DEF Fix, fix_cvt_int_to_double
  <2>2. Source(i.a) /\ i.a.w > W8 /\ i.b.w = W64 /\ (Xmm(i.b) \/ Place(i.b))
    BY <2>1 DEF Fits, DoubleTarget, Sets, ShiftOps
  <2>3. Xmm(x) /\ x.w = W64
    BY ScratchFits
  <2> HIDE DEF x
  <2>4. Fits(a)
    BY <2>2, FitsMoves, ScratchFits, KindsOfOperands
  <2>5. Fits(c)
    BY <2>2, <2>3, FitsMoves, KindsOfOperands
  <2>6. b.op = "cvtsi2sd" /\ b.b = x /\ Source(b.a) /\ b.a.w = i.a.w
    BY InstrIs, ScratchFits, KindsOfOperands
  <2> HIDE DEF a, b, c
  <2>7. Fits(b)
    BY <2>2, <2>3, <2>6 DEF Fits, DoubleTarget, Sets, ShiftOps
  <2> QED BY <2>1, <2>4, <2>5, <2>7, FitTuples DEF FixFits
<1> QED BY <1>1, <1>2

LEMMA FitFixArithmetic == ASSUME NEW i, Fits(i) PROVE FixFits(11, i)
<1>1. CASE Fix(11, i) = <<i>>
  BY <1>1, FitTuples DEF FixFits
<1>2. CASE Fix(11, i) # <<i>>
  <2> DEFINE x == XMM("xmm15")
             a == Mov(i.b, x)
             b == Instr(i.op, i.a, x)
             c == Mov(x, i.b)
  <2>1. /\ i.op \in FpOps /\ in_memory(i.b)
        /\ Fix(11, i) = <<a, b>> \o (IF i.op = "comisd" THEN <<>> ELSE <<c>>)
    BY <1>2 DEF Fix, fix_arithmetic_on_double
  <2>2. Xmm(x) /\ x.w = W64
    BY ScratchFits
  <2>3. ~ Xmm(i.b) /\ Source(i.b)
    BY <2>1, KindsOfOperands
  <2> HIDE DEF x
  <2>4. i.op # "xorpd" /\ Double(i.a) /\ (i.op # "comisd" => Place(i.b))
    BY <2>1, <2>3 DEF Fits, FpOps, DoubleTarget, Sets, ShiftOps
  <2>5. Fits(a)
    BY <2>2, <2>3, FitsMoves
  <2>6. i.op # "comisd" => i.b.w = W64
    BY <2>1, <2>4 DEF Fits, FpOps, DoubleTarget, Sets, ShiftOps
  <2>7. i.op # "comisd" => Fits(c)
    BY <2>2, <2>4, <2>6, FitsMoves, KindsOfOperands
  <2>8. b.op = i.op /\ b.a = i.a /\ b.b = x
    BY InstrIs
  <2> HIDE DEF a, b, c
  <2>9. Fits(b)
    BY <2>1, <2>2, <2>4, <2>8, KindsOfOperands DEF Fits, FpOps, DoubleTarget, Sets, ShiftOps
  <2>10. FitCode(<<a, b>>) /\ FitCode(<<>>) /\ (i.op # "comisd" => FitCode(<<c>>))
    BY <2>5, <2>7, <2>9, FitTuples
  <2>11. FitCode(<<a, b>> \o <<>>) /\ (i.op # "comisd" => FitCode(<<a, b>> \o <<c>>))
    BY <2>10, FitJoin
  <2> QED BY <2>1, <2>11 DEF FixFits
<1> QED BY <1>1, <1>2

LEMMA FitFixLea == ASSUME NEW i, Fits(i) PROVE FixFits(12, i)
<1>1. CASE Fix(12, i) = <<i>>
  BY <1>1, FitTuples DEF FixFits
<1>2. CASE Fix(12, i) # <<i>>
  <2> DEFINE a == Instr("lea", i.a, R10(i.b))
             b == Mov(R10(i.b), i.b)
  <2>1. i.op = "lea" /\ Fix(12, i) = <<a, b>>
    BY <1>2 DEF Fix, fix_lea
  <2>2. /\ Target(i.b) /\ i.b.w = W64
        /\ i.a.k \in {"temp", "indexed"} \/ in_memory(i.a)
    BY <2>1 DEF Fits, Sets, ShiftOps
  <2>3. Fits(b)
    BY <2>2, FitsMoves, ScratchFits, KindsOfOperands
  <2>4. a.op = "lea" /\ a.a = i.a /\ Target(a.b) /\ a.b.w = W64
    BY <2>2, InstrIs, ScratchFits, KindsOfOperands
  <2> HIDE DEF a, b
  <2>5. Fits(a)
    BY <2>2, <2>4 DEF Fits, Sets, ShiftOps
  <2> QED BY <2>1, <2>3, <2>5, FitTuples DEF FixFits
<1> QED BY <1>1, <1>2

LEMMA FitFixEach ==
  ASSUME NEW n \in 1 .. Fixers, NEW i, Fits(i)
  PROVE  FixFits(n, i)
<1>1. \/ n = 1 \/ n = 2 \/ n = 3 \/ n = 4 \/ n = 5 \/ n = 6
      \/ n = 7 \/ n = 8 \/ n = 9 \/ n = 10 \/ n = 11 \/ n = 12
  BY DEF Fixers
<1> QED BY <1>1, FitFixS2s, FitFixImmBig, FitFixCmp, FitFixDiv, FitFixMul, FitFixShift,
           FitFixExtensions, FitFixMovzx32, FitFixToInt, FitFixToDouble, FitFixArithmetic,
           FitFixLea

(***************************************************************************)
(* A fixer's way through the code.                                         *)
(***************************************************************************)
Turns(n, c, g) ==
  g = [k \in 0 .. Len(c) |-> IF k = 0 THEN <<>> ELSE g[k - 1] \o Fix(n, c[k])]

LEMMA TurnsExist ==
  ASSUME NEW n \in 1 .. Fixers, NEW c, c \in Seq(Elements(c)), NEW K,
         \A i \in Elements(c) : FixedBy(n, i, K)
  PROVE  \E g : Turns(n, c, g)
<1> DEFINE U == UNION {Elements(Fix(n, i)) : i \in Elements(c)}
           N == Len(c)
           F == [x \in Seq(U) \X (1 .. N) |-> x[1] \o Fix(n, c[x[2]])]
<1>1. N \in Nat /\ \A k \in 1 .. N : c[k] \in Elements(c)
  BY DEF Elements
<1>2. \A k \in 1 .. N : Fix(n, c[k]) \in Seq(U)
  <2> SUFFICES ASSUME NEW k \in 1 .. N PROVE Fix(n, c[k]) \in Seq(U)
    OBVIOUS
  <2>1. Fix(n, c[k]) \in Seq(Elements(Fix(n, c[k])))
    BY <1>1 DEF FixedBy, GoodCode
  <2>2. Elements(Fix(n, c[k])) \subseteq U
    BY <1>1
  <2> HIDE DEF U
  <2> QED BY <2>1, <2>2
<1>3. F \in [Seq(U) \X (1 .. N) -> Seq(U)]
  <2>1. ASSUME NEW x \in Seq(U) \X (1 .. N) PROVE x[1] \o Fix(n, c[x[2]]) \in Seq(U)
    <3>1. x[1] \in Seq(U) /\ x[2] \in 1 .. N
      OBVIOUS
    <3>2. Fix(n, c[x[2]]) \in Seq(U)
      BY <1>2, <3>1
    <3> HIDE DEF U
    <3> QED BY <3>1, <3>2
  <2> HIDE DEF U
  <2> QED BY <2>1
<1>4. <<>> \in Seq(U)
  OBVIOUS
<1>5. PICK f : Recurs(f, N, Seq(U), <<>>, F)
  <2> HIDE DEF F, N, U
  <2> QED BY <1>1, <1>3, <1>4, RecursionExists
<1>6. \A k \in 1 .. N : f[k] = f[k - 1] \o Fix(n, c[k])
  <2>1. \A k \in 1 .. N : f[k - 1] \in Seq(U)
    BY <1>1, <1>5 DEF Recurs
  <2> HIDE DEF U
  <2> QED BY <1>5, <2>1 DEF Recurs
<1>7. Turns(n, c, f)
  <2>1. f \in [0 .. N -> Seq(U)] /\ f[0] = <<>>
    BY <1>5 DEF Recurs
  <2>2. ASSUME NEW k \in 0 .. N
        PROVE  f[k] = IF k = 0 THEN <<>> ELSE f[k - 1] \o Fix(n, c[k])
    <3>1. k = 0 \/ k \in 1 .. N
      BY <1>1
    <3> HIDE DEF N, F, U
    <3> QED BY <1>6, <2>1, <3>1
  <2>3. f = [k \in 0 .. N |-> IF k = 0 THEN <<>> ELSE f[k - 1] \o Fix(n, c[k])]
    <3> HIDE DEF N, F, U
    <3> QED BY <2>1, <2>2
  <2> QED BY <2>3 DEF Turns
<1> QED BY <1>7

LEMMA FixupIs ==
  ASSUME NEW n \in 1 .. Fixers, NEW c, NEW K, GoodCode(c, K), FitCode(c),
         {"reg", "none"} \subseteq K, "temp" \notin K,
         \A i \in Elements(c) : Clean(n - 1, i)
  PROVE  /\ GoodCode(fixup_function(n, c), K) /\ FitCode(fixup_function(n, c))
         /\ \A i \in Elements(fixup_function(n, c)) : Clean(n, i)
<1>1. \A i \in Elements(c) : FixedBy(n, i, K)
  BY FixEach DEF GoodCode, Fixable
<1>2. c \in Seq(Elements(c))
  BY DEF GoodCode
<1>3. Len(c) \in Nat /\ \A k \in 1 .. Len(c) : c[k] \in Elements(c)
  BY <1>2 DEF Elements
<1>4. PICK g : Turns(n, c, g) /\ fixup_function(n, c) = g[Len(c)]
  <2> DEFINE g == CHOOSE g : Turns(n, c, g)
  <2>1. Turns(n, c, g)
    <3>1. \E f : Turns(n, c, f)
      BY <1>1, <1>2, TurnsExist
    <3> QED BY <3>1
  <2>2. fixup_function(n, c) = g[Len(c)]
    BY DEF fixup_function, Turns
  <2> HIDE DEF g
  <2> QED BY <2>1, <2>2
<1> DEFINE T == {k \in 0 .. Len(c) :
                GoodCode(g[k], K) /\ FitCode(g[k]) /\ \A i \in Elements(g[k]) : Clean(n, i)}
<1>5. 0 \in T
  <2>1. g[0] = <<>>
    BY <1>3, <1>4 DEF Turns
  <2>2. GoodCode(<<>>, K) /\ FitCode(<<>>) /\ Elements(<<>>) = {}
    BY GoodTuples, FitTuples DEF Elements
  <2> QED BY <1>3, <2>1, <2>2
<1>6. ASSUME NEW k \in 1 .. Len(c), k - 1 \in T PROVE k \in T
  <2>1. g[k] = g[k - 1] \o Fix(n, c[k])
    BY <1>3, <1>4 DEF Turns
  <2>2. GoodCode(Fix(n, c[k]), K) /\ \A i \in Elements(Fix(n, c[k])) : Clean(n, i)
    BY <1>1, <1>3 DEF FixedBy
  <2>3. GoodCode(g[k - 1], K) /\ \A i \in Elements(g[k - 1]) : Clean(n, i)
    BY <1>6
  <2>4. /\ GoodCode(g[k], K)
        /\ Elements(g[k]) \subseteq Elements(g[k - 1]) \cup Elements(Fix(n, c[k]))
    <3> DEFINE p == g[k - 1]
               q == Fix(n, c[k])
    <3>1. GoodCode(p, K) /\ GoodCode(q, K) /\ g[k] = p \o q
      BY <2>1, <2>2, <2>3
    <3> HIDE DEF p, q
    <3>2. GoodCode(p \o q, K) /\ Elements(p \o q) \subseteq Elements(p) \cup Elements(q)
      BY <3>1, GoodJoin
    <3> QED BY <3>1, <3>2 DEF p, q
  <2>5. \A i \in Elements(g[k]) : Clean(n, i)
    BY <2>2, <2>3, <2>4
  <2>6. FitCode(Fix(n, c[k]))
    BY <1>3, FitFixEach DEF FitCode, FixFits
  <2>7. FitCode(g[k])
    BY <1>6, <2>1, <2>6, FitJoin
  <2> QED BY <2>4, <2>5, <2>7
<1>7. \A k \in 1 .. Len(c) : k - 1 \in T => k \in T
  BY <1>6
<1>8. Len(c) \in T
  <2> HIDE DEF T
  <2>1. \A k \in 0 .. Len(c) : k \in T
    BY <1>3, <1>5, <1>7, UpTo
  <2> QED BY <1>3, <2>1
<1> QED BY <1>4, <1>8

(***************************************************************************)
(* Selection.  What is known of the arguments of an operation.             *)
(***************************************************************************)
IsValue(v) == v.sub \in {"const", "temp", "data", "string", "label"} /\ v.type \in Scalars

TwoArguments ==
  {"neg", "com", "not", "copy", "sext", "zext", "trunc", "d2i", "d2u", "i2d", "u2d",
   "addr", "load", "store", "jz", "jnz", "inc", "dec"}
ThreeArguments == Arithmetic \cup Bitwises \cup {"div", "rem"} \cup Comparisons

Arguments(o) ==
  /\ o.op \in TwoArguments \cup ThreeArguments \cup {"ptr_add", "ret"}
  /\ o.op = "ret" => o.args[2] = NoVal /\ (o.args[1] = Dummy \/ IsValue(o.args[1]))
  /\ o.op # "ret" => IsValue(o.args[1]) /\ IsValue(o.args[2])
  /\ o.op \in ThreeArguments \cup {"ptr_add"} => IsValue(o.args[3])
  /\ o.op = "ptr_add" => IsValue(o.args[4]) /\ o.args[1].type = "ptr" /\ o.args[2].type = "long"

Converts(o, from, to) == o.args[1].type \in from /\ o.args[2].type \in to

TypesFit(o) ==
  /\ o.op \in {"sext", "zext"} => Word(o.args[1].type) < Word(o.args[2].type)
  /\ o.op = "trunc" => Word(o.args[2].type) < Word(o.args[1].type)
  /\ o.op = "d2i" => Converts(o, {"double"}, Charlike \cup {"int", "long"})
  /\ o.op = "d2u" => Converts(o, {"double"}, {"uint", "ulong"})
  /\ o.op = "i2d" => Converts(o, {"char", "int", "long"}, {"double"})
  /\ o.op = "u2d" => Converts(o, {"uchar", "uint", "ulong"}, {"double"})
  /\ o.op \in {"addr", "store"} => o.args[2].type = "ptr"
  /\ o.op \in {"inc", "dec"} => o.args[1] = o.args[2]
  /\ o.op \in {"div", "rem"} => o.args[1].type = o.args[2].type
  /\ o.op = "div" => o.args[1].type \in Ints \cup {"double"}
  /\ o.op = "rem" => o.args[1].type \in Ints

Shape(o) == Arguments(o) /\ TypesFit(o)

LEMMA WordIs ==
  /\ \A t \in Scalars : Word(t) \in Words
  /\ \A t \in Charlike : Word(t) = W8
  /\ Word("int") = W32 /\ Word("uint") = W32
  /\ Word("long") = W64 /\ Word("ulong") = W64 /\ Word("double") = W64 /\ Word("ptr") = W64
BY DEF Word, Words, Scalars, Integral, Ints, Charlike

LEMMA OperandIs ==
  ASSUME NEW k \in Kinds, NEW w \in Words, NEW at, NEW n
  PROVE  /\ Operand(k, w, at, n).k = k /\ Operand(k, w, at, n).w = w
         /\ Formed(Operand(k, w, at, n), Kinds)
         /\ \A x \in Words : Formed([Operand(k, w, at, n) EXCEPT !.w = x], Kinds)
<1>1. \A x : [Operand(k, w, at, n) EXCEPT !.w = x] = Operand(k, x, at, n)
  BY DEF Operand
<1>2. \A x \in Words : Formed(Operand(k, x, at, n), Kinds)
  BY DEF Operand, Formed
<1> QED BY <1>1, <1>2 DEF Operand

LEMMA MapIs ==
  ASSUME NEW v, IsValue(v)
  PROVE  /\ Formed(map_operand(v), Kinds) /\ map_operand(v).w = Word(v.type)
         /\ map_operand(v).k # "reg"
         /\ \A w \in Words : Formed([map_operand(v) EXCEPT !.w = w], Kinds)
<1>1. Word(v.type) \in Words
  BY WordIs DEF IsValue
<1>2. {"imm", "fconst", "temp", "data", "string", "label"} \subseteq Kinds
  BY DEF Kinds
<1>3. PICK k, at, n : /\ k \in Kinds /\ k # "reg"
                      /\ map_operand(v) = Operand(k, Word(v.type), at, n)
  <2>1. CASE v.sub = "const" /\ ~ IsFp(v.type)
    <3>1. map_operand(v) = Operand("imm", Word(v.type), "", v.n)
      BY <2>1 DEF map_operand
    <3> QED BY <1>2, <3>1
  <2>2. CASE v.sub = "const" /\ IsFp(v.type)
    <3>1. map_operand(v) = Operand("fconst", W64, "", v.n)
      BY <2>2 DEF map_operand
    <3>2. Word(v.type) = W64
      BY <2>2, WordIs DEF IsFp
    <3> QED BY <1>2, <3>1, <3>2
  <2>3. CASE v.sub \in {"temp", "data", "string", "label"}
    <3>1. map_operand(v) = Operand(v.sub, Word(v.type), v.at, 0)
      BY <2>3 DEF map_operand
    <3> QED BY <1>2, <2>3, <3>1
  <2> QED BY <2>1, <2>2, <2>3 DEF IsValue
<1> QED BY <1>1, <1>3, OperandIs

LEMMA OwnOperands ==
  /\ Formed(Zero, Kinds) /\ Formed(Rcx, Kinds) /\ Formed(Rdx, Kinds) /\ Formed(NoOperand, Kinds)
  /\ \A w \in Words : Formed(Rax(w), Kinds) /\ Rax(w).w = w
  /\ \A w \in Words : \A at : Formed(Reg(at, w), Kinds)
  /\ \A at : Formed(XMM(at), Kinds)
  /\ \A n : Formed(FConst(n), Kinds) /\ Formed(Imm(n), Kinds)
  /\ \A k \in Kinds : \A n : Formed(Operand(k, W8, "", n), Kinds)
  /\ \A v, n : v.type \in Scalars =>
       Formed(Pointee(v), Kinds) /\ Formed(Indexed(v, n), Kinds)
BY WordsAre, WordIs DEF Zero, Rcx, Rdx, NoOperand, Rax, Reg, XMM, FConst, Imm, Operand, Pointee,
   Indexed, Formed, Kinds

\* A list of good instructions.
LEMMA GoodList ==
  ASSUME NEW S, NEW c \in Seq(S), NEW K, \A i \in S : Good(i, K)
  PROVE  GoodCode(c, K)
BY ElementsOf DEF GoodCode

\* An instruction that is no extension.
LEMMA PlainGood ==
  ASSUME NEW op, op \notin {"movsx", "movzx"}, NEW a, NEW b,
         Formed(a, Kinds), Formed(b, Kinds)
  PROVE  Good(Instr(op, a, b), Kinds)
BY GoodInstr

LEMMA PlainGood1 ==
  ASSUME NEW op, op \notin {"movsx", "movzx"}, NEW a, Formed(a, Kinds)
  PROVE  Good(Instr1(op, a), Kinds)
BY PlainGood, OwnOperands DEF Instr1

LEMMA MovGood ==
  ASSUME NEW a, NEW b, Formed(a, Kinds), Formed(b, Kinds)
  PROVE  Good(Mov(a, b), Kinds)
BY PlainGood DEF Mov

(***************************************************************************)
(* Selection, operation by operation.                                      *)
(***************************************************************************)
\* The operands of the arguments.
Usable(x) == Formed(x, Kinds)

LEMMA ArgumentsFormed ==
  ASSUME NEW o, Arguments(o)
  PROVE  /\ o.op # "ret" => /\ Usable(A(o)) /\ Usable(B(o))
                            /\ A(o).w = Word(TypeA(o)) /\ B(o).w = Word(o.args[2].type)
                            /\ TypeA(o) \in Scalars /\ o.args[2].type \in Scalars
         /\ o.args[1] # Dummy => Usable(A(o)) /\ A(o).w = Word(TypeA(o)) /\ TypeA(o) \in Scalars
         /\ o.op \in ThreeArguments \cup {"ptr_add"} => Usable(C(o))
         /\ o.op = "ptr_add" => Usable(D(o)) /\ Usable([D(o) EXCEPT !.w = W64])
<1>1. "ret" \notin ThreeArguments \cup {"ptr_add"}
  BY DEF ThreeArguments, Arithmetic, Bitwises, Comparisons
<1>2. o.op # "ret" => /\ Usable(A(o)) /\ Usable(B(o))
                      /\ A(o).w = Word(TypeA(o)) /\ B(o).w = Word(o.args[2].type)
                      /\ TypeA(o) \in Scalars /\ o.args[2].type \in Scalars
  BY MapIs DEF Arguments, A, B, TypeA, Usable, IsValue
<1>3. o.args[1] # Dummy => Usable(A(o)) /\ A(o).w = Word(TypeA(o)) /\ TypeA(o) \in Scalars
  BY MapIs DEF Arguments, A, TypeA, Usable, IsValue
<1>4. o.op \in ThreeArguments \cup {"ptr_add"} => Usable(C(o))
  BY MapIs DEF Arguments, C, Usable
<1>5. o.op = "ptr_add" => Usable(D(o)) /\ Usable([D(o) EXCEPT !.w = W64])
  BY MapIs, WordsAre DEF Arguments, D, Usable
<1> QED BY <1>2, <1>3, <1>4, <1>5

LEMMA UnarySelected ==
  ASSUME NEW o, Shape(o), o.op \in {"com", "neg", "not", "dec", "inc"}
  PROVE  GoodCode(unary_op(o), Kinds)
<1>1. Usable(A(o)) /\ Usable(B(o)) /\ Usable(Zero)
  BY ArgumentsFormed, OwnOperands DEF Shape, Usable
<1>2. CASE o.op \in {"com", "neg"}
  <2> DEFINE i == Mov(A(o), B(o))
             j == Instr1("neg", B(o))
             k == Instr1("not", B(o))
  <2>1. Good(i, Kinds) /\ Good(j, Kinds) /\ Good(k, Kinds)
    BY <1>1, MovGood, PlainGood1 DEF Usable
  <2>2. unary_op(o) = <<i, j>> \/ unary_op(o) = <<i, k>>
    BY <1>2 DEF unary_op
  <2> HIDE DEF i, j, k
  <2> QED BY <2>1, <2>2, GoodTuples
<1>3. CASE o.op = "not"
  <2> DEFINE i == Instr("cmp", Zero, A(o))
             j == Mov(Zero, B(o))
             k == Instr1("sete", B(o))
  <2>1. Good(i, Kinds) /\ Good(j, Kinds) /\ Good(k, Kinds)
    BY <1>1, MovGood, PlainGood, PlainGood1 DEF Usable
  <2>2. unary_op(o) = <<i, j, k>>
    BY <1>3 DEF unary_op
  <2> HIDE DEF i, j, k
  <2> QED BY <2>1, <2>2, GoodTuples
<1>4. CASE o.op \in {"dec", "inc"}
  <2>1. Good(Instr1("dec", A(o)), Kinds) /\ Good(Instr1("inc", A(o)), Kinds)
    BY <1>1, PlainGood1 DEF Usable
  <2>2. unary_op(o) = <<Instr1("dec", A(o))>> \/ unary_op(o) = <<Instr1("inc", A(o))>>
    BY <1>4 DEF unary_op
  <2> QED BY <2>1, <2>2, GoodTuples
<1> QED BY <1>2, <1>3, <1>4

\* The left operand is moved, then op applied.
LEMMA CopiedAndApplied ==
  ASSUME NEW o, Arguments(o), o.op \in ThreeArguments, NEW op, op \notin {"movsx", "movzx"}
  PROVE  GoodCode(CopyLeft(o) \o <<Instr(op, B(o), C(o))>>, Kinds)
<1>1. o.op # "ret"
  BY DEF ThreeArguments, Arithmetic, Bitwises, Comparisons
<1>2. Usable(A(o)) /\ Usable(B(o)) /\ Usable(C(o))
  BY <1>1, ArgumentsFormed
<1>3. GoodCode(<<Mov(A(o), C(o))>>, Kinds) /\ GoodCode(<<>>, Kinds)
  BY <1>2, MovGood, GoodTuples DEF Usable
<1>4. GoodCode(CopyLeft(o), Kinds)
  BY <1>3 DEF CopyLeft
<1>5. GoodCode(<<Instr(op, B(o), C(o))>>, Kinds)
  BY <1>2, PlainGood, GoodTuples DEF Usable
<1> QED BY <1>4, <1>5, GoodJoin

LEMMA BinarySelected ==
  ASSUME NEW o, Shape(o), o.op \in Arithmetic \cup Bitwises
  PROVE  GoodCode(binary_op(o), Kinds)
<1>1. o.op \in ThreeArguments /\ BinaryOpcode(o) \notin {"movsx", "movzx"}
  BY DEF ThreeArguments, Arithmetic, Bitwises, BinaryOpcode
<1> QED BY <1>1, CopiedAndApplied DEF binary_op, Shape

LEMMA DivRemSelected ==
  ASSUME NEW o, Shape(o), o.op \in {"div", "rem"}, TypeA(o) \in Ints
  PROVE  GoodCode(div_rem(o), Kinds)
<1>1. o.op \in ThreeArguments /\ o.op # "ret"
  BY DEF ThreeArguments
<1>2. Usable(A(o)) /\ Usable(B(o)) /\ Usable(C(o)) /\ TypeA(o) \in Scalars
  BY <1>1, ArgumentsFormed DEF Shape
<1>3. Word(TypeA(o)) \in Words
  BY <1>2, WordIs
<1> DEFINE i == Mov(A(o), Rax(Word(TypeA(o))))
           j == CASE TypeA(o) = "int"  -> Instr1("cdq", NoOperand)
                  [] TypeA(o) = "long" -> Instr1("cqo", NoOperand)
                  [] TypeA(o) \in {"uint", "ulong"} -> Mov(Zero, Rdx)
           k == Instr1(IF SignedA(o) THEN "idiv" ELSE "div", B(o))
           l == Mov(Reg(IF o.op = "div" THEN "ax" ELSE "dx", Word(TypeA(o))), C(o))
<1>4. Good(i, Kinds) /\ Good(l, Kinds)
  BY <1>2, <1>3, OwnOperands, MovGood DEF Usable
<1>5. Good(j, Kinds)
  BY OwnOperands, MovGood, PlainGood1 DEF Ints
<1>6. Good(k, Kinds)
  BY <1>2, PlainGood1 DEF Usable
<1>7. div_rem(o) = <<i, j, k, l>>
  BY DEF div_rem
<1> HIDE DEF i, j, k, l
<1> DEFINE S == {i, j, k, l}
           c == <<i, j, k, l>>
<1>8. c \in Seq(S)
  OBVIOUS
<1>9. \A x \in S : Good(x, Kinds)
  BY <1>4, <1>5, <1>6
<1> HIDE DEF S
<1>10. GoodCode(c, Kinds)
  <2> HIDE DEF c
  <2> QED BY <1>8, <1>9, GoodList
<1> QED BY <1>7, <1>10

LEMMA CmpSelected ==
  ASSUME NEW o, Shape(o), o.op \in Comparisons
  PROVE  GoodCode(cmp_op(o), Kinds)
<1>1. o.op \in ThreeArguments /\ o.op # "ret"
  BY DEF ThreeArguments, Comparisons
<1>2. Usable(A(o)) /\ Usable(B(o)) /\ Usable(C(o)) /\ Usable(Zero)
  BY <1>1, ArgumentsFormed, OwnOperands DEF Shape, Usable
<1> DEFINE i == Instr("cmp", B(o), A(o))
           j == Mov(Zero, C(o))
           k == Instr1(SetIf(o.op, SignedA(o)), C(o))
<1>3. SetIf(o.op, SignedA(o)) \notin {"movsx", "movzx"}
  BY DEF Comparisons, SetIf
<1>4. Good(i, Kinds) /\ Good(j, Kinds) /\ Good(k, Kinds)
  BY <1>2, <1>3, PlainGood, PlainGood1, MovGood DEF Usable
<1>5. cmp_op(o) = <<i, j, k>>
  BY DEF cmp_op
<1> HIDE DEF i, j, k
<1> QED BY <1>4, <1>5, GoodTuples

LEMMA PtrAddSelected ==
  ASSUME NEW o, Shape(o), o.op = "ptr_add"
  PROVE  GoodCode(ptr_add_op(o), Kinds)
<1> DEFINE E == [D(o) EXCEPT !.w = W64]
           lea(n) == Instr("lea", Indexed(o.args[1], n), E)
           i == Mov(A(o), Rax(W64))
           j == Mov(B(o), Rdx)
           k == Instr("imul", C(o), Rdx)
           n1 == o.args[3].n
<1>1. Usable(A(o)) /\ Usable(B(o)) /\ Usable(C(o)) /\ Usable(E) /\ TypeA(o) \in Scalars
  BY ArgumentsFormed DEF Shape
<1>2. \A n : Usable(Indexed(o.args[1], n))
  BY <1>1, OwnOperands DEF Usable, TypeA
<1>3. Usable(Rax(W64)) /\ Usable(Rdx)
  BY OwnOperands, WordsAre DEF Usable
<1>4. Good(i, Kinds) /\ Good(j, Kinds) /\ Good(k, Kinds)
  BY <1>1, <1>3, PlainGood, MovGood DEF Usable
<1>5. Good(lea(n1), Kinds) /\ Good(lea(1), Kinds)
  <2> HIDE DEF E, n1
  <2> QED BY <1>1, <1>2, PlainGood DEF Usable
<1>6. ptr_add_op(o) = <<i, j>> \o <<lea(n1)>> \/ ptr_add_op(o) = <<i, j>> \o <<k, lea(1)>>
  BY DEF ptr_add_op
<1>7. GoodCode(<<i, j>>, Kinds) /\ GoodCode(<<lea(n1)>>, Kinds) /\ GoodCode(<<k, lea(1)>>, Kinds)
  <2> HIDE DEF i, j, k, lea
  <2> QED BY <1>4, <1>5, GoodTuples
<1>8. GoodCode(<<i, j>> \o <<lea(n1)>>, Kinds) /\ GoodCode(<<i, j>> \o <<k, lea(1)>>, Kinds)
  <2> HIDE DEF i, j, k, lea
  <2> QED BY <1>7, GoodJoin
<1> QED BY <1>6, <1>8

\* The operations that become a few instructions each.
LEMMA MovesSelected ==
  ASSUME NEW o, Shape(o), o.op \in {"ret", "copy", "sext", "zext", "trunc", "addr", "load",
                                    "store"} \cup Jumps
  PROVE  GoodCode(statement_common(o), Kinds)
<1>1. o.op # "ret" => /\ Usable(A(o)) /\ Usable(B(o))
                      /\ A(o).w = Word(TypeA(o)) /\ B(o).w = Word(o.args[2].type)
                      /\ TypeA(o) \in Scalars /\ o.args[2].type \in Scalars
                      /\ Word(TypeA(o)) \in Words /\ Word(o.args[2].type) \in Words
  BY ArgumentsFormed, WordIs DEF Shape
<1>2. Usable(NoOperand) /\ Usable(Zero) /\ Usable(Rax(W64)) /\ W64 \in Words
  BY OwnOperands, WordsAre DEF Usable
<1>3. CASE o.op = "ret" /\ o.args[1] = Dummy
  <2>1. statement_common(o) = <<Instr1("ret", NoOperand)>>
    BY <1>3 DEF statement_common, Arithmetic, Bitwises, Comparisons, Jumps
  <2>2. Good(Instr1("ret", NoOperand), Kinds)
    BY <1>2, PlainGood1 DEF Usable
  <2> QED BY <2>1, <2>2, GoodTuples
<1>4. CASE o.op = "ret" /\ o.args[1] # Dummy
  <2> DEFINE i == Mov(A(o), Rax(Word(TypeA(o))))
             j == Instr1("ret", NoOperand)
  <2>1. statement_common(o) = <<i, j>>
    BY <1>4 DEF statement_common, Arithmetic, Bitwises, Comparisons, Jumps
  <2>2. Usable(A(o)) /\ Usable(Rax(Word(TypeA(o))))
    BY <1>4, ArgumentsFormed, WordIs, OwnOperands DEF Shape, Usable
  <2>3. Good(i, Kinds) /\ Good(j, Kinds)
    BY <1>2, <2>2, MovGood, PlainGood1 DEF Usable
  <2> HIDE DEF i, j
  <2> QED BY <2>1, <2>3, GoodTuples
<1>5. CASE o.op = "copy"
  <2>1. statement_common(o) = <<Mov(A(o), B(o))>>
    BY <1>5 DEF statement_common, Arithmetic, Bitwises, Comparisons, Jumps
  <2>2. Good(Mov(A(o), B(o)), Kinds)
    BY <1>1, <1>5, MovGood DEF Usable
  <2> QED BY <2>1, <2>2, GoodTuples
<1>6. CASE o.op \in {"sext", "zext"}
  <2> DEFINE i == Instr("movsx", A(o), B(o))
             j == Instr("movzx", A(o), B(o))
  <2>1. statement_common(o) = <<i>> \/ statement_common(o) = <<j>>
    BY <1>6 DEF statement_common, Arithmetic, Bitwises, Comparisons, Jumps
  <2>2. A(o).w < B(o).w
    BY <1>1, <1>6 DEF Shape, TypesFit, TypeA
  <2>3. B(o).k # "reg"
    BY <1>6, MapIs DEF Shape, Arguments, B
  <2>4. Good(i, Kinds) /\ Good(j, Kinds)
    BY <1>1, <1>6, <2>2, <2>3, GoodInstr DEF Usable
  <2> HIDE DEF i, j
  <2> QED BY <2>1, <2>4, GoodTuples
<1>7. CASE o.op = "trunc"
  <2> DEFINE a == [A(o) EXCEPT !.w = B(o).w]
  <2>1. statement_common(o) = <<Mov(a, B(o))>>
    BY <1>7 DEF statement_common, truncate, Arithmetic, Bitwises, Comparisons, Jumps
  <2>2. Usable(a)
    BY <1>1, <1>7, MapIs DEF Shape, Arguments, A, Usable
  <2> HIDE DEF a
  <2>3. Good(Mov(a, B(o)), Kinds)
    BY <1>1, <1>7, <2>2, MovGood DEF Usable
  <2> QED BY <2>1, <2>3, GoodTuples
<1>8. CASE o.op = "addr"
  <2>1. statement_common(o) = <<Instr("lea", A(o), B(o))>>
    BY <1>8 DEF statement_common, Arithmetic, Bitwises, Comparisons, Jumps
  <2>2. Good(Instr("lea", A(o), B(o)), Kinds)
    BY <1>1, <1>8, PlainGood DEF Usable
  <2> QED BY <2>1, <2>2, GoodTuples
<1>9. CASE o.op \in {"load", "store"}
  <2>1. Usable(A(o)) /\ Usable(B(o)) /\ Usable(Pointee(o.args[1]))
        /\ Usable(Rax(Word(o.args[2].type)))
    BY <1>1, <1>9, OwnOperands DEF Usable, TypeA
  <2> DEFINE i == Mov(A(o), Rax(W64))
             j == Mov(Pointee(o.args[1]), B(o))
             k == Mov(B(o), Rax(Word(o.args[2].type)))
             l == Mov(A(o), Pointee(o.args[1]))
  <2>2. Good(i, Kinds) /\ Good(j, Kinds) /\ Good(k, Kinds) /\ Good(l, Kinds)
    BY <1>2, <2>1, MovGood DEF Usable
  <2>3. statement_common(o) = <<i, j>> \/ statement_common(o) = <<k, l>>
    BY <1>9 DEF statement_common, Arithmetic, Bitwises, Comparisons, Jumps
  <2> HIDE DEF i, j, k, l
  <2> QED BY <2>2, <2>3, GoodTuples
<1>10. CASE o.op \in Jumps
  <2> DEFINE i == Instr("cmp", Zero, A(o))
             j == Instr1(IF o.op = "jz" THEN "je" ELSE "jne", B(o))
  <2>1. statement_common(o) = <<i, j>>
    BY <1>10 DEF statement_common, Arithmetic, Bitwises, Comparisons, Jumps
  <2>2. o.op # "ret"
    BY <1>10 DEF Jumps
  <2>3. Good(i, Kinds) /\ Good(j, Kinds)
    BY <1>1, <1>2, <2>2, PlainGood, PlainGood1 DEF Usable
  <2> HIDE DEF i, j
  <2> QED BY <2>1, <2>3, GoodTuples
<1> QED BY <1>3, <1>4, <1>5, <1>6, <1>7, <1>8, <1>9, <1>10

LEMMA CommonSelected ==
  ASSUME NEW o, Shape(o), o.op \notin {"d2i", "d2u", "i2d", "u2d"},
         o.op \in {"div", "rem"} => TypeA(o) \in Ints
  PROVE  GoodCode(statement_common(o), Kinds)
<1>1. CASE o.op \in {"com", "neg", "not", "dec", "inc"}
  <2>1. statement_common(o) = unary_op(o)
    BY <1>1 DEF statement_common, Arithmetic, Bitwises, Comparisons, Jumps
  <2> QED BY <1>1, <2>1, UnarySelected
<1>2. CASE o.op \in Arithmetic \cup Bitwises
  <2>1. statement_common(o) = binary_op(o)
    BY <1>2 DEF statement_common, Arithmetic, Bitwises, Comparisons, Jumps
  <2> QED BY <1>2, <2>1, BinarySelected
<1>3. CASE o.op \in {"div", "rem"}
  <2>1. statement_common(o) = div_rem(o)
    BY <1>3 DEF statement_common, Arithmetic, Bitwises, Comparisons, Jumps
  <2> QED BY <1>3, <2>1, DivRemSelected
<1>4. CASE o.op \in Comparisons
  <2>1. statement_common(o) = cmp_op(o)
    BY <1>4 DEF statement_common, Arithmetic, Bitwises, Comparisons, Jumps
  <2> QED BY <1>4, <2>1, CmpSelected
<1>5. CASE o.op = "ptr_add"
  <2>1. statement_common(o) = ptr_add_op(o)
    BY <1>5 DEF statement_common, Arithmetic, Bitwises, Comparisons, Jumps
  <2> QED BY <1>5, <2>1, PtrAddSelected
<1>6. o.op \in {"com", "neg", "not", "dec", "inc", "div", "rem", "ptr_add"}
               \cup Arithmetic \cup Bitwises \cup Comparisons
               \cup {"ret", "copy", "sext", "zext", "trunc", "addr", "load", "store"} \cup Jumps
  BY DEF Shape, Arguments, TwoArguments, ThreeArguments, Jumps
<1> QED BY <1>1, <1>2, <1>3, <1>4, <1>5, <1>6, MovesSelected

(***************************************************************************)
(* Selection for doubles.                                                  *)
(***************************************************************************)
LEMMA FpArithmeticSelected ==
  ASSUME NEW o, Shape(o), o.op \in Arithmetic \cup {"div"}
  PROVE  GoodCode(fp_arithmetic_op(o), Kinds)
<1>1. o.op \in ThreeArguments /\ FpOpcode(o.op) \notin {"movsx", "movzx"}
  BY DEF ThreeArguments, Arithmetic, FpOpcode
<1> QED BY <1>1, CopiedAndApplied DEF fp_arithmetic_op, Shape

LEMMA FpCmpSelected ==
  ASSUME NEW o, Shape(o), o.op \in Comparisons
  PROVE  GoodCode(fp_cmp_op(o), Kinds)
<1>1. o.op \in ThreeArguments /\ o.op # "ret"
  BY DEF ThreeArguments, Comparisons
<1>2. Usable(A(o)) /\ Usable(B(o)) /\ Usable(C(o)) /\ Usable(Zero) /\ Usable(Rcx)
  BY <1>1, ArgumentsFormed, OwnOperands DEF Shape, Usable
<1> DEFINE i == Instr("comisd", B(o), A(o))
           j == Mov(Zero, C(o))
           k == Mov(Zero, Rcx)
           l == Instr1(IF o.op = "!=" THEN "setp" ELSE "setnp", Rcx)
           m == Instr1(SetIf(o.op, FALSE), C(o))
           n == Instr(IF o.op = "!=" THEN "or" ELSE "and", Rcx, C(o))
<1>3. SetIf(o.op, FALSE) \notin {"movsx", "movzx"}
  BY DEF Comparisons, SetIf
<1>4. Good(i, Kinds) /\ Good(j, Kinds) /\ Good(k, Kinds) /\ Good(l, Kinds) /\ Good(m, Kinds)
      /\ Good(n, Kinds)
  BY <1>2, <1>3, PlainGood, PlainGood1, MovGood DEF Usable
<1>5. fp_cmp_op(o) = <<i, j, k, l, m, n>>
  BY DEF fp_cmp_op
<1> HIDE DEF i, j, k, l, m, n
<1> DEFINE S == {i, j, k, l, m, n}
           c == <<i, j, k, l, m, n>>
<1>6. c \in Seq(S)
  OBVIOUS
<1>7. \A x \in S : Good(x, Kinds)
  BY <1>4
<1> HIDE DEF S
<1>8. GoodCode(c, Kinds)
  <2> HIDE DEF c
  <2> QED BY <1>6, <1>7, GoodList
<1> QED BY <1>5, <1>8

LEMMA FpIntSelected ==
  ASSUME NEW o, Shape(o), o.op \in {"d2i", "i2d"}
  PROVE  GoodCode(fp_int(o), Kinds)
<1>1. Usable(A(o)) /\ Usable(B(o)) /\ A(o).w = Word(TypeA(o))
  BY ArgumentsFormed DEF Shape
<1>2. Usable(Rax(W32)) /\ Usable(Rax(W8)) /\ Rax(W32).w = W32
  BY OwnOperands, WordsAre DEF Usable
<1>3. CASE TypeA(o) \in Charlike
  <2> DEFINE i == Instr("movsx", A(o), Rax(W32))
             j == Instr("cvtsi2sd", Rax(W32), B(o))
  <2>1. A(o).w < Rax(W32).w
    BY <1>1, <1>2, <1>3, WordIs, WordsAre
  <2>2. Good(i, Kinds) /\ Good(j, Kinds)
    BY <1>1, <1>2, <2>1, GoodInstr, PlainGood DEF Usable
  <2>3. o.args[2].type \notin Charlike
    BY <1>3 DEF Shape, TypesFit, Converts, TypeA, Charlike
  <2>4. fp_int(o) = <<i, j>>
    BY <1>3, <2>3 DEF fp_int
  <2> HIDE DEF i, j
  <2> QED BY <2>2, <2>4, GoodTuples
<1>4. CASE TypeA(o) \notin Charlike /\ o.args[2].type \in Charlike
  <2> DEFINE i == Instr("cvttsd2si", A(o), Rax(W32))
             j == Mov(Rax(W8), B(o))
  <2>1. Good(i, Kinds) /\ Good(j, Kinds)
    BY <1>1, <1>2, MovGood, PlainGood DEF Usable
  <2>2. fp_int(o) = <<i, j>>
    BY <1>4 DEF fp_int
  <2> HIDE DEF i, j
  <2> QED BY <2>1, <2>2, GoodTuples
<1>5. CASE TypeA(o) \notin Charlike /\ o.args[2].type \notin Charlike
  <2> DEFINE i == Instr(IF o.op = "d2i" THEN "cvttsd2si" ELSE "cvtsi2sd", A(o), B(o))
  <2>1. Good(i, Kinds)
    BY <1>1, PlainGood DEF Usable
  <2>2. fp_int(o) = <<i>>
    BY <1>5 DEF fp_int
  <2> HIDE DEF i
  <2> QED BY <2>1, <2>2, GoodTuples
<1> QED BY <1>3, <1>4, <1>5

LEMMA FpToUintSelected ==
  ASSUME NEW o, Shape(o), o.op = "d2u"
  PROVE  GoodCode(fp_to_uint(o), Kinds)
<1> DEFINE X0 == XMM("xmm0")  X1 == XMM("xmm1")  X2 == XMM("xmm2")
           max == FConst(IntMaxAsDouble)  a == Rax(W64)
           i == Mov(A(o), X0)                   j == Mov(max, X2)
           k == Mov(X0, X1)                     l == Instr("subsd", X2, X1)
           m == Instr("cvttsd2si", X1, Rcx)     n == Instr("cvttsd2si", X0, a)
           p == Mov(a, Rdx)                     q == Instr("sar", Imm(W64 - 1), Rdx)
           r == Instr("and", Rdx, Rcx)          s == Instr("or", Rcx, a)
           t == Mov(a, B(o))
<1>1. Usable(A(o)) /\ Usable(B(o))
  BY ArgumentsFormed DEF Shape
<1>2. Usable(X0) /\ Usable(X1) /\ Usable(X2) /\ Usable(max) /\ Usable(a) /\ Usable(Rcx)
      /\ Usable(Rdx) /\ Usable(Imm(W64 - 1))
  BY OwnOperands, WordsAre DEF Usable
<1>3. fp_to_uint(o) = <<i, j, k, l, m, n, p, q, r, s, t>>
  BY DEF fp_to_uint
<1> HIDE DEF X0, X1, X2, max, a
<1>4. Good(i, Kinds) /\ Good(j, Kinds) /\ Good(k, Kinds) /\ Good(p, Kinds) /\ Good(t, Kinds)
  BY <1>1, <1>2, MovGood DEF Usable
<1>5. Good(l, Kinds) /\ Good(m, Kinds) /\ Good(n, Kinds) /\ Good(q, Kinds) /\ Good(r, Kinds)
      /\ Good(s, Kinds)
  BY <1>1, <1>2, PlainGood DEF Usable
<1> HIDE DEF i, j, k, l, m, n, p, q, r, s, t
<1> DEFINE S == {i, j, k, l, m, n, p, q, r, s, t}
           c == <<i, j, k, l, m, n, p, q, r, s, t>>
<1>6. c \in Seq(S)
  OBVIOUS
<1>7. \A x \in S : Good(x, Kinds)
  BY <1>4, <1>5
<1> HIDE DEF S
<1>8. GoodCode(c, Kinds)
  <2> HIDE DEF c
  <2> QED BY <1>6, <1>7, GoodList
<1> QED BY <1>3, <1>8

LEMMA UintToFpSelected ==
  ASSUME NEW o, Shape(o), o.op = "u2d"
  PROVE  GoodCode(uint_to_fp(o), Kinds)
<1> DEFINE a == Rax(W32)  b == Rax(W64)  X0 == XMM("xmm0")  X1 == XMM("xmm1")
           longs == Operand("longs", W8, "", 0)  quads == Operand("quads", W8, "", 0)
<1>1. Usable(A(o)) /\ Usable(B(o)) /\ A(o).w = Word(TypeA(o))
  BY ArgumentsFormed DEF Shape
<1>2. Usable(a) /\ Usable(b) /\ Usable(X0) /\ Usable(X1) /\ a.w = W32
  BY OwnOperands, WordsAre DEF Usable
<1>3. {"longs", "quads"} \subseteq Kinds
  BY DEF Kinds
<1>4. Usable(longs) /\ Usable(quads)
  BY <1>3, OwnOperands DEF Usable
<1>5. TypeA(o) \in {"uchar", "uint", "ulong"}
  BY DEF Shape, TypesFit, Converts, TypeA
<1>6. CASE TypeA(o) = "uchar"
  <2> DEFINE i == Instr("movzx", A(o), a)
             j == Instr("cvtsi2sd", b, B(o))
  <2>1. uint_to_fp(o) = <<i, j>>
    BY <1>6 DEF uint_to_fp
  <2> HIDE DEF a, b
  <2>2. A(o).w = W8 /\ W8 < a.w
    BY <1>1, <1>2, <1>6, WordIs, WordsAre DEF Charlike
  <2>3. Good(i, Kinds) /\ Good(j, Kinds)
    BY <1>1, <1>2, <2>2, GoodInstr, PlainGood DEF Usable
  <2> HIDE DEF i, j
  <2> QED BY <2>1, <2>3, GoodTuples
<1>7. CASE TypeA(o) = "uint"
  <2> DEFINE i == Mov(A(o), a)
             j == Instr("cvtsi2sd", b, B(o))
  <2>1. uint_to_fp(o) = <<i, j>>
    BY <1>7 DEF uint_to_fp
  <2> HIDE DEF a, b
  <2>2. Good(i, Kinds) /\ Good(j, Kinds)
    BY <1>1, <1>2, MovGood, PlainGood DEF Usable
  <2> HIDE DEF i, j
  <2> QED BY <2>1, <2>2, GoodTuples
<1>8. CASE TypeA(o) = "ulong"
  <2> DEFINE i == Mov(A(o), X0)
             j == Instr("punpckldq", longs, X0)
             k == Instr("subpd", quads, X0)
             l == Mov(X0, X1)
             m == Instr("unpckhpd", X0, X0)
             n == Instr("addsd", X1, X0)
             p == Mov(X0, B(o))
  <2>1. uint_to_fp(o) = <<i, j, k, l, m, n, p>>
    BY <1>8 DEF uint_to_fp
  <2> HIDE DEF X0, X1, longs, quads
  <2>2. Good(i, Kinds) /\ Good(j, Kinds) /\ Good(k, Kinds) /\ Good(l, Kinds) /\ Good(m, Kinds)
        /\ Good(n, Kinds) /\ Good(p, Kinds)
    BY <1>1, <1>2, <1>4, MovGood, PlainGood DEF Usable
  <2> HIDE DEF i, j, k, l, m, n, p
  <2> DEFINE S == {i, j, k, l, m, n, p}
             c == <<i, j, k, l, m, n, p>>
  <2>3. c \in Seq(S)
    OBVIOUS
  <2>4. \A x \in S : Good(x, Kinds)
    BY <2>2
  <2> HIDE DEF S
  <2>5. GoodCode(c, Kinds)
    <3> HIDE DEF c
    <3> QED BY <2>3, <2>4, GoodList
  <2> QED BY <2>1, <2>5
<1> QED BY <1>5, <1>6, <1>7, <1>8

LEMMA FpJumpSelected ==
  ASSUME NEW o, Shape(o), o.op \in Jumps
  PROVE  GoodCode(fp_jump(o), Kinds)
<1> DEFINE a == Rax(W64)  zero == FConst(PlusZero)
           i == Mov(Zero, a)                 j == Mov(Zero, Rcx)
           k == Instr("comisd", zero, A(o))  l == Instr1("setne", a)
           m == Instr1("setp", Rcx)          n == Instr("or", a, Rcx)
           p == Instr("cmp", Zero, Rcx)
           q == Instr1(IF o.op = "jz" THEN "je" ELSE "jne", B(o))
<1>1. o.op # "ret"
  BY DEF Jumps
<1>2. Usable(A(o)) /\ Usable(B(o))
  BY <1>1, ArgumentsFormed DEF Shape
<1>3. Usable(a) /\ Usable(zero) /\ Usable(Zero) /\ Usable(Rcx)
  BY OwnOperands, WordsAre DEF Usable
<1>4. fp_jump(o) = <<i, j, k, l, m, n, p, q>>
  BY DEF fp_jump
<1> HIDE DEF a, zero
<1>5. Good(i, Kinds) /\ Good(j, Kinds) /\ Good(k, Kinds) /\ Good(l, Kinds) /\ Good(m, Kinds)
      /\ Good(n, Kinds) /\ Good(p, Kinds) /\ Good(q, Kinds)
  BY <1>2, <1>3, MovGood, PlainGood, PlainGood1 DEF Usable
<1> HIDE DEF i, j, k, l, m, n, p, q
<1> DEFINE S == {i, j, k, l, m, n, p, q}
           c == <<i, j, k, l, m, n, p, q>>
<1>6. c \in Seq(S)
  OBVIOUS
<1>7. \A x \in S : Good(x, Kinds)
  BY <1>5
<1> HIDE DEF S
<1>8. GoodCode(c, Kinds)
  <2> HIDE DEF c
  <2> QED BY <1>6, <1>7, GoodList
<1> QED BY <1>4, <1>8

\* neg, inc, dec and ret, which statement_fp handles itself.
LEMMA FpMovesSelected ==
  ASSUME NEW o, Shape(o), o.op \in {"neg", "inc", "dec", "ret"}, o.args[1] # Dummy
  PROVE  GoodCode(statement_fp(o), Kinds)
<1> DEFINE X0 == XMM("xmm0")  X1 == XMM("xmm1")
           minus == FConst(MinusZero)  one == FConst(One)
<1>1. Usable(A(o)) /\ (o.op # "ret" => Usable(B(o)))
  BY ArgumentsFormed DEF Shape
<1>2. Usable(X0) /\ Usable(X1) /\ Usable(minus) /\ Usable(one) /\ Usable(NoOperand)
  BY OwnOperands DEF Usable
<1>3. CASE o.op = "ret"
  <2> DEFINE i == Mov(A(o), X0)
             j == Instr1("ret", NoOperand)
  <2>1. statement_fp(o) = <<i, j>>
    BY <1>3 DEF statement_fp, Comparisons, Jumps
  <2> HIDE DEF X0
  <2>2. Good(i, Kinds) /\ Good(j, Kinds)
    BY <1>1, <1>2, MovGood, PlainGood1 DEF Usable
  <2> HIDE DEF i, j
  <2> QED BY <2>1, <2>2, GoodTuples
<1>4. CASE o.op = "neg"
  <2> DEFINE i == Mov(A(o), X1)
             j == Mov(minus, X0)
             k == Instr("xorpd", X0, X1)
             l == Mov(X1, B(o))
  <2>1. statement_fp(o) = <<i, j, k, l>>
    BY <1>4 DEF statement_fp, Comparisons, Jumps
  <2> HIDE DEF X0, X1, minus
  <2>2. Good(i, Kinds) /\ Good(j, Kinds) /\ Good(k, Kinds) /\ Good(l, Kinds)
    BY <1>1, <1>2, <1>4, MovGood, PlainGood DEF Usable
  <2> HIDE DEF i, j, k, l
  <2> DEFINE S == {i, j, k, l}
             c == <<i, j, k, l>>
  <2>3. c \in Seq(S)
    OBVIOUS
  <2>4. \A x \in S : Good(x, Kinds)
    BY <2>2
  <2> HIDE DEF S
  <2>5. GoodCode(c, Kinds)
    <3> HIDE DEF c
    <3> QED BY <2>3, <2>4, GoodList
  <2> QED BY <2>1, <2>5
<1>5. CASE o.op \in {"inc", "dec"}
  <2> DEFINE i == Mov(one, X0)
             j == Instr(IF o.op = "dec" THEN "subsd" ELSE "addsd", X0, A(o))
  <2>1. statement_fp(o) = <<i, j>>
    BY <1>5 DEF statement_fp, Comparisons, Jumps
  <2> HIDE DEF X0, one
  <2>2. Good(i, Kinds) /\ Good(j, Kinds)
    BY <1>1, <1>2, MovGood, PlainGood DEF Usable
  <2> HIDE DEF i, j
  <2> QED BY <2>1, <2>2, GoodTuples
<1> QED BY <1>3, <1>4, <1>5

\* The operations on doubles that are not left to the common handling.
FpHandled ==
  {"ret", "neg", "inc", "dec", "div", "d2i", "i2d", "d2u", "u2d"}
  \cup Arithmetic \cup Comparisons \cup Jumps

LEMMA FpSelected ==
  ASSUME NEW o, Shape(o), o.op \in FpHandled, o.args[1] # Dummy
  PROVE  GoodCode(statement_fp(o), Kinds)
<1>1. CASE o.op \in {"neg", "inc", "dec", "ret"}
  BY <1>1, FpMovesSelected
<1>2. CASE o.op \in Arithmetic \cup {"div"}
  <2>1. statement_fp(o) = fp_arithmetic_op(o)
    BY <1>2 DEF statement_fp, Arithmetic, Comparisons, Jumps
  <2> QED BY <1>2, <2>1, FpArithmeticSelected
<1>3. CASE o.op \in Comparisons
  <2>1. statement_fp(o) = fp_cmp_op(o)
    BY <1>3 DEF statement_fp, Comparisons, Jumps
  <2> QED BY <1>3, <2>1, FpCmpSelected
<1>4. CASE o.op \in {"d2i", "i2d"}
  <2>1. statement_fp(o) = fp_int(o)
    BY <1>4 DEF statement_fp, Comparisons, Jumps
  <2> QED BY <1>4, <2>1, FpIntSelected
<1>5. CASE o.op = "d2u"
  <2>1. statement_fp(o) = fp_to_uint(o)
    BY <1>5 DEF statement_fp, Comparisons, Jumps
  <2> QED BY <1>5, <2>1, FpToUintSelected
<1>6. CASE o.op = "u2d"
  <2>1. statement_fp(o) = uint_to_fp(o)
    BY <1>6 DEF statement_fp, Comparisons, Jumps
  <2> QED BY <1>6, <2>1, UintToFpSelected
<1>7. CASE o.op \in Jumps
  <2>1. statement_fp(o) = fp_jump(o)
    BY <1>7 DEF statement_fp, Comparisons, Jumps
  <2> QED BY <1>7, <2>1, FpJumpSelected
<1> QED BY <1>1, <1>2, <1>3, <1>4, <1>5, <1>6, <1>7 DEF FpHandled

LEMMA FpNotEmpty ==
  ASSUME NEW o, Shape(o), o.op \in {"div", "d2i", "i2d", "d2u", "u2d"}
  PROVE  statement_fp(o) # <<>>
<1>1. CASE o.op = "div"
  <2> DEFINE i == Instr(FpOpcode(o.op), B(o), C(o))
             l == Mov(A(o), C(o))
  <2>1. statement_fp(o) = CopyLeft(o) \o <<i>>
    BY <1>1 DEF statement_fp, fp_arithmetic_op, Comparisons, Jumps
  <2> HIDE DEF i
  <2>2. CopyLeft(o) = <<>> \/ CopyLeft(o) = <<l>>
    BY DEF CopyLeft
  <2> HIDE DEF l
  <2>3. Len(<<>> \o <<i>>) = 1 /\ Len(<<l>> \o <<i>>) = 2 /\ Len(<<>>) = 0
    OBVIOUS
  <2> QED BY <2>1, <2>2, <2>3
<1>2. CASE o.op \in {"d2i", "i2d"}
  <2>1. statement_fp(o) = fp_int(o)
    BY <1>2 DEF statement_fp, Comparisons, Jumps
  <2> QED BY <2>1 DEF fp_int
<1>3. CASE o.op = "d2u"
  BY <1>3 DEF statement_fp, Comparisons, Jumps, fp_to_uint
<1>4. CASE o.op = "u2d"
  <2>1. statement_fp(o) = uint_to_fp(o)
    BY <1>4 DEF statement_fp, Comparisons, Jumps
  <2>2. TypeA(o) \in {"uchar", "uint", "ulong"}
    BY <1>4 DEF Shape, TypesFit, Converts, TypeA
  <2>3. CASE TypeA(o) = "uchar"
    BY <2>1, <2>3 DEF uint_to_fp
  <2>4. CASE TypeA(o) = "uint"
    BY <2>1, <2>4 DEF uint_to_fp
  <2>5. CASE TypeA(o) = "ulong"
    <3>1. \A a, b, c, d, e, f, g : <<a, b, c, d, e, f, g>> # <<>>
      OBVIOUS
    <3>2. uint_to_fp(o) # <<>>
      BY <2>5, <3>1, ZenonT(30) DEF uint_to_fp
    <3> QED BY <2>1, <3>2
  <2> QED BY <2>2, <2>3, <2>4, <2>5
<1> QED BY <1>1, <1>2, <1>3, <1>4

\* Selection makes good code of every operation of the right shape.
LEMMA Selected ==
  ASSUME NEW o, Shape(o)
  PROVE  GoodCode(statement_one(o), Kinds)
<1> DEFINE fp == IsFp(TypeA(o)) \/ IsFp(o.args[2].type)
<1>1. CASE fp /\ o.op \in FpHandled /\ statement_fp(o) # <<>>
  <2>1. statement_one(o) = statement_fp(o)
    BY <1>1 DEF statement_one
  <2>2. o.args[1] # Dummy
    <3>1. Dummy.type = "char" /\ Dummy.sub = "dummy" /\ NoVal.type = "char"
      BY DEF Dummy, NoVal, Val
    <3>2. SUFFICES ASSUME o.args[1] = Dummy PROVE FALSE
      OBVIOUS
    <3>3. CASE o.op = "ret"
      <4>1. o.args[2] = NoVal
        BY <3>3 DEF Shape, Arguments
      <4> QED BY <1>1, <3>1, <3>2, <4>1 DEF IsFp, TypeA
    <3>4. CASE o.op # "ret"
      BY <3>1, <3>2, <3>4 DEF Shape, Arguments, IsValue
    <3> QED BY <3>3, <3>4
  <2> QED BY <1>1, <2>1, <2>2, FpSelected
<1>2. CASE ~ (fp /\ o.op \in FpHandled /\ statement_fp(o) # <<>>)
  <2>1. o.op \in {"div", "d2i", "i2d", "d2u", "u2d"} => o.op \in FpHandled /\ statement_fp(o) # <<>>
    BY FpNotEmpty DEF FpHandled
  <2>2. o.op \in {"d2i", "d2u", "i2d", "u2d"} => fp
    BY DEF Shape, TypesFit, Converts, IsFp, TypeA
  <2>3. o.op \notin {"d2i", "d2u", "i2d", "u2d"}
    BY <1>2, <2>1, <2>2
  <2>4. o.op = "div" => TypeA(o) # "double"
    BY <1>2, <2>1 DEF IsFp
  <2>5. o.op \in {"div", "rem"} => TypeA(o) \in Ints
    BY <2>4 DEF Shape, TypesFit, TypeA
  <2>6. o.op \notin FpHandled => statement_fp(o) = <<>>
    BY DEF statement_fp, FpHandled, Arithmetic
  <2>7. statement_one(o) = statement_common(o)
    BY <1>2, <2>6 DEF statement_one
  <2> QED BY <2>3, <2>5, <2>7, CommonSelected
<1> QED BY <1>1, <1>2

(***************************************************************************)
(* Selection.  More of the arguments of an operation: which of them are    *)
(* variables, and which types agree.                                       *)
(***************************************************************************)
IsVariable(v) == v.sub \in {"temp", "data"} /\ v.type \in Scalars
IsNumber(v) ==
  v.sub = "const" /\ v.type \in Scalars /\ (v.type # "double" => v.n \in Int /\ -1 =< v.n)
IsInput(v) == IsVariable(v) \/ IsNumber(v)

Converting ==
  {"neg", "com", "not", "copy", "sext", "zext", "trunc", "d2i", "d2u", "i2d", "u2d"}

ArgumentsFit(o) ==
  /\ o.op \in Converting => IsInput(o.args[1]) /\ IsVariable(o.args[2])
  /\ o.op \in {"inc", "dec"} => IsVariable(o.args[1])
  /\ o.op \in ThreeArguments =>
       IsInput(o.args[1]) /\ IsInput(o.args[2]) /\ IsVariable(o.args[3])
  /\ o.op = "ptr_add" => /\ IsVariable(o.args[1]) /\ IsInput(o.args[2])
                         /\ IsNumber(o.args[3]) /\ o.args[3].type # "double"
                         /\ IsVariable(o.args[4])
  /\ o.op = "addr" => /\ IsVariable(o.args[1]) \/ o.args[1].sub = "string"
                      /\ IsVariable(o.args[2])
  /\ o.op = "load" => IsVariable(o.args[1]) /\ IsVariable(o.args[2])
  /\ o.op = "store" => IsInput(o.args[1]) /\ IsVariable(o.args[2])
  /\ o.op \in Jumps => IsInput(o.args[1]) /\ o.args[2].sub = "label"
  /\ o.op = "ret" => o.args[1] = Dummy \/ IsInput(o.args[1])

TypesAgree(o) ==
  /\ o.op \in Comparisons \cup Arithmetic \cup {"div", "neg"} => o.args[1].type = o.args[2].type
  /\ o.op \in Arithmetic \cup {"div"} /\ o.args[1].type = "double" => o.args[3].type = "double"
  /\ o.op = "mul" => o.args[1].type \in Ints \cup {"double"} /\ o.args[3].type = o.args[1].type
  /\ o.op \in Jumps => o.args[2].type # "double"

FullShape(o) == Shape(o) /\ ArgumentsFit(o) /\ TypesAgree(o)

LEMMA Rewidened ==
  ASSUME NEW o, NEW K, Formed(o, K), NEW x
  PROVE  /\ [o EXCEPT !.w = x].w = x
         /\ Source(o) => Source([o EXCEPT !.w = x])
         /\ Place(o) => Place([o EXCEPT !.w = x])
<1> DEFINE r == [o EXCEPT !.w = x]
<1>1. r.w = x /\ r.k = o.k /\ r.at = o.at /\ r.n = o.n
  BY DEF Formed, Operand
<1> HIDE DEF r
<1>2. (Source(o) => Source(r)) /\ (Place(o) => Place(r))
  BY <1>1 DEF Source, Place, Gpr, Xmm, is_xmm_register, Numeral, in_memory
<1> QED BY <1>1, <1>2 DEF r

LEMMA VariableFits ==
  ASSUME NEW v, IsVariable(v)
  PROVE  /\ Place(map_operand(v)) /\ map_operand(v).w = Word(v.type)
         /\ Target(map_operand(v)) /\ Source(map_operand(v)) /\ Double(map_operand(v))
         /\ \A x : Place([map_operand(v) EXCEPT !.w = x]) /\ Source([map_operand(v) EXCEPT !.w = x])
                   /\ [map_operand(v) EXCEPT !.w = x].w = x
         /\ map_operand(v).k = "temp" \/ in_memory(map_operand(v))
<1>1. map_operand(v).k \in {"temp", "data"}
  BY DEF IsVariable, map_operand, Operand
<1>2. IsValue(v)
  BY DEF IsVariable, IsValue
<1>3. Formed(map_operand(v), Kinds) /\ map_operand(v).w = Word(v.type)
  BY <1>2, MapIs
<1>4. Place(map_operand(v))
  BY <1>1 DEF Place
<1>5. Target(map_operand(v)) /\ Source(map_operand(v)) /\ Double(map_operand(v))
  BY <1>4, KindsOfOperands
<1>6. \A x : Place([map_operand(v) EXCEPT !.w = x]) /\ Source([map_operand(v) EXCEPT !.w = x])
            /\ [map_operand(v) EXCEPT !.w = x].w = x
  BY <1>3, <1>4, <1>5, Rewidened
<1> QED BY <1>1, <1>3, <1>4, <1>5, <1>6 DEF in_memory

LEMMA InputFits ==
  ASSUME NEW v, IsInput(v)
  PROVE  /\ Source(map_operand(v)) /\ map_operand(v).w = Word(v.type)
         /\ v.type = "double" => Double(map_operand(v))
         /\ \A x : Source([map_operand(v) EXCEPT !.w = x])
<1>1. IsValue(v)
  BY DEF IsInput, IsVariable, IsNumber, IsValue
<1>2. Formed(map_operand(v), Kinds) /\ map_operand(v).w = Word(v.type)
  BY <1>1, MapIs
<1>3. Source(map_operand(v)) /\ (v.type = "double" => Double(map_operand(v)))
  <2>1. CASE IsVariable(v)
    BY <2>1, VariableFits
  <2>2. CASE IsNumber(v) /\ v.type # "double"
    <3>1. map_operand(v).k = "imm" /\ map_operand(v).n = v.n
      BY <2>2 DEF IsNumber, map_operand, IsFp, Operand
    <3>2. Numeral(map_operand(v))
      BY <2>2, <3>1 DEF Numeral, IsNumber
    <3> QED BY <2>2, <3>2 DEF Source
  <2>3. CASE IsNumber(v) /\ v.type = "double"
    <3>1. map_operand(v).k = "fconst"
      BY <2>3 DEF IsNumber, map_operand, IsFp, Operand
    <3> QED BY <3>1 DEF Source, Double, in_memory
  <2> QED BY <2>1, <2>2, <2>3 DEF IsInput
<1>4. \A x : Source([map_operand(v) EXCEPT !.w = x])
  BY <1>2, <1>3, Rewidened
<1> QED BY <1>2, <1>3, <1>4

\* The operands that selection itself puts in.
LEMMA OwnFit ==
  /\ Source(Zero) /\ Gpr(Rcx) /\ Rcx.w = W64 /\ Gpr(Rdx) /\ Rdx.w = W64
  /\ \A w : Gpr(Rax(w)) /\ Rax(w).w = w
  /\ \A at, w : at \in {"ax", "dx"} => Gpr(Reg(at, w))
  /\ \A at : at \in {"xmm0", "xmm1", "xmm2"} => Xmm(XMM(at)) /\ XMM(at).w = W64
  /\ \A n : Source(FConst(n)) /\ Double(FConst(n))
  /\ Source(Imm(W64 - 1))
  /\ \A v : Place(Pointee(v))
  /\ \A v, n : Indexed(v, n).k = "indexed"
<1>1. W64 - 1 \in Int /\ -1 =< W64 - 1 /\ 0 \in Int /\ -1 =< 0
  BY WordsAre
<1>2. Numeral(Zero) /\ Numeral(Imm(W64 - 1))
  BY <1>1 DEF Numeral, Zero, Imm, Operand
<1>3. /\ Gpr(Rcx) /\ Rcx.w = W64 /\ Gpr(Rdx) /\ Rdx.w = W64
      /\ \A w : Gpr(Rax(w)) /\ Rax(w).w = w
      /\ \A at, w : at \in {"ax", "dx"} => Gpr(Reg(at, w))
  BY DEF Rcx, Rdx, Rax, Reg, Operand, Gpr, Xmm, is_xmm_register, XmmNames
<1>4. \A at : at \in {"xmm0", "xmm1", "xmm2"} => Xmm(XMM(at)) /\ XMM(at).w = W64
  BY DEF XMM, Reg, Operand, Xmm, is_xmm_register, XmmNames
<1>5. \A n : Source(FConst(n)) /\ Double(FConst(n))
  BY DEF FConst, Operand, Source, Double, in_memory
<1>6. /\ \A v : Place(Pointee(v))
      /\ \A v, n : Indexed(v, n).k = "indexed"
  BY DEF Pointee, Indexed, Operand, Place
<1>7. Source(Zero) /\ Source(Imm(W64 - 1))
  BY <1>2 DEF Source
<1> QED BY <1>3, <1>4, <1>5, <1>6, <1>7

\* Instructions by their operands.
LEMMA FitsPlain ==
  ASSUME NEW a, NEW b, Target(b), Source(a)
  PROVE  /\ \A op \in {"add", "sub", "and", "or", "xor", "sal", "sar", "shl", "shr", "movsx",
                      "movzx"} : Fits(Instr(op, a, b))
         /\ b.w > W8 /\ a.w > W8 => Fits(Instr("imul", a, b))
         /\ b.w > W8 /\ Gpr(b) => Fits(Instr("imul", a, b))
<1>1. ~ (Gpr(b) /\ Place(b))
  BY DEF Gpr, Place
<1> QED BY <1>1, InstrIs DEF Fits, Sets, ShiftOps

LEMMA FitsOne ==
  ASSUME NEW a
  PROVE  /\ Target(a) => \A op \in {"neg", "not", "inc", "dec"} \cup Sets : Fits(Instr1(op, a))
         /\ Source(a) => Fits(Instr1("idiv", a)) /\ Fits(Instr1("div", a))
         /\ a.k = "label" => Fits(Instr1("je", a)) /\ Fits(Instr1("jne", a))
         /\ \A op \in {"cdq", "cqo", "ret"} : Fits(Instr1(op, a))
BY InstrIs DEF Fits, Sets, ShiftOps

LEMMA FitsCompare ==
  ASSUME NEW a, NEW b, Source(a), Source(b)
  PROVE  Fits(Instr("cmp", a, b))
BY InstrIs DEF Fits, Sets, ShiftOps

LEMMA FitsLea ==
  ASSUME NEW a, NEW b, a.k \in {"temp", "indexed"} \/ in_memory(a), Target(b), b.w = W64
  PROVE  Fits(Instr("lea", a, b))
BY InstrIs DEF Fits, Sets, ShiftOps

LEMMA FitsDoubles ==
  ASSUME NEW a, NEW b
  PROVE  /\ Target(b) /\ b.w > W8 /\ Double(a) /\ a.w > W8 => Fits(Instr("cvttsd2si", a, b))
         /\ b.w = W64 /\ Place(b) /\ Source(a) /\ a.w > W8 => Fits(Instr("cvtsi2sd", a, b))
         /\ Double(a) /\ Double(b) => Fits(Instr("comisd", a, b))
         /\ Double(a) /\ b.w = W64 /\ (Xmm(b) \/ Place(b)) =>
              \A op \in {"addsd", "subsd", "mulsd", "divsd"} : Fits(Instr(op, a, b))
         /\ Xmm(a) /\ Xmm(b) => Fits(Instr("xorpd", a, b)) /\ Fits(Instr("unpckhpd", a, b))
         /\ a.k = "quads" /\ Xmm(b) => Fits(Instr("subpd", a, b))
         /\ a.k = "longs" /\ Xmm(b) /\ b.w = W64 => Fits(Instr("punpckldq", a, b))
BY InstrIs DEF Fits, DoubleTarget, Sets, ShiftOps

LEMMA FitList ==
  ASSUME NEW S, NEW c \in Seq(S), \A i \in S : Fits(i)
  PROVE  FitCode(c)
BY ElementsOf DEF FitCode

(***************************************************************************)
(* What selection makes of an operation fits, operation by operation.      *)
(***************************************************************************)
LEMMA UnaryFits ==
  ASSUME NEW o, FullShape(o), o.op \in {"com", "neg", "not", "dec", "inc"}
  PROVE  FitCode(unary_op(o))
<1>1. /\ o.op \in {"com", "neg", "not"} => Source(A(o)) /\ Target(B(o))
      /\ o.op \in {"dec", "inc"} => Target(A(o))
  BY InputFits, VariableFits DEF FullShape, ArgumentsFit, Converting, A, B
<1>2. CASE o.op \in {"com", "neg"}
  <2> DEFINE i == Mov(A(o), B(o))
             j == Instr1("neg", B(o))
             k == Instr1("not", B(o))
  <2>1. Fits(i) /\ Fits(j) /\ Fits(k)
    BY <1>1, <1>2, FitsMoves, FitsOne
  <2>2. unary_op(o) = <<i, j>> \/ unary_op(o) = <<i, k>>
    BY <1>2 DEF unary_op
  <2> HIDE DEF i, j, k
  <2> QED BY <2>1, <2>2, FitTuples
<1>3. CASE o.op = "not"
  <2> DEFINE i == Instr("cmp", Zero, A(o))
             j == Mov(Zero, B(o))
             k == Instr1("sete", B(o))
  <2>1. "sete" \in Sets
    BY DEF Sets
  <2>2. Fits(i) /\ Fits(j) /\ Fits(k)
    BY <1>1, <1>3, <2>1, OwnFit, FitsMoves, FitsOne, FitsCompare
  <2>3. unary_op(o) = <<i, j, k>>
    BY <1>3 DEF unary_op
  <2> HIDE DEF i, j, k
  <2> QED BY <2>2, <2>3, FitTuples
<1>4. CASE o.op \in {"dec", "inc"}
  <2>1. Fits(Instr1("dec", A(o))) /\ Fits(Instr1("inc", A(o)))
    BY <1>1, <1>4, FitsOne
  <2>2. unary_op(o) = <<Instr1("dec", A(o))>> \/ unary_op(o) = <<Instr1("inc", A(o))>>
    BY <1>4 DEF unary_op
  <2> QED BY <2>1, <2>2, FitTuples
<1> QED BY <1>2, <1>3, <1>4

\* The operands of an operation on three arguments.
LEMMA ThreeFit ==
  ASSUME NEW o, FullShape(o), o.op \in ThreeArguments
  PROVE  /\ Source(A(o)) /\ Source(B(o)) /\ Place(C(o)) /\ Target(C(o))
         /\ A(o).w = Word(TypeA(o)) /\ B(o).w = Word(o.args[2].type)
         /\ C(o).w = Word(o.args[3].type)
         /\ TypeA(o) = "double" => Double(A(o))
         /\ o.args[2].type = "double" => Double(B(o))
BY InputFits, VariableFits DEF FullShape, ArgumentsFit, A, B, C, TypeA

\* The left operand is moved, then the instruction applied.
LEMMA CopiedAndFit ==
  ASSUME NEW o, FullShape(o), o.op \in ThreeArguments, NEW i, Fits(i)
  PROVE  FitCode(CopyLeft(o) \o <<i>>)
<1>1. Fits(Mov(A(o), C(o)))
  BY ThreeFit, FitsMoves
<1>2. FitCode(<<Mov(A(o), C(o))>>) /\ FitCode(<<>>) /\ FitCode(<<i>>)
  BY <1>1, FitTuples
<1>3. FitCode(CopyLeft(o))
  BY <1>2 DEF CopyLeft
<1> QED BY <1>2, <1>3, FitJoin

LEMMA BinaryFits ==
  ASSUME NEW o, FullShape(o), o.op \in Arithmetic \cup Bitwises,
         o.op \in Arithmetic => TypeA(o) # "double"
  PROVE  FitCode(binary_op(o))
<1> DEFINE i == Instr(BinaryOpcode(o), B(o), C(o))
<1>1. o.op \in ThreeArguments
  BY DEF ThreeArguments
<1>2. Source(B(o)) /\ Target(C(o))
  BY <1>1, ThreeFit
<1>3. CASE o.op = "mul"
  <2>1. TypeA(o) \in Ints /\ o.args[3].type = TypeA(o) /\ o.args[2].type = TypeA(o)
    BY <1>3 DEF FullShape, TypesAgree, TypeA, Arithmetic
  <2>2. Word(TypeA(o)) > W8
    BY <2>1, WordIs, WordsAre DEF Ints
  <2>3. B(o).w > W8 /\ C(o).w > W8
    BY <1>1, <2>1, <2>2, ThreeFit
  <2>4. BinaryOpcode(o) = "imul"
    BY <1>3 DEF BinaryOpcode
  <2> QED BY <1>1, <1>2, <2>3, <2>4, FitsPlain, CopiedAndFit DEF binary_op
<1>4. CASE o.op # "mul"
  <2>1. BinaryOpcode(o) \in {"add", "sub", "and", "or", "xor", "sal", "sar", "shl", "shr"}
    BY <1>4 DEF BinaryOpcode, Arithmetic, Bitwises
  <2>2. Fits(i)
    BY <1>2, <2>1, FitsPlain
  <2> QED BY <1>1, <2>2, CopiedAndFit DEF binary_op
<1> QED BY <1>3, <1>4

LEMMA DivRemFits ==
  ASSUME NEW o, FullShape(o), o.op \in {"div", "rem"}, TypeA(o) \in Ints
  PROVE  FitCode(div_rem(o))
<1>1. o.op \in ThreeArguments
  BY DEF ThreeArguments
<1>2. Source(A(o)) /\ Source(B(o)) /\ Target(C(o))
  BY <1>1, ThreeFit
<1> DEFINE i == Mov(A(o), Rax(Word(TypeA(o))))
           j == CASE TypeA(o) = "int"  -> Instr1("cdq", NoOperand)
                  [] TypeA(o) = "long" -> Instr1("cqo", NoOperand)
                  [] TypeA(o) \in {"uint", "ulong"} -> Mov(Zero, Rdx)
           k == Instr1(IF SignedA(o) THEN "idiv" ELSE "div", B(o))
           l == Mov(Reg(IF o.op = "div" THEN "ax" ELSE "dx", Word(TypeA(o))), C(o))
<1>3. Fits(i)
  BY <1>2, OwnFit, KindsOfOperands, FitsMoves
<1>4. Fits(j)
  <2>1. /\ Fits(Instr1("cdq", NoOperand)) /\ Fits(Instr1("cqo", NoOperand))
        /\ Fits(Mov(Zero, Rdx))
    BY OwnFit, KindsOfOperands, FitsMoves, FitsOne
  <2> QED BY <2>1 DEF Ints
<1>5. Fits(k)
  BY <1>2, FitsOne
<1>6. Fits(l)
  BY <1>2, OwnFit, KindsOfOperands, FitsMoves
<1>7. div_rem(o) = <<i, j, k, l>>
  BY DEF div_rem
<1> HIDE DEF i, j, k, l
<1> DEFINE S == {i, j, k, l}
           c == <<i, j, k, l>>
<1>8. c \in Seq(S)
  OBVIOUS
<1>9. \A x \in S : Fits(x)
  BY <1>3, <1>4, <1>5, <1>6
<1> HIDE DEF S
<1>10. FitCode(c)
  <2> HIDE DEF c
  <2> QED BY <1>8, <1>9, FitList
<1> QED BY <1>7, <1>10

LEMMA SetIfIs ==
  ASSUME NEW op \in Comparisons, NEW signed
  PROVE  SetIf(op, signed) \in Sets
BY DEF Comparisons, SetIf, Sets

LEMMA CmpFits ==
  ASSUME NEW o, FullShape(o), o.op \in Comparisons
  PROVE  FitCode(cmp_op(o))
<1>1. o.op \in ThreeArguments
  BY DEF ThreeArguments
<1>2. Source(A(o)) /\ Source(B(o)) /\ Target(C(o))
  BY <1>1, ThreeFit
<1> DEFINE i == Instr("cmp", B(o), A(o))
           j == Mov(Zero, C(o))
           k == Instr1(SetIf(o.op, SignedA(o)), C(o))
<1>3. SetIf(o.op, SignedA(o)) \in Sets
  BY SetIfIs
<1>4. Fits(i) /\ Fits(j) /\ Fits(k)
  BY <1>2, <1>3, OwnFit, FitsMoves, FitsCompare, FitsOne
<1>5. cmp_op(o) = <<i, j, k>>
  BY DEF cmp_op
<1> HIDE DEF i, j, k
<1> QED BY <1>4, <1>5, FitTuples

LEMMA PtrAddFits ==
  ASSUME NEW o, FullShape(o), o.op = "ptr_add"
  PROVE  FitCode(ptr_add_op(o))
<1> DEFINE E == [D(o) EXCEPT !.w = W64]
           lea(n) == Instr("lea", Indexed(o.args[1], n), E)
           i == Mov(A(o), Rax(W64))
           j == Mov(B(o), Rdx)
           k == Instr("imul", C(o), Rdx)
           n1 == o.args[3].n
<1>1. Source(A(o)) /\ Source(B(o)) /\ Source(C(o))
  BY InputFits, VariableFits DEF FullShape, ArgumentsFit, A, B, C, IsInput
<1>2. Target(E) /\ E.w = W64
  BY VariableFits, KindsOfOperands DEF FullShape, ArgumentsFit, D
<1>3. Fits(i) /\ Fits(j)
  BY <1>1, OwnFit, KindsOfOperands, FitsMoves
<1>4. Fits(k)
  <2>1. Target(Rdx) /\ Gpr(Rdx) /\ Rdx.w > W8
    BY OwnFit, KindsOfOperands, WordsAre
  <2> QED BY <1>1, <2>1, FitsPlain
<1>5. Fits(lea(n1)) /\ Fits(lea(1))
  <2> HIDE DEF E, n1
  <2> QED BY <1>2, OwnFit, FitsLea
<1>6. ptr_add_op(o) = <<i, j>> \o <<lea(n1)>> \/ ptr_add_op(o) = <<i, j>> \o <<k, lea(1)>>
  BY DEF ptr_add_op
<1>7. FitCode(<<i, j>>) /\ FitCode(<<lea(n1)>>) /\ FitCode(<<k, lea(1)>>)
  <2> HIDE DEF i, j, k, lea
  <2> QED BY <1>3, <1>4, <1>5, FitTuples
<1>8. FitCode(<<i, j>> \o <<lea(n1)>>) /\ FitCode(<<i, j>> \o <<k, lea(1)>>)
  <2> HIDE DEF i, j, k, lea
  <2> QED BY <1>7, FitJoin
<1> QED BY <1>6, <1>8

LEMMA MovesFit ==
  ASSUME NEW o, FullShape(o), o.op \in {"ret", "copy", "sext", "zext", "trunc", "addr", "load",
                                        "store"} \cup Jumps
  PROVE  FitCode(statement_common(o))
<1>1. CASE o.op = "ret" /\ o.args[1] = Dummy
  <2>1. statement_common(o) = <<Instr1("ret", NoOperand)>>
    BY <1>1 DEF statement_common, Arithmetic, Bitwises, Comparisons, Jumps
  <2> QED BY <2>1, FitsOne, FitTuples
<1>2. CASE o.op = "ret" /\ o.args[1] # Dummy
  <2> DEFINE i == Mov(A(o), Rax(Word(TypeA(o))))
             j == Instr1("ret", NoOperand)
  <2>1. statement_common(o) = <<i, j>>
    BY <1>2 DEF statement_common, Arithmetic, Bitwises, Comparisons, Jumps
  <2>2. Source(A(o))
    BY <1>2, InputFits DEF FullShape, ArgumentsFit, A
  <2>3. Fits(i) /\ Fits(j)
    BY <2>2, OwnFit, KindsOfOperands, FitsMoves, FitsOne
  <2> HIDE DEF i, j
  <2> QED BY <2>1, <2>3, FitTuples
<1>3. CASE o.op \in {"copy", "sext", "zext"}
  <2> DEFINE i == Mov(A(o), B(o))
             j == Instr("movsx", A(o), B(o))
             k == Instr("movzx", A(o), B(o))
  <2>1. statement_common(o) \in {<<i>>, <<j>>, <<k>>}
    BY <1>3 DEF statement_common, Arithmetic, Bitwises, Comparisons, Jumps
  <2>2. Source(A(o)) /\ Target(B(o))
    BY <1>3, InputFits, VariableFits DEF FullShape, ArgumentsFit, Converting, A, B
  <2>3. Fits(i) /\ Fits(j) /\ Fits(k)
    BY <2>2, FitsMoves, FitsPlain
  <2> HIDE DEF i, j, k
  <2> QED BY <2>1, <2>3, FitTuples
<1>4. CASE o.op = "trunc"
  <2> DEFINE a == [A(o) EXCEPT !.w = B(o).w]
  <2>1. statement_common(o) = <<Mov(a, B(o))>>
    BY <1>4 DEF statement_common, truncate, Arithmetic, Bitwises, Comparisons, Jumps
  <2>2. Source(a) /\ Target(B(o))
    BY <1>4, InputFits, VariableFits DEF FullShape, ArgumentsFit, Converting, A, B
  <2> HIDE DEF a
  <2> QED BY <2>1, <2>2, FitsMoves, FitTuples
<1>5. CASE o.op = "addr"
  <2>1. statement_common(o) = <<Instr("lea", A(o), B(o))>>
    BY <1>5 DEF statement_common, Arithmetic, Bitwises, Comparisons, Jumps
  <2>2. A(o).k = "temp" \/ in_memory(A(o))
    <3>1. CASE IsVariable(o.args[1])
      BY <3>1, VariableFits DEF A
    <3>2. CASE o.args[1].sub = "string"
      BY <3>2 DEF A, map_operand, Operand, in_memory
    <3> QED BY <1>5, <3>1, <3>2 DEF FullShape, ArgumentsFit
  <2>3. Target(B(o)) /\ B(o).w = W64
    BY <1>5, VariableFits, WordIs DEF FullShape, ArgumentsFit, Shape, TypesFit, B
  <2>4. Fits(Instr("lea", A(o), B(o)))
    BY <2>2, <2>3, FitsLea
  <2> QED BY <2>1, <2>4, FitTuples
<1>6. CASE o.op \in {"load", "store"}
  <2> DEFINE w == Word(o.args[2].type)
             i == Mov(A(o), Rax(W64))
             j == Mov(Pointee(o.args[1]), B(o))
             k == Mov(B(o), Rax(w))
             l == Mov(A(o), Pointee(o.args[1]))
  <2>1. Source(A(o)) /\ Target(B(o)) /\ Source(B(o))
    BY <1>6, InputFits, VariableFits DEF FullShape, ArgumentsFit, A, B
  <2>2. Source(Pointee(o.args[1])) /\ Target(Pointee(o.args[1]))
    BY OwnFit, KindsOfOperands
  <2>3. Target(Rax(W64)) /\ Target(Rax(w))
    BY OwnFit, KindsOfOperands
  <2>4. Fits(i) /\ Fits(j) /\ Fits(k) /\ Fits(l)
    BY <2>1, <2>2, <2>3, FitsMoves
  <2>5. statement_common(o) = <<i, j>> \/ statement_common(o) = <<k, l>>
    BY <1>6 DEF statement_common, Arithmetic, Bitwises, Comparisons, Jumps
  <2> HIDE DEF i, j, k, l
  <2> QED BY <2>4, <2>5, FitTuples
<1>7. CASE o.op \in Jumps
  <2> DEFINE i == Instr("cmp", Zero, A(o))
             j == Instr1(IF o.op = "jz" THEN "je" ELSE "jne", B(o))
  <2>1. statement_common(o) = <<i, j>>
    BY <1>7 DEF statement_common, Arithmetic, Bitwises, Comparisons, Jumps
  <2>2. Source(A(o)) /\ B(o).k = "label"
    BY <1>7, InputFits DEF FullShape, ArgumentsFit, A, B, map_operand, Operand
  <2>3. Fits(i) /\ Fits(j)
    BY <2>2, OwnFit, FitsCompare, FitsOne
  <2> HIDE DEF i, j
  <2> QED BY <2>1, <2>3, FitTuples
<1> QED BY <1>1, <1>2, <1>3, <1>4, <1>5, <1>6, <1>7

LEMMA CommonFits ==
  ASSUME NEW o, FullShape(o), o.op \notin {"d2i", "d2u", "i2d", "u2d"},
         o.op \in {"div", "rem"} => TypeA(o) \in Ints,
         o.op \in Arithmetic => TypeA(o) # "double"
  PROVE  FitCode(statement_common(o))
<1>1. CASE o.op \in {"com", "neg", "not", "dec", "inc"}
  <2>1. statement_common(o) = unary_op(o)
    BY <1>1 DEF statement_common, Arithmetic, Bitwises, Comparisons, Jumps
  <2> QED BY <1>1, <2>1, UnaryFits
<1>2. CASE o.op \in Arithmetic \cup Bitwises
  <2>1. statement_common(o) = binary_op(o)
    BY <1>2 DEF statement_common, Arithmetic, Bitwises, Comparisons, Jumps
  <2> QED BY <1>2, <2>1, BinaryFits
<1>3. CASE o.op \in {"div", "rem"}
  <2>1. statement_common(o) = div_rem(o)
    BY <1>3 DEF statement_common, Arithmetic, Bitwises, Comparisons, Jumps
  <2> QED BY <1>3, <2>1, DivRemFits
<1>4. CASE o.op \in Comparisons
  <2>1. statement_common(o) = cmp_op(o)
    BY <1>4 DEF statement_common, Arithmetic, Bitwises, Comparisons, Jumps
  <2> QED BY <1>4, <2>1, CmpFits
<1>5. CASE o.op = "ptr_add"
  <2>1. statement_common(o) = ptr_add_op(o)
    BY <1>5 DEF statement_common, Arithmetic, Bitwises, Comparisons, Jumps
  <2> QED BY <1>5, <2>1, PtrAddFits
<1>6. o.op \in {"com", "neg", "not", "dec", "inc", "div", "rem", "ptr_add"}
               \cup Arithmetic \cup Bitwises \cup Comparisons
               \cup {"ret", "copy", "sext", "zext", "trunc", "addr", "load", "store"} \cup Jumps
  BY DEF FullShape, Shape, Arguments, TwoArguments, ThreeArguments, Jumps
<1> QED BY <1>1, <1>2, <1>3, <1>4, <1>5, <1>6, MovesFit

\* An operation that codegen_statement_fp looks at.
OnDoubles(o) == IsFp(TypeA(o)) \/ IsFp(o.args[2].type)

LEMMA FpArithmeticFits ==
  ASSUME NEW o, FullShape(o), OnDoubles(o), o.op \in Arithmetic \cup {"div"}
  PROVE  FitCode(fp_arithmetic_op(o))
<1>1. o.op \in ThreeArguments
  BY DEF ThreeArguments
<1>2. o.args[1].type = "double" /\ o.args[2].type = "double" /\ o.args[3].type = "double"
  BY DEF FullShape, TypesAgree, OnDoubles, IsFp, TypeA
<1>3. Double(B(o)) /\ Place(C(o)) /\ C(o).w = W64
  BY <1>1, <1>2, ThreeFit, WordIs
<1>4. FpOpcode(o.op) \in {"addsd", "subsd", "mulsd", "divsd"}
  BY DEF Arithmetic, FpOpcode
<1>5. Fits(Instr(FpOpcode(o.op), B(o), C(o)))
  BY <1>3, <1>4, FitsDoubles
<1> QED BY <1>1, <1>5, CopiedAndFit DEF fp_arithmetic_op

LEMMA FpCmpFits ==
  ASSUME NEW o, FullShape(o), OnDoubles(o), o.op \in Comparisons
  PROVE  FitCode(fp_cmp_op(o))
<1>1. o.op \in ThreeArguments
  BY DEF ThreeArguments
<1>2. o.args[1].type = "double" /\ o.args[2].type = "double"
  BY DEF FullShape, TypesAgree, OnDoubles, IsFp, TypeA
<1>3. Double(A(o)) /\ Double(B(o)) /\ Target(C(o))
  BY <1>1, <1>2, ThreeFit DEF TypeA
<1> DEFINE i == Instr("comisd", B(o), A(o))
           j == Mov(Zero, C(o))
           k == Mov(Zero, Rcx)
           l == Instr1(IF o.op = "!=" THEN "setp" ELSE "setnp", Rcx)
           m == Instr1(SetIf(o.op, FALSE), C(o))
           n == Instr(IF o.op = "!=" THEN "or" ELSE "and", Rcx, C(o))
<1>4. Source(Rcx) /\ Target(Rcx) /\ Source(Zero)
  BY OwnFit, KindsOfOperands
<1>5. SetIf(o.op, FALSE) \in Sets /\ "setp" \in Sets /\ "setnp" \in Sets
  BY SetIfIs DEF Sets
<1>6. Fits(i) /\ Fits(j) /\ Fits(k)
  BY <1>3, <1>4, FitsDoubles, FitsMoves
<1>7. Fits(l) /\ Fits(m)
  BY <1>3, <1>4, <1>5, FitsOne
<1>8. Fits(n)
  BY <1>3, <1>4, FitsPlain
<1>9. fp_cmp_op(o) = <<i, j, k, l, m, n>>
  BY DEF fp_cmp_op
<1> HIDE DEF i, j, k, l, m, n
<1> DEFINE S == {i, j, k, l, m, n}
           c == <<i, j, k, l, m, n>>
<1>10. c \in Seq(S)
  OBVIOUS
<1>11. \A x \in S : Fits(x)
  BY <1>6, <1>7, <1>8
<1> HIDE DEF S
<1>12. FitCode(c)
  <2> HIDE DEF c
  <2> QED BY <1>10, <1>11, FitList
<1> QED BY <1>9, <1>12

LEMMA FpIntFits ==
  ASSUME NEW o, FullShape(o), o.op \in {"d2i", "i2d"}
  PROVE  FitCode(fp_int(o))
<1>1. Source(A(o)) /\ Place(B(o)) /\ Target(B(o)) /\ A(o).w = Word(TypeA(o))
      /\ B(o).w = Word(o.args[2].type) /\ (TypeA(o) = "double" => Double(A(o)))
  BY InputFits, VariableFits DEF FullShape, ArgumentsFit, Converting, A, B, TypeA
<1>2. /\ o.op = "d2i" => TypeA(o) = "double" /\ o.args[2].type \in Charlike \cup {"int", "long"}
      /\ o.op = "i2d" => TypeA(o) \in {"char", "int", "long"} /\ o.args[2].type = "double"
  BY DEF FullShape, Shape, TypesFit, Converts, TypeA
<1>3. \A w : Gpr(Rax(w)) /\ Source(Rax(w)) /\ Target(Rax(w)) /\ Rax(w).w = w
  BY OwnFit, KindsOfOperands
<1>4. W32 > W8 /\ W64 > W8
  BY WordsAre
<1>5. CASE TypeA(o) \in Charlike
  <2> DEFINE i == Instr("movsx", A(o), Rax(W32))
             j == Instr("cvtsi2sd", Rax(W32), B(o))
  <2>1. B(o).w = W64
    BY <1>1, <1>2, <1>5, WordIs DEF Charlike
  <2>2. Fits(i) /\ Fits(j)
    BY <1>1, <1>3, <1>4, <2>1, FitsPlain, FitsDoubles
  <2>3. o.args[2].type \notin Charlike
    BY <1>2, <1>5 DEF Charlike
  <2>4. fp_int(o) = <<i, j>>
    BY <1>5, <2>3 DEF fp_int
  <2> HIDE DEF i, j
  <2> QED BY <2>2, <2>4, FitTuples
<1>6. CASE TypeA(o) \notin Charlike /\ o.args[2].type \in Charlike
  <2> DEFINE i == Instr("cvttsd2si", A(o), Rax(W32))
             j == Mov(Rax(W8), B(o))
  <2>1. Double(A(o)) /\ A(o).w > W8
    BY <1>1, <1>2, <1>4, <1>6, WordIs DEF Charlike
  <2>2. Fits(i) /\ Fits(j)
    BY <1>1, <1>3, <1>4, <2>1, FitsMoves, FitsDoubles
  <2>3. fp_int(o) = <<i, j>>
    BY <1>6 DEF fp_int
  <2> HIDE DEF i, j
  <2> QED BY <2>2, <2>3, FitTuples
<1>7. CASE TypeA(o) \notin Charlike /\ o.args[2].type \notin Charlike
  <2> DEFINE i == Instr("cvttsd2si", A(o), B(o))
             j == Instr("cvtsi2sd", A(o), B(o))
  <2>1. fp_int(o) = IF o.op = "d2i" THEN <<i>> ELSE <<j>>
    BY <1>7 DEF fp_int
  <2>2. CASE o.op = "d2i"
    <3>1. Double(A(o)) /\ A(o).w > W8 /\ B(o).w > W8
      BY <1>1, <1>2, <1>4, <1>7, <2>2, WordIs
    <3>2. Fits(i)
      BY <1>1, <3>1, FitsDoubles
    <3> QED BY <2>1, <2>2, <3>2, FitTuples
  <2>3. CASE o.op = "i2d"
    <3>1. A(o).w > W8 /\ B(o).w = W64
      BY <1>1, <1>2, <1>4, <1>7, <2>3, WordIs DEF Charlike
    <3>2. Fits(j)
      BY <1>1, <3>1, FitsDoubles
    <3> QED BY <2>1, <2>3, <3>2, FitTuples
  <2> QED BY <2>2, <2>3
<1> QED BY <1>5, <1>6, <1>7

LEMMA FpToUintFits ==
  ASSUME NEW o, FullShape(o), o.op = "d2u"
  PROVE  FitCode(fp_to_uint(o))
<1> DEFINE X0 == XMM("xmm0")  X1 == XMM("xmm1")  X2 == XMM("xmm2")
           max == FConst(IntMaxAsDouble)  a == Rax(W64)
           i == Mov(A(o), X0)                   j == Mov(max, X2)
           k == Mov(X0, X1)                     l == Instr("subsd", X2, X1)
           m == Instr("cvttsd2si", X1, Rcx)     n == Instr("cvttsd2si", X0, a)
           p == Mov(a, Rdx)                     q == Instr("sar", Imm(W64 - 1), Rdx)
           r == Instr("and", Rdx, Rcx)          s == Instr("or", Rcx, a)
           t == Mov(a, B(o))
<1>1. Source(A(o)) /\ Target(B(o))
  BY InputFits, VariableFits DEF FullShape, ArgumentsFit, Converting, A, B
<1>2. /\ Xmm(X0) /\ Double(X0) /\ X0.w = W64 /\ Xmm(X1) /\ Double(X1) /\ X1.w = W64
      /\ Xmm(X2) /\ Double(X2) /\ X2.w = W64 /\ Source(max)
  BY OwnFit, KindsOfOperands
<1>3. /\ Source(a) /\ Target(a) /\ a.w = W64 /\ Source(Rcx) /\ Target(Rcx) /\ Rcx.w = W64
      /\ Source(Rdx) /\ Target(Rdx) /\ Source(Imm(W64 - 1)) /\ W64 > W8
  BY OwnFit, KindsOfOperands, WordsAre
<1>4. fp_to_uint(o) = <<i, j, k, l, m, n, p, q, r, s, t>>
  BY DEF fp_to_uint
<1> HIDE DEF X0, X1, X2, max, a
<1>5. Fits(i) /\ Fits(j) /\ Fits(k) /\ Fits(p) /\ Fits(t)
  BY <1>1, <1>2, <1>3, FitsMoves
<1>6. Fits(l) /\ Fits(m) /\ Fits(n)
  BY <1>2, <1>3, FitsDoubles
<1>7. Fits(q) /\ Fits(r) /\ Fits(s)
  BY <1>3, FitsPlain
<1> HIDE DEF i, j, k, l, m, n, p, q, r, s, t
<1> DEFINE S == {i, j, k, l, m, n, p, q, r, s, t}
           c == <<i, j, k, l, m, n, p, q, r, s, t>>
<1>8. c \in Seq(S)
  OBVIOUS
<1>9. \A x \in S : Fits(x)
  BY <1>5, <1>6, <1>7
<1> HIDE DEF S
<1>10. FitCode(c)
  <2> HIDE DEF c
  <2> QED BY <1>8, <1>9, FitList
<1> QED BY <1>4, <1>10

LEMMA UintToFpFits ==
  ASSUME NEW o, FullShape(o), o.op = "u2d"
  PROVE  FitCode(uint_to_fp(o))
<1> DEFINE a == Rax(W32)  b == Rax(W64)  X0 == XMM("xmm0")  X1 == XMM("xmm1")
           longs == Operand("longs", W8, "", 0)  quads == Operand("quads", W8, "", 0)
<1>1. TypeA(o) \in {"uchar", "uint", "ulong"} /\ o.args[2].type = "double"
  BY DEF FullShape, Shape, TypesFit, Converts, TypeA
<1>2. Source(A(o)) /\ Place(B(o)) /\ Target(B(o)) /\ B(o).w = W64
  BY <1>1, InputFits, VariableFits, WordIs DEF FullShape, ArgumentsFit, Converting, A, B
<1>3. /\ Target(a) /\ Source(b) /\ b.w = W64 /\ W64 > W8
      /\ Xmm(X0) /\ X0.w = W64 /\ Xmm(X1) /\ X1.w = W64 /\ Double(X1)
      /\ longs.k = "longs" /\ quads.k = "quads"
  BY OwnFit, KindsOfOperands, WordsAre DEF Operand
<1>4. CASE TypeA(o) = "uchar"
  <2> DEFINE i == Instr("movzx", A(o), a)
             j == Instr("cvtsi2sd", b, B(o))
  <2>1. uint_to_fp(o) = <<i, j>>
    BY <1>4 DEF uint_to_fp
  <2> HIDE DEF a, b
  <2>2. Fits(i) /\ Fits(j)
    BY <1>2, <1>3, FitsPlain, FitsDoubles
  <2> HIDE DEF i, j
  <2> QED BY <2>1, <2>2, FitTuples
<1>5. CASE TypeA(o) = "uint"
  <2> DEFINE i == Mov(A(o), a)
             j == Instr("cvtsi2sd", b, B(o))
  <2>1. uint_to_fp(o) = <<i, j>>
    BY <1>5 DEF uint_to_fp
  <2> HIDE DEF a, b
  <2>2. Fits(i) /\ Fits(j)
    BY <1>2, <1>3, FitsMoves, FitsDoubles
  <2> HIDE DEF i, j
  <2> QED BY <2>1, <2>2, FitTuples
<1>6. CASE TypeA(o) = "ulong"
  <2> DEFINE i == Mov(A(o), X0)
             j == Instr("punpckldq", longs, X0)
             k == Instr("subpd", quads, X0)
             l == Mov(X0, X1)
             m == Instr("unpckhpd", X0, X0)
             n == Instr("addsd", X1, X0)
             p == Mov(X0, B(o))
  <2>1. uint_to_fp(o) = <<i, j, k, l, m, n, p>>
    BY <1>6 DEF uint_to_fp
  <2> HIDE DEF X0, X1, longs, quads
  <2>2. Fits(i) /\ Fits(l) /\ Fits(p)
    BY <1>2, <1>3, FitsMoves
  <2>3. Fits(j) /\ Fits(k) /\ Fits(m) /\ Fits(n)
    BY <1>3, FitsDoubles
  <2> HIDE DEF i, j, k, l, m, n, p
  <2> DEFINE S == {i, j, k, l, m, n, p}
             c == <<i, j, k, l, m, n, p>>
  <2>4. c \in Seq(S)
    OBVIOUS
  <2>5. \A x \in S : Fits(x)
    BY <2>2, <2>3
  <2> HIDE DEF S
  <2>6. FitCode(c)
    <3> HIDE DEF c
    <3> QED BY <2>4, <2>5, FitList
  <2> QED BY <2>1, <2>6
<1> QED BY <1>1, <1>4, <1>5, <1>6

LEMMA FpJumpFits ==
  ASSUME NEW o, FullShape(o), OnDoubles(o), o.op \in Jumps
  PROVE  FitCode(fp_jump(o))
<1> DEFINE a == Rax(W64)  zero == FConst(PlusZero)
           i == Mov(Zero, a)                 j == Mov(Zero, Rcx)
           k == Instr("comisd", zero, A(o))  l == Instr1("setne", a)
           m == Instr1("setp", Rcx)          n == Instr("or", a, Rcx)
           p == Instr("cmp", Zero, Rcx)
           q == Instr1(IF o.op = "jz" THEN "je" ELSE "jne", B(o))
<1>1. o.args[1].type = "double"
  BY DEF FullShape, TypesAgree, OnDoubles, IsFp, TypeA
<1>2. Double(A(o)) /\ B(o).k = "label"
  BY <1>1, InputFits DEF FullShape, ArgumentsFit, A, B, map_operand, Operand
<1>3. /\ Source(a) /\ Target(a) /\ Source(Rcx) /\ Target(Rcx) /\ Source(Zero) /\ Double(zero)
      /\ "setne" \in Sets /\ "setp" \in Sets
  BY OwnFit, KindsOfOperands DEF Sets
<1>4. fp_jump(o) = <<i, j, k, l, m, n, p, q>>
  BY DEF fp_jump
<1> HIDE DEF a, zero
<1>5. Fits(i) /\ Fits(j)
  BY <1>3, FitsMoves
<1>6. Fits(k) /\ Fits(l) /\ Fits(m) /\ Fits(q)
  BY <1>2, <1>3, FitsDoubles, FitsOne
<1>7. Fits(n) /\ Fits(p)
  BY <1>3, FitsPlain, FitsCompare
<1> HIDE DEF i, j, k, l, m, n, p, q
<1> DEFINE S == {i, j, k, l, m, n, p, q}
           c == <<i, j, k, l, m, n, p, q>>
<1>8. c \in Seq(S)
  OBVIOUS
<1>9. \A x \in S : Fits(x)
  BY <1>5, <1>6, <1>7
<1> HIDE DEF S
<1>10. FitCode(c)
  <2> HIDE DEF c
  <2> QED BY <1>8, <1>9, FitList
<1> QED BY <1>4, <1>10

LEMMA FpMovesFit ==
  ASSUME NEW o, FullShape(o), OnDoubles(o), o.op \in {"neg", "inc", "dec", "ret"},
         o.args[1] # Dummy
  PROVE  FitCode(statement_fp(o))
<1> DEFINE X0 == XMM("xmm0")  X1 == XMM("xmm1")
           minus == FConst(MinusZero)  one == FConst(One)
<1>1. /\ Xmm(X0) /\ X0.w = W64 /\ Xmm(X1) /\ X1.w = W64 /\ Double(X0)
      /\ Source(minus) /\ Source(one)
  BY OwnFit, KindsOfOperands
<1>2. CASE o.op = "ret"
  <2> DEFINE i == Mov(A(o), X0)
             j == Instr1("ret", NoOperand)
  <2>1. statement_fp(o) = <<i, j>>
    BY <1>2 DEF statement_fp, Comparisons, Jumps
  <2>2. Source(A(o))
    BY <1>2, InputFits DEF FullShape, ArgumentsFit, A
  <2> HIDE DEF X0
  <2>3. Fits(i) /\ Fits(j)
    BY <1>1, <2>2, FitsMoves, FitsOne
  <2> HIDE DEF i, j
  <2> QED BY <2>1, <2>3, FitTuples
<1>3. CASE o.op = "neg"
  <2> DEFINE i == Mov(A(o), X1)
             j == Mov(minus, X0)
             k == Instr("xorpd", X0, X1)
             l == Mov(X1, B(o))
  <2>1. statement_fp(o) = <<i, j, k, l>>
    BY <1>3 DEF statement_fp, Comparisons, Jumps
  <2>2. o.args[2].type = "double"
    BY <1>3 DEF FullShape, TypesAgree, OnDoubles, IsFp, TypeA
  <2>3. Source(A(o)) /\ Target(B(o)) /\ B(o).w = W64
    BY <1>3, <2>2, InputFits, VariableFits, WordIs DEF FullShape, ArgumentsFit, Converting, A, B
  <2> HIDE DEF X0, X1, minus
  <2>4. Fits(i) /\ Fits(j) /\ Fits(k) /\ Fits(l)
    BY <1>1, <2>3, FitsMoves, FitsDoubles
  <2> HIDE DEF i, j, k, l
  <2> DEFINE S == {i, j, k, l}
             c == <<i, j, k, l>>
  <2>5. c \in Seq(S)
    OBVIOUS
  <2>6. \A x \in S : Fits(x)
    BY <2>4
  <2> HIDE DEF S
  <2>7. FitCode(c)
    <3> HIDE DEF c
    <3> QED BY <2>5, <2>6, FitList
  <2> QED BY <2>1, <2>7
<1>4. CASE o.op \in {"inc", "dec"}
  <2> DEFINE i == Mov(one, X0)
             j == Instr(IF o.op = "dec" THEN "subsd" ELSE "addsd", X0, A(o))
  <2>1. statement_fp(o) = <<i, j>>
    BY <1>4 DEF statement_fp, Comparisons, Jumps
  <2>2. o.args[1].type = "double"
    BY <1>4 DEF FullShape, Shape, TypesFit, OnDoubles, IsFp, TypeA
  <2>3. Place(A(o)) /\ A(o).w = W64
    BY <1>4, <2>2, VariableFits, WordIs DEF FullShape, ArgumentsFit, A
  <2> HIDE DEF X0, one
  <2>4. Fits(i) /\ Fits(j)
    BY <1>1, <2>3, FitsMoves, FitsDoubles
  <2> HIDE DEF i, j
  <2> QED BY <2>1, <2>4, FitTuples
<1> QED BY <1>2, <1>3, <1>4

LEMMA FpFits ==
  ASSUME NEW o, FullShape(o), OnDoubles(o), o.op \in FpHandled, o.args[1] # Dummy
  PROVE  FitCode(statement_fp(o))
<1>1. CASE o.op \in {"neg", "inc", "dec", "ret"}
  BY <1>1, FpMovesFit
<1>2. CASE o.op \in Arithmetic \cup {"div"}
  <2>1. statement_fp(o) = fp_arithmetic_op(o)
    BY <1>2 DEF statement_fp, Arithmetic, Comparisons, Jumps
  <2> QED BY <1>2, <2>1, FpArithmeticFits
<1>3. CASE o.op \in Comparisons
  <2>1. statement_fp(o) = fp_cmp_op(o)
    BY <1>3 DEF statement_fp, Comparisons, Jumps
  <2> QED BY <1>3, <2>1, FpCmpFits
<1>4. CASE o.op \in {"d2i", "i2d"}
  <2>1. statement_fp(o) = fp_int(o)
    BY <1>4 DEF statement_fp, Comparisons, Jumps
  <2> QED BY <1>4, <2>1, FpIntFits
<1>5. CASE o.op = "d2u"
  <2>1. statement_fp(o) = fp_to_uint(o)
    BY <1>5 DEF statement_fp, Comparisons, Jumps
  <2> QED BY <1>5, <2>1, FpToUintFits
<1>6. CASE o.op = "u2d"
  <2>1. statement_fp(o) = uint_to_fp(o)
    BY <1>6 DEF statement_fp, Comparisons, Jumps
  <2> QED BY <1>6, <2>1, UintToFpFits
<1>7. CASE o.op \in Jumps
  <2>1. statement_fp(o) = fp_jump(o)
    BY <1>7 DEF statement_fp, Comparisons, Jumps
  <2> QED BY <1>7, <2>1, FpJumpFits
<1> QED BY <1>1, <1>2, <1>3, <1>4, <1>5, <1>6, <1>7 DEF FpHandled

\* Selection makes fitting code of every operation of the full shape.  The
\* operations of arithmetic are never left to the common handling when they
\* are on doubles.
LEMMA SelectedFits ==
  ASSUME NEW o, FullShape(o)
  PROVE  FitCode(statement_one(o))
<1> DEFINE fp == IsFp(TypeA(o)) \/ IsFp(o.args[2].type)
<1>1. CASE fp /\ o.op \in FpHandled /\ statement_fp(o) # <<>>
  <2>1. statement_one(o) = statement_fp(o)
    BY <1>1 DEF statement_one
  <2>2. o.args[1] # Dummy
    <3>1. Dummy.type = "char" /\ Dummy.sub = "dummy" /\ NoVal.type = "char"
      BY DEF Dummy, NoVal, Val
    <3>2. SUFFICES ASSUME o.args[1] = Dummy PROVE FALSE
      OBVIOUS
    <3>3. CASE o.op = "ret"
      <4>1. o.args[2] = NoVal
        BY <3>3 DEF FullShape, Shape, Arguments
      <4> QED BY <1>1, <3>1, <3>2, <4>1 DEF IsFp, TypeA
    <3>4. CASE o.op # "ret"
      BY <3>1, <3>2, <3>4 DEF FullShape, Shape, Arguments, IsValue
    <3> QED BY <3>3, <3>4
  <2> QED BY <1>1, <2>1, <2>2, FpFits DEF OnDoubles
<1>2. CASE ~ (fp /\ o.op \in FpHandled /\ statement_fp(o) # <<>>)
  <2>1. o.op \in {"div", "d2i", "i2d", "d2u", "u2d"} => o.op \in FpHandled /\ statement_fp(o) # <<>>
    BY FpNotEmpty DEF FpHandled, FullShape
  <2>2. o.op \in Arithmetic => o.op \in FpHandled /\ statement_fp(o) # <<>>
    <3> SUFFICES ASSUME o.op \in Arithmetic PROVE statement_fp(o) # <<>>
      BY DEF FpHandled
    <3> DEFINE i == Instr(FpOpcode(o.op), B(o), C(o))
               l == Mov(A(o), C(o))
    <3>1. statement_fp(o) = CopyLeft(o) \o <<i>>
      BY DEF statement_fp, fp_arithmetic_op, Arithmetic, Comparisons, Jumps
    <3> HIDE DEF i
    <3>2. CopyLeft(o) = <<>> \/ CopyLeft(o) = <<l>>
      BY DEF CopyLeft
    <3> HIDE DEF l
    <3>3. Len(<<>> \o <<i>>) = 1 /\ Len(<<l>> \o <<i>>) = 2 /\ Len(<<>>) = 0
      OBVIOUS
    <3> QED BY <3>1, <3>2, <3>3
  <2>3. o.op \in {"d2i", "d2u", "i2d", "u2d"} => fp
    BY DEF FullShape, Shape, TypesFit, Converts, IsFp, TypeA
  <2>4. o.op \notin {"d2i", "d2u", "i2d", "u2d"}
    BY <1>2, <2>1, <2>3
  <2>5. o.op \in Arithmetic \cup {"div"} => TypeA(o) # "double"
    BY <1>2, <2>1, <2>2 DEF IsFp
  <2>6. o.op \in {"div", "rem"} => TypeA(o) \in Ints
    BY <2>5 DEF FullShape, Shape, TypesFit, TypeA
  <2>7. o.op \notin FpHandled => statement_fp(o) = <<>>
    BY DEF statement_fp, FpHandled, Arithmetic
  <2>8. statement_one(o) = statement_common(o)
    BY <1>2, <2>7 DEF statement_one
  <2> QED BY <2>4, <2>5, <2>6, <2>8, CommonFits
<1> QED BY <1>1, <1>2

(***************************************************************************)
(* The operations of the front end have that shape.                        *)
(***************************************************************************)
LEMMA NumbersAre ==
  \A t \in Scalars : t # "double" => \A n \in ConstNumbers(t) : n \in Int /\ -1 =< n
<1> DEFINE p == 2^W8  q == 2^W32  r == 2^W64  m == INT_MAX
<1>1. p \in Nat \ {0} /\ q \in Nat \ {0} /\ r \in Nat \ {0} /\ m \in Nat
  BY WidthPowers
<1>2. \A n \in {0, 1, p, m, q - 1, q + 1, r - 1} : n \in Int /\ -1 =< n
  <2> HIDE DEF p, q, r, m
  <2> QED BY <1>1
<1>3. \A t \in Scalars : t # "double" => ConstNumbers(t) \subseteq {0, 1, p, m, q - 1, q + 1, r - 1}
  BY DEF ConstNumbers, Scalars, Integral, Ints, Charlike
<1> QED BY <1>2, <1>3

LEMMA OperandsAre ==
  /\ \A t, at : t \in Scalars =>
       /\ \A a \in Operands(t, at) : IsInput(a) /\ a.type = t
       /\ \A a \in Variables(t, at) : IsVariable(a) /\ a.type = t
       /\ IsVariable(Result(t)) /\ Result(t).type = t
       /\ \A n \in Int : -1 =< n => IsNumber(Const(t, n)) /\ Const(t, n).type = t
  /\ IsValue(Label) /\ Label.sub = "label" /\ Label.type = "char"
<1>1. IsValue(Label) /\ Label.sub = "label" /\ Label.type = "char"
  BY DEF IsValue, Label, Val, Scalars, Integral, Charlike
<1>2. \A t, at, n : t \in Scalars =>
        /\ IsVariable(Temp(t, at)) /\ Temp(t, at).type = t
        /\ IsVariable(Data(t, at)) /\ Data(t, at).type = t
        /\ t = "double" \/ (n \in Int /\ -1 =< n) => IsNumber(Const(t, n))
        /\ Const(t, n).type = t
  BY DEF IsVariable, IsNumber, Temp, Data, Const, Val
<1>3. \A t \in Scalars : \A n \in ConstNumbers(t) : IsNumber(Const(t, n)) /\ Const(t, n).type = t
  BY <1>2, NumbersAre
<1> QED BY <1>1, <1>2, <1>3 DEF Operands, Variables, Result, IsInput

LEMMA Values ==
  /\ \A v : IsVariable(v) \/ IsNumber(v) => IsInput(v)
  /\ \A v : IsVariable(v) \/ IsNumber(v) \/ IsInput(v) => IsValue(v)
BY DEF IsInput, IsVariable, IsNumber, IsValue

LEMMA OpIs ==
  ASSUME NEW op, NEW a, NEW b, NEW c, NEW d
  PROVE  /\ Op(op, a, b, c, d).op = op /\ Op(op, a, b, c, d).args[1] = a
         /\ Op(op, a, b, c, d).args[2] = b /\ Op(op, a, b, c, d).args[3] = c
         /\ Op(op, a, b, c, d).args[4] = d
BY DEF Op

LEMMA TypeSets ==
  /\ Ints \subseteq Scalars /\ Charlike \subseteq Scalars /\ Integral \subseteq Scalars
  /\ NonFp \subseteq Scalars /\ {"double", "ptr", "long", "char"} \subseteq Scalars
  /\ "double" \notin Ints /\ "ptr" \notin Ints
BY DEF Scalars, Integral, Ints, Charlike, NonFp

\* An operation on one operand.
LEMMA UnaryShape ==
  ASSUME NEW op, NEW from, NEW to, from \subseteq Scalars, to \in Scalars,
         op \in {"neg", "com", "not", "copy", "sext", "zext", "trunc", "d2i", "d2u", "i2d", "u2d"},
         \A t \in from :
           /\ op = "neg" => t = to
           /\ op \in {"sext", "zext"} => Word(t) < Word(to)
           /\ op = "trunc" => Word(to) < Word(t)
           /\ op = "d2i" => t = "double" /\ to \in Charlike \cup {"int", "long"}
           /\ op = "d2u" => t = "double" /\ to \in {"uint", "ulong"}
           /\ op = "i2d" => t \in {"char", "int", "long"} /\ to = "double"
           /\ op = "u2d" => t \in {"uchar", "uint", "ulong"} /\ to = "double"
  PROVE  \A o \in Unary(op, from, to) : FullShape(o)
<1> SUFFICES ASSUME NEW t \in from, NEW a \in Operands(t, "x")
             PROVE  FullShape(Op(op, a, Result(to), NoVal, NoVal))
  BY DEF Unary
<1> DEFINE o == Op(op, a, Result(to), NoVal, NoVal)
<1>1. o.op = op /\ o.args[1] = a /\ o.args[2] = Result(to)
  BY OpIs
<1>2. /\ IsInput(a) /\ IsValue(a) /\ a.type = t
      /\ IsVariable(Result(to)) /\ IsValue(Result(to)) /\ Result(to).type = to
  BY OperandsAre, Values
<1> HIDE DEF o
<1>3. Arguments(o)
  BY <1>1, <1>2 DEF Arguments, TwoArguments, ThreeArguments, Arithmetic, Bitwises, Comparisons
<1>4. TypesFit(o)
  BY <1>1, <1>2 DEF TypesFit, Converts
<1>5. ArgumentsFit(o)
  BY <1>1, <1>2 DEF ArgumentsFit, Converting, ThreeArguments, Arithmetic, Bitwises, Comparisons,
                    Jumps
<1>6. TypesAgree(o)
  BY <1>1, <1>2 DEF TypesAgree, Arithmetic, Comparisons, Jumps
<1> QED BY <1>3, <1>4, <1>5, <1>6 DEF FullShape, Shape, o

\* What the other operations are made of.
LEMMA ShapeFrom ==
  ASSUME NEW op, NEW a, NEW b, NEW c, NEW d,
         \/ op = "addr" /\ (IsVariable(a) \/ (IsValue(a) /\ a.sub = "string"))
            /\ IsVariable(b) /\ b.type = "ptr"
         \/ op = "store" /\ IsInput(a) /\ IsVariable(b) /\ b.type = "ptr"
         \/ op = "load" /\ IsVariable(a) /\ IsVariable(b)
         \/ op = "copy" /\ IsInput(a) /\ IsVariable(b)
         \/ op \in Jumps /\ IsInput(a) /\ b = Label
         \/ op \in {"inc", "dec"} /\ IsVariable(a) /\ a = b
         \/ op = "ptr_add" /\ IsVariable(a) /\ IsInput(b) /\ IsNumber(c) /\ IsVariable(d)
            /\ a.type = "ptr" /\ b.type = "long" /\ c.type # "double"
         \/ op \in ThreeArguments /\ IsInput(a) /\ IsInput(b) /\ IsVariable(c) /\ a.type = b.type
            /\ (op \in {"div", "mul"} => a.type \in Ints \cup {"double"})
            /\ (op = "rem" => a.type \in Ints)
            /\ (op \in Arithmetic \cup {"div"} /\ a.type = "double" => c.type = "double")
            /\ (op = "mul" => c.type = a.type)
  PROVE  FullShape(Op(op, a, b, c, d))
<1> DEFINE o == Op(op, a, b, c, d)
<1>1. o.op = op /\ o.args[1] = a /\ o.args[2] = b /\ o.args[3] = c /\ o.args[4] = d
  BY OpIs
<1> HIDE DEF o
<1>2. /\ IsValue(Label) /\ Label.sub = "label" /\ Label.type = "char"
      /\ \A v : IsVariable(v) \/ IsNumber(v) \/ IsInput(v) => IsValue(v)
      /\ \A v : IsVariable(v) \/ IsNumber(v) => IsInput(v)
  BY OperandsAre, Values
<1>3. CASE op \in ThreeArguments
  <2>1. op \notin {"addr", "store", "load", "copy", "inc", "dec", "ptr_add"} \cup Jumps
    BY <1>3 DEF ThreeArguments, Arithmetic, Bitwises, Comparisons, Jumps
  <2>2. Arguments(o)
    BY <1>1, <1>2, <1>3, <2>1
       DEF Arguments, TwoArguments, ThreeArguments, Arithmetic, Bitwises, Comparisons, Jumps
  <2>3. TypesFit(o)
    BY <1>1, <1>3, <2>1 DEF TypesFit, ThreeArguments, Arithmetic, Bitwises, Comparisons, Jumps
  <2>4. ArgumentsFit(o)
    BY <1>1, <1>3, <2>1
       DEF ArgumentsFit, Converting, ThreeArguments, Arithmetic, Bitwises, Comparisons, Jumps
  <2>5. TypesAgree(o)
    BY <1>1, <1>3, <2>1 DEF TypesAgree, ThreeArguments, Arithmetic, Bitwises, Comparisons, Jumps
  <2> QED BY <2>2, <2>3, <2>4, <2>5 DEF FullShape, Shape, o
<1>4. CASE op \notin ThreeArguments
  <2>1. op \in {"addr", "store", "load", "copy", "inc", "dec", "ptr_add"} \cup Jumps
    BY <1>4
  <2>2. Arguments(o)
    BY <1>1, <1>2, <1>4, <2>1 DEF Arguments, TwoArguments, Jumps
  <2>3. TypesFit(o)
    BY <1>1, <1>4, <2>1 DEF TypesFit, ThreeArguments, Jumps
  <2>4. ArgumentsFit(o)
    BY <1>1, <1>2, <1>4, <2>1 DEF ArgumentsFit, Converting, Jumps
  <2>5. TypesAgree(o)
    BY <1>1, <1>2, <1>4, <2>1 DEF TypesAgree, ThreeArguments, Jumps
  <2> QED BY <2>2, <2>3, <2>4, <2>5 DEF FullShape, Shape, o
<1> QED BY <1>3, <1>4

LEMMA BinaryShape ==
  ASSUME NEW ops, NEW types, ops \subseteq ThreeArguments, types \subseteq Scalars,
         "rem" \in ops => types \subseteq Ints,
         ops \cap {"div", "mul"} # {} => types \subseteq Ints \cup {"double"}
  PROVE  \A o \in Binary(ops, types) : FullShape(o)
<1> SUFFICES ASSUME NEW t \in types, NEW op \in ops, NEW a \in Operands(t, "x"),
                    NEW b \in Operands(t, "y")
             PROVE  FullShape(Op(op, a, b, Result(IF op \in Comparisons THEN "int" ELSE t), NoVal))
  BY DEF Binary
<1> DEFINE z == Result(IF op \in Comparisons THEN "int" ELSE t)
<1>1. "int" \in Scalars /\ t \in Scalars
  BY TypeSets DEF Ints
<1>2. /\ IsInput(a) /\ IsInput(b) /\ a.type = t /\ b.type = t /\ IsVariable(z)
      /\ op \notin Comparisons => z.type = t
  BY <1>1, OperandsAre
<1> HIDE DEF z
<1>3. op \in Arithmetic \cup {"div", "mul"} => op \notin Comparisons
  BY DEF Arithmetic, Comparisons
<1>4. /\ op \in {"div", "mul"} => a.type \in Ints \cup {"double"}
      /\ op = "rem" => a.type \in Ints
      /\ op \in Arithmetic \cup {"div"} /\ a.type = "double" => z.type = "double"
      /\ op = "mul" => z.type = a.type
  BY <1>2, <1>3
<1>5. op \in ThreeArguments
  OBVIOUS
<1>6. FullShape(Op(op, a, b, z, NoVal))
  BY <1>2, <1>4, <1>5, ShapeFrom
<1> QED BY <1>6 DEF z

LEMMA InPlaceShape == \A o \in InPlace : FullShape(o)
<1> SUFFICES ASSUME NEW t \in Integral \cup {"double"}, NEW op \in {"inc", "dec"},
                    NEW a \in Variables(t, "x")
             PROVE  FullShape(Op(op, a, a, NoVal, NoVal))
  BY DEF InPlace
<1>1. t \in Scalars
  BY DEF Scalars
<1>2. IsVariable(a)
  BY <1>1, OperandsAre
<1> QED BY <1>2, ShapeFrom

LEMMA PointersShape == \A o \in PointerDifference \cup PointerAdds : FullShape(o)
<1>1. ASSUME NEW a \in Variables("ptr", "x"), NEW b \in Variables("ptr", "y")
      PROVE  FullShape(Op("sub", a, b, Result("long"), NoVal))
  <2>1. /\ IsVariable(a) /\ IsVariable(b) /\ IsVariable(Result("long"))
        /\ a.type = "ptr" /\ b.type = "ptr"
    BY OperandsAre, TypeSets
  <2>2. IsInput(a) /\ IsInput(b)
    BY <2>1, Values
  <2>3. "sub" \in ThreeArguments
    BY DEF ThreeArguments, Arithmetic
  <2> QED BY <2>1, <2>2, <2>3, ShapeFrom
<1>2. \A scale \in Scales : scale \in Int /\ -1 =< scale
  BY ScaleAssumption
<1>3. ASSUME NEW a \in Variables("ptr", "x"), NEW b \in Operands("long", "y"),
             NEW scale \in Scales
      PROVE  FullShape(Op("ptr_add", a, b, Const("char", scale), Result("ptr")))
  <2> DEFINE c == Const("char", scale)
             d == Result("ptr")
  <2>1. /\ IsVariable(a) /\ IsInput(b) /\ IsNumber(c) /\ IsVariable(d)
        /\ a.type = "ptr" /\ b.type = "long" /\ c.type = "char"
    BY <1>2, OperandsAre, TypeSets
  <2> HIDE DEF c, d
  <2>2. FullShape(Op("ptr_add", a, b, c, d))
    BY <2>1, ShapeFrom
  <2> QED BY <2>2 DEF c, d
<1>4. ASSUME NEW a \in Variables("ptr", "x"), NEW n \in {-1, 1}, NEW scale \in Scales
      PROVE  FullShape(Op("ptr_add", a, Const("long", n), Const("long", scale), a))
  <2> DEFINE b == Const("long", n)
             c == Const("long", scale)
  <2>1. n \in Int /\ -1 =< n /\ "ptr" \in Scalars /\ "long" \in Scalars
    BY TypeSets
  <2>2. /\ IsVariable(a) /\ IsNumber(b) /\ IsNumber(c)
        /\ a.type = "ptr" /\ b.type = "long" /\ c.type = "long"
    BY <1>2, <2>1, OperandsAre
  <2> HIDE DEF b, c
  <2>3. IsInput(b)
    BY <2>2, Values
  <2>4. FullShape(Op("ptr_add", a, b, c, a))
    BY <2>2, <2>3, ShapeFrom
  <2> QED BY <2>4 DEF b, c
<1> QED BY <1>1, <1>3, <1>4 DEF PointerDifference, PointerAdds

LEMMA CopiesShape == \A o \in Copies : FullShape(o)
<1> SUFFICES ASSUME NEW t \in Scalars, NEW a \in Operands(t, "x"), NEW z \in Variables(t, "z")
             PROVE  FullShape(Op("copy", a, z, NoVal, NoVal))
  BY DEF Copies
<1>1. IsInput(a) /\ IsVariable(z)
  BY OperandsAre
<1> QED BY <1>1, ShapeFrom

LEMMA CastsShape == \A o \in Casts : FullShape(o)
<1>1. ASSUME NEW t \in NonFp
      PROVE  /\ \A o \in Unary("copy", {u \in NonFp \ {t} : Word(u) = Word(t)}, t) : FullShape(o)
             /\ \A o \in Unary("sext", {u \in NonFp : Word(u) < Word(t) /\ IsSigned(u)}, t) :
                  FullShape(o)
             /\ \A o \in Unary("zext", {u \in NonFp : Word(u) < Word(t) /\ ~ IsSigned(u)}, t) :
                  FullShape(o)
             /\ \A o \in Unary("trunc", {u \in NonFp : Word(u) > Word(t)}, t) : FullShape(o)
  <2> DEFINE F1 == {u \in NonFp \ {t} : Word(u) = Word(t)}
             F2 == {u \in NonFp : Word(u) < Word(t) /\ IsSigned(u)}
             F3 == {u \in NonFp : Word(u) < Word(t) /\ ~ IsSigned(u)}
             F4 == {u \in NonFp : Word(u) > Word(t)}
  <2>1. /\ F1 \subseteq Scalars /\ F2 \subseteq Scalars /\ F3 \subseteq Scalars
        /\ F4 \subseteq Scalars /\ t \in Scalars
    BY DEF NonFp
  <2>2. /\ \A u \in F2 \cup F3 : Word(u) < Word(t)
        /\ \A u \in F4 : Word(t) < Word(u)
    <3>1. \A u \in NonFp : Word(u) \in Int
      BY WordIs, WordsAre, TypeSets
    <3> QED BY <3>1
  <2> HIDE DEF F1, F2, F3, F4
  <2>3. \A o \in Unary("copy", F1, t) : FullShape(o)
    BY <2>1, UnaryShape
  <2>4. \A o \in Unary("sext", F2, t) : FullShape(o)
    BY <2>1, <2>2, UnaryShape
  <2>5. \A o \in Unary("zext", F3, t) : FullShape(o)
    BY <2>1, <2>2, UnaryShape
  <2>6. \A o \in Unary("trunc", F4, t) : FullShape(o)
    BY <2>1, <2>2, UnaryShape
  <2> QED BY <2>3, <2>4, <2>5, <2>6 DEF F1, F2, F3, F4
<1>2. ASSUME NEW t \in Charlike \cup {"int", "long"}
      PROVE  \A o \in Unary("d2i", {"double"}, t) : FullShape(o)
  <2> DEFINE F == {"double"}
  <2>1. F \subseteq Scalars /\ t \in Scalars /\ \A u \in F : u = "double"
    BY TypeSets DEF Ints
  <2> HIDE DEF F
  <2>2. \A o \in Unary("d2i", F, t) : FullShape(o)
    BY <2>1, UnaryShape
  <2> QED BY <2>2 DEF F
<1>3. ASSUME NEW t \in {"uint", "ulong"}
      PROVE  \A o \in Unary("d2u", {"double"}, t) : FullShape(o)
  <2> DEFINE F == {"double"}
  <2>1. F \subseteq Scalars /\ t \in Scalars /\ \A u \in F : u = "double"
    BY TypeSets DEF Ints
  <2> HIDE DEF F
  <2>2. \A o \in Unary("d2u", F, t) : FullShape(o)
    BY <2>1, UnaryShape
  <2> QED BY <2>2 DEF F
<1>4. \A o \in Unary("i2d", {"char", "int", "long"}, "double") : FullShape(o)
  <2> DEFINE F == {"char", "int", "long"}
  <2>1. F \subseteq Scalars /\ "double" \in Scalars /\ \A u \in F : u \in {"char", "int", "long"}
    BY TypeSets DEF Ints
  <2> HIDE DEF F
  <2>2. \A o \in Unary("i2d", F, "double") : FullShape(o)
    BY <2>1, UnaryShape
  <2> QED BY <2>2 DEF F
<1>5. \A o \in Unary("u2d", {"uchar", "uint", "ulong"}, "double") : FullShape(o)
  <2> DEFINE F == {"uchar", "uint", "ulong"}
  <2>1. F \subseteq Scalars /\ "double" \in Scalars /\ \A u \in F : u \in {"uchar", "uint", "ulong"}
    BY TypeSets DEF Ints, Charlike
  <2> HIDE DEF F
  <2>2. \A o \in Unary("u2d", F, "double") : FullShape(o)
    BY <2>1, UnaryShape
  <2> QED BY <2>2 DEF F
<1> DEFINE U1(t) == Unary("copy", {u \in NonFp \ {t} : Word(u) = Word(t)}, t)
           U2(t) == Unary("sext", {u \in NonFp : Word(u) < Word(t) /\ IsSigned(u)}, t)
           U3(t) == Unary("zext", {u \in NonFp : Word(u) < Word(t) /\ ~ IsSigned(u)}, t)
           U4(t) == Unary("trunc", {u \in NonFp : Word(u) > Word(t)}, t)
           V1(t) == Unary("d2i", {"double"}, t)
           V2(t) == Unary("d2u", {"double"}, t)
           V3 == Unary("i2d", {"char", "int", "long"}, "double")
           V4 == Unary("u2d", {"uchar", "uint", "ulong"}, "double")
<1>6. Casts = (UNION {U1(t) \cup U2(t) \cup U3(t) \cup U4(t) : t \in NonFp})
              \cup (UNION {V1(t) : t \in Charlike \cup {"int", "long"}})
              \cup (UNION {V2(t) : t \in {"uint", "ulong"}}) \cup V3 \cup V4
  BY DEF Casts
<1>7. \A t \in NonFp : \A o \in U1(t) \cup U2(t) \cup U3(t) \cup U4(t) : FullShape(o)
  BY <1>1
<1>8. \A t \in Charlike \cup {"int", "long"} : \A o \in V1(t) : FullShape(o)
  BY <1>2
<1>9. \A t \in {"uint", "ulong"} : \A o \in V2(t) : FullShape(o)
  BY <1>3
<1>10. \A o \in V3 \cup V4 : FullShape(o)
  BY <1>4, <1>5
<1> HIDE DEF U1, U2, U3, U4, V1, V2, V3, V4
<1> SUFFICES ASSUME NEW o \in Casts PROVE FullShape(o)
  OBVIOUS
<1>11. \/ \E t \in NonFp : o \in U1(t) \cup U2(t) \cup U3(t) \cup U4(t)
       \/ \E t \in Charlike \cup {"int", "long"} : o \in V1(t)
       \/ \E t \in {"uint", "ulong"} : o \in V2(t)
       \/ o \in V3 \cup V4
  BY <1>6
<1> QED BY <1>7, <1>8, <1>9, <1>10, <1>11

LEMMA MemoryShape == \A o \in GetAddresses \cup Loads \cup Stores \cup Branches : FullShape(o)
<1>1. ASSUME NEW a \in (UNION {Variables(t, "x") : t \in Scalars})
                      \cup {Val("string", "ptr", 0, "s")}
      PROVE  FullShape(Op("addr", a, Result("ptr"), NoVal, NoVal))
  <2>1. IsValue(Val("string", "ptr", 0, "s")) /\ Val("string", "ptr", 0, "s").sub = "string"
    BY TypeSets DEF IsValue, Val
  <2>2. \A t \in Scalars : \A v \in Variables(t, "x") : IsVariable(v)
    BY OperandsAre
  <2>3. IsVariable(a) \/ (IsValue(a) /\ a.sub = "string")
    BY <2>1, <2>2
  <2>4. IsVariable(Result("ptr")) /\ Result("ptr").type = "ptr"
    BY OperandsAre, TypeSets
  <2> QED BY <2>3, <2>4, ShapeFrom
<1>2. ASSUME NEW a \in Variables("ptr", "x"), NEW t \in Scalars
      PROVE  FullShape(Op("load", a, Result(t), NoVal, NoVal))
  <2>1. IsVariable(a) /\ IsVariable(Result(t))
    BY OperandsAre, TypeSets
  <2> QED BY <2>1, ShapeFrom
<1>3. ASSUME NEW t \in Scalars, NEW a \in Operands(t, "y"), NEW b \in Variables("ptr", "x")
      PROVE  FullShape(Op("store", a, b, NoVal, NoVal))
  <2>1. IsInput(a) /\ IsVariable(b) /\ b.type = "ptr"
    BY OperandsAre, TypeSets
  <2> QED BY <2>1, ShapeFrom
<1>4. ASSUME NEW t \in Scalars, NEW op \in Jumps, NEW a \in Operands(t, "x")
      PROVE  FullShape(Op(op, a, Label, NoVal, NoVal))
  <2>1. IsInput(a)
    BY OperandsAre
  <2> QED BY <2>1, ShapeFrom
<1> QED BY <1>1, <1>2, <1>3, <1>4 DEF GetAddresses, Loads, Stores, Branches

LEMMA UnariesShape ==
  \A o \in (UNION {Unary("neg", {t}, t) : t \in Ints \cup {"double"}})
           \cup (UNION {Unary("com", {t}, t) : t \in Ints}) \cup Unary("not", Scalars, "int") :
    FullShape(o)
<1>1. ASSUME NEW t \in Ints \cup {"double"} PROVE \A o \in Unary("neg", {t}, t) : FullShape(o)
  <2> DEFINE F == {t}
  <2>1. F \subseteq Scalars /\ t \in Scalars /\ \A u \in F : u = t
    BY TypeSets
  <2> HIDE DEF F
  <2>2. \A o \in Unary("neg", F, t) : FullShape(o)
    BY <2>1, UnaryShape
  <2> QED BY <2>2 DEF F
<1>2. ASSUME NEW t \in Ints PROVE \A o \in Unary("com", {t}, t) : FullShape(o)
  <2> DEFINE F == {t}
  <2>1. F \subseteq Scalars /\ t \in Scalars
    BY TypeSets
  <2> HIDE DEF F
  <2>2. \A o \in Unary("com", F, t) : FullShape(o)
    BY <2>1, UnaryShape
  <2> QED BY <2>2 DEF F
<1>3. \A o \in Unary("not", Scalars, "int") : FullShape(o)
  <2>1. "int" \in Scalars
    BY TypeSets DEF Ints
  <2> QED BY <2>1, UnaryShape
<1> DEFINE U(t) == Unary("neg", {t}, t)
           V(t) == Unary("com", {t}, t)
           W == Unary("not", Scalars, "int")
<1>4. /\ \A t \in Ints \cup {"double"} : \A o \in U(t) : FullShape(o)
      /\ \A t \in Ints : \A o \in V(t) : FullShape(o)
      /\ \A o \in W : FullShape(o)
  BY <1>1, <1>2, <1>3
<1> HIDE DEF U, V, W
<1>5. \A o \in (UNION {U(t) : t \in Ints \cup {"double"}}) \cup (UNION {V(t) : t \in Ints}) \cup W :
        FullShape(o)
  BY <1>4
<1> QED BY <1>5 DEF U, V, W

LEMMA ReturnsShape == \A o \in Truths \cup Returns : FullShape(o)
<1>1. ASSUME NEW n \in {0, 1}
      PROVE  FullShape(Op("copy", Const("char", n), Result("int"), NoVal, NoVal))
  <2> DEFINE a == Const("char", n)
             b == Result("int")
  <2>1. n \in Int /\ -1 =< n /\ "char" \in Scalars /\ "int" \in Scalars
    BY TypeSets DEF Ints
  <2>2. IsNumber(a) /\ IsVariable(b)
    BY <2>1, OperandsAre
  <2> HIDE DEF a, b
  <2>3. IsInput(a)
    BY <2>2, Values
  <2>4. FullShape(Op("copy", a, b, NoVal, NoVal))
    BY <2>2, <2>3, ShapeFrom
  <2> QED BY <2>4 DEF a, b
<1>2. ASSUME NEW a, IsInput(a) \/ a = Dummy
      PROVE  FullShape(Op("ret", a, NoVal, NoVal, NoVal))
  <2> DEFINE o == Op("ret", a, NoVal, NoVal, NoVal)
  <2>1. o.op = "ret" /\ o.args[1] = a /\ o.args[2] = NoVal
    BY OpIs
  <2> HIDE DEF o
  <2>2. IsInput(a) => IsValue(a)
    BY Values
  <2>3. Arguments(o) /\ TypesFit(o)
    BY <1>2, <2>1, <2>2 DEF Arguments, TypesFit, ThreeArguments, Arithmetic, Bitwises, Comparisons
  <2>4. ArgumentsFit(o) /\ TypesAgree(o)
    BY <1>2, <2>1 DEF ArgumentsFit, TypesAgree, Converting, ThreeArguments, Arithmetic, Bitwises,
                      Comparisons, Jumps
  <2> QED BY <2>3, <2>4 DEF FullShape, Shape, o
<1>3. IsInput(Const("char", 0)) /\ \A t \in Scalars : \A a \in Operands(t, "x") : IsInput(a)
  <2>1. IsNumber(Const("char", 0))
    BY OperandsAre, TypeSets
  <2> QED BY <2>1, OperandsAre, Values
<1>4. \A o \in Truths : FullShape(o)
  BY <1>1, <1>2, <1>3 DEF Truths
<1>5. \A o \in Returns : FullShape(o)
  BY <1>2, <1>3 DEF Returns
<1> QED BY <1>4, <1>5

LEMMA BinariesShape ==
  \A o \in Binary(Arithmetic \cup Bitwises \cup {"div", "rem"}, Ints)
           \cup Binary(Arithmetic \cup {"div"}, {"double"})
           \cup Binary(Comparisons, Ints \cup {"double", "ptr"}) : FullShape(o)
<1> DEFINE O1 == Arithmetic \cup Bitwises \cup {"div", "rem"}  T1 == Ints
           O2 == Arithmetic \cup {"div"}                       T2 == {"double"}
           O3 == Comparisons                                   T3 == Ints \cup {"double", "ptr"}
<1>1. /\ O1 \subseteq ThreeArguments /\ O2 \subseteq ThreeArguments /\ O3 \subseteq ThreeArguments
      /\ "rem" \notin O2 /\ "rem" \notin O3 /\ O3 \cap {"div", "mul"} = {}
  BY DEF ThreeArguments, Arithmetic, Bitwises, Comparisons
<1>2. T1 \subseteq Scalars /\ T2 \subseteq Scalars /\ T3 \subseteq Scalars
  BY TypeSets
<1>3. T1 \subseteq Ints /\ T1 \subseteq Ints \cup {"double"} /\ T2 \subseteq Ints \cup {"double"}
  OBVIOUS
<1> HIDE DEF O1, O2, O3, T1, T2, T3
<1>4. \A o \in Binary(O1, T1) : FullShape(o)
  BY <1>1, <1>2, <1>3, BinaryShape
<1>5. \A o \in Binary(O2, T2) : FullShape(o)
  BY <1>1, <1>2, <1>3, BinaryShape
<1>6. \A o \in Binary(O3, T3) : FullShape(o)
  BY <1>1, <1>2, BinaryShape
<1> QED BY <1>4, <1>5, <1>6 DEF O1, O2, O3, T1, T2, T3

LEMMA Shapes == \A o \in Operations : FullShape(o)
BY UnariesShape, InPlaceShape, BinariesShape, PointersShape, CopiesShape, CastsShape,
   MemoryShape, ReturnsShape DEF Operations

(***************************************************************************)
(* Assertions.                                                             *)
(***************************************************************************)
LEMMA StatementAssertsHold ==
  ASSUME NEW o, Shape(o)
  PROVE  StatementAsserts(o)
<1>1. o.op \in {"sext", "zext", "trunc", "addr", "store"} =>
        /\ A(o).w = Word(TypeA(o)) /\ B(o).w = Word(o.args[2].type)
        /\ Word(TypeA(o)) \in Words /\ Word(o.args[2].type) \in Words
  BY ArgumentsFormed, WordIs DEF Shape
<1>2. o.op \in {"sext", "zext"} => A(o).w < W64 /\ A(o).w < B(o).w
  BY <1>1, WordsAre DEF Shape, TypesFit, TypeA
<1>3. o.op = "trunc" => B(o).w < W64 /\ B(o).w < A(o).w
  BY <1>1, WordsAre DEF Shape, TypesFit, TypeA
<1>4. o.op \in {"addr", "store"} => B(o).w = W64
  BY <1>1, WordIs DEF Shape, TypesFit
<1>5. o.op \in {"inc", "dec"} => in_place_update(o, 2)
  BY DEF Shape, TypesFit, in_place_update
<1>6. o.op \in {"div", "rem"} =>
        TypeA(o) = o.args[2].type /\ TypeA(o) \in Ints \cup {"double"}
  BY DEF Shape, TypesFit, TypeA
<1> QED BY <1>2, <1>3, <1>4, <1>5, <1>6 DEF StatementAsserts

LEMMA InstructionOf ==
  ASSUME NEW c, NEW K, GoodCode(c, K), NEW k \in DOMAIN c
  PROVE  c[k] \in Elements(c) /\ Good(c[k], K) /\ k \in 1 .. Len(c) /\ DOMAIN c = 1 .. Len(c)
<1>1. c[k] \in Elements(c)
  BY DEF Elements
<1>2. DOMAIN c = 1 .. Len(c)
  BY DEF GoodCode
<1> QED BY <1>1, <1>2 DEF GoodCode

LEMMA EmitAssertsHold ==
  ASSUME NEW i, NEW K, Good(i, K)
  PROVE  EmitAsserts(i)
<1>1. i.a.w \in Words /\ i.b.w \in Words
  BY DEF Good, Formed
<1> QED BY <1>1, WordsAre DEF Good, Extends, EmitAsserts

\* Once fixer n has nothing to do it does nothing; fix_shift does nothing new.
LEMMA CleanIdle ==
  ASSUME NEW n \in 1 .. Fixers, NEW i, ~ Needs(n, i)
  PROVE  Fix(n, i) = <<i>> \/ (i.op \in Shifts /\ i.a = Ecx(i.a))
<1>1. \/ n = 1 \/ n = 2 \/ n = 3 \/ n = 4 \/ n = 5 \/ n = 6
      \/ n = 7 \/ n = 8 \/ n = 9 \/ n = 10 \/ n = 11 \/ n = 12
  BY DEF Fixers
<1>2. CASE n = 1
  BY <1>2 DEF Needs, Fix, fix_s2s
<1>3. CASE n = 2
  BY <1>3 DEF Needs, Fix, fix_imm_big
<1>4. CASE n = 3
  BY <1>4 DEF Needs, Fix, fix_cmp
<1>5. CASE n = 4
  BY <1>5 DEF Needs, Fix, fix_div
<1>6. CASE n = 5
  BY <1>6 DEF Needs, Fix, fix_mul
<1>7. CASE n = 6
  BY <1>7 DEF Needs, Fix, fix_shift
<1>8. CASE n = 7
  BY <1>8 DEF Needs, Fix, fix_movsx_and_movzx
<1>9. CASE n = 8
  BY <1>9 DEF Needs, Fix, fix_movzx_32bit
<1>10. CASE n = 9
  BY <1>10 DEF Needs, Fix, fix_cvt_double_to_int
<1>11. CASE n = 10
  BY <1>11 DEF Needs, Fix, fix_cvt_int_to_double
<1>12. CASE n = 11
  BY <1>12 DEF Needs, Fix, fix_arithmetic_on_double
<1>13. CASE n = 12
  BY <1>13 DEF Needs, Fix, fix_lea
<1> QED BY <1>1, <1>2, <1>3, <1>4, <1>5, <1>6, <1>7, <1>8, <1>9, <1>10, <1>11, <1>12, <1>13

(***************************************************************************)
(* The replacement of pseudo registers.                                    *)
(***************************************************************************)
LEMMA InMemoryIs ==
  ASSUME NEW o, Formed(o, Kinds)
  PROVE  /\ Formed(InMemory(o), Kinds \ {"temp"}) /\ InMemory(o).w = o.w
         /\ InMemory(o).k = "reg" => o.k = "reg"
<1>1. CASE o.k = "temp"
  <2>1. InMemory(o) = Operand("mem", o.w, o.at, o.n)
    BY <1>1 DEF InMemory, Formed, Operand
  <2>2. "mem" \in Kinds \ {"temp"} /\ o.w \in Words
    BY DEF Kinds, Formed
  <2> QED BY <2>1, <2>2 DEF Formed, Operand
<1>2. CASE o.k # "temp"
  BY <1>2 DEF InMemory, Formed
<1> QED BY <1>1, <1>2

Replacement(i) == Instr(i.op, InMemory(i.a), InMemory(i.b))

LEMMA ReplacementGood ==
  ASSUME NEW i, Good(i, Kinds)
  PROVE  Good(Replacement(i), Kinds \ {"temp"})
<1> DEFINE a == InMemory(i.a)
           b == InMemory(i.b)
           K == Kinds \ {"temp"}
           op == i.op
<1>1. Formed(a, K) /\ Formed(b, K) /\ a.w = i.a.w /\ b.w = i.b.w /\ (b.k = "reg" => i.b.k = "reg")
  BY InMemoryIs DEF Good
<1>2. op \in {"movsx", "movzx"} => a.w < b.w
  BY <1>1 DEF Good, Extends
<1>3. op = "movzx" => a.w = W8 \/ b.k # "reg"
  BY <1>1 DEF Good, Extends
<1> HIDE DEF a, b, K, op
<1>4. Good(Instr(op, a, b), K)
  BY <1>1, <1>2, <1>3, GoodInstr
<1> QED BY <1>4 DEF a, b, K, op, Replacement

LEMMA ReplacedCode ==
  ASSUME NEW c, GoodCode(c, Kinds)
  PROVE  GoodCode([k \in DOMAIN c |-> Replacement(c[k])], Kinds \ {"temp"})
<1> DEFINE S == {Replacement(c[k]) : k \in DOMAIN c}
           d == [k \in DOMAIN c |-> Replacement(c[k])]
<1>1. DOMAIN c = 1 .. Len(c) /\ Len(c) \in Nat
  BY DEF GoodCode
<1>2. d \in [1 .. Len(c) -> S]
  BY <1>1
<1>3. d \in Seq(S)
  <2> HIDE DEF d, S
  <2> QED BY <1>1, <1>2
<1>4. \A i \in S : Good(i, Kinds \ {"temp"})
  <2>1. \A k \in DOMAIN c : Good(c[k], Kinds)
    BY InstructionOf
  <2> QED BY <2>1, ReplacementGood
<1>5. GoodCode(d, Kinds \ {"temp"})
  <2> HIDE DEF d, S
  <2> QED BY <1>3, <1>4, GoodList
<1> QED BY <1>5

\* A variable fits wherever a pseudo register did.
LEMMA InMemoryFits ==
  ASSUME NEW o, Formed(o, Kinds), NEW p, p = InMemory(o)
  PROVE  /\ p.w = o.w
         /\ Target(o) => Target(p)
         /\ Source(o) => Source(p)
         /\ Double(o) => Double(p)
         /\ Place(o) \/ ~ Place(p)
         /\ Gpr(o) => Gpr(p)
         /\ Xmm(o) => Xmm(p)
         /\ Place(o) => Place(p)
         /\ o.k = "temp" \/ in_memory(o) => in_memory(p)
         /\ o.k # "temp" => p = o
<1>1. CASE o.k = "temp"
  <2>1. p = Operand("mem", o.w, o.at, o.n)
    BY <1>1 DEF InMemory, Formed, Operand
  <2>2. p.k = "mem" /\ p.w = o.w
    BY <2>1 DEF Operand
  <2> QED BY <1>1, <2>2
          DEF Target, Source, Double, Place, Gpr, Xmm, is_xmm_register, in_memory, Numeral
<1>2. CASE o.k # "temp"
  <2>1. p = o
    BY <1>2 DEF InMemory
  <2> QED BY <1>2, <2>1
<1> QED BY <1>1, <1>2

LEMMA ReplacementFits ==
  ASSUME NEW i, Good(i, Kinds), Fits(i)
  PROVE  Fits(Replacement(i))
<1> DEFINE r == Replacement(i)
<1>1. r.op = i.op /\ r.a = InMemory(i.a) /\ r.b = InMemory(i.b)
  BY InstrIs DEF Replacement
<1> HIDE DEF r
<1>2. Formed(i.a, Kinds) /\ Formed(i.b, Kinds)
  BY DEF Good
<1>3. /\ r.a.w = i.a.w
      /\ (Target(i.a) => Target(r.a)) /\ (Source(i.a) => Source(r.a))
      /\ (Double(i.a) => Double(r.a)) /\ (Xmm(i.a) => Xmm(r.a))
      /\ i.a.k = "temp" \/ in_memory(i.a) => in_memory(r.a)
      /\ i.a.k # "temp" => r.a.k = i.a.k
  BY <1>1, <1>2, InMemoryFits
<1>4. /\ r.b.w = i.b.w
      /\ (Target(i.b) => Target(r.b)) /\ (Source(i.b) => Source(r.b))
      /\ (Double(i.b) => Double(r.b)) /\ (Xmm(i.b) => Xmm(r.b))
      /\ (Place(i.b) => Place(r.b)) /\ (Place(r.b) => Place(i.b))
  BY <1>1, <1>2, InMemoryFits
<1>5. i.op = "mov" => Fits(r)
  <2> SUFFICES ASSUME i.op = "mov" PROVE Fits(r)
    OBVIOUS
  <2>1. FitsMov(i)
    BY DEF Fits, Sets, ShiftOps
  <2>2. FitsMov(r)
    BY <1>3, <1>4, <2>1 DEF FitsMov
  <2> QED BY <1>1, <2>2 DEF Fits, Sets, ShiftOps
<1>6. i.op = "imul" => Fits(r)
  BY <1>1, <1>3, <1>4 DEF Fits, Sets, ShiftOps
<1>7. i.op \in {"cvtsi2sd", "addsd", "subsd", "mulsd", "divsd"} => Fits(r)
  BY <1>1, <1>3, <1>4 DEF Fits, Sets, ShiftOps, DoubleTarget
<1>8. i.op \in {"cvttsd2si", "comisd", "xorpd", "unpckhpd", "subpd", "punpckldq"} => Fits(r)
  BY <1>1, <1>3, <1>4 DEF Fits, Sets, ShiftOps
<1>9. i.op \notin {"mov", "imul", "cvtsi2sd", "addsd", "subsd", "mulsd", "divsd", "cvttsd2si",
                   "comisd", "xorpd", "unpckhpd", "subpd", "punpckldq"} => Fits(r)
  BY <1>1, <1>3, <1>4 DEF Fits, Sets, ShiftOps
<1> QED BY <1>5, <1>6, <1>7, <1>8, <1>9 DEF r

LEMMA ReplacedFits ==
  ASSUME NEW c, GoodCode(c, Kinds), FitCode(c)
  PROVE  FitCode([k \in DOMAIN c |-> Replacement(c[k])])
<1> DEFINE S == {Replacement(c[k]) : k \in DOMAIN c}
           d == [k \in DOMAIN c |-> Replacement(c[k])]
<1>1. DOMAIN c = 1 .. Len(c) /\ Len(c) \in Nat
  BY DEF GoodCode
<1>2. d \in [1 .. Len(c) -> S]
  BY <1>1
<1>3. d \in Seq(S)
  <2> HIDE DEF d, S
  <2> QED BY <1>1, <1>2
<1>4. \A i \in S : Fits(i)
  <2>1. \A k \in DOMAIN c : Good(c[k], Kinds) /\ Fits(c[k])
    BY InstructionOf DEF FitCode
  <2> QED BY <2>1, ReplacementFits
<1>5. FitCode(d)
  <2> HIDE DEF d, S
  <2> QED BY <1>3, <1>4, FitList
<1> QED BY <1>5

(***************************************************************************)
(* The invariant.                                                          *)
(***************************************************************************)
LEMMA IInvInit == Init => IInv
<1> SUFFICES ASSUME Init PROVE IInv
  OBVIOUS
<1>1. stage = 0 /\ code = <<>> /\ ir \in Operations
  BY DEF Init
<1>2. GoodCode(code, InvKinds) /\ FitCode(code)
  BY <1>1, GoodTuples, FitTuples
<1> QED BY <1>1, <1>2 DEF IInv, LastStage, Fixers

LEMMA IInvNext == IInv /\ [Next]_vars => IInv'
<1> SUFFICES ASSUME IInv, [Next]_vars PROVE IInv'
  OBVIOUS
<1>1. CASE Select
  <2>1. stage' = 1 /\ ir' = ir /\ code' = statement_one(ir)
    BY <1>1 DEF Select
  <2>2. Shape(ir) /\ FullShape(ir)
    BY Shapes DEF IInv, FullShape
  <2>3. GoodCode(code', Kinds) /\ FitCode(code')
    BY <2>1, <2>2, Selected, SelectedFits
  <2>4. InvKinds' = Kinds
    BY <2>1 DEF InvKinds
  <2>5. GoodCode(code', InvKinds')
    BY <2>3, <2>4
  <2> QED BY <2>1, <2>3, <2>5 DEF IInv, LastStage, Fixers
<1>2. CASE ReplacePseudo
  <2>1. stage = 1 /\ stage' = 2 /\ ir' = ir
    BY <1>2 DEF ReplacePseudo
  <2>2. code' = [k \in DOMAIN code |-> Replacement(code[k])]
    BY <1>2 DEF ReplacePseudo, Replacement
  <2>3. GoodCode(code, Kinds) /\ FitCode(code)
    BY <2>1 DEF IInv, InvKinds
  <2>4. GoodCode(code', Kinds \ {"temp"}) /\ FitCode(code')
    BY <2>2, <2>3, ReplacedCode, ReplacedFits
  <2>5. InvKinds' = Kinds \ {"temp"}
    BY <2>1 DEF InvKinds
  <2>6. \A i : Clean(0, i)
    BY DEF Clean
  <2>7. GoodCode(code', InvKinds')
    BY <2>4, <2>5
  <2> QED BY <2>1, <2>4, <2>6, <2>7 DEF IInv, LastStage, Fixers
<1>3. CASE FixupInstructions
  <2> DEFINE n == stage - 1
             K == Kinds \ {"temp"}
  <2>1. /\ stage \in 2 .. Fixers + 1 /\ stage' = stage + 1 /\ ir' = ir
        /\ code' = fixup_function(n, code)
    BY <1>3 DEF FixupInstructions
  <2>2. n \in 1 .. Fixers /\ n - 1 = stage - 2 /\ stage > 1 /\ stage' - 2 = n /\ stage' > 1
    BY <2>1 DEF Fixers
  <2>3. GoodCode(code, K) /\ FitCode(code) /\ InvKinds' = K
    BY <2>2 DEF IInv, InvKinds
  <2>4. \A i \in Elements(code) : Clean(n - 1, i)
    BY <2>2 DEF IInv
  <2>5. {"reg", "none"} \subseteq K /\ "temp" \notin K
    BY DEF Kinds
  <2> HIDE DEF n, K
  <2>6. /\ GoodCode(fixup_function(n, code), K) /\ FitCode(fixup_function(n, code))
        /\ \A i \in Elements(fixup_function(n, code)) : Clean(n, i)
    BY <2>2, <2>3, <2>4, <2>5, FixupIs
  <2>7. /\ GoodCode(code', InvKinds') /\ FitCode(code')
        /\ \A i \in Elements(code') : Clean(stage' - 2, i)
    BY <2>1, <2>2, <2>3, <2>6
  <2> QED BY <2>1, <2>7 DEF IInv, LastStage, Fixers
<1>4. CASE UNCHANGED vars
  BY <1>4 DEF IInv, InvKinds, vars
<1> QED BY <1>1, <1>2, <1>3, <1>4 DEF Next

LEMMA IInvHolds == Spec => []IInv
BY IInvInit, IInvNext, PTL DEF Spec

(***************************************************************************)
(* Theorems.                                                               *)
(***************************************************************************)
\* Every operation the front end makes becomes instructions whose operands
\* are well formed after each pass of codegen_function, and after
\* codegen_replace_pseudo no pseudo register is left or comes back.
THEOREM TypeCorrect == Spec => []TypeOK
<1>1. IInv => TypeOK
  <2> SUFFICES ASSUME IInv PROVE TypeOK
    OBVIOUS
  <2>1. ir \in Operations /\ stage \in 0 .. LastStage /\ GoodCode(code, InvKinds)
    BY DEF IInv
  <2>2. ASSUME NEW k \in DOMAIN code, NEW o \in {code[k].a, code[k].b}
        PROVE  o.k \in InvKinds /\ o.w \in Words
    <3>1. Good(code[k], InvKinds)
      BY <2>1, InstructionOf
    <3> QED BY <3>1 DEF Good, Formed
  <2> QED BY <2>1, <2>2 DEF TypeOK, InvKinds
<1> QED BY <1>1, IInvHolds, PTL

\* No assertion of codegen_statement_one and its helpers, of the fixers or
\* of emit_asm_op fails on any operation the front end makes.
THEOREM NoAssertionFails == Spec => []AssertionsHold
<1>1. IInv => AssertionsHold
  <2> SUFFICES ASSUME IInv PROVE AssertionsHold
    OBVIOUS
  <2>1. StatementAsserts(ir)
    BY Shapes, StatementAssertsHold DEF IInv, FullShape
  <2>2. ASSUME stage \in 2 .. Fixers + 1, NEW k \in DOMAIN code
        PROVE  FixAsserts(stage - 1, code[k])
    <3> DEFINE n == stage - 1
               K == Kinds \ {"temp"}
               i == code[k]
    <3>1. n \in 1 .. Fixers /\ n - 1 = stage - 2 /\ stage > 1
      BY <2>2 DEF Fixers
    <3>2. GoodCode(code, K) /\ \A j \in Elements(code) : Clean(n - 1, j)
      BY <3>1 DEF IInv, InvKinds
    <3>3. {"reg", "none"} \subseteq K /\ "temp" \notin K
      BY DEF Kinds
    <3> HIDE DEF K, n
    <3>4. i \in Elements(code) /\ Good(i, K)
      BY <2>2, <3>2, InstructionOf
    <3> HIDE DEF i
    <3>5. Fixable(i, K, n)
      BY <3>2, <3>3, <3>4 DEF Fixable
    <3>6. FixedBy(n, i, K)
      BY <3>1, <3>5, FixEach
    <3>7. FixAsserts(n, i)
      BY <3>6 DEF FixedBy
    <3> QED BY <3>7 DEF n, i
  <2>3. ASSUME NEW k \in DOMAIN code PROVE EmitAsserts(code[k])
    <3>1. Good(code[k], InvKinds)
      BY InstructionOf DEF IInv
    <3> QED BY <3>1, EmitAssertsHold
  <2> QED BY <2>1, <2>2, <2>3 DEF AssertionsHold
<1> QED BY <1>1, IInvHolds, PTL

\* Once a fixer of codegen_fixup_instructions has run, nothing a later one
\* puts in needs it again: one pass of each, in the order of the table,
\* leaves nothing to fix.
THEOREM OnePassIsEnough == Spec => []NothingLeftToFix
<1>1. IInv => NothingLeftToFix
  <2> SUFFICES ASSUME IInv, NEW n \in 1 .. Fixers, stage > n + 1, NEW k \in DOMAIN code
               PROVE  \/ Fix(n, code[k]) = <<code[k]>>
                      \/ code[k].op \in Shifts /\ code[k].a = Ecx(code[k].a)
    BY DEF NothingLeftToFix
  <2>1. stage \in Int /\ stage > 1 /\ n \in 1 .. stage - 2
    BY DEF IInv, Fixers
  <2>2. Clean(stage - 2, code[k])
    BY <2>1 DEF IInv, Elements
  <2>3. ~ Needs(n, code[k])
    BY <2>1, <2>2 DEF Clean
  <2> QED BY <2>3, CleanIdle
<1> QED BY <1>1, IInvHolds, PTL

\* What codegen_function hands to the assembler exists on the processor: no
\* instruction is left with two operands in memory, with an immediate that is
\* too large for it, or with an operand of a kind it does not take.
THEOREM EveryInstructionExists == Spec => []InstructionsExist
<1>1. IInv => InstructionsExist
  <2> SUFFICES ASSUME IInv, Done, NEW k \in DOMAIN code
               PROVE  Encodable(Emitted(code[k]))
    BY DEF InstructionsExist
  <2> DEFINE i == code[k]
             K == Kinds \ {"temp"}
  <2>1. stage - 2 = Fixers /\ stage > 1
    BY DEF Done, LastStage, Fixers
  <2>2. GoodCode(code, K) /\ FitCode(code) /\ \A j \in Elements(code) : Clean(Fixers, j)
    BY <2>1 DEF IInv, InvKinds
  <2>3. "temp" \notin K
    OBVIOUS
  <2>4. i \in Elements(code)
    BY DEF Elements
  <2> HIDE DEF i, K
  <2>5. Good(i, K) /\ Fits(i) /\ Clean(Fixers, i)
    BY <2>2, <2>4 DEF GoodCode, FitCode
  <2>6. Encodable(Emitted(i))
    BY <2>3, <2>5, Encoded
  <2> QED BY <2>6 DEF i
<1> QED BY <1>1, IInvHolds, PTL
=============================================================================
