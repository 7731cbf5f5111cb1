------------------------------ MODULE CallsProofs ------------------------------
(***************************************************************************)
(* Proofs about module Calls, for any number of registers, any signatures  *)
(* and any depth.  First, what codegen_op_call places and what             *)
(* codegen_function_params fetches agree on every argument; then the       *)
(* parameters, results and the stack of any program of calls.              *)
(***************************************************************************)
EXTENDS Calls, Inductions, SequenceTheorems, TLAPS

(***************************************************************************)
(* The two loops over the arguments, turn by turn.                         *)
(***************************************************************************)
Ops == {"mov", "push", "push_rax", "subq", "addq", "call", "result", "load", "store"}
Instr == [op: Ops, reg: Regs, n: Nat]
PlaceState == [general: Nat, double: Nat, stack: Seq(Nat), code: Seq(Instr)]
FetchState == [general: Nat, double: Nat, stack: Nat, code: Seq(Instr)]

Unplaced  == [general |-> 0, double |-> 0, stack |-> <<>>, code |-> <<>>]
Unfetched == [general |-> 0, double |-> 0, stack |-> 0, code |-> <<>>]

LEMMA CodeIsSeq == Code = Seq(Instr)
BY DEF Code, Instr, Ops

\* A register is chosen only if there is one.
LEMMA RegisterExists ==
  ASSUME NEW class \in Classes, NEW g \in Nat, NEW d \in Nat,
         HasRegister(class, g, d)
  PROVE  IF IsFp(class) THEN Fp(d + 1) \in Regs ELSE General(g + 1) \in Regs
<1>1. CASE IsFp(class)
  <2>1. d + 1 \in 1 .. CallFp
    BY <1>1, RegisterAssumption DEF HasRegister
  <2> QED BY <1>1, <2>1 DEF Regs
<1>2. CASE ~ IsFp(class)
  <2>1. g + 1 \in 1 .. CallReg
    BY <1>2, RegisterAssumption DEF HasRegister
  <2> QED BY <1>2, <2>1 DEF Regs
<1> QED BY <1>1, <1>2

LEMMA RaxExists == Rax \in Regs
BY DEF Regs

\* One turn of the caller's loop, by what becomes of the argument.
LEMMA PlaceOneIs ==
  ASSUME NEW s \in PlaceState, NEW class \in Classes, NEW i \in Nat
  PROVE  /\ PlaceOne(s, class, i) \in PlaceState
         /\ ~ HasRegister(class, s.general, s.double) =>
              PlaceOne(s, class, i) =
                [general |-> s.general, double |-> s.double,
                 stack |-> Append(s.stack, i), code |-> s.code]
         /\ HasRegister(class, s.general, s.double) /\ IsFp(class) =>
              PlaceOne(s, class, i) =
                [general |-> s.general, double |-> s.double + 1, stack |-> s.stack,
                 code |-> Append(s.code, Mov(i, Fp(s.double + 1)))]
         /\ HasRegister(class, s.general, s.double) /\ ~ IsFp(class) =>
              PlaceOne(s, class, i) =
                [general |-> s.general + 1, double |-> s.double, stack |-> s.stack,
                 code |-> Append(s.code, Mov(i, General(s.general + 1)))]
<1>1. /\ s.general \in Nat /\ s.double \in Nat
      /\ s.stack \in Seq(Nat) /\ s.code \in Seq(Instr)
      /\ s = [general |-> s.general, double |-> s.double, stack |-> s.stack,
              code |-> s.code]
  BY DEF PlaceState
<1>2. CASE ~ HasRegister(class, s.general, s.double)
  <2>1. PlaceOne(s, class, i) =
          [general |-> s.general, double |-> s.double,
           stack |-> Append(s.stack, i), code |-> s.code]
    BY <1>1, <1>2 DEF PlaceOne
  <2>2. Append(s.stack, i) \in Seq(Nat)
    BY <1>1, AppendProperties
  <2> QED BY <1>1, <1>2, <2>1, <2>2 DEF PlaceState
<1>3. CASE HasRegister(class, s.general, s.double) /\ IsFp(class)
  <2>1. PlaceOne(s, class, i) =
          [general |-> s.general, double |-> s.double + 1, stack |-> s.stack,
           code |-> Append(s.code, Mov(i, Fp(s.double + 1)))]
    BY <1>1, <1>3 DEF PlaceOne
  <2>2. Fp(s.double + 1) \in Regs
    BY <1>1, <1>3, RegisterExists
  <2>3. Mov(i, Fp(s.double + 1)) \in Instr
    BY <2>2 DEF Mov, Instruction, Instr, Ops
  <2>4. Append(s.code, Mov(i, Fp(s.double + 1))) \in Seq(Instr)
    BY <1>1, <2>3, AppendProperties
  <2> QED BY <1>1, <1>3, <2>1, <2>4 DEF PlaceState
<1>4. CASE HasRegister(class, s.general, s.double) /\ ~ IsFp(class)
  <2>1. PlaceOne(s, class, i) =
          [general |-> s.general + 1, double |-> s.double, stack |-> s.stack,
           code |-> Append(s.code, Mov(i, General(s.general + 1)))]
    BY <1>1, <1>4 DEF PlaceOne
  <2>2. General(s.general + 1) \in Regs
    BY <1>1, <1>4, RegisterExists
  <2>3. Mov(i, General(s.general + 1)) \in Instr
    BY <2>2 DEF Mov, Instruction, Instr, Ops
  <2>4. Append(s.code, Mov(i, General(s.general + 1))) \in Seq(Instr)
    BY <1>1, <2>3, AppendProperties
  <2> QED BY <1>1, <1>4, <2>1, <2>4 DEF PlaceState
<1> QED BY <1>2, <1>3, <1>4

\* One turn of the callee's loop.
LEMMA FetchOneType ==
  ASSUME NEW s \in FetchState, NEW class \in Classes
  PROVE  FetchOne(s, class) \in FetchState
<1>1. /\ s.general \in Nat /\ s.double \in Nat
      /\ s.stack \in Nat /\ s.code \in Seq(Instr)
  BY DEF FetchState
<1> DEFINE reg  == IF IsFp(class) THEN Fp(s.double + 1) ELSE General(s.general + 1)
           from == IF ~ HasRegister(class, s.general, s.double)
                   THEN Instruction("load", Rax, s.stack)
                   ELSE Instruction("store", reg, 0)
<1>2. HasRegister(class, s.general, s.double) => reg \in Regs
  BY <1>1, RegisterExists
<1>3. from \in Instr
  <2> HIDE DEF reg
  <2> QED BY <1>1, <1>2, RaxExists DEF Instruction, Instr, Ops
<1>4. Append(s.code, from) \in Seq(Instr)
  <2> HIDE DEF from
  <2> QED BY <1>1, <1>3, AppendProperties
<1> QED BY <1>1, <1>4 DEF FetchOne, FetchState

\* The loops have results, and they are those of one turn after another.
LEMMA PlacementTurns ==
  ASSUME NEW args \in Seq(Classes)
  PROVE  /\ Placement(args) \in [0 .. Len(args) -> PlaceState]
         /\ Placement(args)[0] = Unplaced
         /\ \A i \in 1 .. Len(args) :
              Placement(args)[i] = PlaceOne(Placement(args)[i - 1], args[i], i)
<1> DEFINE n == Len(args)
           F == [x \in PlaceState \X (1 .. n) |-> PlaceOne(x[1], args[x[2]], x[2])]
<1>1. n \in Nat /\ \A i \in 1 .. n : args[i] \in Classes /\ i \in Nat
  OBVIOUS
<1>2. ASSUME NEW x \in PlaceState \X (1 .. n)
      PROVE  PlaceOne(x[1], args[x[2]], x[2]) \in PlaceState
  <2>1. x[1] \in PlaceState /\ x[2] \in 1 .. n
    OBVIOUS
  <2> QED BY <1>1, <2>1, PlaceOneIs
<1>3. F \in [PlaceState \X (1 .. n) -> PlaceState]
  BY <1>2
<1>4. Unplaced \in PlaceState
  BY EmptySeq DEF Unplaced, PlaceState
<1>5. PICK f : Recurs(f, n, PlaceState, Unplaced, F)
  <2> HIDE DEF F, n
  <2> QED BY <1>1, <1>3, <1>4, RecursionExists
<1>6. \A i \in 1 .. n : f[i] = PlaceOne(f[i - 1], args[i], i)
  <2>1. \A i \in 1 .. n : f[i - 1] \in PlaceState
    BY <1>1, <1>5 DEF Recurs
  <2> QED BY <1>5, <2>1 DEF Recurs
<1>7. f = [i \in 0 .. n |-> IF i = 0 THEN Unplaced
                            ELSE PlaceOne(f[i - 1], args[i], i)]
  <2> HIDE DEF F
  <2> QED BY <1>5, <1>6 DEF Recurs
<1> DEFINE g == Placement(args)
<1>8. g = [i \in 0 .. n |-> IF i = 0 THEN Unplaced
                            ELSE PlaceOne(g[i - 1], args[i], i)]
  BY <1>7 DEF Placement, Unplaced
<1> HIDE DEF g, F
<1>9. g[0] = Unplaced /\ \A i \in 1 .. n : g[i] = PlaceOne(g[i - 1], args[i], i)
  BY <1>1, <1>8
<1> DEFINE T == {k \in 0 .. n : g[k] = f[k]}
<1>10. \A i \in 0 .. n : i \in T
  <2>1. 0 \in T
    BY <1>1, <1>5, <1>9 DEF Recurs
  <2>2. ASSUME NEW i \in 1 .. n, i - 1 \in T
        PROVE  i \in T
    BY <1>6, <1>9, <2>2
  <2> HIDE DEF T, n
  <2> QED BY <1>1, <2>1, <2>2, UpTo
<1>11. g = f
  BY <1>5, <1>8, <1>10 DEF Recurs
<1> QED BY <1>5, <1>6, <1>11 DEF g, Recurs

LEMMA FetchingTurns ==
  ASSUME NEW args \in Seq(Classes)
  PROVE  /\ Fetching(args) \in [0 .. Len(args) -> FetchState]
         /\ Fetching(args)[0] = Unfetched
         /\ \A i \in 1 .. Len(args) :
              Fetching(args)[i] = FetchOne(Fetching(args)[i - 1], args[i])
<1> DEFINE n == Len(args)
           F == [x \in FetchState \X (1 .. n) |-> FetchOne(x[1], args[x[2]])]
<1>1. n \in Nat /\ \A i \in 1 .. n : args[i] \in Classes
  OBVIOUS
<1>2. ASSUME NEW x \in FetchState \X (1 .. n)
      PROVE  FetchOne(x[1], args[x[2]]) \in FetchState
  <2>1. x[1] \in FetchState /\ x[2] \in 1 .. n
    OBVIOUS
  <2> QED BY <1>1, <2>1, FetchOneType
<1>3. F \in [FetchState \X (1 .. n) -> FetchState]
  BY <1>2
<1>4. Unfetched \in FetchState
  BY EmptySeq DEF Unfetched, FetchState
<1>5. PICK f : Recurs(f, n, FetchState, Unfetched, F)
  <2> HIDE DEF F, n
  <2> QED BY <1>1, <1>3, <1>4, RecursionExists
<1>6. \A i \in 1 .. n : f[i] = FetchOne(f[i - 1], args[i])
  <2>1. \A i \in 1 .. n : f[i - 1] \in FetchState
    BY <1>1, <1>5 DEF Recurs
  <2> QED BY <1>5, <2>1 DEF Recurs
<1>7. f = [i \in 0 .. n |-> IF i = 0 THEN Unfetched
                            ELSE FetchOne(f[i - 1], args[i])]
  <2> HIDE DEF F
  <2> QED BY <1>5, <1>6 DEF Recurs
<1> DEFINE g == Fetching(args)
<1>8. g = [i \in 0 .. n |-> IF i = 0 THEN Unfetched
                            ELSE FetchOne(g[i - 1], args[i])]
  BY <1>7 DEF Fetching, Unfetched
<1> HIDE DEF g, F
<1>9. g[0] = Unfetched /\ \A i \in 1 .. n : g[i] = FetchOne(g[i - 1], args[i])
  BY <1>1, <1>8
<1> DEFINE T == {k \in 0 .. n : g[k] = f[k]}
<1>10. \A i \in 0 .. n : i \in T
  <2>1. 0 \in T
    BY <1>1, <1>5, <1>9 DEF Recurs
  <2>2. ASSUME NEW i \in 1 .. n, i - 1 \in T
        PROVE  i \in T
    BY <1>6, <1>9, <2>2
  <2> HIDE DEF T, n
  <2> QED BY <1>1, <2>1, <2>2, UpTo
<1>11. g = f
  BY <1>5, <1>8, <1>10 DEF Recurs
<1> QED BY <1>5, <1>6, <1>11 DEF g, Recurs

\* The pushes of one argument.
LEMMA PushOneType ==
  ASSUME NEW class \in Classes, NEW i \in Nat, NEW rest \in Seq(Instr)
  PROVE  /\ PushOne(class, i) \in Seq(Instr)
         /\ PushOne(class, i) \o rest \in Seq(Instr)
<1>1. Mov(i, Rax) \in Instr /\ Instruction("push_rax", Rax, 0) \in Instr
      /\ Instruction("push", Rax, i) \in Instr
  BY RaxExists DEF Mov, Instruction, Instr, Ops
<1>2. PushOne(class, i) \in Seq(Instr)
  BY <1>1 DEF PushOne
<1> QED BY <1>2, ConcatProperties

LEMMA PushesTurns ==
  ASSUME NEW args \in Seq(Classes), NEW stack \in Seq(1 .. Len(args))
  PROVE  /\ PushesFrom(args, stack) \in [0 .. Len(stack) -> Seq(Instr)]
         /\ PushesFrom(args, stack)[0] = <<>>
         /\ \A i \in 1 .. Len(stack) :
              PushesFrom(args, stack)[i] = PushOne(args[stack[i]], stack[i]) \o PushesFrom(args, stack)[i - 1]
<1> DEFINE n == Len(stack)
           Turn(rest, i) == PushOne(args[stack[i]], stack[i]) \o rest
           F == [x \in Seq(Instr) \X (1 .. n) |-> Turn(x[1], x[2])]
<1>1. /\ n \in Nat
      /\ \A i \in 1 .. n : args[stack[i]] \in Classes /\ stack[i] \in Nat
  OBVIOUS
<1>2. ASSUME NEW x \in Seq(Instr) \X (1 .. n)
      PROVE  Turn(x[1], x[2]) \in Seq(Instr)
  <2>1. x[1] \in Seq(Instr) /\ x[2] \in 1 .. n
    OBVIOUS
  <2> QED BY <1>1, <2>1, PushOneType
<1>3. F \in [Seq(Instr) \X (1 .. n) -> Seq(Instr)]
  BY <1>2
<1>4. <<>> \in Seq(Instr)
  BY EmptySeq
<1>5. PICK f : Recurs(f, n, Seq(Instr), <<>>, F)
  <2> HIDE DEF F, n, Turn
  <2> QED BY <1>1, <1>3, <1>4, RecursionExists
<1> HIDE DEF Turn
<1>6. \A i \in 1 .. n : f[i] = Turn(f[i - 1], i)
  <2>1. \A i \in 1 .. n : f[i - 1] \in Seq(Instr)
    <3>1. f \in [0 .. n -> Seq(Instr)]
      BY <1>5 DEF Recurs
    <3>2. \A i \in 1 .. n : i - 1 \in 0 .. n
      BY <1>1
    <3> QED BY <3>1, <3>2
  <2> QED BY <1>5, <2>1 DEF Recurs
<1>7. f = [i \in 0 .. n |-> IF i = 0 THEN <<>>
                            ELSE Turn(f[i - 1], i)]
  <2> HIDE DEF F, Turn
  <2> QED BY <1>5, <1>6 DEF Recurs
<1> DEFINE g == PushesFrom(args, stack)
<1>8. g = [i \in 0 .. n |-> IF i = 0 THEN <<>>
                            ELSE Turn(g[i - 1], i)]
  BY <1>7 DEF PushesFrom, Turn
<1> HIDE DEF g, F, Turn
<1>9. g[0] = <<>> /\ \A i \in 1 .. n : g[i] = Turn(g[i - 1], i)
  BY <1>1, <1>8
<1> DEFINE T == {k \in 0 .. n : g[k] = f[k]}
<1>10. \A i \in 0 .. n : i \in T
  <2>1. 0 \in T
    BY <1>1, <1>5, <1>9 DEF Recurs
  <2>2. ASSUME NEW i \in 1 .. n, i - 1 \in T
        PROVE  i \in T
    BY <1>6, <1>9, <2>2
  <2> HIDE DEF T, n
  <2> QED BY <1>1, <2>1, <2>2, UpTo
<1>11. g = f
  BY <1>5, <1>8, <1>10 DEF Recurs
<1> QED BY <1>5, <1>6, <1>11 DEF g, Recurs, Turn

(***************************************************************************)
(* What the two loops agree on.                                            *)
(***************************************************************************)
\* Registers handed out when the counters are g and d.
Handed(reg, g, d) ==
  (\E k \in 1 .. g : reg = General(k)) \/ (\E k \in 1 .. d : reg = Fp(k))

\* After i arguments: every one set aside or moved is one of them, and no two
\* are moved to one register.
PlacedOK(s, i) ==
  /\ \A k \in 1 .. Len(s.stack) : s.stack[k] \in 1 .. i
  /\ \A k \in 1 .. Len(s.code) :
       /\ s.code[k].op = "mov" /\ s.code[k].n \in 1 .. i
       /\ Handed(s.code[k].reg, s.general, s.double)
  /\ \A j, k \in 1 .. Len(s.code) : j # k => s.code[j].reg # s.code[k].reg

\* Instruction c of the callee fetches argument j from where the caller, in
\* state s, has put it.
Fetches(s, c, j) ==
  \/ c.op = "load" /\ c.n \in 0 .. Len(s.stack) - 1 /\ s.stack[c.n + 1] = j
  \/ c.op = "store" /\ \E k \in 1 .. Len(s.code) : s.code[k] = Mov(j, c.reg)

AtMost(a, b) == IF a =< b THEN a ELSE b

\* The callee counts every argument of a class, the caller stops counting
\* when the registers run out.
AgreedOK(s, f, i) ==
  /\ s.general = AtMost(f.general, CallReg)
  /\ s.double = AtMost(f.double, CallFp)
  /\ Len(s.stack) = f.stack
  /\ Len(f.code) = i
  /\ \A j \in 1 .. i : Fetches(s, f.code[j], j)

LEMMA FetchOneIs ==
  ASSUME NEW f \in FetchState, NEW class \in Classes
  PROVE  /\ ~ HasRegister(class, f.general, f.double) =>
              /\ FetchOne(f, class).stack = f.stack + 1
              /\ FetchOne(f, class).code =
                   Append(f.code, Instruction("load", Rax, f.stack))
         /\ HasRegister(class, f.general, f.double) =>
              /\ FetchOne(f, class).stack = f.stack
              /\ FetchOne(f, class).code =
                   Append(f.code, Instruction("store",
                     IF IsFp(class) THEN Fp(f.double + 1) ELSE General(f.general + 1), 0))
         /\ IsFp(class) => /\ FetchOne(f, class).general = f.general
                           /\ FetchOne(f, class).double = f.double + 1
         /\ ~ IsFp(class) => /\ FetchOne(f, class).general = f.general + 1
                             /\ FetchOne(f, class).double = f.double
BY DEF FetchOne, FetchState

\* A turn of the caller keeps what it has placed apart.
LEMMA PlacedStep ==
  ASSUME NEW s \in PlaceState, NEW class \in Classes, NEW i \in Nat \ {0},
         PlacedOK(s, i - 1)
  PROVE  PlacedOK(PlaceOne(s, class, i), i)
<1>0. PICK t : t = PlaceOne(s, class, i)
  OBVIOUS
<1> SUFFICES PlacedOK(t, i)
  BY <1>0
<1>1. /\ s.general \in Nat /\ s.double \in Nat
      /\ s.stack \in Seq(Nat) /\ s.code \in Seq(Instr)
  BY DEF PlaceState
<1>2. CASE ~ HasRegister(class, s.general, s.double)
  <2>1. /\ t.general = s.general /\ t.double = s.double /\ t.code = s.code
        /\ t.stack = Append(s.stack, i)
    BY <1>0, <1>2, PlaceOneIs
  <2>2. /\ Len(t.stack) = Len(s.stack) + 1
        /\ \A k \in 1 .. Len(s.stack) : t.stack[k] = s.stack[k]
        /\ t.stack[Len(s.stack) + 1] = i
    BY <1>1, <2>1, AppendProperties
  <2>3. ASSUME NEW k \in 1 .. Len(t.stack)
        PROVE  t.stack[k] \in 1 .. i
    <3>1. CASE k = Len(s.stack) + 1
      BY <2>2, <3>1
    <3>2. CASE k \in 1 .. Len(s.stack)
      <4>1. s.stack[k] \in 1 .. i - 1
        BY <3>2 DEF PlacedOK
      <4> QED BY <2>2, <3>2, <4>1
    <3> QED BY <1>1, <2>2, <3>1, <3>2
  <2>4. \A k \in 1 .. Len(t.code) :
          /\ t.code[k].op = "mov" /\ t.code[k].n \in 1 .. i
          /\ Handed(t.code[k].reg, t.general, t.double)
    BY <2>1 DEF PlacedOK
  <2>5. \A j, k \in 1 .. Len(t.code) : j # k => t.code[j].reg # t.code[k].reg
    BY <2>1 DEF PlacedOK
  <2> QED BY <2>3, <2>4, <2>5 DEF PlacedOK
<1>3. ASSUME NEW reg, NEW g \in Nat, NEW d \in Nat, Mov(i, reg) \in Instr,
             t = [general |-> g, double |-> d, stack |-> s.stack,
                  code |-> Append(s.code, Mov(i, reg))],
             g >= s.general, d >= s.double,
             Handed(reg, g, d), ~ Handed(reg, s.general, s.double)
      PROVE  PlacedOK(t, i)
  <2>1. /\ t.general = g /\ t.double = d /\ t.stack = s.stack
        /\ t.code = Append(s.code, Mov(i, reg))
    BY <1>3
  <2>2. /\ Len(t.code) = Len(s.code) + 1
        /\ \A k \in 1 .. Len(s.code) : t.code[k] = s.code[k]
        /\ t.code[Len(s.code) + 1] = Mov(i, reg)
    BY <1>1, <1>3, <2>1, AppendProperties
  <2>3. Mov(i, reg).op = "mov" /\ Mov(i, reg).n = i /\ Mov(i, reg).reg = reg
    BY DEF Mov, Instruction
  <2>4. \A r : Handed(r, s.general, s.double) => Handed(r, g, d)
    BY <1>1, <1>3 DEF Handed
  <2>5. \A k \in 1 .. Len(t.code) :
          /\ t.code[k].op = "mov" /\ t.code[k].n \in 1 .. i
          /\ Handed(t.code[k].reg, g, d)
    BY <1>1, <1>3, <2>2, <2>3, <2>4 DEF PlacedOK
  <2>6. \A k \in 1 .. Len(s.code) : s.code[k].reg # reg
    BY <1>3 DEF PlacedOK
  <2>7. ASSUME NEW j \in 1 .. Len(t.code), NEW k \in 1 .. Len(t.code), j # k
        PROVE  t.code[j].reg # t.code[k].reg
    <3>1. CASE j = Len(s.code) + 1
      <4>1. k \in 1 .. Len(s.code)
        BY <1>1, <2>2, <2>7, <3>1
      <4> QED BY <2>2, <2>3, <2>6, <3>1, <4>1
    <3>2. CASE k = Len(s.code) + 1
      <4>1. j \in 1 .. Len(s.code)
        BY <1>1, <2>2, <2>7, <3>2
      <4> QED BY <2>2, <2>3, <2>6, <3>2, <4>1
    <3>3. CASE j \in 1 .. Len(s.code) /\ k \in 1 .. Len(s.code)
      BY <2>2, <2>7, <3>3 DEF PlacedOK
    <3> QED BY <1>1, <2>2, <3>1, <3>2, <3>3
  <2>8. \A k \in 1 .. Len(t.stack) : t.stack[k] \in 1 .. i
    BY <2>1 DEF PlacedOK
  <2> QED BY <2>1, <2>5, <2>7, <2>8 DEF PlacedOK
<1>4. CASE HasRegister(class, s.general, s.double) /\ IsFp(class)
  <2> DEFINE reg == Fp(s.double + 1)
  <2>1. t = [general |-> s.general, double |-> s.double + 1, stack |-> s.stack,
             code |-> Append(s.code, Mov(i, reg))]
    BY <1>0, <1>4, PlaceOneIs
  <2>2. Handed(reg, s.general, s.double + 1) /\ ~ Handed(reg, s.general, s.double)
    BY <1>1 DEF Handed, General, Fp
  <2>3. reg \in Regs
    BY <1>1, <1>4, RegisterExists
  <2>4. Mov(i, reg) \in Instr
    BY <2>3 DEF Mov, Instruction, Instr, Ops
  <2>5. /\ s.general \in Nat /\ s.double + 1 \in Nat
        /\ s.general >= s.general /\ s.double + 1 >= s.double
    BY <1>1
  <2> HIDE DEF reg
  <2> QED BY <1>3, <2>1, <2>2, <2>4, <2>5
<1>5. CASE HasRegister(class, s.general, s.double) /\ ~ IsFp(class)
  <2> DEFINE reg == General(s.general + 1)
  <2>1. t = [general |-> s.general + 1, double |-> s.double, stack |-> s.stack,
             code |-> Append(s.code, Mov(i, reg))]
    BY <1>0, <1>5, PlaceOneIs
  <2>2. Handed(reg, s.general + 1, s.double) /\ ~ Handed(reg, s.general, s.double)
    BY <1>1 DEF Handed, General, Fp
  <2>3. reg \in Regs
    BY <1>1, <1>5, RegisterExists
  <2>4. Mov(i, reg) \in Instr
    BY <2>3 DEF Mov, Instruction, Instr, Ops
  <2>5. /\ s.general + 1 \in Nat /\ s.double \in Nat
        /\ s.general + 1 >= s.general /\ s.double >= s.double
    BY <1>1
  <2> HIDE DEF reg
  <2> QED BY <1>3, <2>1, <2>2, <2>4, <2>5
<1> QED BY <1>2, <1>4, <1>5

\* What was fetched right stays so when the caller places more.
LEMMA FetchesMore ==
  ASSUME NEW s \in PlaceState, NEW class \in Classes, NEW i \in Nat,
         NEW c, NEW j, Fetches(s, c, j), c.n \in Nat
  PROVE  Fetches(PlaceOne(s, class, i), c, j)
<1>0. PICK t : t = PlaceOne(s, class, i)
  OBVIOUS
<1>1. /\ s.stack \in Seq(Nat) /\ s.code \in Seq(Instr)
  BY DEF PlaceState
<1>2. /\ Len(t.stack) >= Len(s.stack) /\ Len(t.stack) \in Nat
      /\ \A k \in 1 .. Len(s.stack) : t.stack[k] = s.stack[k]
  <2>1. t.stack = s.stack \/ t.stack = Append(s.stack, i)
    BY <1>0, PlaceOneIs
  <2>2. CASE t.stack = s.stack
    BY <1>1, <2>2
  <2>3. CASE t.stack = Append(s.stack, i)
    <3>1. s.stack \in Seq(Nat) /\ i \in Nat
      BY <1>1
    <3>2. /\ Len(Append(s.stack, i)) = Len(s.stack) + 1
          /\ \A k \in 1 .. Len(s.stack) : Append(s.stack, i)[k] = s.stack[k]
      BY <3>1, AppendProperties
    <3> QED BY <2>3, <3>1, <3>2
  <2> QED BY <2>1, <2>2, <2>3
<1>3. /\ Len(t.code) >= Len(s.code) /\ Len(t.code) \in Nat
      /\ \A k \in 1 .. Len(s.code) : t.code[k] = s.code[k]
  <2>1. t.code = s.code \/ \E m \in Instr : t.code = Append(s.code, m)
    <3>1. t \in PlaceState
      BY <1>0, PlaceOneIs
    <3>2. t.code = s.code \/ \E m : t.code = Append(s.code, m)
      <4>1. CASE ~ HasRegister(class, s.general, s.double)
        BY <1>0, <4>1, PlaceOneIs
      <4>2. CASE HasRegister(class, s.general, s.double) /\ IsFp(class)
        <5>1. t.code = Append(s.code, Mov(i, Fp(s.double + 1)))
          BY <1>0, <4>2, PlaceOneIs
        <5> QED BY <5>1
      <4>3. CASE HasRegister(class, s.general, s.double) /\ ~ IsFp(class)
        <5>1. t.code = Append(s.code, Mov(i, General(s.general + 1)))
          BY <1>0, <4>3, PlaceOneIs
        <5> QED BY <5>1
      <4> QED BY <4>1, <4>2, <4>3
    <3>3. ASSUME NEW m, t.code = Append(s.code, m)
          PROVE  m \in Instr
      <4>1. t.code \in Seq(Instr)
        BY <3>1 DEF PlaceState
      <4> QED BY <1>1, <3>3, <4>1
    <3> QED BY <3>2, <3>3
  <2> QED BY <1>1, <2>1, AppendProperties
<1>4. CASE c.op = "load" /\ c.n \in 0 .. Len(s.stack) - 1 /\ s.stack[c.n + 1] = j
  <2>1. c.n \in 0 .. Len(t.stack) - 1 /\ c.n + 1 \in 1 .. Len(s.stack)
    BY <1>1, <1>2, <1>4
  <2> QED BY <1>0, <1>2, <1>4, <2>1 DEF Fetches
<1>5. CASE c.op = "store" /\ \E k \in 1 .. Len(s.code) : s.code[k] = Mov(j, c.reg)
  <2>1. PICK k \in 1 .. Len(s.code) : s.code[k] = Mov(j, c.reg)
    BY <1>5
  <2>2. k \in 1 .. Len(t.code) /\ t.code[k] = Mov(j, c.reg)
    BY <1>1, <1>3, <2>1
  <2> QED BY <1>0, <1>5, <2>2 DEF Fetches
<1> QED BY <1>4, <1>5 DEF Fetches

\* Caller and callee take the same turn: both have a register, or none.
LEMMA AgreedStep ==
  ASSUME NEW s \in PlaceState, NEW f \in FetchState, NEW class \in Classes,
         NEW i \in Nat \ {0}, AgreedOK(s, f, i - 1)
  PROVE  AgreedOK(PlaceOne(s, class, i), FetchOne(f, class), i)
<1>0. PICK t, h : t = PlaceOne(s, class, i) /\ h = FetchOne(f, class)
  OBVIOUS
<1> SUFFICES AgreedOK(t, h, i)
  BY <1>0
<1>1. /\ s.general \in Nat /\ s.double \in Nat
      /\ s.stack \in Seq(Nat) /\ s.code \in Seq(Instr)
      /\ f.general \in Nat /\ f.double \in Nat
      /\ f.stack \in Nat /\ f.code \in Seq(Instr)
  BY DEF PlaceState, FetchState
<1>2. HasRegister(class, s.general, s.double) <=> HasRegister(class, f.general, f.double)
  BY <1>1, RegisterAssumption DEF AgreedOK, AtMost, HasRegister
<1>3. /\ t.general = AtMost(h.general, CallReg)
      /\ t.double = AtMost(h.double, CallFp)
  <2>0. /\ s.general = AtMost(f.general, CallReg)
        /\ s.double = AtMost(f.double, CallFp)
    BY DEF AgreedOK
  <2>1. CASE ~ HasRegister(class, s.general, s.double)
    <3>1. t.general = s.general /\ t.double = s.double
      BY <1>0, <2>1, PlaceOneIs
    <3>2. CASE IsFp(class)
      <4>1. h.general = f.general /\ h.double = f.double + 1
        BY <1>0, <3>2, FetchOneIs
      <4> QED BY <1>1, <2>0, <2>1, <3>1, <3>2, <4>1, RegisterAssumption DEF AtMost, HasRegister
    <3>3. CASE ~ IsFp(class)
      <4>1. h.general = f.general + 1 /\ h.double = f.double
        BY <1>0, <3>3, FetchOneIs
      <4> QED BY <1>1, <2>0, <2>1, <3>1, <3>3, <4>1, RegisterAssumption DEF AtMost, HasRegister
    <3> QED BY <3>2, <3>3
  <2>2. CASE HasRegister(class, s.general, s.double) /\ IsFp(class)
    <3>1. t.general = s.general /\ t.double = s.double + 1
      BY <1>0, <2>2, PlaceOneIs
    <3>2. h.general = f.general /\ h.double = f.double + 1
      BY <1>0, <2>2, FetchOneIs
    <3> QED BY <1>1, <2>0, <2>2, <3>1, <3>2, RegisterAssumption DEF AtMost, HasRegister
  <2>3. CASE HasRegister(class, s.general, s.double) /\ ~ IsFp(class)
    <3>1. t.general = s.general + 1 /\ t.double = s.double
      BY <1>0, <2>3, PlaceOneIs
    <3>2. h.general = f.general + 1 /\ h.double = f.double
      BY <1>0, <2>3, FetchOneIs
    <3> QED BY <1>1, <2>0, <2>3, <3>1, <3>2, RegisterAssumption DEF AtMost, HasRegister
  <2> QED BY <2>1, <2>2, <2>3
<1>4. h \in FetchState /\ t \in PlaceState
  BY <1>0, FetchOneType, PlaceOneIs
<1>5. PICK c \in Instr :
        /\ h.code = Append(f.code, c)
        /\ \/ /\ ~ HasRegister(class, f.general, f.double)
              /\ c = Instruction("load", Rax, f.stack)
           \/ /\ HasRegister(class, f.general, f.double)
              /\ c = Instruction("store", IF IsFp(class) THEN Fp(f.double + 1)
                                          ELSE General(f.general + 1), 0)
  <2>1. \E c : /\ h.code = Append(f.code, c)
               /\ \/ /\ ~ HasRegister(class, f.general, f.double)
                     /\ c = Instruction("load", Rax, f.stack)
                  \/ /\ HasRegister(class, f.general, f.double)
                     /\ c = Instruction("store", IF IsFp(class) THEN Fp(f.double + 1)
                                                 ELSE General(f.general + 1), 0)
    BY <1>0, FetchOneIs
  <2>2. ASSUME NEW c, h.code = Append(f.code, c)
        PROVE  c \in Instr
    <3>1. h.code \in Seq(Instr)
      BY <1>4 DEF FetchState
    <3> QED BY <1>1, <2>2, <3>1
  <2> QED BY <2>1, <2>2
<1>6. /\ Len(h.code) = i
      /\ \A j \in 1 .. i - 1 : h.code[j] = f.code[j]
      /\ h.code[i] = c
  <2>1. Len(f.code) = i - 1
    BY DEF AgreedOK
  <2> QED BY <1>1, <1>5, <2>1, AppendProperties
<1>7. \A j \in 1 .. i - 1 : Fetches(t, h.code[j], j)
  <2>1. \A j \in 1 .. i - 1 : Fetches(s, f.code[j], j) /\ f.code[j] \in Instr
    BY <1>1 DEF AgreedOK
  <2>2. \A j \in 1 .. i - 1 : f.code[j].n \in Nat
    BY <2>1 DEF Instr
  <2> QED BY <1>0, <1>6, <2>1, <2>2, FetchesMore
<1>8. Len(t.stack) = h.stack /\ Fetches(t, c, i)
  <2>1. CASE ~ HasRegister(class, s.general, s.double)
    <3>1. /\ t.stack = Append(s.stack, i) /\ h.stack = f.stack + 1
          /\ c.op = "load" /\ c.n = f.stack
      <4>1. t.stack = Append(s.stack, i)
        BY <1>0, <2>1, PlaceOneIs
      <4>2. h.stack = f.stack + 1
        BY <1>0, <1>2, <2>1, FetchOneIs
      <4>3. c = Instruction("load", Rax, f.stack)
        BY <1>2, <1>5, <2>1
      <4> QED BY <4>1, <4>2, <4>3 DEF Instruction
    <3>2. Len(s.stack) = f.stack
      BY DEF AgreedOK
    <3>3. Len(t.stack) = h.stack /\ t.stack[f.stack + 1] = i
      BY <1>1, <3>1, <3>2, AppendProperties
    <3> QED BY <1>1, <3>1, <3>3 DEF Fetches
  <2>2. CASE HasRegister(class, s.general, s.double)
    <3> DEFINE reg == IF IsFp(class) THEN Fp(f.double + 1) ELSE General(f.general + 1)
    <3>1. /\ IsFp(class) => s.double = f.double
          /\ ~ IsFp(class) => s.general = f.general
      BY <1>1, <2>2, RegisterAssumption DEF AgreedOK, AtMost, HasRegister
    <3>2. t.code = Append(s.code, Mov(i, reg)) /\ t.stack = s.stack
      BY <1>0, <2>2, <3>1, PlaceOneIs
    <3>3. h.stack = f.stack /\ c.op = "store" /\ c.reg = reg
      <4>1. h.stack = f.stack
        BY <1>0, <1>2, <2>2, FetchOneIs
      <4>2. c = Instruction("store", reg, 0)
        BY <1>2, <1>5, <2>2
      <4> HIDE DEF reg
      <4> QED BY <4>1, <4>2 DEF Instruction
    <3> HIDE DEF reg
    <3>4. Mov(i, reg) \in Instr
      <4>1. reg \in Regs
        BY <1>5, <3>3 DEF Instr
      <4> QED BY <4>1 DEF Mov, Instruction, Instr, Ops
    <3>5. /\ Len(s.code) + 1 \in 1 .. Len(t.code)
          /\ t.code[Len(s.code) + 1] = Mov(i, c.reg)
      BY <1>1, <3>2, <3>3, <3>4, AppendProperties
    <3> QED BY <3>2, <3>3, <3>5 DEF Fetches, AgreedOK
  <2> QED BY <2>1, <2>2
<1>9. \A j \in 1 .. i : Fetches(t, h.code[j], j)
  BY <1>6, <1>7, <1>8
<1> QED BY <1>3, <1>6, <1>8, <1>9 DEF AgreedOK

\* For every signature: each parameter is fetched from the register or the
\* place on the stack in which the caller has put the argument.
LEMMA Agreement ==
  ASSUME NEW args \in Seq(Classes)
  PROVE  /\ Placing(args) \in PlaceState
         /\ PlacedOK(Placing(args), Len(args))
         /\ function_params(args) \in Seq(Instr)
         /\ Len(function_params(args)) = Len(args)
         /\ \A j \in 1 .. Len(args) :
              Fetches(Placing(args), function_params(args)[j], j)
<1> DEFINE n == Len(args)
           P == Placement(args)
           F == Fetching(args)
           T == {i \in 0 .. n : PlacedOK(P[i], i) /\ AgreedOK(P[i], F[i], i)}
<1>1. n \in Nat /\ \A i \in 1 .. n : args[i] \in Classes
  OBVIOUS
<1>2. /\ P \in [0 .. n -> PlaceState] /\ P[0] = Unplaced
      /\ \A i \in 1 .. n : P[i] = PlaceOne(P[i - 1], args[i], i)
  BY PlacementTurns
<1>3. /\ F \in [0 .. n -> FetchState] /\ F[0] = Unfetched
      /\ \A i \in 1 .. n : F[i] = FetchOne(F[i - 1], args[i])
  BY FetchingTurns
<1> HIDE DEF P, F
<1>4. 0 \in T
  <2>1. PlacedOK(Unplaced, 0)
    BY DEF PlacedOK, Unplaced
  <2>2. AgreedOK(Unplaced, Unfetched, 0)
    BY RegisterAssumption DEF AgreedOK, AtMost, Unplaced, Unfetched
  <2> QED BY <1>1, <1>2, <1>3, <2>1, <2>2
<1>5. ASSUME NEW i \in 1 .. n, i - 1 \in T
      PROVE  i \in T
  <2>1. /\ P[i - 1] \in PlaceState /\ F[i - 1] \in FetchState
        /\ i \in Nat \ {0} /\ args[i] \in Classes
    BY <1>1, <1>2, <1>3
  <2>2. PlacedOK(P[i - 1], i - 1) /\ AgreedOK(P[i - 1], F[i - 1], i - 1)
    BY <1>5
  <2>3. PlacedOK(P[i], i) /\ AgreedOK(P[i], F[i], i)
    BY <1>2, <1>3, <2>1, <2>2, PlacedStep, AgreedStep
  <2> QED BY <2>3
<1>6. n \in T
  <2> HIDE DEF T, n
  <2>1. \A i \in 0 .. n : i \in T
    BY <1>1, <1>4, <1>5, UpTo
  <2> QED BY <1>1, <2>1
<1>7. P[n] \in PlaceState /\ F[n] \in FetchState
  BY <1>1, <1>2, <1>3
<1>8. F[n].code \in Seq(Instr)
  BY <1>7 DEF FetchState
<1> QED BY <1>6, <1>7, <1>8 DEF P, F, AgreedOK, Placing, function_params


\* What the caller moves and sets aside for a signature is what the callee
\* fetches: one instruction for each parameter, from the register or the
\* place on the stack that got its argument, and no register got two
\* (codegen_op_call, codegen_function_params).
THEOREM CallersAndCalleesAgree ==
  ASSUME NEW args \in Seq(Classes)
  PROVE  /\ Len(function_params(args)) = Len(args)
         /\ \A j \in 1 .. Len(args) :
              Fetches(Placing(args), function_params(args)[j], j)
         /\ \A j, k \in 1 .. Len(Placing(args).code) :
              j # k => Placing(args).code[j].reg # Placing(args).code[k].reg
BY Agreement DEF PlacedOK

Frames ==
  [args: Seq(Classes), ret: Returns, rbp: Int, received: Nat,
   phase: {"prologue", "params", "body", "calling"}, code: Seq(Instr),
   callee: Seq(Classes), returns: Returns, got: Value]

(***************************************************************************)
(* The inductive invariant.  The stack, from high addresses to low: for    *)
(* each active function the arguments its caller set aside, the return     *)
(* address, the caller's %rbp, and its frame of parameters.                *)
(***************************************************************************)
Base(f) == f.rbp - FrameBytes(f)
SetAside(args) == Placing(args).stack
Moves(args) == Placing(args).code

\* Where the return address of the call that f makes goes.
CallEntry(f) == Base(f) - Deallocate(f.callee, SetAside(f.callee)) - BYTES_PER_PUSH
Entry(a, d) == IF d = 1 THEN 0 ELSE CallEntry(a[d - 1])
Below(a, d) == IF d = 1 THEN 0 ELSE a[d - 1].rbp

WordIn(m, x) == IF x \in DOMAIN m THEN m[x] ELSE Nothing

\* What is left of the code of a call: from the result on, from the call on,
\* from the k-th push on, from the move after the n-th on.
TakesResult(ret) ==
  IF ret = "void" THEN <<>> ELSE <<Instruction("result", ResultRegister(ret), 0)>>
AfterCall(args, ret) ==
  Sized("addq", Deallocate(args, SetAside(args))) \o TakesResult(ret)
FromCall(args, ret) == <<Instruction("call", Rax, 0)>> \o AfterCall(args, ret)
FromPush(args, ret, k) == PushesFrom(args, SetAside(args))[k] \o FromCall(args, ret)
FromMove(args, ret, n) ==
  SubSeq(Moves(args), n + 1, Len(Moves(args)))
    \o FromPush(args, ret, Len(SetAside(args)))

\* The first n moves of a call from depth d - 1 are done.
Moved(args, d, r, n) ==
  \A j \in 1 .. n : r[Moves(args)[j].reg] = Argument(d, Moves(args)[j].n)

\* The pushes before the k-th from the end are done.
Pushed(f, d, m, k) ==
  \A j \in k + 1 .. Len(SetAside(f.callee)) :
    WordIn(m, CallEntry(f) + BYTES_PER_PUSH * j) = Argument(d, SetAside(f.callee)[j])

Answered(f, d, r) ==
  f.returns # "void" => r[ResultRegister(f.returns)] = Result(d)

\* How far f is with its call of a function at depth d.
AtStart(f, sp) ==
  /\ Padding(f.callee) > 0
  /\ f.code = Sized("subq", Padding(f.callee)) \o FromMove(f.callee, f.returns, 0)
  /\ sp = Base(f)
AtMove(f, d, r, sp, n) ==
  /\ f.code = FromMove(f.callee, f.returns, n)
  /\ sp = Base(f) - Padding(f.callee)
  /\ Moved(f.callee, d, r, n)
AtPush(f, d, r, sp, m, k) ==
  /\ f.code = FromPush(f.callee, f.returns, k)
  /\ sp = CallEntry(f) + BYTES_PER_PUSH * (k + 1)
  /\ Moved(f.callee, d, r, Len(Moves(f.callee)))
  /\ Pushed(f, d, m, k)
AtPushRax(f, d, r, sp, m, k) ==
  /\ f.code = <<Instruction("push_rax", Rax, 0)>> \o FromPush(f.callee, f.returns, k - 1)
  /\ sp = CallEntry(f) + BYTES_PER_PUSH * (k + 1)
  /\ Moved(f.callee, d, r, Len(Moves(f.callee)))
  /\ Pushed(f, d, m, k)
  /\ r[Rax] = Argument(d, SetAside(f.callee)[k])
AtReturn(f, d, r, sp) ==
  /\ f.code = AfterCall(f.callee, f.returns)
  /\ sp = CallEntry(f) + BYTES_PER_PUSH
  /\ Answered(f, d, r)
AtResult(f, d, r, sp) ==
  /\ f.code = TakesResult(f.returns)
  /\ sp = Base(f)
  /\ Answered(f, d, r)
AtEnd(f, d, sp) ==
  /\ f.code = <<>>
  /\ sp = Base(f)
  /\ f.returns # "void" => f.got = Result(d)

Calling(f, d, r, sp, m) ==
  \/ AtStart(f, sp)
  \/ \E n \in 0 .. Len(Moves(f.callee)) : AtMove(f, d, r, sp, n)
  \/ \E k \in 0 .. Len(SetAside(f.callee)) : AtPush(f, d, r, sp, m, k)
  \/ \E k \in 1 .. Len(SetAside(f.callee)) : AtPushRax(f, d, r, sp, m, k)
  \/ AtReturn(f, d, r, sp)
  \/ AtResult(f, d, r, sp)
  \/ AtEnd(f, d, sp)

\* Each active function but the last waits in the call of the next one.
FrameOK(a, d) ==
  /\ a[d].rbp % BYTES_PER_PUSH = 0
  /\ a[d].received =< Len(a[d].args)
  /\ a[d].phase = "prologue" => a[d].received = 0
  /\ a[d].phase \in {"body", "calling"} => a[d].received = Len(a[d].args)
  /\ a[d].phase # "prologue" => a[d].rbp = Entry(a, d) - BYTES_PER_PUSH
  /\ d = 1 => a[d].args = <<>>
  /\ d < Len(a) =>
       /\ a[d].phase = "calling"
       /\ a[d].code = AfterCall(a[d].callee, a[d].returns)
       /\ a[d + 1].args = a[d].callee /\ a[d + 1].ret = a[d].returns

\* No frame reaches into that of a caller.
Apart(a, d, e) ==
  d < e /\ a[e].phase # "prologue" => a[e].rbp + 2 * BYTES_PER_PUSH =< Base(a[d])

\* The words of an active function that are still needed.
FrameWords(a, m, d) ==
  /\ d > 1 =>
       /\ WordIn(m, Entry(a, d)) = <<"return", d - 1, 0>>
       /\ \A k \in 1 .. Len(SetAside(a[d].args)) :
            WordIn(m, Entry(a, d) + BYTES_PER_PUSH * k) = Argument(d, SetAside(a[d].args)[k])
  /\ a[d].phase # "prologue" => WordIn(m, a[d].rbp) = <<"rbp", Below(a, d), 0>>
  /\ \A i \in 1 .. a[d].received : WordIn(m, Slot(a[d], i)) = Argument(d, i)

StackOK(a, m) ==
  /\ \A d \in 1 .. Len(a) : FrameOK(a, d)
  /\ \A d, e \in 1 .. Len(a) : Apart(a, d, e)
  /\ \A d \in 1 .. Len(a) : FrameWords(a, m, d)

\* The registers, by what the last function is at.
TopOK(a, d, r, sp, bp, m) ==
  /\ a[d].phase = "prologue" =>
       /\ sp = Entry(a, d) /\ bp = Below(a, d)
       /\ Moved(a[d].args, d, r, Len(Moves(a[d].args)))
  /\ a[d].phase # "prologue" => bp = a[d].rbp
  /\ a[d].phase = "params" =>
       /\ sp = Base(a[d])
       /\ Moved(a[d].args, d, r, Len(Moves(a[d].args)))
       /\ a[d].code = SubSeq(function_params(a[d].args), a[d].received + 1, Len(a[d].args))
  /\ a[d].phase = "body" => sp = Base(a[d])
  /\ a[d].phase = "calling" => d < MaxDepth /\ Calling(a[d], d + 1, r, sp, m)

\* The variables hold what they should.
Typed(a, r, sp, bp, m) ==
  /\ a \in Seq(Frames) /\ Len(a) \in 1 .. MaxDepth
  /\ r \in [Regs -> Value]
  /\ sp \in Int /\ sp % BYTES_PER_PUSH = 0
  /\ bp \in Int /\ bp % BYTES_PER_PUSH = 0
  /\ \A x \in DOMAIN m : x % BYTES_PER_PUSH = 0 /\ m[x] \in Value

State(a, r, sp, bp, m) ==
  /\ Typed(a, r, sp, bp, m)
  /\ StackOK(a, m)
  /\ TopOK(a, Len(a), r, sp, bp, m)

IInv ==
  /\ State(active, regs, rsp, rbp, memory)
  /\ status \in {"ok", "assert", "overrun"}

(***************************************************************************)
(* The code of a call, instruction by instruction.                         *)
(***************************************************************************)
LEMMA FirstAndRest ==
  ASSUME NEW x \in Instr, NEW s \in Seq(Instr)
  PROVE  /\ <<x>> \o s \in Seq(Instr)
         /\ <<x>> \o s # <<>>
         /\ Head(<<x>> \o s) = x
         /\ Tail(<<x>> \o s) = s
<1>0. PICK t : t = <<x>> \o s
  OBVIOUS
<1>1. /\ <<x>> \in Seq(Instr) /\ Len(<<x>>) = 1 /\ <<x>>[1] = x
  OBVIOUS
<1>2. /\ t \in Seq(Instr) /\ Len(t) = 1 + Len(s)
      /\ \A i \in 1 .. 1 + Len(s) : t[i] = IF i <= 1 THEN <<x>>[i] ELSE s[i - 1]
  BY <1>0, <1>1, ConcatProperties
<1>3. t # <<>> /\ Head(t) = x
  BY <1>1, <1>2
<1>4. /\ Tail(t) \in Seq(Instr) /\ Len(Tail(t)) = Len(s)
      /\ \A i \in 1 .. Len(s) : Tail(t)[i] = t[i + 1]
  BY <1>2, <1>3, HeadTailProperties
<1>5. \A i \in 1 .. Len(s) : Tail(t)[i] = s[i]
  <2>1. \A i \in 1 .. Len(s) : i + 1 \in 1 .. 1 + Len(s) /\ ~ i + 1 <= 1 /\ (i + 1) - 1 = i
    OBVIOUS
  <2> QED BY <1>2, <1>4, <2>1
<1>6. Tail(t) = s
  BY <1>4, <1>5, SeqEqual
<1> QED BY <1>0, <1>2, <1>3, <1>6

LEMMA CodeAssociative ==
  \A s, t, u \in Seq(Instr) : (s \o t) \o u = s \o (t \o u)
BY ConcatAssociative

LEMMA InstructionType ==
  ASSUME NEW op \in Ops, NEW reg \in Regs, NEW n \in Nat
  PROVE  /\ Instruction(op, reg, n) \in Instr
         /\ Instruction(op, reg, n).op = op
         /\ Instruction(op, reg, n).reg = reg
         /\ Instruction(op, reg, n).n = n
BY DEF Instruction, Instr

\* Where the caller puts the arguments.
LEMMA PlacingIs ==
  ASSUME NEW args \in Seq(Classes)
  PROVE  /\ SetAside(args) \in Seq(1 .. Len(args))
         /\ Moves(args) \in Seq(Instr)
         /\ \A j \in 1 .. Len(Moves(args)) :
              /\ Moves(args)[j] \in Instr
              /\ Moves(args)[j].op = "mov"
              /\ Moves(args)[j].reg # Rax
         /\ \A i, j \in 1 .. Len(Moves(args)) :
              i # j => Moves(args)[i].reg # Moves(args)[j].reg
<1>0. PICK s : s = Placing(args)
  OBVIOUS
<1>1. s \in PlaceState /\ PlacedOK(s, Len(args))
  BY <1>0, Agreement
<1>2. s.stack \in Seq(Nat) /\ s.code \in Seq(Instr)
  BY <1>1 DEF PlaceState
<1>3. \A k \in 1 .. Len(s.stack) : s.stack[k] \in 1 .. Len(args)
  BY <1>1 DEF PlacedOK
<1>4. s.stack \in Seq(1 .. Len(args))
  BY <1>2, <1>3
<1>5. ASSUME NEW j \in 1 .. Len(s.code)
      PROVE  s.code[j] \in Instr /\ s.code[j].op = "mov" /\ s.code[j].reg # Rax
  <2>1. Handed(s.code[j].reg, s.general, s.double) /\ s.code[j].op = "mov"
    BY <1>1 DEF PlacedOK
  <2>2. s.code[j].reg # Rax
    BY <2>1 DEF Handed, General, Fp, Rax
  <2>3. s.code[j] \in Instr
    BY <1>2
  <2> QED BY <2>1, <2>2, <2>3
<1>6. \A i, j \in 1 .. Len(s.code) : i # j => s.code[i].reg # s.code[j].reg
  BY <1>1 DEF PlacedOK
<1> QED BY <1>0, <1>2, <1>4, <1>5, <1>6 DEF SetAside, Moves

LEMMA SizesType ==
  ASSUME NEW args \in Seq(Classes)
  PROVE  /\ Padding(args) \in {0, 8}
         /\ Len(SetAside(args)) \in Nat
         /\ Deallocate(args, SetAside(args)) = 8 * Len(SetAside(args)) + Padding(args)
<1>1. Len(SetAside(args)) \in Nat
  BY PlacingIs
<1> QED BY <1>1 DEF Padding, Deallocate, BYTES_PER_PUSH

LEMMA SizedType ==
  ASSUME NEW op \in Ops, NEW n \in Nat
  PROVE  /\ Sized(op, n) \in Seq(Instr)
         /\ n > 0 => Sized(op, n) = <<Instruction(op, Rax, n)>>
         /\ n = 0 => Sized(op, n) = <<>>
<1>1. Instruction(op, Rax, n) \in Instr
  BY RaxExists, InstructionType
<1> QED BY <1>1 DEF Sized

LEMMA ResultType ==
  ASSUME NEW ret \in Returns
  PROVE  ResultRegister(ret) \in Regs /\ TakesResult(ret) \in Seq(Instr)
<1>1. ResultRegister(ret) \in Regs
  <2>1. 1 \in 1 .. CallFp
    BY RegisterAssumption
  <2>2. Fp(1) \in Regs
    BY <2>1 DEF Regs
  <2> QED BY <2>2, RaxExists DEF ResultRegister
<1>2. Instruction("result", ResultRegister(ret), 0) \in Instr
  BY <1>1, InstructionType DEF Ops
<1> QED BY <1>1, <1>2 DEF TakesResult

LEMMA CallCodeType ==
  ASSUME NEW args \in Seq(Classes), NEW ret \in Returns
  PROVE  /\ AfterCall(args, ret) \in Seq(Instr)
         /\ FromCall(args, ret) \in Seq(Instr)
         /\ \A k \in 0 .. Len(SetAside(args)) : FromPush(args, ret, k) \in Seq(Instr)
         /\ \A n \in 0 .. Len(Moves(args)) : FromMove(args, ret, n) \in Seq(Instr)
<1>1. AfterCall(args, ret) \in Seq(Instr)
  <2>1. Deallocate(args, SetAside(args)) \in Nat
    BY SizesType
  <2>2. Sized("addq", Deallocate(args, SetAside(args))) \in Seq(Instr)
    BY <2>1, SizedType DEF Ops
  <2> QED BY <2>2, ResultType, ConcatProperties DEF AfterCall
<1>2. FromCall(args, ret) \in Seq(Instr)
  <2>1. Instruction("call", Rax, 0) \in Instr
    BY RaxExists, InstructionType DEF Ops
  <2> QED BY <1>1, <2>1, FirstAndRest DEF FromCall
<1>3. ASSUME NEW k \in 0 .. Len(SetAside(args))
      PROVE  FromPush(args, ret, k) \in Seq(Instr)
  <2>1. PushesFrom(args, SetAside(args))[k] \in Seq(Instr)
    BY PlacingIs, PushesTurns
  <2> QED BY <1>2, <2>1, ConcatProperties DEF FromPush
<1>4. ASSUME NEW n \in 0 .. Len(Moves(args))
      PROVE  FromMove(args, ret, n) \in Seq(Instr)
  <2>1. Len(SetAside(args)) \in 0 .. Len(SetAside(args))
    BY SizesType
  <2>2. FromPush(args, ret, Len(SetAside(args))) \in Seq(Instr)
    BY <1>3, <2>1
  <2>3. SubSeq(Moves(args), n + 1, Len(Moves(args))) \in Seq(Instr)
    <3>1. /\ n + 1 \in Int /\ Len(Moves(args)) \in Int
          /\ \A i \in n + 1 .. Len(Moves(args)) : Moves(args)[i] \in Instr
      BY PlacingIs
    <3> QED BY <3>1, SubSeqProperties
  <2> QED BY <2>2, <2>3, ConcatProperties DEF FromMove
<1> QED BY <1>1, <1>2, <1>3, <1>4

LEMMA OpCallIs ==
  ASSUME NEW args \in Seq(Classes), NEW ret \in Returns
  PROVE  /\ op_call(args, ret) = Sized("subq", Padding(args)) \o FromMove(args, ret, 0)
         /\ op_call(args, ret) \in Seq(Instr)
<1>1. PICK A, B, C, D, E, F :
        /\ A = Sized("subq", Padding(args))
        /\ B = Moves(args)
        /\ C = Pushes(args, SetAside(args))
        /\ D = <<Instruction("call", Rax, 0)>>
        /\ E = Sized("addq", Deallocate(args, SetAside(args)))
        /\ F = TakesResult(ret)
  OBVIOUS
<1>2. op_call(args, ret) = A \o B \o C \o D \o E \o F
  BY <1>1 DEF op_call, SetAside, Moves, TakesResult
<1>13.  A \in Seq(Instr)
  BY <1>1, SizesType, SizedType DEF Ops
<1>14.  B \in Seq(Instr)
  BY <1>1, PlacingIs
<1>15.  C \in Seq(Instr)
  <2>1. Len(SetAside(args)) \in 0 .. Len(SetAside(args))
    BY SizesType
  <2> QED BY <1>1, <2>1, PlacingIs, PushesTurns DEF Pushes
<1>16.  D \in Seq(Instr)
  <2>1. Instruction("call", Rax, 0) \in Instr
    BY RaxExists, InstructionType DEF Ops
  <2> QED BY <1>1, <2>1
<1>17.  E \in Seq(Instr)
  <2>1. Deallocate(args, SetAside(args)) \in Nat
    BY SizesType
  <2> QED BY <1>1, <2>1, SizedType DEF Ops
<1>18.  F \in Seq(Instr)
  BY <1>1, ResultType
<1>4. FromMove(args, ret, 0) = B \o (C \o (D \o (E \o F)))
  <2>1. SubSeq(B, 1, Len(B)) = B
    BY <1>14, SubSeqFull
  <2>2. SubSeq(Moves(args), 0 + 1, Len(Moves(args))) = B
    BY <1>1, <2>1
  <2>3. FromPush(args, ret, Len(SetAside(args))) = C \o (D \o (E \o F))
    BY <1>1 DEF FromPush, FromCall, AfterCall, Pushes
  <2> QED BY <2>2, <2>3 DEF FromMove
<1>5. A \o B \o C \o D \o E \o F = A \o (B \o (C \o (D \o (E \o F))))
  <2>1. PICK ab : ab = A \o B
    OBVIOUS
  <2>2. ab \in Seq(Instr)
    BY <1>13, <1>14, <2>1, ConcatProperties
  <2>3. PICK abc : abc = ab \o C
    OBVIOUS
  <2>4. abc \in Seq(Instr)
    BY <1>15, <2>2, <2>3, ConcatProperties
  <2>5. PICK abcd : abcd = abc \o D
    OBVIOUS
  <2>6. abcd \in Seq(Instr)
    BY <1>16, <2>4, <2>5, ConcatProperties
  <2>7. PICK ef : ef = E \o F
    OBVIOUS
  <2>8. ef \in Seq(Instr)
    BY <1>17, <1>18, <2>7, ConcatProperties
  <2>9. PICK def : def = D \o ef
    OBVIOUS
  <2>10. def \in Seq(Instr)
    BY <1>16, <2>8, <2>9, ConcatProperties
  <2>11. PICK cdef : cdef = C \o def
    OBVIOUS
  <2>12. cdef \in Seq(Instr)
    BY <1>15, <2>10, <2>11, ConcatProperties
  <2>13. (abcd \o E) \o F = abcd \o (E \o F)
    BY <1>17, <1>18, <2>6, CodeAssociative
  <2>14. (abc \o D) \o ef = abc \o (D \o ef)
    BY <1>16, <2>4, <2>8, CodeAssociative
  <2>15. (ab \o C) \o def = ab \o (C \o def)
    BY <1>15, <2>2, <2>10, CodeAssociative
  <2>16. (A \o B) \o cdef = A \o (B \o cdef)
    BY <1>13, <1>14, <2>12, CodeAssociative
  <2> QED BY <2>1, <2>3, <2>5, <2>7, <2>9, <2>11, <2>13, <2>14, <2>15, <2>16
<1>6. op_call(args, ret) = A \o FromMove(args, ret, 0)
  BY <1>2, <1>4, <1>5
<1>7. FromMove(args, ret, 0) \in Seq(Instr)
  <2>1. 0 \in 0 .. Len(Moves(args))
    BY PlacingIs
  <2> QED BY <2>1, CallCodeType
<1>8. A \o FromMove(args, ret, 0) \in Seq(Instr)
  BY <1>13, <1>7, ConcatProperties
<1> QED BY <1>1, <1>6, <1>8

LEMMA MoveIs ==
  ASSUME NEW args \in Seq(Classes), NEW ret \in Returns
  PROVE  /\ \A n \in 0 .. Len(Moves(args)) - 1 :
              FromMove(args, ret, n) = <<Moves(args)[n + 1]>> \o FromMove(args, ret, n + 1)
         /\ FromMove(args, ret, Len(Moves(args)))
              = FromPush(args, ret, Len(SetAside(args)))
<1>1. PICK M, s, R : /\ M = Moves(args) /\ s = Len(M)
                     /\ R = FromPush(args, ret, Len(SetAside(args)))
  OBVIOUS
<1>2. M \in Seq(Instr) /\ s \in Nat
  BY <1>1, PlacingIs
<1>3. R \in Seq(Instr)
  <2>1. Len(SetAside(args)) \in 0 .. Len(SetAside(args))
    BY SizesType
  <2> QED BY <1>1, <2>1, CallCodeType
<1>4. ASSUME NEW n \in 0 .. s - 1
      PROVE  FromMove(args, ret, n) = <<M[n + 1]>> \o FromMove(args, ret, n + 1)
  <2>1. n + 1 \in 1 .. Len(M) /\ s \in n + 1 .. Len(M)
    BY <1>1, <1>2
  <2>2. PICK Q : Q = SubSeq(M, (n + 1) + 1, s)
    OBVIOUS
  <2>3. SubSeq(M, n + 1, s) = <<M[n + 1]>> \o Q
    BY <1>2, <2>1, <2>2, SubSeqRecursiveFirst
  <2>4. Q \in Seq(Instr) /\ <<M[n + 1]>> \in Seq(Instr)
    <3>1. \A i \in (n + 1) + 1 .. s : M[i] \in Instr
      BY <1>1, <1>2
    <3>2. Q \in Seq(Instr)
      BY <1>2, <2>2, <3>1, SubSeqProperties
    <3> QED BY <1>2, <2>1, <3>2
  <2>5. (<<M[n + 1]>> \o Q) \o R = <<M[n + 1]>> \o (Q \o R)
    BY <1>3, <2>4, ConcatAssociative
  <2> QED BY <1>1, <2>2, <2>3, <2>5 DEF FromMove
<1>5. FromMove(args, ret, s) = R
  <2>1. SubSeq(M, s + 1, s) = <<>>
    BY <1>2, SubSeqEmpty
  <2>2. <<>> \o R = R
    BY <1>3, ConcatEmptySeq
  <2> QED BY <1>1, <2>1, <2>2 DEF FromMove
<1> QED BY <1>1, <1>4, <1>5

LEMMA PushIs ==
  ASSUME NEW args \in Seq(Classes), NEW ret \in Returns
  PROVE  /\ FromPush(args, ret, 0) = FromCall(args, ret)
         /\ \A k \in 1 .. Len(SetAside(args)) :
              IF args[SetAside(args)[k]] = "int"
              THEN FromPush(args, ret, k) =
                     <<Mov(SetAside(args)[k], Rax)>>
                       \o (<<Instruction("push_rax", Rax, 0)>> \o FromPush(args, ret, k - 1))
              ELSE FromPush(args, ret, k) =
                     <<Instruction("push", Rax, SetAside(args)[k])>>
                       \o FromPush(args, ret, k - 1)
<1>1. PICK S, P, C : /\ S = SetAside(args) /\ P = PushesFrom(args, S)
                     /\ C = FromCall(args, ret)
  OBVIOUS
<1>2. /\ P \in [0 .. Len(S) -> Seq(Instr)] /\ P[0] = <<>>
      /\ \A k \in 1 .. Len(S) : P[k] = PushOne(args[S[k]], S[k]) \o P[k - 1]
  BY <1>1, PlacingIs, PushesTurns
<1>3. C \in Seq(Instr) /\ S \in Seq(1 .. Len(args)) /\ Len(S) \in Nat
  BY <1>1, CallCodeType, PlacingIs
<1>4. FromPush(args, ret, 0) = C
  BY <1>1, <1>2, <1>3, ConcatEmptySeq DEF FromPush
<1>5. ASSUME NEW k \in 1 .. Len(S)
      PROVE  IF args[S[k]] = "int"
             THEN FromPush(args, ret, k) =
                    <<Mov(S[k], Rax)>>
                      \o (<<Instruction("push_rax", Rax, 0)>> \o FromPush(args, ret, k - 1))
             ELSE FromPush(args, ret, k) =
                    <<Instruction("push", Rax, S[k])>> \o FromPush(args, ret, k - 1)
  <2>1. PICK Q : Q = P[k - 1]
    OBVIOUS
  <2>2. Q \in Seq(Instr)
    <3>1. k - 1 \in 0 .. Len(S)
      BY <1>3
    <3> QED BY <1>2, <2>1, <3>1
  <2>3. /\ FromPush(args, ret, k - 1) = Q \o C
        /\ FromPush(args, ret, k) = (PushOne(args[S[k]], S[k]) \o Q) \o C
    BY <1>1, <1>2, <2>1 DEF FromPush
  <2>4. S[k] \in Nat
    BY <1>3
  <2>5. PICK a, b, c : /\ a = Mov(S[k], Rax) /\ b = Instruction("push_rax", Rax, 0)
                       /\ c = Instruction("push", Rax, S[k])
    OBVIOUS
  <2>6. a \in Instr /\ b \in Instr /\ c \in Instr
    BY <2>4, <2>5, RaxExists, InstructionType DEF Ops, Mov
  <2>7. CASE args[S[k]] = "int"
    <3>1. PushOne(args[S[k]], S[k]) = <<a, b>>
      BY <2>5, <2>7 DEF PushOne
    <3>2. <<a, b>> = <<a>> \o <<b>> /\ <<a>> \in Seq(Instr) /\ <<b>> \in Seq(Instr)
      <4>1. <<a>> \in Seq(Instr) /\ <<b>> \in Seq(Instr)
        BY <2>6
      <4>2. <<a, b>> = Append(<<a>>, b)
        BY <2>6
      <4>3. Append(<<a>>, b) = <<a>> \o <<b>>
        BY <2>6, <4>1, AppendIsConcat
      <4> QED BY <4>1, <4>2, <4>3
    <3>3. (<<a>> \o <<b>>) \o Q = <<a>> \o (<<b>> \o Q)
      BY <2>2, <3>2, ConcatAssociative
    <3>4. <<b>> \o Q \in Seq(Instr)
      BY <2>2, <3>2, ConcatProperties
    <3>5. (<<a>> \o (<<b>> \o Q)) \o C = <<a>> \o ((<<b>> \o Q) \o C)
      <4>1. PICK s, t : s = <<a>> /\ t = <<b>> \o Q
        OBVIOUS
      <4>2. (s \o t) \o C = s \o (t \o C)
        BY <1>3, <3>2, <3>4, <4>1, CodeAssociative, Zenon
      <4> QED BY <4>1, <4>2
    <3>6. (<<b>> \o Q) \o C = <<b>> \o (Q \o C)
      BY <1>3, <2>2, <3>2, ConcatAssociative
    <3>7. FromPush(args, ret, k) = <<a>> \o (<<b>> \o (Q \o C))
      BY <2>3, <3>1, <3>2, <3>3, <3>5, <3>6
    <3> QED BY <2>3, <2>5, <2>7, <3>7
  <2>8. CASE args[S[k]] # "int"
    <3>1. PushOne(args[S[k]], S[k]) = <<c>>
      BY <2>5, <2>8 DEF PushOne
    <3>2. <<c>> \in Seq(Instr)
      BY <2>6
    <3>3. (<<c>> \o Q) \o C = <<c>> \o (Q \o C)
      BY <1>3, <2>2, <3>2, ConcatAssociative
    <3> QED BY <2>3, <2>5, <2>8, <3>1, <3>3
  <2> QED BY <2>7, <2>8
<1> QED BY <1>1, <1>4, <1>5

(***************************************************************************)
(* What a function that waits for a call executes next.                    *)
(***************************************************************************)
NextSubq(f, sp) ==
  /\ Head(f.code) = Instruction("subq", Rax, Padding(f.callee))
  /\ Tail(f.code) = FromMove(f.callee, f.returns, 0)
  /\ sp = Base(f)
NextMove(f, d, r, sp, n) ==
  /\ Head(f.code) = Moves(f.callee)[n + 1]
  /\ Tail(f.code) = FromMove(f.callee, f.returns, n + 1)
  /\ sp = Base(f) - Padding(f.callee)
  /\ Moved(f.callee, d, r, n)
NextMoveRax(f, d, r, sp, m, k) ==
  /\ Head(f.code) = Mov(SetAside(f.callee)[k], Rax)
  /\ Tail(f.code) =
       <<Instruction("push_rax", Rax, 0)>> \o FromPush(f.callee, f.returns, k - 1)
  /\ AtPush(f, d, r, sp, m, k)
NextPush(f, d, r, sp, m, k) ==
  /\ Head(f.code) = Instruction("push", Rax, SetAside(f.callee)[k])
  /\ Tail(f.code) = FromPush(f.callee, f.returns, k - 1)
  /\ AtPush(f, d, r, sp, m, k)
NextPushRax(f, d, r, sp, m, k) ==
  /\ Head(f.code) = Instruction("push_rax", Rax, 0)
  /\ Tail(f.code) = FromPush(f.callee, f.returns, k - 1)
  /\ AtPushRax(f, d, r, sp, m, k)
NextCall(f, d, r, sp, m) ==
  /\ Head(f.code) = Instruction("call", Rax, 0)
  /\ Tail(f.code) = AfterCall(f.callee, f.returns)
  /\ AtPush(f, d, r, sp, m, 0)
NextAddq(f, d, r, sp) ==
  /\ Head(f.code) = Instruction("addq", Rax, Deallocate(f.callee, SetAside(f.callee)))
  /\ Tail(f.code) = TakesResult(f.returns)
  /\ AtReturn(f, d, r, sp)
NextResult(f, d, r, sp) ==
  /\ f.returns # "void"
  /\ Head(f.code) = Instruction("result", ResultRegister(f.returns), 0)
  /\ Tail(f.code) = <<>>
  /\ AtResult(f, d, r, sp)

LEMMA FrameBytesIs ==
  ASSUME NEW f \in Frames
  PROVE  /\ FrameBytes(f) \in Nat
         /\ FrameBytes(f) >= 8 * Len(f.args)
         /\ FrameBytes(f) % 8 = 0
         /\ Base(f) \in Int
         /\ Base(f) =< f.rbp
         /\ f.rbp % 8 = 0 => Base(f) % 8 = 0
<1>1. Len(f.args) \in Nat /\ f.rbp \in Int
  BY DEF Frames
<1>2. PICK q : q = (8 * Len(f.args) + 15) \div 16
  OBVIOUS
<1>3. q \in Nat /\ 16 * q >= 8 * Len(f.args)
  <2>1. PICK n \in Nat : n = 8 * Len(f.args) + 15
    BY <1>1
  <2>2. n \div 16 \in Nat /\ 16 * (n \div 16) + 15 >= n
    OBVIOUS
  <2>3. q = n \div 16
    BY <1>2, <2>1, Zenon
  <2>4. q \in Nat /\ 16 * q + 15 >= n
    BY <2>2, <2>3, Zenon
  <2>5. 16 * q >= 8 * Len(f.args)
    BY <1>1, <2>1, <2>4
  <2> QED BY <2>4, <2>5
<1>4. FrameBytes(f) = q * 16
  BY <1>1, <1>2 DEF FrameBytes, BYTES_PER_PUSH, BYTES_ALIGN
<1>5. (q * 16) % 8 = 0
  BY <1>3
<1>6. Base(f) = f.rbp - q * 16
  BY <1>4 DEF Base
<1>7. f.rbp % 8 = 0 => (f.rbp - q * 16) % 8 = 0
  BY <1>1, <1>3
<1> QED BY <1>1, <1>3, <1>4, <1>5, <1>6, <1>7

\* What f's call takes below its frame.
LEMMA CallEntryIs ==
  ASSUME NEW f \in Frames
  PROVE  /\ CallEntry(f) \in Int
         /\ CallEntry(f) = Base(f) - 8 * Len(SetAside(f.callee)) - Padding(f.callee) - 8
         /\ Len(SetAside(f.callee)) \in Nat
         /\ Padding(f.callee) \in {0, 8}
         /\ f.rbp % 8 = 0 => CallEntry(f) % 8 = 0
<1>1. f.callee \in Seq(Classes)
  BY DEF Frames
<1>2. /\ Padding(f.callee) \in {0, 8}
      /\ Len(SetAside(f.callee)) \in Nat
      /\ Deallocate(f.callee, SetAside(f.callee))
           = 8 * Len(SetAside(f.callee)) + Padding(f.callee)
  BY <1>1, SizesType
<1>3. Base(f) \in Int /\ (f.rbp % 8 = 0 => Base(f) % 8 = 0)
  BY FrameBytesIs
<1> QED BY <1>2, <1>3 DEF CallEntry, BYTES_PER_PUSH

LEMMA CallSteps ==
  ASSUME NEW f \in Frames, NEW d, NEW r, NEW sp, NEW m,
         Calling(f, d, r, sp, m), f.code # <<>>
  PROVE  \/ NextSubq(f, sp)
         \/ \E n \in 0 .. Len(Moves(f.callee)) - 1 : NextMove(f, d, r, sp, n)
         \/ \E k \in 1 .. Len(SetAside(f.callee)) : NextMoveRax(f, d, r, sp, m, k)
         \/ \E k \in 1 .. Len(SetAside(f.callee)) : NextPush(f, d, r, sp, m, k)
         \/ \E k \in 1 .. Len(SetAside(f.callee)) : NextPushRax(f, d, r, sp, m, k)
         \/ NextCall(f, d, r, sp, m)
         \/ NextAddq(f, d, r, sp)
         \/ NextResult(f, d, r, sp)
<1>1. f.callee \in Seq(Classes) /\ f.returns \in Returns
  BY DEF Frames
<1>2. PICK s, p : s = Len(Moves(f.callee)) /\ p = Len(SetAside(f.callee))
  OBVIOUS
<1>3. s \in Nat /\ p \in Nat /\ SetAside(f.callee) \in Seq(1 .. Len(f.callee))
  BY <1>1, <1>2, PlacingIs
<1>4. \A k \in 0 .. p : FromPush(f.callee, f.returns, k) \in Seq(Instr)
  BY <1>1, <1>2, CallCodeType
<1>5. \A n \in 0 .. s : FromMove(f.callee, f.returns, n) \in Seq(Instr)
  BY <1>1, <1>2, CallCodeType
<1>6. /\ Base(f) \in Int /\ Padding(f.callee) \in {0, 8}
      /\ CallEntry(f) = Base(f) - 8 * p - Padding(f.callee) - 8
      /\ Deallocate(f.callee, SetAside(f.callee)) = 8 * p + Padding(f.callee)
  BY <1>1, <1>2, FrameBytesIs, CallEntryIs, SizesType
<1>7. CASE AtStart(f, sp)
  <2>1. Instruction("subq", Rax, Padding(f.callee)) \in Instr
    BY <1>6, RaxExists, InstructionType DEF Ops
  <2>2. FromMove(f.callee, f.returns, 0) \in Seq(Instr)
    BY <1>3, <1>5
  <2>3. f.code = <<Instruction("subq", Rax, Padding(f.callee))>>
                   \o FromMove(f.callee, f.returns, 0)
    BY <1>6, <1>7, SizedType DEF AtStart, Ops
  <2>4. NextSubq(f, sp)
    BY <1>7, <2>1, <2>2, <2>3, FirstAndRest DEF AtStart, NextSubq
  <2> QED BY <2>4
<1>8. ASSUME NEW n \in 0 .. s - 1, AtMove(f, d, r, sp, n)
      PROVE  NextMove(f, d, r, sp, n)
  <2>1. Moves(f.callee)[n + 1] \in Instr
    <3>1. n + 1 \in 1 .. s
      BY <1>3
    <3> QED BY <1>1, <1>2, <3>1, PlacingIs
  <2>2. FromMove(f.callee, f.returns, n + 1) \in Seq(Instr)
    <3>1. n + 1 \in 0 .. s
      BY <1>3
    <3> QED BY <1>5, <3>1
  <2>3. f.code = <<Moves(f.callee)[n + 1]>> \o FromMove(f.callee, f.returns, n + 1)
    BY <1>1, <1>2, <1>8, MoveIs DEF AtMove
  <2> QED BY <1>8, <2>1, <2>2, <2>3, FirstAndRest DEF AtMove, NextMove
<1>9. ASSUME AtMove(f, d, r, sp, s)
      PROVE  AtPush(f, d, r, sp, m, p)
  <2>1. f.code = FromPush(f.callee, f.returns, p)
    BY <1>1, <1>2, <1>9, MoveIs DEF AtMove
  <2>2. sp = CallEntry(f) + 8 * (p + 1)
    BY <1>3, <1>6, <1>9 DEF AtMove
  <2>3. Pushed(f, d, m, p)
    BY <1>2, <1>3 DEF Pushed
  <2> QED BY <1>2, <1>9, <2>1, <2>2, <2>3 DEF AtMove, AtPush, BYTES_PER_PUSH
<1>10. ASSUME NEW k \in 1 .. p, AtPush(f, d, r, sp, m, k)
       PROVE  NextMoveRax(f, d, r, sp, m, k) \/ NextPush(f, d, r, sp, m, k)
  <2>1. k - 1 \in 0 .. p /\ SetAside(f.callee)[k] \in Nat
    BY <1>2, <1>3
  <2>2. PICK rest : rest = FromPush(f.callee, f.returns, k - 1)
    OBVIOUS
  <2>3. rest \in Seq(Instr)
    BY <1>4, <2>1, <2>2
  <2>4. CASE f.callee[SetAside(f.callee)[k]] = "int"
    <3>1. f.code = <<Mov(SetAside(f.callee)[k], Rax)>>
                     \o (<<Instruction("push_rax", Rax, 0)>> \o rest)
      BY <1>1, <1>2, <1>10, <2>2, <2>4, PushIs DEF AtPush
    <3>2. Instruction("push_rax", Rax, 0) \in Instr
      BY RaxExists, InstructionType DEF Ops
    <3>3. Mov(SetAside(f.callee)[k], Rax) \in Instr
      BY <2>1, RaxExists, InstructionType DEF Ops, Mov
    <3>4. <<Instruction("push_rax", Rax, 0)>> \o rest \in Seq(Instr)
      BY <2>3, <3>2, FirstAndRest
    <3>5. /\ Head(f.code) = Mov(SetAside(f.callee)[k], Rax)
          /\ Tail(f.code) = <<Instruction("push_rax", Rax, 0)>> \o rest
      BY <3>1, <3>3, <3>4, FirstAndRest
    <3> QED BY <1>10, <2>2, <3>5 DEF NextMoveRax
  <2>5. CASE f.callee[SetAside(f.callee)[k]] # "int"
    <3>1. f.code = <<Instruction("push", Rax, SetAside(f.callee)[k])>> \o rest
      BY <1>1, <1>2, <1>10, <2>2, <2>5, PushIs DEF AtPush
    <3>2. Instruction("push", Rax, SetAside(f.callee)[k]) \in Instr
      BY <2>1, RaxExists, InstructionType DEF Ops
    <3>3. /\ Head(f.code) = Instruction("push", Rax, SetAside(f.callee)[k])
          /\ Tail(f.code) = rest
      BY <2>3, <3>1, <3>2, FirstAndRest
    <3> QED BY <1>10, <2>2, <3>3 DEF NextPush
  <2> QED BY <2>4, <2>5
<1>11. ASSUME AtPush(f, d, r, sp, m, 0)
       PROVE  NextCall(f, d, r, sp, m)
  <2>1. f.code = <<Instruction("call", Rax, 0)>> \o AfterCall(f.callee, f.returns)
    BY <1>1, <1>11, PushIs DEF AtPush, FromCall
  <2>2. Instruction("call", Rax, 0) \in Instr
    BY RaxExists, InstructionType DEF Ops
  <2>3. AfterCall(f.callee, f.returns) \in Seq(Instr)
    BY <1>1, CallCodeType
  <2> QED BY <1>11, <2>1, <2>2, <2>3, FirstAndRest DEF NextCall
<1>12. ASSUME NEW k \in 0 .. p, AtPush(f, d, r, sp, m, k)
       PROVE  \/ \E j \in 1 .. p : NextMoveRax(f, d, r, sp, m, j)
              \/ \E j \in 1 .. p : NextPush(f, d, r, sp, m, j)
              \/ NextCall(f, d, r, sp, m)
  <2>1. CASE k = 0
    BY <1>11, <1>12, <2>1
  <2>2. CASE k \in 1 .. p
    BY <1>10, <1>12, <2>2
  <2> QED BY <1>3, <2>1, <2>2
<1>13. ASSUME NEW n \in 0 .. s, AtMove(f, d, r, sp, n)
       PROVE  \/ \E i \in 0 .. s - 1 : NextMove(f, d, r, sp, i)
              \/ AtPush(f, d, r, sp, m, p)
  <2>1. CASE n = s
    BY <1>9, <1>13, <2>1
  <2>2. CASE n \in 0 .. s - 1
    BY <1>8, <1>13, <2>2
  <2> QED BY <1>3, <2>1, <2>2
<1>14. ASSUME NEW k \in 1 .. p, AtPushRax(f, d, r, sp, m, k)
       PROVE  NextPushRax(f, d, r, sp, m, k)
  <2>1. k - 1 \in 0 .. p
    BY <1>3
  <2>2. FromPush(f.callee, f.returns, k - 1) \in Seq(Instr)
    BY <1>4, <2>1
  <2>3. Instruction("push_rax", Rax, 0) \in Instr
    BY RaxExists, InstructionType DEF Ops
  <2>4. f.code = <<Instruction("push_rax", Rax, 0)>> \o FromPush(f.callee, f.returns, k - 1)
    BY <1>14 DEF AtPushRax
  <2> QED BY <1>14, <2>2, <2>3, <2>4, FirstAndRest DEF NextPushRax
<1>15. ASSUME AtResult(f, d, r, sp)
       PROVE  NextResult(f, d, r, sp)
  <2>1. f.returns # "void"
    BY <1>15 DEF AtResult, TakesResult
  <2>2. f.code = <<Instruction("result", ResultRegister(f.returns), 0)>>
    BY <1>15, <2>1 DEF AtResult, TakesResult
  <2>3. Head(f.code) = Instruction("result", ResultRegister(f.returns), 0)
    BY <2>2
  <2>4. Tail(f.code) = <<>>
    BY <2>2
  <2> QED BY <1>15, <2>1, <2>3, <2>4 DEF NextResult
<1>16. ASSUME AtReturn(f, d, r, sp)
       PROVE  NextAddq(f, d, r, sp) \/ AtResult(f, d, r, sp)
  <2>1. TakesResult(f.returns) \in Seq(Instr)
    BY <1>1, ResultType
  <2>2. PICK b : b = Deallocate(f.callee, SetAside(f.callee))
    OBVIOUS
  <2>3. b \in Nat
    BY <1>3, <1>6, <2>2
  <2>4. f.code = Sized("addq", b) \o TakesResult(f.returns)
    BY <1>16, <2>2 DEF AtReturn, AfterCall
  <2>5. CASE b > 0
    <3>1. Instruction("addq", Rax, b) \in Instr
      BY <2>3, RaxExists, InstructionType DEF Ops
    <3>2. f.code = <<Instruction("addq", Rax, b)>> \o TakesResult(f.returns)
      BY <2>3, <2>4, <2>5, SizedType DEF Ops
    <3> QED BY <1>16, <2>1, <2>2, <3>1, <3>2, FirstAndRest DEF NextAddq
  <2>6. CASE b = 0
    <3>1. Sized("addq", b) = <<>>
      BY <2>3, <2>6, SizedType DEF Ops
    <3>2. f.code = TakesResult(f.returns)
      BY <2>1, <2>4, <3>1, ConcatEmptySeq
    <3>3. sp = Base(f)
      BY <1>3, <1>6, <1>16, <2>2, <2>6 DEF AtReturn, BYTES_PER_PUSH
    <3> QED BY <1>16, <3>2, <3>3 DEF AtReturn, AtResult
  <2> QED BY <2>3, <2>5, <2>6
<1>17. ~ AtEnd(f, d, sp)
  BY DEF AtEnd
<1>18. p \in 0 .. p
  BY <1>3
<1> QED BY <1>2, <1>7, <1>12, <1>13, <1>14, <1>15, <1>16, <1>17, <1>18 DEF Calling

(***************************************************************************)
(* What a step leaves as it was.                                           *)
(***************************************************************************)
StoredIn(m, x, v) == [y \in DOMAIN m \cup {x} |-> IF y = x THEN v ELSE m[y]]

LEMMA StoredIs ==
  ASSUME NEW m, NEW x, NEW v, NEW y
  PROVE  WordIn(StoredIn(m, x, v), y) = IF y = x THEN v ELSE WordIn(m, y)
BY DEF WordIn, StoredIn

LEMMA AboveIs ==
  ASSUME NEW m, NEW x \in Int, NEW y \in Int, y >= x
  PROVE  WordIn(Above(m, x), y) = WordIn(m, y)
BY DEF WordIn, Above

LEMMA SameFrame ==
  ASSUME NEW f, NEW g, g.rbp = f.rbp, g.args = f.args
  PROVE  /\ Base(g) = Base(f)
         /\ g.callee = f.callee => CallEntry(g) = CallEntry(f)
         /\ \A i : Slot(g, i) = Slot(f, i)
<1>1. FrameBytes(g) = FrameBytes(f)
  BY DEF FrameBytes
<1>2. Base(g) = Base(f)
  BY <1>1 DEF Base
<1> QED BY <1>2 DEF CallEntry, Slot

LEMMA FrameType ==
  ASSUME NEW a \in Seq(Frames), NEW d \in 1 .. Len(a)
  PROVE  /\ a[d] \in Frames
         /\ a[d].rbp \in Int /\ a[d].received \in Nat
         /\ a[d].args \in Seq(Classes) /\ Len(a[d].args) \in Nat
         /\ a[d].ret \in Returns
         /\ a[d].callee \in Seq(Classes) /\ a[d].returns \in Returns
         /\ a[d].code \in Seq(Instr)
         /\ a[d].phase \in {"prologue", "params", "body", "calling"}
<1>1. a[d] \in Frames
  OBVIOUS
<1> QED BY <1>1 DEF Frames

LEMMA EntryIs ==
  ASSUME NEW a \in Seq(Frames), NEW d \in 1 .. Len(a),
         \A e \in 1 .. Len(a) : FrameOK(a, e)
  PROVE  /\ Entry(a, d) \in Int /\ Entry(a, d) % 8 = 0
         /\ Below(a, d) \in Int /\ Below(a, d) % 8 = 0
<1>1. CASE d = 1
  BY <1>1 DEF Entry, Below
<1>2. CASE d # 1
  <2>1. d - 1 \in 1 .. Len(a)
    BY <1>2
  <2>2. a[d - 1] \in Frames /\ a[d - 1].rbp % 8 = 0 /\ a[d - 1].rbp \in Int
    BY <2>1, FrameType DEF FrameOK, BYTES_PER_PUSH
  <2> QED BY <1>2, <2>2, CallEntryIs DEF Entry, Below
<1> QED BY <1>1, <1>2

\* Nothing that the functions up to the e-th need lies below the e-th frame.
LEMMA NothingBelow ==
  ASSUME NEW a \in Seq(Frames), NEW e \in 1 .. Len(a), NEW d \in 1 .. e,
         \A c \in 1 .. Len(a) : FrameOK(a, c),
         \A b, c \in 1 .. Len(a) : Apart(a, b, c),
         a[e].phase # "prologue"
  PROVE  /\ a[d].phase # "prologue"
         /\ Base(a[e]) \in Int /\ Base(a[d]) \in Int
         /\ Base(a[e]) =< Base(a[d])
         /\ Base(a[e]) =< Entry(a, d)
<1>1. d \in 1 .. Len(a) /\ (d # e => d < Len(a) /\ d < e)
  OBVIOUS
<1>2. a[d].phase # "prologue"
  BY <1>1 DEF FrameOK
<1>3. /\ a[d] \in Frames /\ a[e] \in Frames /\ a[d].rbp \in Int /\ a[e].rbp \in Int
  BY <1>1, FrameType
<1>4. /\ Base(a[d]) \in Int /\ Base(a[d]) =< a[d].rbp
      /\ Base(a[e]) \in Int /\ Base(a[e]) =< a[e].rbp
  BY <1>3, FrameBytesIs
<1>5. a[d].rbp = Entry(a, d) - 8 /\ Entry(a, d) \in Int
  BY <1>1, <1>2, EntryIs DEF FrameOK, BYTES_PER_PUSH
<1>6. Base(a[e]) =< Base(a[d])
  <2>1. CASE d = e
    BY <1>4, <2>1
  <2>2. CASE d # e
    <3>1. a[e].rbp + 16 =< Base(a[d])
      BY <1>1, <2>2 DEF Apart, BYTES_PER_PUSH
    <3> QED BY <1>3, <1>4, <3>1
  <2> QED BY <2>1, <2>2
<1> QED BY <1>2, <1>3, <1>4, <1>5, <1>6

LEMMA SlotIs ==
  ASSUME NEW f \in Frames, NEW i \in 1 .. Len(f.args)
  PROVE  /\ Slot(f, i) \in Int
         /\ Slot(f, i) >= Base(f) /\ Slot(f, i) < f.rbp
         /\ Slot(f, i) = f.rbp - 8 * i
<1>1. f.rbp \in Int /\ Len(f.args) \in Nat
  BY DEF Frames
<1>2. Slot(f, i) = f.rbp - 8 * i
  BY DEF Slot, BYTES_PER_PUSH
<1>3. FrameBytes(f) \in Nat /\ FrameBytes(f) >= 8 * Len(f.args)
  BY FrameBytesIs
<1>4. Base(f) = f.rbp - FrameBytes(f)
  BY DEF Base
<1> QED BY <1>1, <1>2, <1>3, <1>4

LEMMA KeepFrame ==
  ASSUME NEW a \in Seq(Frames), NEW d \in 1 .. Len(a), NEW m, NEW n, NEW low \in Int,
         \A c \in 1 .. Len(a) : FrameOK(a, c),
         FrameWords(a, m, d),
         low =< Entry(a, d),
         a[d].phase # "prologue" => low =< Base(a[d]),
         \A x \in Int : x >= low => WordIn(n, x) = WordIn(m, x)
  PROVE  FrameWords(a, n, d)
<1>1. /\ a[d] \in Frames /\ a[d].rbp \in Int /\ a[d].received \in Nat
      /\ Len(a[d].args) \in Nat /\ a[d].args \in Seq(Classes)
  BY FrameType
<1>2. Entry(a, d) \in Int
  BY EntryIs
<1>3. Len(SetAside(a[d].args)) \in Nat
  BY <1>1, SizesType
<1>4. ASSUME d > 1
      PROVE  /\ WordIn(n, Entry(a, d)) = <<"return", d - 1, 0>>
             /\ \A k \in 1 .. Len(SetAside(a[d].args)) :
                  WordIn(n, Entry(a, d) + BYTES_PER_PUSH * k)
                    = Argument(d, SetAside(a[d].args)[k])
  <2>1. WordIn(n, Entry(a, d)) = WordIn(m, Entry(a, d))
    BY <1>2
  <2>2. ASSUME NEW k \in 1 .. Len(SetAside(a[d].args))
        PROVE  WordIn(n, Entry(a, d) + BYTES_PER_PUSH * k)
                 = WordIn(m, Entry(a, d) + BYTES_PER_PUSH * k)
    <3>1. PICK x : x = Entry(a, d) + BYTES_PER_PUSH * k
      OBVIOUS
    <3>2. x \in Int /\ x >= low
      BY <1>2, <1>3, <3>1 DEF BYTES_PER_PUSH
    <3> QED BY <3>1, <3>2
  <2> QED BY <1>4, <2>1, <2>2 DEF FrameWords
<1>5. ASSUME a[d].phase # "prologue"
      PROVE  WordIn(n, a[d].rbp) = <<"rbp", Below(a, d), 0>>
  <2>1. a[d].rbp >= low
    BY <1>1, <1>5, FrameBytesIs
  <2> QED BY <1>1, <1>5, <2>1 DEF FrameWords
<1>6. ASSUME NEW i \in 1 .. a[d].received
      PROVE  WordIn(n, Slot(a[d], i)) = Argument(d, i)
  <2>1. a[d].phase # "prologue" /\ i \in 1 .. Len(a[d].args)
    BY <1>1, <1>6 DEF FrameOK
  <2>2. Slot(a[d], i) \in Int /\ Slot(a[d], i) >= Base(a[d])
    BY <1>1, <2>1, SlotIs
  <2>3. Base(a[d]) \in Int
    BY <1>1, FrameBytesIs
  <2>4. Slot(a[d], i) >= low
    BY <2>1, <2>2, <2>3
  <2>5. WordIn(n, Slot(a[d], i)) = WordIn(m, Slot(a[d], i))
    BY <2>2, <2>4
  <2> QED BY <1>6, <2>5 DEF FrameWords
<1> QED BY <1>4, <1>5, <1>6 DEF FrameWords

\* A change below the last frame touches nothing.
LEMMA KeepStack ==
  ASSUME NEW a \in Seq(Frames), NEW m, NEW n, a # <<>>, StackOK(a, m),
         a[Len(a)].phase # "prologue",
         \A x \in Int : x >= Base(a[Len(a)]) => WordIn(n, x) = WordIn(m, x)
  PROVE  StackOK(a, n)
<1>1. Len(a) \in 1 .. Len(a)
  BY EmptySeq
<1>2. /\ \A d \in 1 .. Len(a) : FrameOK(a, d)
      /\ \A d, e \in 1 .. Len(a) : Apart(a, d, e)
      /\ \A d \in 1 .. Len(a) : FrameWords(a, m, d)
  BY DEF StackOK
<1>3. ASSUME NEW d \in 1 .. Len(a)
      PROVE  FrameWords(a, n, d)
  <2>1. /\ Base(a[Len(a)]) \in Int
        /\ Base(a[Len(a)]) =< Base(a[d])
        /\ Base(a[Len(a)]) =< Entry(a, d)
    BY <1>1, <1>2, NothingBelow
  <2>2. FrameWords(a, m, d)
    BY <1>2
  <2> QED BY <1>2, <2>1, <2>2, KeepFrame
<1> QED BY <1>2, <1>3 DEF StackOK

\* The last function goes on within its frame.
LEMMA SameTop ==
  ASSUME NEW a \in Seq(Frames), NEW m, NEW g \in Frames, a # <<>>, StackOK(a, m),
         a[Len(a)].phase # "prologue", g.phase # "prologue",
         g.rbp = a[Len(a)].rbp, g.args = a[Len(a)].args, g.ret = a[Len(a)].ret,
         g.received = a[Len(a)].received,
         g.phase \in {"body", "calling"} => g.received = Len(g.args)
  PROVE  /\ StackOK([a EXCEPT ![Len(a)] = g], m)
         /\ [a EXCEPT ![Len(a)] = g] \in Seq(Frames)
         /\ Len([a EXCEPT ![Len(a)] = g]) = Len(a)
         /\ [a EXCEPT ![Len(a)] = g][Len(a)] = g
<1>1. PICK n, b : n = Len(a) /\ b = [a EXCEPT ![Len(a)] = g]
  OBVIOUS
<1>2. n \in Nat /\ n \in 1 .. Len(a)
  BY <1>1, EmptySeq
<1>3. /\ b \in Seq(Frames) /\ Len(b) = n
      /\ \A d \in 1 .. n : b[d] = IF d = n THEN g ELSE a[d]
  BY <1>1, <1>2, ExceptSeq
<1>4. /\ \A d \in 1 .. n : FrameOK(a, d)
      /\ \A d, e \in 1 .. n : Apart(a, d, e)
      /\ \A d \in 1 .. n : FrameWords(a, m, d)
  BY <1>1 DEF StackOK
<1>5. ASSUME NEW d \in 1 .. n
      PROVE  /\ b[d].rbp = a[d].rbp /\ b[d].args = a[d].args /\ b[d].ret = a[d].ret
             /\ b[d].received = a[d].received
             /\ b[d].phase # "prologue" <=> a[d].phase # "prologue"
             /\ Base(b[d]) = Base(a[d])
             /\ \A i : Slot(b[d], i) = Slot(a[d], i)
             /\ Entry(b, d) = Entry(a, d) /\ Below(b, d) = Below(a, d)
  <2>1. /\ b[d].rbp = a[d].rbp /\ b[d].args = a[d].args /\ b[d].ret = a[d].ret
        /\ b[d].received = a[d].received
        /\ b[d].phase # "prologue" <=> a[d].phase # "prologue"
    BY <1>1, <1>3
  <2>2. Base(b[d]) = Base(a[d]) /\ \A i : Slot(b[d], i) = Slot(a[d], i)
    BY <2>1, SameFrame
  <2>3. d # 1 => d - 1 \in 1 .. n /\ d - 1 # n
    BY <1>2
  <2>4. d # 1 => b[d - 1] = a[d - 1]
    BY <1>3, <2>3
  <2> QED BY <2>1, <2>2, <2>4 DEF Entry, Below
<1>6. ASSUME NEW d \in 1 .. n
      PROVE  FrameOK(b, d)
  <2>1. CASE d = n
    <3>1. FrameOK(a, n) /\ b[n] = g
      BY <1>2, <1>3, <1>4
    <3>2. /\ g.rbp % BYTES_PER_PUSH = 0
          /\ g.received =< Len(g.args)
          /\ g.rbp = Entry(a, n) - BYTES_PER_PUSH
          /\ n = 1 => g.args = <<>>
      BY <1>1, <3>1 DEF FrameOK
    <3>3. Entry(b, n) = Entry(a, n)
      BY <1>5, <2>1
    <3> QED BY <1>2, <1>3, <2>1, <3>1, <3>2, <3>3 DEF FrameOK
  <2>2. CASE d # n
    <3>1. b[d] = a[d] /\ Entry(b, d) = Entry(a, d) /\ d + 1 \in 1 .. n
      BY <1>2, <1>3, <1>5, <2>2
    <3>2. b[d + 1].args = a[d + 1].args /\ b[d + 1].ret = a[d + 1].ret
      BY <1>5, <3>1
    <3>3. FrameOK(a, d)
      BY <1>4
    <3> QED BY <1>1, <1>3, <3>1, <3>2, <3>3 DEF FrameOK
  <2> QED BY <2>1, <2>2
<1>7. ASSUME NEW d \in 1 .. n, NEW e \in 1 .. n
      PROVE  Apart(b, d, e)
  <2>1. /\ Apart(a, d, e) /\ Base(b[d]) = Base(a[d]) /\ b[e].rbp = a[e].rbp
        /\ b[e].phase # "prologue" <=> a[e].phase # "prologue"
    BY <1>4, <1>5
  <2> QED BY <2>1 DEF Apart
<1>8. ASSUME NEW d \in 1 .. n
      PROVE  FrameWords(b, m, d)
  <2>1. FrameWords(a, m, d)
    BY <1>4
  <2> QED BY <1>5, <2>1 DEF FrameWords
<1>9. b[n] = g
  BY <1>2, <1>3
<1> QED BY <1>1, <1>3, <1>6, <1>7, <1>8, <1>9 DEF StackOK

\* The prologue makes the frame of the last function.
LEMMA PrologueStack ==
  ASSUME NEW a \in Seq(Frames), NEW m, NEW g \in Frames, a # <<>>, StackOK(a, m),
         a[Len(a)].phase = "prologue", g.phase = "params",
         g.args = a[Len(a)].args, g.ret = a[Len(a)].ret, g.received = a[Len(a)].received,
         g.rbp = Entry(a, Len(a)) - 8
  PROVE  LET b == [a EXCEPT ![Len(a)] = g]
         IN  /\ StackOK(b, StoredIn(m, g.rbp, <<"rbp", Below(a, Len(a)), 0>>))
             /\ b \in Seq(Frames) /\ Len(b) = Len(a) /\ b[Len(a)] = g
<1>1. PICK n, b, p : /\ n = Len(a) /\ b = [a EXCEPT ![Len(a)] = g]
                     /\ p = StoredIn(m, g.rbp, <<"rbp", Below(a, Len(a)), 0>>)
  OBVIOUS
<1>2. n \in Nat /\ n \in 1 .. Len(a)
  BY <1>1, EmptySeq
<1>3. /\ b \in Seq(Frames) /\ Len(b) = n
      /\ \A d \in 1 .. n : b[d] = IF d = n THEN g ELSE a[d]
  BY <1>1, <1>2, ExceptSeq
<1>4. /\ \A d \in 1 .. n : FrameOK(a, d)
      /\ \A d, e \in 1 .. n : Apart(a, d, e)
      /\ \A d \in 1 .. n : FrameWords(a, m, d)
  BY <1>1 DEF StackOK
<1>5. ASSUME NEW d \in 1 .. n
      PROVE  Entry(b, d) = Entry(a, d) /\ Below(b, d) = Below(a, d)
  <2>1. d # 1 => d - 1 \in 1 .. n /\ d - 1 # n
    BY <1>2
  <2>2. d # 1 => b[d - 1] = a[d - 1]
    BY <1>3, <2>1
  <2> QED BY <2>2 DEF Entry, Below
<1>6. ASSUME NEW d \in 1 .. n, d # n
      PROVE  /\ d < n /\ d + 1 \in 1 .. n /\ b[d] = a[d]
             /\ b[d + 1].args = a[d + 1].args /\ b[d + 1].ret = a[d + 1].ret
  <2>1. d < n /\ d + 1 \in 1 .. n
    BY <1>2, <1>6
  <2> QED BY <1>1, <1>3, <1>6, <2>1
<1>7. Entry(a, n) \in Int /\ Entry(a, n) % 8 = 0
  BY <1>1, <1>2, <1>4, EntryIs
<1>8. /\ g.rbp \in Int /\ g.rbp % 8 = 0 /\ g.rbp = Entry(a, n) - 8 /\ g.received = 0
      /\ Len(g.args) \in Nat
  <2>1. g.received = 0
    BY <1>1, <1>2, <1>4 DEF FrameOK
  <2>2. g.args \in Seq(Classes)
    BY DEF Frames
  <2> QED BY <1>1, <1>7, <2>1, <2>2
<1>9. b[n] = g
  BY <1>2, <1>3
<1>10. ASSUME NEW d \in 1 .. n, d # n
       PROVE  g.rbp + 16 =< Base(a[d]) /\ g.rbp + 16 =< Entry(a, d)
  <2>1. n - 1 \in 1 .. n /\ n - 1 # n /\ n # 1 /\ d \in 1 .. n - 1
    BY <1>2, <1>10
  <2>2. a[n - 1].phase # "prologue"
    <3>1. n - 1 < n
      BY <1>2
    <3> QED BY <1>1, <1>4, <2>1, <3>1 DEF FrameOK
  <2>3. /\ Base(a[n - 1]) \in Int /\ Base(a[d]) \in Int
        /\ Base(a[n - 1]) =< Base(a[d])
        /\ Base(a[n - 1]) =< Entry(a, d)
    BY <1>1, <1>4, <2>1, <2>2, NothingBelow
  <2>4. a[n - 1] \in Frames
    BY <1>1, <2>1, FrameType
  <2>5. PICK L, pad : /\ L \in Nat /\ pad \in {0, 8}
                      /\ CallEntry(a[n - 1]) = Base(a[n - 1]) - 8 * L - pad - 8
    BY <2>4, CallEntryIs
  <2>6. Entry(a, n) = CallEntry(a[n - 1])
    BY <2>1 DEF Entry
  <2>7. g.rbp + 16 =< Base(a[n - 1])
    BY <1>8, <2>3, <2>5, <2>6
  <2>8. Entry(a, d) \in Int
    BY <1>1, <1>4, EntryIs
  <2> QED BY <1>8, <2>3, <2>7, <2>8
<1>11. ASSUME NEW d \in 1 .. n
       PROVE  FrameOK(b, d)
  <2>1. CASE d = n
    <3>1. FrameOK(a, n) /\ Entry(b, n) = Entry(a, n)
      BY <1>2, <1>4, <1>5
    <3>2. /\ g.rbp % BYTES_PER_PUSH = 0
          /\ g.received =< Len(g.args)
          /\ g.rbp = Entry(b, n) - BYTES_PER_PUSH
      BY <1>8, <3>1 DEF BYTES_PER_PUSH
    <3>3. n = 1 => g.args = <<>>
      BY <1>1, <3>1 DEF FrameOK
    <3>4. ~ n < Len(b)
      BY <1>2, <1>3
    <3> QED BY <1>9, <2>1, <3>2, <3>3, <3>4 DEF FrameOK
  <2>2. CASE d # n
    <3>1. FrameOK(a, d)
      BY <1>4
    <3>2. Entry(b, d) = Entry(a, d)
      BY <1>5
    <3> QED BY <1>1, <1>3, <1>6, <2>2, <3>1, <3>2 DEF FrameOK
  <2> QED BY <2>1, <2>2
<1>12. ASSUME NEW d \in 1 .. n, NEW e \in 1 .. n
       PROVE  Apart(b, d, e)
  <2>1. CASE d < e
    <3>1. d # n /\ b[d] = a[d]
      BY <1>2, <1>6, <2>1
    <3>2. CASE e = n
      <4>1. g.rbp + 16 =< Base(a[d])
        BY <1>10, <3>1
      <4> QED BY <1>9, <3>1, <3>2, <4>1 DEF Apart, BYTES_PER_PUSH
    <3>3. CASE e # n
      <4>1. b[e] = a[e] /\ Apart(a, d, e)
        BY <1>4, <1>6, <3>3
      <4> QED BY <3>1, <4>1 DEF Apart
    <3> QED BY <3>2, <3>3
  <2> QED BY <2>1 DEF Apart
<1>13. \A x \in Int : x # g.rbp => WordIn(p, x) = WordIn(m, x)
  BY <1>1, StoredIs
<1>14. WordIn(p, g.rbp) = <<"rbp", Below(a, n), 0>>
  BY <1>1, StoredIs
<1>15. ASSUME NEW d \in 1 .. n, d # n
       PROVE  FrameWords(b, p, d)
  <2>1. FrameWords(a, m, d)
    BY <1>4
  <2>2. FrameWords(a, p, d)
    <3>1. PICK low : low = g.rbp + 16
      OBVIOUS
    <3>2. low \in Int /\ low =< Base(a[d]) /\ low =< Entry(a, d)
      BY <1>8, <1>10, <1>15, <3>1
    <3>3. \A x \in Int : x >= low => WordIn(p, x) = WordIn(m, x)
      BY <1>8, <1>13, <3>1
    <3> QED BY <1>1, <1>4, <2>1, <3>2, <3>3, KeepFrame
  <2> QED BY <1>5, <1>6, <1>15, <2>2 DEF FrameWords
<1>16. FrameWords(b, p, n)
  <2>1. FrameWords(a, m, n)
    BY <1>1, <1>2, <1>4
  <2>2. FrameWords(a, p, n)
    <3>1. \A x \in Int : x >= Entry(a, n) => WordIn(p, x) = WordIn(m, x)
      BY <1>7, <1>8, <1>13
    <3>2. Entry(a, n) =< Entry(a, n)
      BY <1>7
    <3> QED BY <1>1, <1>2, <1>4, <1>7, <2>1, <3>1, <3>2, KeepFrame
  <2>3. Entry(b, n) = Entry(a, n) /\ Below(b, n) = Below(a, n)
    BY <1>1, <1>2, <1>5
  <2>4. \A i \in 1 .. g.received : FALSE
    BY <1>8
  <2> QED BY <1>1, <1>9, <1>14, <2>2, <2>3, <2>4 DEF FrameWords
<1>17. StackOK(b, p)
  BY <1>3, <1>11, <1>12, <1>15, <1>16 DEF StackOK
<1> QED BY <1>1, <1>3, <1>9, <1>17

\* A parameter is stored in its slot.
LEMMA ReceiveStack ==
  ASSUME NEW a \in Seq(Frames), NEW m, NEW g \in Frames, a # <<>>, StackOK(a, m),
         a[Len(a)].phase = "params", g.phase = "params",
         g.rbp = a[Len(a)].rbp, g.args = a[Len(a)].args, g.ret = a[Len(a)].ret,
         g.received = a[Len(a)].received + 1, g.received =< Len(g.args)
  PROVE  LET b == [a EXCEPT ![Len(a)] = g]
         IN  /\ StackOK(b, StoredIn(m, Slot(g, g.received), Argument(Len(a), g.received)))
             /\ b \in Seq(Frames) /\ Len(b) = Len(a) /\ b[Len(a)] = g
<1>1. PICK n, b, f : n = Len(a) /\ b = [a EXCEPT ![Len(a)] = g] /\ f = a[n]
  OBVIOUS
<1>2. n \in Nat /\ n \in 1 .. Len(a)
  BY <1>1, EmptySeq
<1>3. /\ b \in Seq(Frames) /\ Len(b) = n
      /\ \A d \in 1 .. n : b[d] = IF d = n THEN g ELSE a[d]
  BY <1>1, <1>2, ExceptSeq
<1>4. /\ \A d \in 1 .. n : FrameOK(a, d)
      /\ \A d, e \in 1 .. n : Apart(a, d, e)
      /\ \A d \in 1 .. n : FrameWords(a, m, d)
  BY <1>1 DEF StackOK
<1>5. /\ f \in Frames /\ f.received \in Nat /\ f.rbp \in Int
      /\ Len(f.args) \in Nat /\ g.received \in 1 .. Len(f.args) /\ g.received \in Nat
  BY <1>1, <1>2, FrameType
<1>6. PICK x, p : /\ x = Slot(g, g.received)
                  /\ p = StoredIn(m, x, Argument(n, g.received))
  OBVIOUS
<1>7. ASSUME NEW d \in 1 .. n
      PROVE  /\ b[d].rbp = a[d].rbp /\ b[d].args = a[d].args /\ b[d].ret = a[d].ret
             /\ b[d].phase = a[d].phase
             /\ Base(b[d]) = Base(a[d])
             /\ \A i : Slot(b[d], i) = Slot(a[d], i)
             /\ Entry(b, d) = Entry(a, d) /\ Below(b, d) = Below(a, d)
             /\ d # n => b[d] = a[d] /\ d < n
  <2>1. /\ b[d].rbp = a[d].rbp /\ b[d].args = a[d].args /\ b[d].ret = a[d].ret
        /\ b[d].phase = a[d].phase
    BY <1>1, <1>3
  <2>2. Base(b[d]) = Base(a[d]) /\ \A i : Slot(b[d], i) = Slot(a[d], i)
    BY <2>1, SameFrame
  <2>3. d # 1 => d - 1 \in 1 .. n /\ d - 1 # n
    BY <1>2
  <2>4. d # 1 => b[d - 1] = a[d - 1]
    BY <1>3, <2>3
  <2>5. d # n => b[d] = a[d] /\ d < n
    BY <1>2, <1>3
  <2> QED BY <2>1, <2>2, <2>4, <2>5 DEF Entry, Below
<1>8. x \in Int /\ x < f.rbp /\ x = f.rbp - 8 * g.received
  <2>1. x = Slot(f, g.received)
    BY <1>1, <1>6, SameFrame
  <2> QED BY <1>5, <2>1, SlotIs
<1>9. ASSUME NEW d \in 1 .. n
      PROVE  FrameOK(b, d)
  <2>1. FrameOK(a, d)
    BY <1>4
  <2>2. CASE d = n
    <3>1. b[d] = g
      BY <1>3, <2>2
    <3>2. g.phase = "params" /\ g.received =< Len(g.args)
      OBVIOUS
    <3> QED BY <1>3, <1>7, <2>1, <2>2, <3>1, <3>2 DEF FrameOK
  <2>3. CASE d # n
    <3>1. d + 1 \in 1 .. n
      BY <1>2, <2>3
    <3>2. b[d + 1].args = a[d + 1].args /\ b[d + 1].ret = a[d + 1].ret
      BY <1>7, <3>1
    <3>3. b[d] = a[d] /\ Entry(b, d) = Entry(a, d)
      BY <1>7, <2>3
    <3> QED BY <1>1, <1>3, <2>1, <3>2, <3>3 DEF FrameOK
  <2> QED BY <2>2, <2>3
<1>10. ASSUME NEW d \in 1 .. n, NEW e \in 1 .. n
       PROVE  Apart(b, d, e)
  <2>1. /\ Apart(a, d, e) /\ Base(b[d]) = Base(a[d]) /\ b[e].rbp = a[e].rbp
        /\ b[e].phase = a[e].phase
    BY <1>4, <1>7
  <2> QED BY <2>1 DEF Apart
<1>11. \A y : y # x => WordIn(p, y) = WordIn(m, y)
  BY <1>6, StoredIs
<1>12. WordIn(p, x) = Argument(n, g.received)
  BY <1>6, StoredIs
<1>13. ASSUME NEW d \in 1 .. n, d # n
       PROVE  FrameWords(b, p, d)
  <2>1. FrameWords(a, m, d)
    BY <1>4
  <2>2. n - 1 \in 1 .. n /\ n - 1 < n /\ d \in 1 .. n - 1
    BY <1>2, <1>13
  <2>3. a[n - 1].phase # "prologue"
    BY <1>1, <1>4, <2>2 DEF FrameOK
  <2>4. /\ Base(a[n - 1]) \in Int
        /\ Base(a[n - 1]) =< Base(a[d]) /\ Base(a[n - 1]) =< Entry(a, d)
    BY <1>1, <1>4, <2>2, <2>3, NothingBelow
  <2>5. Apart(a, n - 1, n)
    BY <1>2, <1>4, <2>2
  <2>6. f.rbp + 16 =< Base(a[n - 1])
    BY <1>1, <2>2, <2>5 DEF Apart, BYTES_PER_PUSH
  <2>7. \A y \in Int : y >= Base(a[n - 1]) => WordIn(p, y) = WordIn(m, y)
    BY <1>5, <1>8, <1>11, <2>4, <2>6
  <2>8. FrameWords(a, p, d)
    BY <1>1, <1>4, <2>1, <2>4, <2>7, KeepFrame
  <2> QED BY <1>7, <1>13, <2>8 DEF FrameWords
<1>14. FrameWords(b, p, n)
  <2>1. FrameWords(a, m, n) /\ FrameOK(a, n) /\ b[n] = g
    BY <1>1, <1>2, <1>3, <1>4
  <2>2. Entry(b, n) = Entry(a, n) /\ Below(b, n) = Below(a, n) /\ Entry(a, n) \in Int
    BY <1>1, <1>2, <1>4, <1>7, EntryIs
  <2>3. f.rbp = Entry(a, n) - 8
    BY <1>1, <2>1 DEF FrameOK, BYTES_PER_PUSH
  <2>4. ASSUME NEW k \in Nat
        PROVE  WordIn(p, Entry(a, n) + 8 * k) = WordIn(m, Entry(a, n) + 8 * k)
    <3>1. Entry(a, n) + 8 * k # x
      BY <1>5, <1>8, <2>2, <2>3
    <3> QED BY <1>11, <3>1
  <2>5. Len(SetAside(f.args)) \in Nat
    <3>1. f.args \in Seq(Classes)
      BY <1>5 DEF Frames
    <3> QED BY <3>1, SizesType
  <2>6. \A k \in 1 .. Len(SetAside(f.args)) :
          WordIn(p, Entry(a, n) + 8 * k) = WordIn(m, Entry(a, n) + 8 * k)
    BY <2>4, <2>5
  <2>7. WordIn(p, Entry(a, n)) = WordIn(m, Entry(a, n))
    <3>1. Entry(a, n) # x
      BY <1>5, <1>8, <2>2, <2>3
    <3> QED BY <1>11, <3>1
  <2>8. WordIn(p, f.rbp) = WordIn(m, f.rbp)
    <3>1. f.rbp # x
      BY <1>5, <1>8
    <3> QED BY <1>11, <3>1
  <2>9. ASSUME NEW i \in 1 .. g.received
        PROVE  WordIn(p, Slot(g, i)) = Argument(n, i)
    <3>1. CASE i = g.received
      BY <1>6, <1>12, <3>1
    <3>2. CASE i # g.received
      <4>1. i \in 1 .. f.received
        BY <1>1, <1>5, <3>2
      <4>2. Slot(g, i) = Slot(f, i) /\ i \in 1 .. Len(f.args)
        BY <1>1, <1>5, SameFrame
      <4>3. Slot(f, i) = f.rbp - 8 * i
        BY <1>5, <4>2, SlotIs
      <4>4. Slot(g, i) # x
        BY <1>5, <1>8, <3>2, <4>2, <4>3
      <4> QED BY <1>1, <1>11, <2>1, <4>1, <4>2, <4>4 DEF FrameWords
    <3> QED BY <3>1, <3>2
  <2>10. ASSUME n > 1
         PROVE  /\ WordIn(p, Entry(a, n)) = <<"return", n - 1, 0>>
                /\ \A k \in 1 .. Len(SetAside(f.args)) :
                     WordIn(p, Entry(a, n) + BYTES_PER_PUSH * k) = Argument(n, SetAside(f.args)[k])
    BY <1>1, <2>1, <2>6, <2>7, <2>10 DEF FrameWords, BYTES_PER_PUSH
  <2>11. WordIn(p, f.rbp) = <<"rbp", Below(a, n), 0>>
    BY <1>1, <2>1, <2>8 DEF FrameWords
  <2>12. g.rbp = f.rbp /\ g.args = f.args
    BY <1>1
  <2> QED BY <2>1, <2>2, <2>9, <2>10, <2>11, <2>12 DEF FrameWords
<1>15. StackOK(b, p)
  BY <1>3, <1>9, <1>10, <1>13, <1>14 DEF StackOK
<1> QED BY <1>1, <1>2, <1>3, <1>6, <1>15

LEMMA EnteredType ==
  ASSUME NEW args \in Seq(Classes), NEW ret \in Returns
  PROVE  Entered(args, ret) \in Frames
<1>1. <<>> \in Seq(Instr) /\ <<>> \in Seq(Classes)
  BY EmptySeq
<1>2. "void" \in Returns /\ Nothing \in Value
  BY DEF Returns, Value
<1> QED BY <1>1, <1>2 DEF Entered, Frames

\* The callee finds its return address and the arguments set aside for it.
LEMMA CallStack ==
  ASSUME NEW a \in Seq(Frames), NEW m, a # <<>>, StackOK(a, m),
         a[Len(a)].phase = "calling",
         a[Len(a)].code = AfterCall(a[Len(a)].callee, a[Len(a)].returns),
         Pushed(a[Len(a)], Len(a) + 1, m, 0)
  PROVE  LET b == Append(a, Entered(a[Len(a)].callee, a[Len(a)].returns))
         IN  /\ StackOK(b, StoredIn(m, CallEntry(a[Len(a)]), <<"return", Len(a), 0>>))
             /\ b \in Seq(Frames) /\ Len(b) = Len(a) + 1
             /\ b[Len(a)] = a[Len(a)]
             /\ b[Len(a) + 1] = Entered(a[Len(a)].callee, a[Len(a)].returns)
             /\ Entry(b, Len(a) + 1) = CallEntry(a[Len(a)])
             /\ Below(b, Len(a) + 1) = a[Len(a)].rbp
<1>1. PICK n, e, b, f, x, p :
        /\ n = Len(a) /\ f = a[n] /\ e = Entered(f.callee, f.returns) /\ b = Append(a, e)
        /\ x = CallEntry(f) /\ p = StoredIn(m, x, <<"return", n, 0>>)
  OBVIOUS
<1>2. n \in Nat /\ n \in 1 .. Len(a) /\ n + 1 # 1
  BY <1>1, EmptySeq
<1>3. f \in Frames /\ f.callee \in Seq(Classes) /\ f.returns \in Returns
  BY <1>1, <1>2, FrameType
<1>4. e \in Frames
  BY <1>1, <1>3, EnteredType
<1>5. /\ b \in Seq(Frames) /\ Len(b) = n + 1 /\ b[n + 1] = e
      /\ \A d \in 1 .. n : b[d] = a[d]
  BY <1>1, <1>4, AppendProperties
<1>6. /\ \A d \in 1 .. n : FrameOK(a, d)
      /\ \A c, d \in 1 .. n : Apart(a, c, d)
      /\ \A d \in 1 .. n : FrameWords(a, m, d)
  BY <1>1 DEF StackOK
<1>7. /\ e.args = f.callee /\ e.ret = f.returns /\ e.received = 0 /\ e.rbp = 0
      /\ e.phase = "prologue"
  BY <1>1 DEF Entered
<1>8. ASSUME NEW d \in 1 .. n
      PROVE  Entry(b, d) = Entry(a, d) /\ Below(b, d) = Below(a, d)
  <2>1. d # 1 => d - 1 \in 1 .. n
    BY <1>2
  <2>2. d # 1 => b[d - 1] = a[d - 1]
    BY <1>5, <2>1
  <2> QED BY <2>2 DEF Entry, Below
<1>9. Entry(b, n + 1) = x /\ Below(b, n + 1) = f.rbp
  <2>1. (n + 1) - 1 = n /\ b[n] = f
    BY <1>1, <1>2, <1>5
  <2> QED BY <1>1, <1>2, <2>1 DEF Entry, Below
<1>10. Len(e.args) \in Nat
  BY <1>3, <1>7
<1>11. ASSUME NEW d \in 1 .. n
       PROVE  FrameOK(b, d)
  <2>1. FrameOK(a, d) /\ b[d] = a[d] /\ Entry(b, d) = Entry(a, d)
    BY <1>5, <1>6, <1>8
  <2>2. CASE d = n
    <3>1. b[n] = f /\ b[n + 1] = e
      BY <1>1, <1>2, <1>5
    <3>2. /\ f.phase = "calling" /\ f.code = AfterCall(f.callee, f.returns)
      BY <1>1
    <3> QED BY <1>7, <2>1, <2>2, <3>1, <3>2 DEF FrameOK
  <2>3. CASE d # n
    <3>1. d < Len(a) /\ b[d + 1] = a[d + 1]
      BY <1>1, <1>2, <1>5, <2>3
    <3> QED BY <2>1, <3>1 DEF FrameOK
  <2> QED BY <2>2, <2>3
<1>12. FrameOK(b, n + 1)
  <2>1. ~ n + 1 < Len(b)
    BY <1>2, <1>5
  <2>2. 0 % BYTES_PER_PUSH = 0 /\ 0 =< Len(e.args)
    BY <1>10 DEF BYTES_PER_PUSH
  <2> QED BY <1>2, <1>5, <1>7, <2>1, <2>2 DEF FrameOK
<1>13. ASSUME NEW c \in 1 .. n + 1, NEW d \in 1 .. n + 1
       PROVE  Apart(b, c, d)
  <2>1. CASE d = n + 1
    BY <1>5, <1>7, <2>1 DEF Apart
  <2>2. CASE d # n + 1 /\ c < d
    <3>1. c \in 1 .. n /\ d \in 1 .. n
      BY <1>2, <2>2
    <3>2. Apart(a, c, d) /\ b[c] = a[c] /\ b[d] = a[d]
      BY <1>5, <1>6, <3>1
    <3> QED BY <3>2 DEF Apart
  <2>3. CASE ~ c < d
    BY <2>3 DEF Apart
  <2> QED BY <2>1, <2>2, <2>3
<1>14. \A y : y # x => WordIn(p, y) = WordIn(m, y)
  BY <1>1, StoredIs
<1>15. WordIn(p, x) = <<"return", n, 0>>
  BY <1>1, StoredIs
<1>16. PICK L, pad : /\ L = Len(SetAside(f.callee)) /\ pad = Padding(f.callee)
  OBVIOUS
<1>17. /\ L \in Nat /\ pad \in {0, 8} /\ x \in Int
       /\ x = Base(f) - 8 * L - pad - 8 /\ Base(f) \in Int
  BY <1>1, <1>3, <1>16, CallEntryIs, FrameBytesIs
<1>18. ASSUME NEW d \in 1 .. n
       PROVE  FrameWords(b, p, d)
  <2>1. FrameWords(a, m, d)
    BY <1>6
  <2>2. Base(f) =< Base(a[d]) /\ Base(f) =< Entry(a, d)
    <3>1. a[n].phase # "prologue"
      BY <1>1
    <3> QED BY <1>1, <1>2, <1>6, <3>1, NothingBelow
  <2>3. \A y \in Int : y >= Base(f) => WordIn(p, y) = WordIn(m, y)
    BY <1>14, <1>17
  <2>4. FrameWords(a, p, d)
    BY <1>1, <1>6, <1>17, <2>1, <2>2, <2>3, KeepFrame
  <2>5. b[d] = a[d] /\ Entry(b, d) = Entry(a, d) /\ Below(b, d) = Below(a, d)
    BY <1>5, <1>8
  <2> QED BY <2>4, <2>5 DEF FrameWords
<1>19. FrameWords(b, p, n + 1)
  <2>1. ASSUME NEW k \in 1 .. L
        PROVE  WordIn(p, x + BYTES_PER_PUSH * k) = Argument(n + 1, SetAside(f.callee)[k])
    <3>1. x + 8 * k # x /\ k \in 0 + 1 .. L
      BY <1>17
    <3>2. WordIn(m, x + BYTES_PER_PUSH * k) = Argument(n + 1, SetAside(f.callee)[k])
      BY <1>1, <1>16, <3>1 DEF Pushed
    <3> QED BY <1>14, <3>1, <3>2 DEF BYTES_PER_PUSH
  <2>2. (n + 1) - 1 = n
    BY <1>2
  <2>3. \A i \in 1 .. e.received : FALSE
    BY <1>7
  <2> QED BY <1>5, <1>7, <1>9, <1>15, <1>16, <2>1, <2>2, <2>3 DEF FrameWords
<1>20. ASSUME NEW d \in 1 .. n + 1
       PROVE  FrameOK(b, d) /\ FrameWords(b, p, d)
  <2>1. d = n + 1 \/ d \in 1 .. n
    BY <1>2
  <2> QED BY <1>11, <1>12, <1>18, <1>19, <2>1
<1>21. StackOK(b, p)
  BY <1>5, <1>13, <1>20 DEF StackOK
<1> QED BY <1>1, <1>2, <1>5, <1>9, <1>21

\* The function g returns to f, its caller; p is what is left of the stack.
Resumes(a, m, p, b, f, g) ==
  /\ StackOK(b, p)
  /\ b \in Seq(Frames) /\ Len(b) = Len(a) - 1 /\ b[Len(a) - 1] = f
  /\ f.phase = "calling" /\ f.code = AfterCall(f.callee, f.returns)
  /\ f.returns = g.ret
  /\ g.rbp = CallEntry(f) - 8
  /\ WordIn(m, g.rbp) = <<"rbp", f.rbp, 0>>
  /\ WordIn(m, g.rbp + 8) = <<"return", Len(a) - 1, 0>>

\* The caller gets back the stack as it left it.
LEMMA ReturnStack ==
  ASSUME NEW a \in Seq(Frames), NEW m, NEW p, Len(a) > 1,
         StackOK(a, m), a[Len(a)].phase # "prologue",
         \A y \in Int : y >= a[Len(a)].rbp + 16 => WordIn(p, y) = WordIn(m, y)
  PROVE  Resumes(a, m, p, SubSeq(a, 1, Len(a) - 1), a[Len(a) - 1], a[Len(a)])
<1>1. PICK n, b, f, g : /\ n = Len(a) /\ b = SubSeq(a, 1, n - 1)
                        /\ f = a[n - 1] /\ g = a[n]
  OBVIOUS
<1>2. n \in Nat /\ n > 1 /\ n \in 1 .. Len(a) /\ n - 1 \in 1 .. Len(a)
  BY <1>1
<1>3. b \in Seq(Frames) /\ Len(b) = n - 1 /\ \A d \in 1 .. n - 1 : b[d] = a[d]
  <2>1. \A d \in 1 .. n - 1 : a[d] \in Frames
    BY <1>1, <1>2
  <2>2. /\ b \in Seq(Frames) /\ Len(b) = n - 1
        /\ \A d \in 1 .. (n - 1) - 1 + 1 : b[d] = a[1 + d - 1]
    <3>1. 1 \in Int /\ n - 1 \in Int /\ 1 <= n - 1 /\ (n - 1) - 1 + 1 = n - 1
      BY <1>2
    <3> QED BY <1>1, <2>1, <3>1, SubSeqProperties
  <2>3. \A d \in 1 .. n - 1 : 1 + d - 1 = d /\ d \in 1 .. (n - 1) - 1 + 1
    BY <1>2
  <2> QED BY <2>2, <2>3
<1>4. /\ \A d \in 1 .. n : FrameOK(a, d)
      /\ \A c, d \in 1 .. n : Apart(a, c, d)
      /\ \A d \in 1 .. n : FrameWords(a, m, d)
  BY <1>1 DEF StackOK
<1>5. f \in Frames /\ g \in Frames /\ f.rbp \in Int /\ g.rbp \in Int
  BY <1>1, <1>2, FrameType
<1>6. ASSUME NEW d \in 1 .. n - 1
      PROVE  /\ d \in 1 .. n /\ d < n /\ b[d] = a[d]
             /\ Entry(b, d) = Entry(a, d) /\ Below(b, d) = Below(a, d)
  <2>1. d \in 1 .. n /\ d < n
    BY <1>2
  <2>2. d # 1 => d - 1 \in 1 .. n - 1
    BY <1>2
  <2>3. d # 1 => b[d - 1] = a[d - 1]
    BY <1>3, <2>2
  <2> QED BY <1>3, <2>1, <2>3 DEF Entry, Below
<1>7. /\ f.phase = "calling" /\ f.code = AfterCall(f.callee, f.returns)
      /\ f.returns = g.ret
  <2>1. FrameOK(a, n - 1) /\ n - 1 < Len(a) /\ (n - 1) + 1 = n
    BY <1>1, <1>2, <1>4
  <2> QED BY <1>1, <2>1 DEF FrameOK
<1>8. g.rbp + 16 =< Base(f) /\ Base(f) \in Int
  <2>1. Apart(a, n - 1, n) /\ n - 1 < n
    BY <1>1, <1>2, <1>4
  <2> QED BY <1>1, <1>5, <2>1, FrameBytesIs DEF Apart, BYTES_PER_PUSH
<1>9. Entry(a, n) = CallEntry(f) /\ Below(a, n) = f.rbp /\ CallEntry(f) \in Int
  <2>1. n # 1
    BY <1>2
  <2>2. Entry(a, n) = CallEntry(f) /\ Below(a, n) = f.rbp
    BY <1>1, <2>1 DEF Entry, Below
  <2>3. CallEntry(f) \in Int
    BY <1>5, CallEntryIs
  <2> QED BY <2>2, <2>3
<1>10. g.rbp = CallEntry(f) - 8
  <2>1. FrameOK(a, n)
    BY <1>1, <1>2, <1>4
  <2> QED BY <1>1, <1>9, <2>1 DEF FrameOK, BYTES_PER_PUSH
<1>11. /\ WordIn(m, g.rbp) = <<"rbp", f.rbp, 0>>
       /\ WordIn(m, g.rbp + 8) = <<"return", n - 1, 0>>
  <2>1. FrameWords(a, m, n)
    BY <1>1, <1>2, <1>4
  <2>2. g.rbp + 8 = Entry(a, n)
    BY <1>9, <1>10
  <2> QED BY <1>1, <1>2, <1>9, <2>1, <2>2 DEF FrameWords
<1>12. ASSUME NEW d \in 1 .. n - 1
       PROVE  FrameOK(b, d)
  <2>1. FrameOK(a, d) /\ b[d] = a[d] /\ Entry(b, d) = Entry(a, d)
    BY <1>4, <1>6
  <2>2. d < Len(b) => d < Len(a) /\ b[d + 1] = a[d + 1]
    <3>1. d < Len(b) => d + 1 \in 1 .. n - 1
      BY <1>2, <1>3
    <3> QED BY <1>1, <1>3, <1>6, <3>1
  <2> QED BY <2>1, <2>2 DEF FrameOK
<1>13. ASSUME NEW c \in 1 .. n - 1, NEW d \in 1 .. n - 1
       PROVE  Apart(b, c, d)
  <2>1. Apart(a, c, d) /\ b[c] = a[c] /\ b[d] = a[d]
    BY <1>4, <1>6
  <2> QED BY <2>1 DEF Apart
<1>14. ASSUME NEW d \in 1 .. n - 1
       PROVE  FrameWords(b, p, d)
  <2>1. FrameWords(a, m, d) /\ d \in 1 .. Len(a)
    BY <1>1, <1>4, <1>6
  <2>2. Base(f) =< Base(a[d]) /\ Base(f) =< Entry(a, d)
    <3>1. a[n - 1].phase # "prologue"
      BY <1>1, <1>7
    <3> QED BY <1>1, <1>2, <1>4, <3>1, NothingBelow
  <2>3. \A y \in Int : y >= Base(f) => WordIn(p, y) = WordIn(m, y)
    BY <1>1, <1>5, <1>8
  <2>4. FrameWords(a, p, d)
    BY <1>1, <1>4, <1>8, <2>1, <2>2, <2>3, KeepFrame
  <2> QED BY <1>6, <2>4 DEF FrameWords
<1>15. StackOK(b, p)
  BY <1>3, <1>12, <1>13, <1>14 DEF StackOK
<1>16. Resumes(a, m, p, b, f, g)
  BY <1>1, <1>2, <1>3, <1>7, <1>10, <1>11, <1>15 DEF Resumes
<1> QED BY <1>1, <1>16

LEMMA StoredType ==
  ASSUME NEW m, NEW x \in Int, x % 8 = 0, NEW v \in Value,
         \A y \in DOMAIN m : y % 8 = 0 /\ m[y] \in Value
  PROVE  \A y \in DOMAIN StoredIn(m, x, v) :
           y % 8 = 0 /\ StoredIn(m, x, v)[y] \in Value
BY DEF StoredIn

LEMMA AboveType ==
  ASSUME NEW m, NEW x, \A y \in DOMAIN m : y % 8 = 0 /\ m[y] \in Value
  PROVE  \A y \in DOMAIN Above(m, x) : y % 8 = 0 /\ Above(m, x)[y] \in Value
BY DEF Above

LEMMA WordType ==
  ASSUME NEW m, NEW x, \A y \in DOMAIN m : y % 8 = 0 /\ m[y] \in Value
  PROVE  WordIn(m, x) \in Value
BY DEF WordIn, Value

LEMMA ValueType ==
  ASSUME NEW i \in Int, NEW j \in Int
  PROVE  /\ Argument(i, j) \in Value /\ Result(i) \in Value /\ Nothing \in Value
         /\ <<"rbp", i, 0>> \in Value /\ <<"return", i, 0>> \in Value
BY DEF Argument, Result, Value

(***************************************************************************)
(* The steps of a call.                                                    *)
(***************************************************************************)
\* g is f after one instruction.
After(f, g) ==
  /\ g.rbp = f.rbp /\ g.args = f.args /\ g.ret = f.ret /\ g.received = f.received
  /\ g.phase = f.phase /\ g.callee = f.callee /\ g.returns = f.returns
  /\ g.code = Tail(f.code)

LEMMA AfterFrame ==
  ASSUME NEW f, NEW g, After(f, g)
  PROVE  /\ Base(g) = Base(f) /\ CallEntry(g) = CallEntry(f)
         /\ \A d, m, k : Pushed(g, d, m, k) <=> Pushed(f, d, m, k)
<1>1. /\ g.rbp = f.rbp /\ g.args = f.args /\ g.callee = f.callee
  BY DEF After
<1>2. Base(g) = Base(f) /\ CallEntry(g) = CallEntry(f)
  BY <1>1, SameFrame
<1> QED BY <1>1, <1>2 DEF Pushed

LEMMA StepSubq ==
  ASSUME NEW f \in Frames, NEW g \in Frames, After(f, g),
         NEW d, NEW r, NEW sp, NEW m, NextSubq(f, sp)
  PROVE  Calling(g, d, r, sp - Padding(f.callee), m)
<1>1. /\ g.callee = f.callee /\ g.returns = f.returns /\ Base(g) = Base(f)
      /\ g.code = FromMove(f.callee, f.returns, 0)
      /\ sp = Base(f)
  BY AfterFrame DEF After, NextSubq
<1>2. Moved(g.callee, d, r, 0)
  BY DEF Moved
<1>3. AtMove(g, d, r, sp - Padding(f.callee), 0)
  BY <1>1, <1>2 DEF AtMove
<1>4. 0 \in 0 .. Len(Moves(g.callee))
  <2>1. g.callee \in Seq(Classes)
    BY DEF Frames
  <2> QED BY <2>1, PlacingIs
<1> QED BY <1>3, <1>4 DEF Calling

LEMMA StepMove ==
  ASSUME NEW f \in Frames, NEW g \in Frames, After(f, g),
         NEW d, NEW r \in [Regs -> Value], NEW sp, NEW m,
         NEW n \in 0 .. Len(Moves(f.callee)) - 1, NextMove(f, d, r, sp, n)
  PROVE  /\ Head(f.code) \in Instr
         /\ Calling(g, d, [r EXCEPT ![Head(f.code).reg] = Argument(d, Head(f.code).n)], sp, m)
<1>1. /\ g.callee = f.callee /\ g.returns = f.returns /\ Base(g) = Base(f)
      /\ g.code = FromMove(f.callee, f.returns, n + 1)
      /\ sp = Base(f) - Padding(f.callee) /\ Moved(f.callee, d, r, n)
      /\ Head(f.code) = Moves(f.callee)[n + 1]
  BY AfterFrame DEF After, NextMove
<1>2. PICK M, h, q : /\ M = Moves(f.callee) /\ h = M[n + 1]
                     /\ q = [r EXCEPT ![h.reg] = Argument(d, h.n)]
  OBVIOUS
<1>3. /\ M \in Seq(Instr) /\ Len(M) \in Nat
      /\ \A j \in 1 .. Len(M) : M[j] \in Instr
      /\ \A i, j \in 1 .. Len(M) : i # j => M[i].reg # M[j].reg
  <2>1. f.callee \in Seq(Classes)
    BY DEF Frames
  <2>2. M \in Seq(Instr) /\ Len(M) \in Nat
    BY <1>2, <2>1, PlacingIs
  <2>3. \A j \in 1 .. Len(M) : M[j] \in Instr
    BY <1>2, <2>1, PlacingIs
  <2>4. \A i, j \in 1 .. Len(M) : i # j => M[i].reg # M[j].reg
    BY <1>2, <2>1, PlacingIs
  <2> QED BY <2>2, <2>3, <2>4
<1>4. n + 1 \in 1 .. Len(M) /\ n + 1 \in 0 .. Len(M) /\ n \in Nat
  BY <1>2, <1>3
<1>5. h \in Instr /\ h.reg \in Regs
  BY <1>2, <1>3, <1>4 DEF Instr
<1>6. ASSUME NEW j \in 1 .. n + 1
      PROVE  q[M[j].reg] = Argument(d, M[j].n)
  <2>1. j \in 1 .. Len(M)
    BY <1>4
  <2>2. M[j].reg \in Regs
    BY <1>3, <2>1 DEF Instr
  <2>3. CASE j = n + 1
    BY <1>2, <1>5, <2>3
  <2>4. CASE j # n + 1
    <3>1. j \in 1 .. n
      BY <1>4, <2>4
    <3>2. r[M[j].reg] = Argument(d, M[j].n)
      BY <1>1, <1>2, <3>1 DEF Moved
    <3>3. M[j].reg # h.reg
      BY <1>2, <1>3, <1>4, <2>1, <2>4
    <3> QED BY <1>2, <2>2, <3>2, <3>3
  <2> QED BY <2>3, <2>4
<1>7. Moved(g.callee, d, q, n + 1)
  BY <1>1, <1>2, <1>6 DEF Moved
<1>8. AtMove(g, d, q, sp, n + 1)
  BY <1>1, <1>7 DEF AtMove
<1> QED BY <1>1, <1>2, <1>4, <1>5, <1>8 DEF Calling

LEMMA StepMoveRax ==
  ASSUME NEW f \in Frames, NEW g \in Frames, After(f, g),
         NEW d, NEW r \in [Regs -> Value], NEW sp, NEW m,
         NEW k \in 1 .. Len(SetAside(f.callee)), NextMoveRax(f, d, r, sp, m, k)
  PROVE  /\ Head(f.code) \in Instr
         /\ Calling(g, d, [r EXCEPT ![Head(f.code).reg] = Argument(d, Head(f.code).n)], sp, m)
<1>1. /\ g.callee = f.callee /\ g.returns = f.returns /\ CallEntry(g) = CallEntry(f)
      /\ g.code = <<Instruction("push_rax", Rax, 0)>> \o FromPush(f.callee, f.returns, k - 1)
      /\ Head(f.code) = Mov(SetAside(f.callee)[k], Rax)
      /\ sp = CallEntry(f) + BYTES_PER_PUSH * (k + 1)
      /\ Moved(f.callee, d, r, Len(Moves(f.callee)))
      /\ Pushed(g, d, m, k)
  BY AfterFrame DEF After, NextMoveRax, AtPush
<1>2. PICK M, i, q : /\ M = Moves(f.callee) /\ i = SetAside(f.callee)[k]
                     /\ q = [r EXCEPT ![Rax] = Argument(d, i)]
  OBVIOUS
<1>3. /\ M \in Seq(Instr) /\ Len(M) \in Nat
      /\ \A j \in 1 .. Len(M) : M[j] \in Instr /\ M[j].reg # Rax
      /\ i \in Nat
  <2>1. f.callee \in Seq(Classes)
    BY DEF Frames
  <2> QED BY <1>2, <2>1, PlacingIs
<1>4. Mov(i, Rax) \in Instr /\ Mov(i, Rax).reg = Rax /\ Mov(i, Rax).n = i
  BY <1>3, RaxExists, InstructionType DEF Mov, Ops
<1>5. ASSUME NEW j \in 1 .. Len(M)
      PROVE  q[M[j].reg] = Argument(d, M[j].n)
  <2>1. M[j].reg \in Regs /\ M[j].reg # Rax
    BY <1>3 DEF Instr
  <2>2. r[M[j].reg] = Argument(d, M[j].n)
    BY <1>1, <1>2 DEF Moved
  <2> QED BY <1>2, <2>1, <2>2
<1>6. Moved(g.callee, d, q, Len(Moves(g.callee)))
  BY <1>1, <1>2, <1>5 DEF Moved
<1>7. q[Rax] = Argument(d, i)
  BY <1>2, RaxExists
<1>8. AtPushRax(g, d, q, sp, m, k)
  BY <1>1, <1>2, <1>6, <1>7 DEF AtPushRax
<1> QED BY <1>1, <1>2, <1>4, <1>8 DEF Calling

\* The k-th of the arguments set aside is on the stack.
LEMMA StepPush ==
  ASSUME NEW f \in Frames, NEW g \in Frames, After(f, g),
         NEW d, NEW r, NEW sp, NEW m, NEW k \in 1 .. Len(SetAside(f.callee)),
         Tail(f.code) = FromPush(f.callee, f.returns, k - 1),
         sp = CallEntry(f) + 8 * (k + 1),
         Moved(f.callee, d, r, Len(Moves(f.callee))),
         Pushed(f, d, m, k)
  PROVE  /\ sp - 8 < Base(f) /\ sp \in Int
         /\ Calling(g, d, r, sp - 8, StoredIn(m, sp - 8, Argument(d, SetAside(f.callee)[k])))
<1>1. /\ g.callee = f.callee /\ g.returns = f.returns /\ CallEntry(g) = CallEntry(f)
      /\ g.code = FromPush(f.callee, f.returns, k - 1)
  BY AfterFrame DEF After
<1>2. PICK S, L, c, x, p :
        /\ S = SetAside(f.callee) /\ L = Len(S) /\ c = CallEntry(f) /\ x = sp - 8
        /\ p = StoredIn(m, x, Argument(d, S[k]))
  OBVIOUS
<1>3. /\ L \in Nat /\ c \in Int /\ Base(f) \in Int /\ Padding(f.callee) \in {0, 8}
      /\ c = Base(f) - 8 * L - Padding(f.callee) - 8
  BY <1>2, CallEntryIs, FrameBytesIs
<1>4. k \in 1 .. L /\ k - 1 \in 0 .. L /\ x = c + 8 * k /\ sp \in Int
  BY <1>2, <1>3
<1>5. x < Base(f)
  BY <1>3, <1>4
<1>6. ASSUME NEW j \in (k - 1) + 1 .. L
      PROVE  WordIn(p, c + 8 * j) = Argument(d, S[j])
  <2>1. CASE j = k
    BY <1>2, <1>4, <2>1, StoredIs
  <2>2. CASE j # k
    <3>1. j \in k + 1 .. L /\ c + 8 * j # x
      BY <1>3, <1>4, <2>2
    <3>2. WordIn(m, c + 8 * j) = Argument(d, S[j])
      BY <1>2, <3>1 DEF Pushed, BYTES_PER_PUSH
    <3> QED BY <1>2, <3>1, <3>2, StoredIs
  <2> QED BY <2>1, <2>2
<1>7. Pushed(g, d, p, k - 1)
  BY <1>1, <1>2, <1>6 DEF Pushed, BYTES_PER_PUSH
<1>8. x = c + 8 * ((k - 1) + 1)
  BY <1>3, <1>4
<1>9. AtPush(g, d, r, x, p, k - 1)
  BY <1>1, <1>2, <1>7, <1>8 DEF AtPush, BYTES_PER_PUSH
<1> QED BY <1>1, <1>2, <1>4, <1>5, <1>9 DEF Calling

LEMMA StepAddq ==
  ASSUME NEW f \in Frames, NEW g \in Frames, After(f, g),
         NEW d, NEW r, NEW sp, NEW m, NextAddq(f, d, r, sp)
  PROVE  /\ Head(f.code).op = "addq"
         /\ sp + Head(f.code).n = Base(f)
         /\ Calling(g, d, r, Base(f), m)
<1>1. /\ g.callee = f.callee /\ g.returns = f.returns /\ Base(g) = Base(f)
      /\ g.code = TakesResult(f.returns)
      /\ sp = CallEntry(f) + 8 /\ Answered(f, d, r)
      /\ Head(f.code) = Instruction("addq", Rax, Deallocate(f.callee, SetAside(f.callee)))
  BY AfterFrame DEF After, NextAddq, AtReturn, BYTES_PER_PUSH
<1>2. /\ Head(f.code).op = "addq"
      /\ Head(f.code).n = Deallocate(f.callee, SetAside(f.callee))
  BY <1>1 DEF Instruction
<1>3. PICK L : L = Len(SetAside(f.callee))
  OBVIOUS
<1>4. /\ L \in Nat /\ Padding(f.callee) \in {0, 8} /\ Base(f) \in Int
      /\ CallEntry(f) = Base(f) - 8 * L - Padding(f.callee) - 8
  BY <1>3, CallEntryIs, FrameBytesIs
<1>5. Deallocate(f.callee, SetAside(f.callee)) = 8 * L + Padding(f.callee)
  <2>1. f.callee \in Seq(Classes)
    BY DEF Frames
  <2> QED BY <1>3, <2>1, SizesType
<1>6. sp + Head(f.code).n = Base(f)
  BY <1>1, <1>2, <1>4, <1>5
<1>7. Answered(g, d, r)
  BY <1>1 DEF Answered
<1>8. AtResult(g, d, r, Base(f))
  BY <1>1, <1>7 DEF AtResult
<1> QED BY <1>2, <1>6, <1>8 DEF Calling

LEMMA StepResult ==
  ASSUME NEW f \in Frames, NEW g \in Frames, After(f, g),
         NEW d, NEW r \in [Regs -> Value], NEW sp, NEW m, NextResult(f, d, r, sp),
         g.got = r[Head(f.code).reg]
  PROVE  Calling(g, d, r, sp, m)
<1>1. /\ g.callee = f.callee /\ g.returns = f.returns /\ Base(g) = Base(f)
      /\ g.code = <<>> /\ f.returns # "void"
      /\ sp = Base(f) /\ Answered(f, d, r)
      /\ Head(f.code) = Instruction("result", ResultRegister(f.returns), 0)
  BY AfterFrame DEF After, NextResult, AtResult
<1>2. Head(f.code).reg = ResultRegister(f.returns)
  BY <1>1 DEF Instruction
<1>3. g.got = Result(d)
  BY <1>1, <1>2 DEF Answered
<1>4. AtEnd(g, d, sp)
  BY <1>1, <1>3 DEF AtEnd
<1> QED BY <1>4 DEF Calling

(***************************************************************************)
(* The steps of the machine, on any state that satisfies the invariant.    *)
(***************************************************************************)
LEMMA StateTop ==
  ASSUME NEW a, NEW r, NEW sp, NEW bp, NEW m, State(a, r, sp, bp, m)
  PROVE  /\ a \in Seq(Frames) /\ a # <<>> /\ Len(a) \in Nat /\ Len(a) \in 1 .. Len(a)
         /\ Len(a) \in 1 .. MaxDepth
         /\ a[Len(a)] \in Frames
         /\ FrameOK(a, Len(a)) /\ FrameWords(a, m, Len(a))
         /\ r \in [Regs -> Value] /\ sp \in Int /\ bp \in Int
         /\ sp % 8 = 0 /\ bp % 8 = 0
         /\ \A y \in DOMAIN m : y % 8 = 0 /\ m[y] \in Value
<1>1. /\ a \in Seq(Frames) /\ Len(a) \in 1 .. MaxDepth
      /\ r \in [Regs -> Value] /\ sp \in Int /\ bp \in Int
      /\ sp % 8 = 0 /\ bp % 8 = 0
      /\ \A y \in DOMAIN m : y % 8 = 0 /\ m[y] \in Value
  BY DEF State, Typed, BYTES_PER_PUSH
<1>2. Len(a) \in Nat /\ Len(a) \in 1 .. Len(a)
  BY <1>1, BoundAssumption
<1>3. a # <<>>
  BY <1>2
<1>4. FrameOK(a, Len(a)) /\ FrameWords(a, m, Len(a))
  BY <1>2 DEF State, StackOK
<1> QED BY <1>1, <1>2, <1>3, <1>4

\* The last function goes on, at g, with its frame unchanged.
LEMMA TopStep ==
  ASSUME NEW a, NEW r, NEW sp, NEW bp, NEW m, State(a, r, sp, bp, m),
         NEW g \in Frames, NEW q \in [Regs -> Value], NEW tp \in Int, tp % 8 = 0, NEW p,
         a[Len(a)].phase # "prologue", g.phase # "prologue",
         g.rbp = a[Len(a)].rbp, g.args = a[Len(a)].args, g.ret = a[Len(a)].ret,
         g.received = a[Len(a)].received,
         g.phase \in {"body", "calling"} => g.received = Len(g.args),
         \A y \in DOMAIN p : y % 8 = 0 /\ p[y] \in Value,
         \A y \in Int : y >= Base(a[Len(a)]) => WordIn(p, y) = WordIn(m, y),
         g.phase = "body" => tp = Base(a[Len(a)]),
         g.phase = "calling" => Len(a) < MaxDepth /\ Calling(g, Len(a) + 1, q, tp, p),
         g.phase # "params"
  PROVE  State([a EXCEPT ![Len(a)] = g], q, tp, bp, p)
<1>1. PICK n, b : n = Len(a) /\ b = [a EXCEPT ![Len(a)] = g]
  OBVIOUS
<1>2. /\ a \in Seq(Frames) /\ a # <<>> /\ n \in Nat /\ n \in 1 .. MaxDepth
      /\ bp \in Int /\ bp % 8 = 0
  BY <1>1, StateTop
<1>3. StackOK(a, m)
  BY DEF State
<1>4. StackOK(a, p)
  BY <1>2, <1>3, KeepStack
<1>5. StackOK(b, p) /\ b \in Seq(Frames) /\ Len(b) = n /\ b[n] = g
  <2>1. /\ StackOK([a EXCEPT ![Len(a)] = g], p)
        /\ [a EXCEPT ![Len(a)] = g] \in Seq(Frames)
        /\ Len([a EXCEPT ![Len(a)] = g]) = Len(a)
        /\ [a EXCEPT ![Len(a)] = g][Len(a)] = g
    BY <1>2, <1>4, SameTop
  <2> QED BY <1>1, <2>1
<1>6. Typed(b, q, tp, bp, p)
  BY <1>2, <1>5 DEF Typed, BYTES_PER_PUSH
<1>7. TopOK(b, n, q, tp, bp, p)
  <2>1. bp = g.rbp
    BY DEF State, TopOK
  <2>2. Base(g) = Base(a[Len(a)])
    BY SameFrame
  <2> QED BY <1>1, <1>5, <2>1, <2>2 DEF TopOK
<1> QED BY <1>1, <1>5, <1>6, <1>7 DEF State

LEMMA PrologueStep ==
  ASSUME NEW a, NEW r, NEW sp, NEW bp, NEW m, State(a, r, sp, bp, m),
         a[Len(a)].phase = "prologue", NEW g,
         g = [a[Len(a)] EXCEPT !.phase = "params", !.rbp = sp - 8,
                               !.code = function_params(a[Len(a)].args)]
  PROVE  State([a EXCEPT ![Len(a)] = g], r, sp - 8 - FrameBytes(a[Len(a)]), sp - 8,
               StoredIn(m, sp - 8, <<"rbp", bp, 0>>))
<1>1. PICK n, f, b, p, tp :
        /\ n = Len(a) /\ f = a[n] /\ b = [a EXCEPT ![Len(a)] = g]
        /\ p = StoredIn(m, sp - 8, <<"rbp", bp, 0>>) /\ tp = sp - 8 - FrameBytes(f)
  OBVIOUS
<1>2. /\ a \in Seq(Frames) /\ a # <<>> /\ n \in Nat /\ n \in 1 .. MaxDepth
      /\ f \in Frames /\ FrameOK(a, n)
      /\ r \in [Regs -> Value] /\ sp \in Int /\ bp \in Int
      /\ sp % 8 = 0 /\ bp % 8 = 0
      /\ \A y \in DOMAIN m : y % 8 = 0 /\ m[y] \in Value
  BY <1>1, StateTop
<1>3. f.args \in Seq(Classes)
  BY <1>2 DEF Frames
<1>4. PICK c : c = function_params(f.args)
  OBVIOUS
<1>5. c \in Seq(Instr) /\ Len(c) = Len(f.args)
  BY <1>3, <1>4, Agreement
<1>6. /\ g.phase = "params" /\ g.rbp = sp - 8 /\ g.code = c /\ g.args = f.args
      /\ g.ret = f.ret /\ g.received = f.received /\ g \in Frames
  <2>1. sp - 8 \in Int
    BY <1>2
  <2> QED BY <1>1, <1>2, <1>4, <1>5, <2>1 DEF Frames
<1>7. /\ sp = Entry(a, n) /\ bp = Below(a, n)
      /\ Moved(f.args, n, r, Len(Moves(f.args)))
  BY <1>1 DEF State, TopOK
<1>8. StackOK(b, p) /\ b \in Seq(Frames) /\ Len(b) = n /\ b[n] = g
  <2>1. StackOK(a, m)
    BY DEF State
  <2>2. /\ g.args = a[Len(a)].args /\ g.ret = a[Len(a)].ret
        /\ g.received = a[Len(a)].received
        /\ g.rbp = Entry(a, Len(a)) - 8 /\ g.rbp = sp - 8 /\ bp = Below(a, Len(a))
    BY <1>1, <1>6, <1>7
  <2>3. LET z == [a EXCEPT ![Len(a)] = g]
        IN  /\ StackOK(z, StoredIn(m, g.rbp, <<"rbp", Below(a, Len(a)), 0>>))
            /\ z \in Seq(Frames) /\ Len(z) = Len(a) /\ z[Len(a)] = g
    BY <1>2, <1>6, <2>1, <2>2, PrologueStack
  <2> QED BY <1>1, <2>2, <2>3
<1>9. f.received = 0
  BY <1>1, <1>2 DEF FrameOK
<1>10. Base(g) = tp
  <2>1. FrameBytes(g) = FrameBytes(f)
    BY <1>6 DEF FrameBytes
  <2> QED BY <1>1, <1>6, <2>1 DEF Base
<1>11. tp \in Int /\ tp % 8 = 0 /\ sp - 8 \in Int /\ (sp - 8) % 8 = 0
  <2>1. sp - 8 \in Int /\ (sp - 8) % 8 = 0
    BY <1>2
  <2>2. g.rbp % 8 = 0
    BY <1>6, <2>1
  <2>3. Base(g) \in Int /\ Base(g) % 8 = 0
    BY <1>6, <2>2, FrameBytesIs
  <2> QED BY <1>10, <2>1, <2>3
<1>12. \A y \in DOMAIN p : y % 8 = 0 /\ p[y] \in Value
  <2>1. PICK x, v : x = sp - 8 /\ v = <<"rbp", bp, 0>>
    OBVIOUS
  <2>2. x \in Int /\ x % 8 = 0 /\ v \in Value
    BY <1>2, <1>11, <2>1, ValueType
  <2>3. \A y \in DOMAIN StoredIn(m, x, v) : y % 8 = 0 /\ StoredIn(m, x, v)[y] \in Value
    BY <1>2, <2>2, StoredType
  <2> QED BY <1>1, <2>1, <2>3
<1>13. Typed(b, r, tp, sp - 8, p)
  BY <1>2, <1>8, <1>11, <1>12 DEF Typed, BYTES_PER_PUSH
<1>14. c = SubSeq(c, g.received + 1, Len(g.args))
  BY <1>5, <1>6, <1>9, SubSeqFull
<1>15. TopOK(b, n, r, tp, sp - 8, p)
  BY <1>4, <1>6, <1>7, <1>8, <1>10, <1>14 DEF TopOK
<1> QED BY <1>1, <1>8, <1>13, <1>15 DEF State

LEMMA ReceiveStep ==
  ASSUME NEW a, NEW r, NEW sp, NEW bp, NEW m, State(a, r, sp, bp, m),
         a[Len(a)].phase = "params", a[Len(a)].code # <<>>, NEW g, NEW v,
         g = [a[Len(a)] EXCEPT !.code = Tail(@), !.received = @ + 1],
         v = IF Head(a[Len(a)].code).op = "store" THEN r[Head(a[Len(a)].code).reg]
             ELSE WordIn(m, bp + 16 + 8 * Head(a[Len(a)].code).n)
  PROVE  State([a EXCEPT ![Len(a)] = g], r, sp, bp,
               StoredIn(m, Slot(a[Len(a)], a[Len(a)].received + 1), v))
<1>1. PICK n, f, b, j, p, c :
        /\ n = Len(a) /\ f = a[n] /\ b = [a EXCEPT ![Len(a)] = g]
        /\ j = f.received + 1 /\ p = StoredIn(m, Slot(f, j), v)
        /\ c = function_params(f.args)
  OBVIOUS
<1>2. /\ a \in Seq(Frames) /\ a # <<>> /\ n \in Nat /\ n \in 1 .. MaxDepth
      /\ f \in Frames /\ FrameOK(a, n) /\ FrameWords(a, m, n)
      /\ r \in [Regs -> Value] /\ sp \in Int /\ bp \in Int
      /\ sp % 8 = 0 /\ bp % 8 = 0
      /\ \A y \in DOMAIN m : y % 8 = 0 /\ m[y] \in Value
  BY <1>1, StateTop
<1>3. /\ f.args \in Seq(Classes) /\ f.received \in Nat /\ f.rbp \in Int
      /\ Len(f.args) \in Nat
  BY <1>2 DEF Frames
<1>4. /\ c \in Seq(Instr) /\ Len(c) = Len(f.args)
      /\ \A i \in 1 .. Len(f.args) : Fetches(Placing(f.args), c[i], i)
  BY <1>1, <1>3, Agreement
<1>5. /\ sp = Base(f) /\ bp = f.rbp
      /\ Moved(f.args, n, r, Len(Moves(f.args)))
      /\ f.code = SubSeq(c, j, Len(f.args))
  BY <1>1 DEF State, TopOK
<1>6. j \in 1 .. Len(c)
  <2>1. CASE j > Len(f.args)
    <3>1. SubSeq(c, j, Len(f.args)) = <<>>
      <4>1. j \in Int /\ Len(f.args) \in Int /\ Len(f.args) < j
        BY <1>1, <1>3, <2>1
      <4> QED BY <4>1, SubSeqEmpty
    <3> QED BY <1>1, <1>5, <3>1
  <2> QED BY <1>1, <1>3, <1>4, <2>1
<1>7. Head(f.code) = c[j] /\ Tail(f.code) = SubSeq(c, j + 1, Len(f.args))
  <2>1. Len(f.args) \in j .. Len(c)
    BY <1>3, <1>4, <1>6
  <2> QED BY <1>4, <1>5, <1>6, <2>1, HeadTailOfSubSeq
<1>8. c[j] \in Instr /\ Fetches(Placing(f.args), c[j], j) /\ j \in Nat
  BY <1>4, <1>6
<1>9. v = Argument(n, j)
  <2>1. CASE c[j].op = "store"
    <3>1. PICK k \in 1 .. Len(Moves(f.args)) : Moves(f.args)[k] = Mov(j, c[j].reg)
      BY <1>8, <2>1 DEF Fetches, Moves
    <3>2. Moves(f.args)[k].reg = c[j].reg /\ Moves(f.args)[k].n = j
      BY <3>1 DEF Mov, Instruction
    <3>3. r[Moves(f.args)[k].reg] = Argument(n, Moves(f.args)[k].n)
      BY <1>5, <3>1 DEF Moved
    <3>4. v = r[c[j].reg]
      BY <1>1, <1>7, <2>1
    <3> QED BY <3>2, <3>3, <3>4
  <2>2. CASE c[j].op # "store"
    <3>1. PICK S, L : S = SetAside(f.args) /\ L = Len(S)
      OBVIOUS
    <3>2. L \in Nat
      BY <1>3, <3>1, SizesType
    <3>3. c[j].n \in 0 .. L - 1 /\ S[c[j].n + 1] = j
      BY <1>8, <2>2, <3>1 DEF Fetches, SetAside
    <3>4. v = WordIn(m, bp + 16 + 8 * c[j].n)
      BY <1>1, <1>7, <2>2
    <3>5. f.rbp = Entry(a, n) - 8 /\ (n = 1 => f.args = <<>>)
      BY <1>1, <1>2 DEF FrameOK, BYTES_PER_PUSH
    <3>6. n > 1
      <4>1. Len(f.args) > 0
        BY <1>4, <1>6, <1>3
      <4>2. f.args # <<>>
        BY <4>1
      <4> QED BY <1>2, <3>5, <4>2
    <3>7. \A k \in 1 .. L : WordIn(m, Entry(a, n) + 8 * k) = Argument(n, S[k])
      BY <1>1, <1>2, <3>1, <3>6 DEF FrameWords, BYTES_PER_PUSH
    <3>8. Entry(a, n) \in Int
      <4>1. n \in 1 .. Len(a) /\ \A e \in 1 .. Len(a) : FrameOK(a, e)
        BY <1>1, <1>2 DEF State, StackOK
      <4> QED BY <1>2, <4>1, EntryIs
    <3>9. c[j].n + 1 \in 1 .. L /\ bp + 16 + 8 * c[j].n = Entry(a, n) + 8 * (c[j].n + 1)
      <4>1. PICK i : i = c[j].n
        OBVIOUS
      <4>2. i \in 0 .. L - 1
        BY <3>3, <4>1
      <4>3. i + 1 \in 1 .. L
        BY <3>2, <4>2
      <4>4. bp + 16 + 8 * i = Entry(a, n) + 8 * (i + 1)
        BY <1>5, <3>5, <3>8, <4>2
      <4> QED BY <4>1, <4>3, <4>4
    <3> QED BY <3>3, <3>4, <3>7, <3>9
  <2> QED BY <2>1, <2>2
<1>10. /\ g.phase = "params" /\ g.rbp = f.rbp /\ g.code = Tail(f.code) /\ g.args = f.args
       /\ g.ret = f.ret /\ g.received = j /\ g \in Frames
  <2>1. f.code \in Seq(Instr)
    BY <1>2 DEF Frames
  <2>2. Tail(f.code) \in Seq(Instr)
    BY <1>1, <2>1, HeadTailProperties
  <2> QED BY <1>1, <1>2, <1>8, <2>2 DEF Frames
<1>11. Slot(g, j) = Slot(f, j)
  <2>1. g.rbp = f.rbp /\ g.args = f.args
    BY <1>10
  <2> QED BY <2>1 DEF Slot
<1>12. StackOK(b, p) /\ b \in Seq(Frames) /\ Len(b) = n /\ b[n] = g
  <2>1. StackOK(a, m)
    BY DEF State
  <2>2. g.received =< Len(g.args)
    BY <1>4, <1>6, <1>10
  <2>3. /\ g.rbp = a[Len(a)].rbp /\ g.args = a[Len(a)].args /\ g.ret = a[Len(a)].ret
        /\ g.received = a[Len(a)].received + 1
    BY <1>1, <1>10
  <2>4. LET d == [a EXCEPT ![Len(a)] = g]
        IN  /\ StackOK(d, StoredIn(m, Slot(g, g.received), Argument(Len(a), g.received)))
            /\ d \in Seq(Frames) /\ Len(d) = Len(a) /\ d[Len(a)] = g
    BY <1>2, <1>10, <2>1, <2>2, <2>3, ReceiveStack
  <2>5. /\ Slot(g, g.received) = Slot(f, j) /\ Argument(Len(a), g.received) = v
    BY <1>1, <1>9, <1>10, <1>11
  <2> QED BY <1>1, <2>4, <2>5
<1>13. \A y \in DOMAIN p : y % 8 = 0 /\ p[y] \in Value
  <2>1. Slot(f, j) \in Int /\ Slot(f, j) = f.rbp - 8 * j
    BY <1>2, <1>4, <1>6, SlotIs
  <2>2. Slot(f, j) % 8 = 0
    BY <1>2, <1>3, <1>5, <1>8, <2>1
  <2>3. v \in Value
    <3>1. n \in Int /\ j \in Int
      BY <1>2, <1>8
    <3>2. Argument(n, j) \in Value
      BY <3>1, ValueType
    <3> QED BY <1>9, <3>2
  <2>4. PICK x : x = Slot(f, j)
    OBVIOUS
  <2>5. \A y \in DOMAIN StoredIn(m, x, v) : y % 8 = 0 /\ StoredIn(m, x, v)[y] \in Value
    BY <1>2, <2>1, <2>2, <2>3, <2>4, StoredType
  <2> QED BY <1>1, <2>4, <2>5
<1>14. Typed(b, r, sp, bp, p)
  BY <1>2, <1>12, <1>13 DEF Typed, BYTES_PER_PUSH
<1>15. Base(g) = Base(f)
  BY <1>10, SameFrame
<1>16. TopOK(b, n, r, sp, bp, p)
  BY <1>1, <1>5, <1>7, <1>10, <1>12, <1>15 DEF TopOK
<1> QED BY <1>1, <1>12, <1>14, <1>16 DEF State

LEMMA ReceivedStep ==
  ASSUME NEW a, NEW r, NEW sp, NEW bp, NEW m, State(a, r, sp, bp, m),
         a[Len(a)].phase = "params", a[Len(a)].code = <<>>, NEW g,
         g = [a[Len(a)] EXCEPT !.phase = "body"]
  PROVE  State([a EXCEPT ![Len(a)] = g], r, sp, bp, m)
<1>1. PICK n, f, c : n = Len(a) /\ f = a[n] /\ c = function_params(f.args)
  OBVIOUS
<1>2. /\ f \in Frames /\ FrameOK(a, n)
      /\ r \in [Regs -> Value] /\ sp \in Int /\ sp % 8 = 0
      /\ \A y \in DOMAIN m : y % 8 = 0 /\ m[y] \in Value
  BY <1>1, StateTop
<1>3. f.args \in Seq(Classes) /\ f.received \in Nat /\ Len(f.args) \in Nat
  BY <1>2 DEF Frames
<1>4. c \in Seq(Instr) /\ Len(c) = Len(f.args)
  BY <1>1, <1>3, Agreement
<1>5. sp = Base(f) /\ f.code = SubSeq(c, f.received + 1, Len(f.args))
  BY <1>1 DEF State, TopOK
<1>6. f.received = Len(f.args)
  <2>1. f.received =< Len(f.args)
    BY <1>1, <1>2 DEF FrameOK
  <2>2. CASE f.received < Len(f.args)
    <3>1. f.received + 1 \in 1 .. Len(c) /\ Len(f.args) \in f.received + 1 .. Len(c)
      BY <1>3, <1>4, <2>2
    <3>2. \A i \in f.received + 1 .. Len(f.args) : c[i] \in Instr
      BY <1>3, <1>4
    <3>3. Len(SubSeq(c, f.received + 1, Len(f.args)))
            = IF f.received + 1 <= Len(f.args)
              THEN Len(f.args) - (f.received + 1) + 1 ELSE 0
      BY <1>3, <3>2, SubSeqProperties
    <3>4. Len(f.code) > 0
      BY <1>3, <1>5, <2>2, <3>3
    <3> QED BY <1>1, <3>4
  <2> QED BY <1>3, <2>1, <2>2
<1>7. /\ g \in Frames /\ g.phase = "body" /\ g.rbp = f.rbp /\ g.args = f.args
      /\ g.ret = f.ret /\ g.received = f.received
  BY <1>1, <1>2 DEF Frames
<1> QED BY <1>1, <1>2, <1>5, <1>6, <1>7, TopStep

\* A call of at most FUNCTION_PARAMETER_LIMIT - 1 arguments.
LEMMA CallStep ==
  ASSUME NEW a, NEW r, NEW sp, NEW bp, NEW m, State(a, r, sp, bp, m),
         a[Len(a)].phase = "body", Len(a) < MaxDepth,
         NEW args \in Seq(Classes), NEW ret \in Returns, NEW g,
         g = [a[Len(a)] EXCEPT !.phase = "calling", !.code = op_call(args, ret),
                               !.callee = args, !.returns = ret]
  PROVE  State([a EXCEPT ![Len(a)] = g], r, sp, bp, m)
<1>1. PICK n, f, c : n = Len(a) /\ f = a[n] /\ c = op_call(args, ret)
  OBVIOUS
<1>2. /\ f \in Frames /\ FrameOK(a, n)
      /\ r \in [Regs -> Value] /\ sp \in Int /\ sp % 8 = 0
      /\ \A y \in DOMAIN m : y % 8 = 0 /\ m[y] \in Value
  BY <1>1, StateTop
<1>3. /\ c = Sized("subq", Padding(args)) \o FromMove(args, ret, 0)
      /\ c \in Seq(Instr)
  BY <1>1, OpCallIs
<1>4. /\ g \in Frames /\ g.phase = "calling" /\ g.rbp = f.rbp /\ g.args = f.args
      /\ g.ret = f.ret /\ g.received = f.received
      /\ g.code = c /\ g.callee = args /\ g.returns = ret
  BY <1>1, <1>2, <1>3 DEF Frames
<1>5. sp = Base(f) /\ f.received = Len(f.args)
  BY <1>1, <1>2 DEF State, TopOK, FrameOK
<1>6. Base(g) = Base(f) /\ Base(f) \in Int
  BY <1>2, <1>4, SameFrame, FrameBytesIs
<1>7. Calling(g, n + 1, r, sp, m)
  <2>1. Padding(args) \in {0, 8}
    BY SizesType
  <2>2. CASE Padding(args) > 0
    <3>1. AtStart(g, sp)
      BY <1>3, <1>4, <1>5, <1>6, <2>2 DEF AtStart
    <3> QED BY <3>1 DEF Calling
  <2>3. CASE Padding(args) = 0
    <3>1. 0 \in 0 .. Len(Moves(args))
      BY PlacingIs
    <3>2. FromMove(args, ret, 0) \in Seq(Instr)
      BY <3>1, CallCodeType
    <3>3. Sized("subq", Padding(args)) = <<>>
      BY <2>3 DEF Sized
    <3>4. c = FromMove(args, ret, 0)
      BY <1>3, <3>2, <3>3, ConcatEmptySeq
    <3>5. sp = Base(g) - Padding(args)
      BY <1>5, <1>6, <2>3
    <3>6. Moved(args, n + 1, r, 0)
      BY DEF Moved
    <3>7. AtMove(g, n + 1, r, sp, 0)
      BY <1>4, <3>4, <3>5, <3>6 DEF AtMove
    <3> QED BY <1>4, <3>1, <3>7 DEF Calling
  <2> QED BY <2>1, <2>2, <2>3
<1>8. /\ g.phase # "prologue" /\ g.phase # "params" /\ g.phase # "body"
      /\ a[Len(a)].phase # "prologue" /\ g.received = Len(g.args)
      /\ g.rbp = a[Len(a)].rbp /\ g.args = a[Len(a)].args /\ g.ret = a[Len(a)].ret
      /\ g.received = a[Len(a)].received /\ Calling(g, Len(a) + 1, r, sp, m)
  BY <1>1, <1>4, <1>5, <1>7
<1> QED BY <1>2, <1>4, <1>8, TopStep

\* One instruction of a call: what it has to establish.
LEMMA InstructionStep ==
  ASSUME NEW a, NEW r, NEW sp, NEW bp, NEW m, State(a, r, sp, bp, m),
         a[Len(a)].phase = "calling", NEW g \in Frames, After(a[Len(a)], g),
         NEW q \in [Regs -> Value], NEW tp \in Int, tp % 8 = 0, NEW p,
         \A y \in DOMAIN p : y % 8 = 0 /\ p[y] \in Value,
         \A y \in Int : y >= Base(a[Len(a)]) => WordIn(p, y) = WordIn(m, y),
         Calling(g, Len(a) + 1, q, tp, p)
  PROVE  State([a EXCEPT ![Len(a)] = g], q, tp, bp, p)
<1>1. FrameOK(a, Len(a))
  BY StateTop
<1>2. /\ g.phase = "calling" /\ a[Len(a)].phase # "prologue"
      /\ g.rbp = a[Len(a)].rbp /\ g.args = a[Len(a)].args /\ g.ret = a[Len(a)].ret
      /\ g.received = a[Len(a)].received
  BY DEF After
<1>3. g.received = Len(g.args)
  BY <1>1, <1>2 DEF FrameOK
<1>4. /\ g.phase # "prologue" /\ g.phase # "params"
      /\ g.phase = "body" => tp = Base(a[Len(a)])
      /\ g.phase = "calling" => Len(a) < MaxDepth /\ Calling(g, Len(a) + 1, q, tp, p)
      /\ g.phase \in {"body", "calling"} => g.received = Len(g.args)
  BY <1>2, <1>3 DEF State, TopOK
<1> QED BY <1>2, <1>4, TopStep

LEMMA CallingTop ==
  ASSUME NEW a, NEW r, NEW sp, NEW bp, NEW m, State(a, r, sp, bp, m),
         a[Len(a)].phase = "calling"
  PROVE  /\ Calling(a[Len(a)], Len(a) + 1, r, sp, m)
         /\ a[Len(a)] \in Frames
         /\ Base(a[Len(a)]) \in Int /\ Base(a[Len(a)]) % 8 = 0
         /\ a[Len(a)].callee \in Seq(Classes) /\ a[Len(a)].returns \in Returns
         /\ Padding(a[Len(a)].callee) \in {0, 8}
         /\ SetAside(a[Len(a)].callee) \in Seq(1 .. Len(a[Len(a)].callee))
<1>1. Calling(a[Len(a)], Len(a) + 1, r, sp, m)
  BY DEF State, TopOK
<1>2. a[Len(a)] \in Frames /\ FrameOK(a, Len(a))
  BY StateTop
<1>3. a[Len(a)].rbp % 8 = 0
  BY <1>2 DEF FrameOK, BYTES_PER_PUSH
<1>4. Base(a[Len(a)]) \in Int /\ Base(a[Len(a)]) % 8 = 0
  BY <1>2, <1>3, FrameBytesIs
<1>5. a[Len(a)].callee \in Seq(Classes) /\ a[Len(a)].returns \in Returns
  BY <1>2 DEF Frames
<1>6. /\ Padding(a[Len(a)].callee) \in {0, 8}
      /\ SetAside(a[Len(a)].callee) \in Seq(1 .. Len(a[Len(a)].callee))
  BY <1>5, SizesType, PlacingIs
<1> QED BY <1>1, <1>2, <1>4, <1>5, <1>6

LEMMA AfterType ==
  ASSUME NEW f \in Frames, f.code # <<>>, NEW g, g = [f EXCEPT !.code = Tail(@)]
  PROVE  g \in Frames /\ After(f, g)
<1>1. f.code \in Seq(Instr)
  BY DEF Frames
<1>2. Tail(f.code) \in Seq(Instr)
  BY <1>1, HeadTailProperties
<1>3. g \in Frames
  BY <1>2 DEF Frames
<1>4. After(f, g)
  BY DEF After, Frames
<1> QED BY <1>3, <1>4

\* What is next, by its operation.
LEMMA NextOps ==
  ASSUME NEW f \in Frames, NEW d, NEW r, NEW sp, NEW m
  PROVE  /\ NextSubq(f, sp) => Head(f.code).op = "subq" /\ Head(f.code).n = Padding(f.callee)
         /\ \A n \in 0 .. Len(Moves(f.callee)) - 1 :
              NextMove(f, d, r, sp, n) => Head(f.code).op = "mov"
         /\ \A k : /\ NextMoveRax(f, d, r, sp, m, k) => Head(f.code).op = "mov"
                   /\ NextPush(f, d, r, sp, m, k) =>
                        /\ Head(f.code).op = "push"
                        /\ Head(f.code).n = SetAside(f.callee)[k]
                   /\ NextPushRax(f, d, r, sp, m, k) => Head(f.code).op = "push_rax"
         /\ NextCall(f, d, r, sp, m) => Head(f.code).op = "call"
         /\ NextAddq(f, d, r, sp) => Head(f.code).op = "addq"
         /\ NextResult(f, d, r, sp) =>
              /\ Head(f.code).op = "result"
              /\ Head(f.code).reg = ResultRegister(f.returns)
<1>1. ASSUME NEW n \in 0 .. Len(Moves(f.callee)) - 1, NextMove(f, d, r, sp, n)
      PROVE  Head(f.code).op = "mov"
  <2>1. f.callee \in Seq(Classes)
    BY DEF Frames
  <2>2. Len(Moves(f.callee)) \in Nat /\ n + 1 \in 1 .. Len(Moves(f.callee))
    BY <2>1, PlacingIs
  <2> QED BY <1>1, <2>1, <2>2, PlacingIs DEF NextMove
<1>2. /\ NextSubq(f, sp) => Head(f.code).op = "subq" /\ Head(f.code).n = Padding(f.callee)
      /\ NextCall(f, d, r, sp, m) => Head(f.code).op = "call"
      /\ NextAddq(f, d, r, sp) => Head(f.code).op = "addq"
      /\ NextResult(f, d, r, sp) =>
           /\ Head(f.code).op = "result"
           /\ Head(f.code).reg = ResultRegister(f.returns)
  BY DEF NextSubq, NextCall, NextAddq, NextResult, Instruction
<1>3. ASSUME NEW k
      PROVE  /\ NextMoveRax(f, d, r, sp, m, k) => Head(f.code).op = "mov"
             /\ NextPush(f, d, r, sp, m, k) =>
                  /\ Head(f.code).op = "push"
                  /\ Head(f.code).n = SetAside(f.callee)[k]
             /\ NextPushRax(f, d, r, sp, m, k) => Head(f.code).op = "push_rax"
  BY DEF NextMoveRax, NextPush, NextPushRax, Instruction, Mov
<1> QED BY <1>1, <1>2, <1>3

\* What is next, from the operation alone.
LEMMA NextIs ==
  ASSUME NEW f \in Frames, NEW d, NEW r, NEW sp, NEW m,
         Calling(f, d, r, sp, m), f.code # <<>>
  PROVE  /\ Head(f.code).op = "subq" => NextSubq(f, sp)
         /\ Head(f.code).op = "addq" => NextAddq(f, d, r, sp)
         /\ Head(f.code).op = "call" => NextCall(f, d, r, sp, m)
         /\ Head(f.code).op = "result" => NextResult(f, d, r, sp)
         /\ Head(f.code).op = "mov" =>
              \/ \E n \in 0 .. Len(Moves(f.callee)) - 1 : NextMove(f, d, r, sp, n)
              \/ \E k \in 1 .. Len(SetAside(f.callee)) : NextMoveRax(f, d, r, sp, m, k)
         /\ Head(f.code).op = "push" =>
              \E k \in 1 .. Len(SetAside(f.callee)) : NextPush(f, d, r, sp, m, k)
         /\ Head(f.code).op = "push_rax" =>
              \E k \in 1 .. Len(SetAside(f.callee)) : NextPushRax(f, d, r, sp, m, k)
<1> DEFINE move    == \E n \in 0 .. Len(Moves(f.callee)) - 1 : NextMove(f, d, r, sp, n)
           moveRax == \E k \in 1 .. Len(SetAside(f.callee)) : NextMoveRax(f, d, r, sp, m, k)
           push    == \E k \in 1 .. Len(SetAside(f.callee)) : NextPush(f, d, r, sp, m, k)
           pushRax == \E k \in 1 .. Len(SetAside(f.callee)) : NextPushRax(f, d, r, sp, m, k)
<1>1. \/ NextSubq(f, sp) \/ move \/ moveRax \/ push \/ pushRax
      \/ NextCall(f, d, r, sp, m) \/ NextAddq(f, d, r, sp) \/ NextResult(f, d, r, sp)
  BY CallSteps
<1>2. PICK op : op = Head(f.code).op
  OBVIOUS
<1>3. /\ NextSubq(f, sp) => op = "subq"
      /\ NextCall(f, d, r, sp, m) => op = "call"
      /\ NextAddq(f, d, r, sp) => op = "addq"
      /\ NextResult(f, d, r, sp) => op = "result"
  BY <1>2, NextOps
<1>4. move => op = "mov"
  BY <1>2, NextOps
<1>5. moveRax => op = "mov"
  BY <1>2, NextOps
<1>6. push => op = "push"
  BY <1>2, NextOps
<1>7. pushRax => op = "push_rax"
  BY <1>2, NextOps
<1> HIDE DEF move, moveRax, push, pushRax
<1>8. /\ op = "subq" => NextSubq(f, sp)
      /\ op = "addq" => NextAddq(f, d, r, sp)
      /\ op = "call" => NextCall(f, d, r, sp, m)
      /\ op = "result" => NextResult(f, d, r, sp)
      /\ op = "mov" => move \/ moveRax
      /\ op = "push" => push
      /\ op = "push_rax" => pushRax
  BY <1>1, <1>3, <1>4, <1>5, <1>6, <1>7
<1> QED BY <1>2, <1>8 DEF move, moveRax, push, pushRax

LEMMA AdjustStep ==
  ASSUME NEW a, NEW r, NEW sp, NEW bp, NEW m, State(a, r, sp, bp, m),
         a[Len(a)].phase = "calling", a[Len(a)].code # <<>>,
         NEW next, next = Head(a[Len(a)].code), next.op \in {"subq", "addq"},
         NEW g, g = [a[Len(a)] EXCEPT !.code = Tail(@)],
         NEW tp, tp = IF next.op = "subq" THEN sp - next.n ELSE sp + next.n
  PROVE  State([a EXCEPT ![Len(a)] = g], r, tp, bp, Above(m, tp))
<1>1. PICK n, f : n = Len(a) /\ f = a[n]
  OBVIOUS
<1>2. /\ r \in [Regs -> Value] /\ sp \in Int /\ sp % 8 = 0
      /\ \A y \in DOMAIN m : y % 8 = 0 /\ m[y] \in Value
  BY StateTop
<1>3. /\ Calling(f, n + 1, r, sp, m) /\ f \in Frames /\ f.code # <<>>
      /\ Base(f) \in Int /\ Base(f) % 8 = 0
      /\ Padding(f.callee) \in {0, 8}
  BY <1>1, CallingTop
<1>4. g \in Frames /\ After(f, g)
  BY <1>1, <1>3, AfterType
<1>5. /\ Head(f.code).op = "subq" => NextSubq(f, sp)
      /\ Head(f.code).op = "addq" => NextAddq(f, n + 1, r, sp)
  BY <1>3, NextIs
<1>6. PICK p : p = Above(m, tp)
  OBVIOUS
<1>7. /\ tp \in Int /\ tp % 8 = 0 /\ tp =< Base(f)
      /\ Calling(g, n + 1, r, tp, p)
  <2>1. CASE next.op = "subq"
    <3>1. NextSubq(f, sp)
      BY <1>1, <1>5, <2>1
    <3>2. next.n = Padding(f.callee) /\ sp = Base(f)
      BY <1>1, <3>1 DEF NextSubq, Instruction
    <3>3. Calling(g, n + 1, r, sp - Padding(f.callee), p)
      BY <1>3, <1>4, <3>1, StepSubq
    <3>4. tp = sp - Padding(f.callee)
      BY <2>1, <3>2
    <3>5. tp = Base(f) \/ tp = Base(f) - 8
      BY <1>3, <3>2, <3>4
    <3>6. tp \in Int /\ tp % 8 = 0 /\ tp =< Base(f)
      BY <1>3, <3>5
    <3> QED BY <3>3, <3>4, <3>6
  <2>2. CASE next.op = "addq"
    <3>1. NextAddq(f, n + 1, r, sp)
      BY <1>1, <1>5, <2>2
    <3>2. /\ sp + Head(f.code).n = Base(f)
          /\ Calling(g, n + 1, r, Base(f), p)
      BY <1>3, <1>4, <3>1, StepAddq
    <3>3. tp = Base(f)
      BY <1>1, <2>2, <3>2
    <3> QED BY <1>3, <3>2, <3>3
  <2> QED BY <2>1, <2>2
<1>8. \A y \in DOMAIN p : y % 8 = 0 /\ p[y] \in Value
  BY <1>2, <1>6, AboveType
<1>9. \A y \in Int : y >= Base(f) => WordIn(p, y) = WordIn(m, y)
  <2>1. \A y \in Int : y >= Base(f) => y >= tp
    BY <1>3, <1>7
  <2> QED BY <1>6, <1>7, <2>1, AboveIs
<1>10. /\ After(a[Len(a)], g) /\ Calling(g, Len(a) + 1, r, tp, p)
       /\ \A y \in Int : y >= Base(a[Len(a)]) => WordIn(p, y) = WordIn(m, y)
  BY <1>1, <1>4, <1>7, <1>9
<1>11. State([a EXCEPT ![Len(a)] = g], r, tp, bp, p)
  BY <1>2, <1>4, <1>7, <1>8, <1>10, InstructionStep
<1> QED BY <1>6, <1>11

LEMMA MoveStep ==
  ASSUME NEW a, NEW r, NEW sp, NEW bp, NEW m, State(a, r, sp, bp, m),
         a[Len(a)].phase = "calling", a[Len(a)].code # <<>>,
         NEW next, next = Head(a[Len(a)].code), next.op = "mov",
         NEW g, g = [a[Len(a)] EXCEPT !.code = Tail(@)],
         NEW q, q = [r EXCEPT ![next.reg] = Argument(Len(a) + 1, next.n)]
  PROVE  State([a EXCEPT ![Len(a)] = g], q, sp, bp, m)
<1>1. PICK n, f : n = Len(a) /\ f = a[n]
  OBVIOUS
<1>2. /\ r \in [Regs -> Value] /\ sp \in Int /\ sp % 8 = 0 /\ n \in Nat
      /\ \A y \in DOMAIN m : y % 8 = 0 /\ m[y] \in Value
  BY <1>1, StateTop
<1>3. Calling(f, n + 1, r, sp, m) /\ f \in Frames /\ f.code # <<>>
  BY <1>1, CallingTop
<1>4. g \in Frames /\ After(f, g)
  BY <1>1, <1>3, AfterType
<1>5. Head(f.code).op = "mov" =>
        \/ \E i \in 0 .. Len(Moves(f.callee)) - 1 : NextMove(f, n + 1, r, sp, i)
        \/ \E k \in 1 .. Len(SetAside(f.callee)) : NextMoveRax(f, n + 1, r, sp, m, k)
  BY <1>3, NextIs
<1>6. /\ Head(f.code) \in Instr
      /\ Calling(g, n + 1,
                 [r EXCEPT ![Head(f.code).reg] = Argument(n + 1, Head(f.code).n)], sp, m)
  <2>1. CASE \E i \in 0 .. Len(Moves(f.callee)) - 1 : NextMove(f, n + 1, r, sp, i)
    BY <1>2, <1>3, <1>4, <2>1, StepMove
  <2>2. CASE \E k \in 1 .. Len(SetAside(f.callee)) : NextMoveRax(f, n + 1, r, sp, m, k)
    BY <1>2, <1>3, <1>4, <2>2, StepMoveRax
  <2> QED BY <1>1, <1>5, <2>1, <2>2
<1>7. next \in Instr /\ Calling(g, n + 1, q, sp, m)
  BY <1>1, <1>6
<1>8. q \in [Regs -> Value]
  <2>1. next.reg \in Regs /\ next.n \in Int /\ n + 1 \in Int
    BY <1>2, <1>7 DEF Instr
  <2>2. Argument(n + 1, next.n) \in Value
    BY <2>1, ValueType
  <2> QED BY <1>1, <1>2, <2>1, <2>2
<1>9. After(a[Len(a)], g) /\ Calling(g, Len(a) + 1, q, sp, m)
  BY <1>1, <1>4, <1>7
<1> QED BY <1>2, <1>4, <1>8, <1>9, InstructionStep

LEMMA PushStep ==
  ASSUME NEW a, NEW r, NEW sp, NEW bp, NEW m, State(a, r, sp, bp, m),
         a[Len(a)].phase = "calling", a[Len(a)].code # <<>>,
         NEW next, next = Head(a[Len(a)].code), next.op \in {"push", "push_rax"},
         NEW g, g = [a[Len(a)] EXCEPT !.code = Tail(@)],
         NEW v, v = IF next.op = "push_rax" THEN r[Rax] ELSE Argument(Len(a) + 1, next.n)
  PROVE  State([a EXCEPT ![Len(a)] = g], r, sp - 8, bp, StoredIn(m, sp - 8, v))
<1>1. PICK n, f : n = Len(a) /\ f = a[n]
  OBVIOUS
<1>2. /\ r \in [Regs -> Value] /\ sp \in Int /\ sp % 8 = 0 /\ n \in Nat
      /\ \A y \in DOMAIN m : y % 8 = 0 /\ m[y] \in Value
  BY <1>1, StateTop
<1>3. /\ Calling(f, n + 1, r, sp, m) /\ f \in Frames /\ Base(f) \in Int
      /\ SetAside(f.callee) \in Seq(1 .. Len(f.callee)) /\ f.code # <<>>
  BY <1>1, CallingTop
<1>4. g \in Frames /\ After(f, g)
  BY <1>1, <1>3, AfterType
<1>5. /\ Head(f.code).op = "push" =>
           \E k \in 1 .. Len(SetAside(f.callee)) : NextPush(f, n + 1, r, sp, m, k)
      /\ Head(f.code).op = "push_rax" =>
           \E k \in 1 .. Len(SetAside(f.callee)) : NextPushRax(f, n + 1, r, sp, m, k)
  BY <1>3, NextIs
<1> DEFINE pushes(k) ==
             /\ Tail(f.code) = FromPush(f.callee, f.returns, k - 1)
             /\ sp = CallEntry(f) + 8 * (k + 1)
             /\ Moved(f.callee, n + 1, r, Len(Moves(f.callee)))
             /\ Pushed(f, n + 1, m, k)
             /\ v = Argument(n + 1, SetAside(f.callee)[k])
<1>6. \E k \in 1 .. Len(SetAside(f.callee)) : pushes(k)
  <2>1. CASE next.op = "push"
    <3>1. PICK k \in 1 .. Len(SetAside(f.callee)) : NextPush(f, n + 1, r, sp, m, k)
      BY <1>1, <1>5, <2>1
    <3>2. next.n = SetAside(f.callee)[k]
      BY <1>1, <3>1 DEF NextPush, Instruction
    <3>3. v = Argument(n + 1, SetAside(f.callee)[k])
      BY <1>1, <2>1, <3>2
    <3>4. pushes(k)
      BY <3>1, <3>3 DEF NextPush, AtPush, BYTES_PER_PUSH
    <3> QED BY <3>4
  <2>2. CASE next.op = "push_rax"
    <3>1. PICK k \in 1 .. Len(SetAside(f.callee)) : NextPushRax(f, n + 1, r, sp, m, k)
      BY <1>1, <1>5, <2>2
    <3>2. v = Argument(n + 1, SetAside(f.callee)[k])
      BY <2>2, <3>1 DEF NextPushRax, AtPushRax
    <3>3. pushes(k)
      BY <3>1, <3>2 DEF NextPushRax, AtPushRax, BYTES_PER_PUSH
    <3> QED BY <3>3
  <2> QED BY <2>1, <2>2
<1>7. PICK k \in 1 .. Len(SetAside(f.callee)) : pushes(k)
  BY <1>6
<1>8. PICK x, p : x = sp - 8 /\ p = StoredIn(m, x, v)
  OBVIOUS
<1>9. x < Base(f) /\ Calling(g, n + 1, r, x, p)
  <2>1. /\ sp - 8 < Base(f)
        /\ Calling(g, n + 1, r, sp - 8,
                   StoredIn(m, sp - 8, Argument(n + 1, SetAside(f.callee)[k])))
    BY <1>3, <1>4, <1>7, StepPush
  <2> QED BY <1>7, <1>8, <2>1
<1>10. x \in Int /\ x % 8 = 0
  BY <1>2, <1>8
<1>11. v \in Value
  <2>1. SetAside(f.callee)[k] \in Int /\ n + 1 \in Int
    BY <1>2, <1>3
  <2> QED BY <1>7, <2>1, ValueType
<1>12. \A y \in DOMAIN p : y % 8 = 0 /\ p[y] \in Value
  BY <1>2, <1>8, <1>10, <1>11, StoredType
<1>13. \A y \in Int : y >= Base(f) => WordIn(p, y) = WordIn(m, y)
  <2>1. \A y \in Int : y >= Base(f) => y # x
    BY <1>3, <1>9, <1>10
  <2> QED BY <1>8, <2>1, StoredIs
<1>14. /\ After(a[Len(a)], g) /\ Calling(g, Len(a) + 1, r, x, p)
       /\ \A y \in Int : y >= Base(a[Len(a)]) => WordIn(p, y) = WordIn(m, y)
  BY <1>1, <1>4, <1>9, <1>13
<1>15. State([a EXCEPT ![Len(a)] = g], r, x, bp, p)
  BY <1>2, <1>4, <1>10, <1>12, <1>14, InstructionStep
<1> QED BY <1>8, <1>15

LEMMA ResultStep ==
  ASSUME NEW a, NEW r, NEW sp, NEW bp, NEW m, State(a, r, sp, bp, m),
         a[Len(a)].phase = "calling", a[Len(a)].code # <<>>,
         NEW next, next = Head(a[Len(a)].code), next.op = "result",
         NEW g, g = [a[Len(a)] EXCEPT !.code = Tail(@), !.got = r[next.reg]]
  PROVE  State([a EXCEPT ![Len(a)] = g], r, sp, bp, m)
<1>1. PICK n, f : n = Len(a) /\ f = a[n]
  OBVIOUS
<1>2. /\ r \in [Regs -> Value] /\ sp \in Int /\ sp % 8 = 0 /\ n \in Nat
      /\ \A y \in DOMAIN m : y % 8 = 0 /\ m[y] \in Value
  BY <1>1, StateTop
<1>3. Calling(f, n + 1, r, sp, m) /\ f \in Frames /\ f.returns \in Returns /\ f.code # <<>>
  BY <1>1, CallingTop
<1>4. NextResult(f, n + 1, r, sp)
  <2>1. Head(f.code).op = "result" => NextResult(f, n + 1, r, sp)
    BY <1>3, NextIs
  <2> QED BY <1>1, <2>1
<1>5. next.reg \in Regs
  <2>1. next.reg = ResultRegister(f.returns)
    BY <1>1, <1>4 DEF NextResult, Instruction
  <2> QED BY <1>3, <2>1, ResultType
<1>6. g \in Frames /\ After(f, g) /\ g.got = r[next.reg]
  <2>1. f.code \in Seq(Instr)
    BY <1>3 DEF Frames
  <2>2. Tail(f.code) \in Seq(Instr)
    BY <1>3, <2>1, HeadTailProperties
  <2>3. r[next.reg] \in Value
    BY <1>2, <1>5
  <2>4. g \in Frames
    BY <1>1, <1>3, <2>2, <2>3 DEF Frames
  <2>5. After(f, g) /\ g.got = r[next.reg]
    BY <1>1, <1>3 DEF After, Frames
  <2> QED BY <2>4, <2>5
<1>7. Calling(g, n + 1, r, sp, m)
  <2>1. g.got = r[Head(f.code).reg]
    BY <1>1, <1>6
  <2> QED BY <1>2, <1>3, <1>4, <1>6, <2>1, StepResult
<1>8. After(a[Len(a)], g) /\ Calling(g, Len(a) + 1, r, sp, m)
  BY <1>1, <1>6, <1>7
<1> QED BY <1>2, <1>6, <1>8, InstructionStep

\* A call whose code is done.
LEMMA DoneIs ==
  ASSUME NEW f \in Frames, NEW d, NEW r, NEW sp, NEW m,
         Calling(f, d, r, sp, m), f.code = <<>>
  PROVE  sp = Base(f) /\ (f.returns # "void" => f.got = Result(d))
<1>1. f.callee \in Seq(Classes) /\ f.returns \in Returns
  BY DEF Frames
<1>2. PICK after : after = FromCall(f.callee, f.returns)
  OBVIOUS
<1>3. after \in Seq(Instr) /\ Len(after) > 0
  <2>1. AfterCall(f.callee, f.returns) \in Seq(Instr)
    BY <1>1, CallCodeType
  <2>2. <<Instruction("call", Rax, 0)>> \in Seq(Instr)
    <3>1. Instruction("call", Rax, 0) \in Instr
      BY RaxExists, InstructionType DEF Ops
    <3> QED BY <3>1
  <2>3. Len(after) = Len(<<Instruction("call", Rax, 0)>>) + Len(AfterCall(f.callee, f.returns))
    BY <1>2, <2>1, <2>2, ConcatProperties DEF FromCall
  <2>4. after \in Seq(Instr)
    BY <1>1, <1>2, CallCodeType
  <2> QED BY <2>1, <2>3, <2>4
<1>4. ASSUME NEW s \in Seq(Instr), NEW t \in Seq(Instr), Len(t) > 0
      PROVE  s \o t \in Seq(Instr) /\ Len(s \o t) > 0
  <2>1. s \o t \in Seq(Instr) /\ Len(s \o t) = Len(s) + Len(t)
    BY ConcatProperties
  <2> QED BY <1>4, <2>1
<1>5. ASSUME NEW k \in 0 .. Len(SetAside(f.callee))
      PROVE  FromPush(f.callee, f.returns, k) \in Seq(Instr)
             /\ Len(FromPush(f.callee, f.returns, k)) > 0
  <2>1. PushesFrom(f.callee, SetAside(f.callee))[k] \in Seq(Instr)
    BY <1>1, PlacingIs, PushesTurns
  <2> QED BY <1>2, <1>3, <1>4, <2>1 DEF FromPush
<1>6. ASSUME NEW n \in 0 .. Len(Moves(f.callee))
      PROVE  FromMove(f.callee, f.returns, n) \in Seq(Instr)
             /\ Len(FromMove(f.callee, f.returns, n)) > 0
  <2>1. Len(SetAside(f.callee)) \in 0 .. Len(SetAside(f.callee))
    BY <1>1, SizesType
  <2>2. SubSeq(Moves(f.callee), n + 1, Len(Moves(f.callee))) \in Seq(Instr)
    <3>1. /\ n + 1 \in Int /\ Len(Moves(f.callee)) \in Int
          /\ \A i \in n + 1 .. Len(Moves(f.callee)) : Moves(f.callee)[i] \in Instr
      BY <1>1, PlacingIs
    <3> QED BY <3>1, SubSeqProperties
  <2> QED BY <1>4, <1>5, <2>1, <2>2 DEF FromMove
<1>7. ~ AtStart(f, sp)
  <2>1. 0 \in 0 .. Len(Moves(f.callee))
    BY <1>1, PlacingIs
  <2>2. Padding(f.callee) \in Nat
    BY <1>1, SizesType
  <2>3. Sized("subq", Padding(f.callee)) \in Seq(Instr)
    BY <2>2, SizedType DEF Ops
  <2>4. Len(Sized("subq", Padding(f.callee)) \o FromMove(f.callee, f.returns, 0)) > 0
    BY <1>4, <1>6, <2>1, <2>3
  <2> QED BY <2>4 DEF AtStart
<1>8. ~ \E n \in 0 .. Len(Moves(f.callee)) : AtMove(f, d, r, sp, n)
  BY <1>6 DEF AtMove
<1>9. ~ \E k \in 0 .. Len(SetAside(f.callee)) : AtPush(f, d, r, sp, m, k)
  BY <1>5 DEF AtPush
<1>10. ASSUME NEW k \in 1 .. Len(SetAside(f.callee)), AtPushRax(f, d, r, sp, m, k)
       PROVE  FALSE
  <2>1. Len(SetAside(f.callee)) \in Nat
    BY <1>1, SizesType
  <2>2. k - 1 \in 0 .. Len(SetAside(f.callee))
    BY <2>1
  <2>3. <<Instruction("push_rax", Rax, 0)>> \in Seq(Instr)
    <3>1. Instruction("push_rax", Rax, 0) \in Instr
      BY RaxExists, InstructionType DEF Ops
    <3> QED BY <3>1
  <2>4. Len(<<Instruction("push_rax", Rax, 0)>> \o FromPush(f.callee, f.returns, k - 1)) > 0
    BY <1>4, <1>5, <2>2, <2>3
  <2> QED BY <1>10, <2>4 DEF AtPushRax
<1>11. ASSUME AtReturn(f, d, r, sp)
       PROVE  sp = Base(f) /\ f.returns = "void"
  <2>1. PICK n, s, t : /\ n = Deallocate(f.callee, SetAside(f.callee))
                       /\ s = Sized("addq", n) /\ t = TakesResult(f.returns)
    OBVIOUS
  <2>2. n \in Nat /\ n = 8 * Len(SetAside(f.callee)) + Padding(f.callee)
    BY <1>1, <2>1, SizesType
  <2>3. s \in Seq(Instr) /\ t \in Seq(Instr)
    BY <1>1, <2>1, <2>2, SizedType, ResultType DEF Ops
  <2>4. s \o t = <<>>
    BY <1>11, <2>1 DEF AtReturn, AfterCall
  <2>5. Len(s \o t) = Len(s) + Len(t) /\ Len(s \o t) = 0
    BY <2>3, <2>4, ConcatProperties
  <2>6. Len(s) = 0 /\ Len(t) = 0
    BY <2>3, <2>5
  <2>7. n = 0
    BY <2>1, <2>2, <2>6 DEF Sized
  <2>8. f.returns = "void"
    BY <2>1, <2>6 DEF TakesResult
  <2>9. sp = CallEntry(f) + 8 /\ CallEntry(f) = Base(f) - n - 8 /\ Base(f) \in Int
    BY <1>11, <2>1, FrameBytesIs DEF AtReturn, CallEntry, BYTES_PER_PUSH
  <2> QED BY <2>7, <2>8, <2>9
<1>12. ASSUME AtResult(f, d, r, sp)
       PROVE  sp = Base(f) /\ f.returns = "void"
  <2>1. TakesResult(f.returns) = <<>>
    BY <1>12 DEF AtResult
  <2>2. <<Instruction("result", ResultRegister(f.returns), 0)>> # <<>>
    OBVIOUS
  <2> QED BY <1>12, <2>1, <2>2 DEF AtResult, TakesResult
<1>13. ASSUME AtEnd(f, d, sp)
       PROVE  sp = Base(f) /\ (f.returns # "void" => f.got = Result(d))
  BY <1>13 DEF AtEnd
<1> QED BY <1>7, <1>8, <1>9, <1>10, <1>11, <1>12, <1>13 DEF Calling

LEMMA DoneStep ==
  ASSUME NEW a, NEW r, NEW sp, NEW bp, NEW m, State(a, r, sp, bp, m),
         a[Len(a)].phase = "calling", a[Len(a)].code = <<>>, NEW g,
         g = [a[Len(a)] EXCEPT !.phase = "body", !.callee = <<>>, !.returns = "void",
                               !.got = Nothing]
  PROVE  State([a EXCEPT ![Len(a)] = g], r, sp, bp, m)
<1>1. PICK n, f : n = Len(a) /\ f = a[n]
  OBVIOUS
<1>2. /\ f \in Frames /\ FrameOK(a, n)
      /\ r \in [Regs -> Value] /\ sp \in Int /\ sp % 8 = 0
      /\ \A y \in DOMAIN m : y % 8 = 0 /\ m[y] \in Value
  BY <1>1, StateTop
<1>3. Calling(f, n + 1, r, sp, m) /\ f.code = <<>>
  BY <1>1, CallingTop
<1>4. sp = Base(f)
  BY <1>2, <1>3, DoneIs
<1>5. /\ g \in Frames /\ g.phase = "body" /\ g.rbp = f.rbp /\ g.args = f.args
      /\ g.ret = f.ret /\ g.received = f.received
  <2>1. <<>> \in Seq(Classes) /\ "void" \in Returns /\ Nothing \in Value
    BY EmptySeq DEF Returns, Value
  <2> QED BY <1>1, <1>2, <2>1 DEF Frames
<1>6. f.received = Len(f.args)
  BY <1>1, <1>2 DEF FrameOK
<1>7. /\ g.rbp = a[Len(a)].rbp /\ g.args = a[Len(a)].args /\ g.ret = a[Len(a)].ret
      /\ g.received = a[Len(a)].received /\ g.received = Len(g.args)
      /\ sp = Base(a[Len(a)])
      /\ g.phase # "prologue" /\ g.phase # "calling" /\ g.phase # "params"
      /\ a[Len(a)].phase # "prologue"
  BY <1>1, <1>4, <1>5, <1>6
<1> QED BY <1>2, <1>5, <1>7, TopStep

\* The `call': from the last push to the prologue of the callee.
LEMMA EnterStep ==
  ASSUME NEW a, NEW r, NEW sp, NEW bp, NEW m, State(a, r, sp, bp, m),
         a[Len(a)].phase = "calling", a[Len(a)].code # <<>>,
         NEW next, next = Head(a[Len(a)].code), next.op = "call",
         NEW g, g = [a[Len(a)] EXCEPT !.code = Tail(@)]
  PROVE  State(Append([a EXCEPT ![Len(a)] = g],
                      Entered(a[Len(a)].callee, a[Len(a)].returns)),
               r, sp - 8, bp, StoredIn(m, sp - 8, <<"return", Len(a), 0>>))
<1>1. PICK n, f, c, x, p :
        /\ n = Len(a) /\ f = a[n] /\ c = [a EXCEPT ![Len(a)] = g]
        /\ x = sp - 8 /\ p = StoredIn(m, x, <<"return", n, 0>>)
  OBVIOUS
<1>2. /\ a \in Seq(Frames) /\ a # <<>> /\ n \in Nat /\ n \in 1 .. MaxDepth /\ FrameOK(a, n)
      /\ r \in [Regs -> Value] /\ sp \in Int /\ sp % 8 = 0 /\ bp \in Int /\ bp % 8 = 0
      /\ \A y \in DOMAIN m : y % 8 = 0 /\ m[y] \in Value
  BY <1>1, StateTop
<1>3. /\ Calling(f, n + 1, r, sp, m) /\ f \in Frames /\ f.code # <<>>
      /\ f.callee \in Seq(Classes) /\ f.returns \in Returns
  BY <1>1, CallingTop
<1>4. n < MaxDepth /\ bp = f.rbp /\ f.phase = "calling"
  BY <1>1 DEF State, TopOK
<1>5. g \in Frames /\ After(f, g)
  BY <1>1, <1>3, AfterType
<1>6. NextCall(f, n + 1, r, sp, m)
  <2>1. Head(f.code).op = "call" => NextCall(f, n + 1, r, sp, m)
    BY <1>3, NextIs
  <2> QED BY <1>1, <2>1
<1>7. /\ g.code = AfterCall(g.callee, g.returns)
      /\ sp = CallEntry(f) + 8
      /\ Moved(g.callee, n + 1, r, Len(Moves(g.callee)))
      /\ Pushed(f, n + 1, m, 0)
  <2>1. CallEntry(f) \in Int
    BY <1>3, CallEntryIs
  <2>2. AtPush(f, n + 1, r, sp, m, 0) /\ Tail(f.code) = AfterCall(f.callee, f.returns)
    BY <1>6 DEF NextCall
  <2>3. sp = CallEntry(f) + 8
    BY <2>1, <2>2 DEF AtPush, BYTES_PER_PUSH
  <2> QED BY <1>5, <2>2, <2>3 DEF After, AtPush
<1>8. /\ g.phase = "calling" /\ g.rbp = f.rbp /\ g.args = f.args /\ g.ret = f.ret
      /\ g.received = f.received /\ g.callee = f.callee /\ g.returns = f.returns
      /\ CallEntry(g) = CallEntry(f) /\ Pushed(g, n + 1, m, 0)
  <2>1. Pushed(g, n + 1, m, 0) <=> Pushed(f, n + 1, m, 0)
    BY <1>5, AfterFrame
  <2> QED BY <1>4, <1>5, <1>7, <2>1, AfterFrame DEF After
<1>9. x = CallEntry(g) /\ x \in Int /\ x % 8 = 0
  <2>1. CallEntry(f) \in Int
    BY <1>3, CallEntryIs
  <2> QED BY <1>1, <1>2, <1>7, <1>8, <2>1
<1>10. StackOK(c, m) /\ c \in Seq(Frames) /\ Len(c) = n /\ c[n] = g
  <2>1. StackOK(a, m)
    BY DEF State
  <2>2. g.received = Len(g.args)
    BY <1>1, <1>2, <1>4, <1>8 DEF FrameOK
  <2>3. /\ g.rbp = a[Len(a)].rbp /\ g.args = a[Len(a)].args /\ g.ret = a[Len(a)].ret
        /\ g.received = a[Len(a)].received /\ g.phase # "prologue"
        /\ a[Len(a)].phase # "prologue"
    BY <1>1, <1>4, <1>8
  <2>4. /\ StackOK([a EXCEPT ![Len(a)] = g], m)
        /\ [a EXCEPT ![Len(a)] = g] \in Seq(Frames)
        /\ Len([a EXCEPT ![Len(a)] = g]) = Len(a)
        /\ [a EXCEPT ![Len(a)] = g][Len(a)] = g
    BY <1>2, <1>5, <2>1, <2>2, <2>3, SameTop
  <2> QED BY <1>1, <2>4
<1>11. PICK e, b : e = Entered(g.callee, g.returns) /\ b = Append(c, e)
  OBVIOUS
<1>12. /\ StackOK(b, p) /\ b \in Seq(Frames) /\ Len(b) = n + 1 /\ b[n + 1] = e
       /\ Entry(b, n + 1) = x /\ Below(b, n + 1) = g.rbp
  <2>1. c # <<>>
    BY <1>2, <1>10
  <2>2. /\ c[Len(c)].phase = "calling"
        /\ c[Len(c)].code = AfterCall(c[Len(c)].callee, c[Len(c)].returns)
        /\ Pushed(c[Len(c)], Len(c) + 1, m, 0)
    BY <1>7, <1>8, <1>10
  <2>3. LET b2 == Append(c, Entered(c[Len(c)].callee, c[Len(c)].returns))
        IN  /\ StackOK(b2, StoredIn(m, CallEntry(c[Len(c)]), <<"return", Len(c), 0>>))
            /\ b2 \in Seq(Frames) /\ Len(b2) = Len(c) + 1
            /\ b2[Len(c)] = c[Len(c)]
            /\ b2[Len(c) + 1] = Entered(c[Len(c)].callee, c[Len(c)].returns)
            /\ Entry(b2, Len(c) + 1) = CallEntry(c[Len(c)])
            /\ Below(b2, Len(c) + 1) = c[Len(c)].rbp
    BY <1>10, <2>1, <2>2, CallStack
  <2> QED BY <1>1, <1>9, <1>10, <1>11, <2>3
<1>13. \A y \in DOMAIN p : y % 8 = 0 /\ p[y] \in Value
  <2>1. <<"return", n, 0>> \in Value
    BY <1>2 DEF Value
  <2> QED BY <1>1, <1>2, <1>9, <2>1, StoredType
<1>14. Typed(b, r, x, bp, p)
  <2>1. Len(b) \in 1 .. MaxDepth
    BY <1>2, <1>4, <1>12, BoundAssumption
  <2> QED BY <1>2, <1>9, <1>12, <1>13, <2>1 DEF Typed, BYTES_PER_PUSH
<1>15. TopOK(b, n + 1, r, x, bp, p)
  <2>1. e.phase = "prologue" /\ e.args = g.callee
    BY <1>11 DEF Entered
  <2> QED BY <1>4, <1>7, <1>8, <1>12, <2>1 DEF TopOK
<1>16. State(b, r, x, bp, p)
  BY <1>12, <1>14, <1>15 DEF State
<1> QED BY <1>1, <1>3, <1>8, <1>11, <1>16

\* The `ret': the caller goes on behind its call, its result in place.
LEMMA ReturnStep ==
  ASSUME NEW a, NEW r, NEW sp, NEW bp, NEW m, State(a, r, sp, bp, m),
         a[Len(a)].phase = "body", Len(a) > 1,
         NEW q, q = [x \in Regs |-> IF a[Len(a)].ret # "void" /\ x = Returned(a[Len(a)].ret)
                                    THEN Result(Len(a)) ELSE Nothing]
  PROVE  /\ State(SubSeq(a, 1, Len(a) - 1), q, bp + 16, WordIn(m, bp)[2], Above(m, bp + 16))
         /\ WordIn(m, bp + 8) = <<"return", Len(a) - 1, 0>>
<1>1. PICK n, g, f, b, p, tp :
        /\ n = Len(a) /\ g = a[n] /\ f = a[n - 1] /\ b = SubSeq(a, 1, n - 1)
        /\ tp = bp + 16 /\ p = Above(m, tp)
  OBVIOUS
<1>2. /\ a \in Seq(Frames) /\ n \in Nat /\ n \in 1 .. MaxDepth /\ g \in Frames
      /\ bp \in Int /\ bp % 8 = 0
      /\ \A y \in DOMAIN m : y % 8 = 0 /\ m[y] \in Value
  BY <1>1, StateTop
<1>3. bp = g.rbp /\ StackOK(a, m)
  BY <1>1 DEF State, TopOK
<1>4. tp \in Int /\ tp % 8 = 0
  BY <1>1, <1>2
<1>6. /\ StackOK(b, p) /\ b \in Seq(Frames) /\ Len(b) = n - 1 /\ b[n - 1] = f
      /\ f.phase = "calling" /\ f.code = AfterCall(f.callee, f.returns)
      /\ f.returns = g.ret /\ bp = CallEntry(f) - 8
      /\ WordIn(m, bp) = <<"rbp", f.rbp, 0>>
      /\ WordIn(m, bp + 8) = <<"return", n - 1, 0>>
  <2>1. a[Len(a)].phase # "prologue" /\ StackOK(a, m)
    BY <1>3
  <2>2. \A y \in Int : y >= a[Len(a)].rbp + 16 => WordIn(p, y) = WordIn(m, y)
    BY <1>1, <1>3, <1>4, AboveIs
  <2>3. Resumes(a, m, p, SubSeq(a, 1, Len(a) - 1), a[Len(a) - 1], a[Len(a)])
    BY <1>2, <2>1, <2>2, ReturnStack
  <2> QED BY <1>1, <1>3, <2>3 DEF Resumes
<1>7. n - 1 \in 1 .. Len(a) /\ n - 1 \in 1 .. MaxDepth /\ n - 1 < MaxDepth
  BY <1>1, <1>2, BoundAssumption
<1>8. f \in Frames /\ f.rbp \in Int /\ f.rbp % 8 = 0
  <2>1. FrameOK(a, n - 1)
    BY <1>3, <1>7 DEF StackOK
  <2> QED BY <1>1, <1>2, <1>7, <2>1, FrameType DEF FrameOK, BYTES_PER_PUSH
<1>9. WordIn(m, bp)[2] = f.rbp
  BY <1>6
<1>10. q \in [Regs -> Value]
  <2>1. Result(n) \in Value /\ Nothing \in Value
    BY <1>2 DEF Result, Value
  <2> QED BY <1>1, <2>1
<1>11. \A y \in DOMAIN p : y % 8 = 0 /\ p[y] \in Value
  BY <1>1, <1>2, AboveType
<1>12. Typed(b, q, tp, f.rbp, p)
  BY <1>4, <1>6, <1>7, <1>8, <1>10, <1>11 DEF Typed, BYTES_PER_PUSH
<1>13. AtReturn(f, n, q, tp)
  <2>1. CallEntry(f) \in Int
    BY <1>8, CallEntryIs
  <2>2. tp = CallEntry(f) + 8
    BY <1>1, <1>6, <2>1
  <2>3. Answered(f, n, q)
    <3>1. ASSUME f.returns # "void"
          PROVE  q[ResultRegister(f.returns)] = Result(n)
      <4>1. ResultRegister(f.returns) \in Regs
        BY <1>8, ResultType DEF Frames
      <4>2. ResultRegister(f.returns) = Returned(g.ret)
        BY <1>6 DEF ResultRegister, Returned
      <4> QED BY <1>1, <1>6, <3>1, <4>1, <4>2
    <3> QED BY <3>1 DEF Answered
  <2> QED BY <1>6, <2>2, <2>3 DEF AtReturn, BYTES_PER_PUSH
<1>14. TopOK(b, n - 1, q, tp, f.rbp, p)
  <2>1. (n - 1) + 1 = n
    BY <1>2
  <2>2. Calling(f, (n - 1) + 1, q, tp, p)
    BY <1>13, <2>1 DEF Calling
  <2> QED BY <1>6, <1>7, <2>2 DEF TopOK
<1>15. State(b, q, tp, f.rbp, p)
  BY <1>3, <1>6, <1>12, <1>14 DEF State
<1> QED BY <1>1, <1>6, <1>9, <1>15

LEMMA InitState ==
  ASSUME NEW a, a = <<Entered(<<>>, "int")>>, NEW r, r = [x \in Regs |-> Nothing],
         NEW m, m = <<>>
  PROVE  State(a, r, 0, 0, m)
<1>1. PICK e : e = Entered(<<>>, "int")
  OBVIOUS
<1>2. <<>> \in Seq(Classes) /\ "int" \in Returns
  BY EmptySeq DEF Returns
<1>3. e \in Frames
  BY <1>1, <1>2, EnteredType
<1>4. /\ e.phase = "prologue" /\ e.rbp = 0 /\ e.args = <<>> /\ e.received = 0
  BY <1>1 DEF Entered
<1>5. a \in Seq(Frames) /\ Len(a) = 1 /\ a[1] = e
  BY <1>1, <1>3
<1>6. 1 \in 1 .. MaxDepth
  BY BoundAssumption
<1>7. r \in [Regs -> Value]
  BY DEF Value
<1>8. \A y \in DOMAIN m : FALSE
  BY EmptySeq
<1>9. Typed(a, r, 0, 0, m)
  BY <1>5, <1>6, <1>7, <1>8 DEF Typed, BYTES_PER_PUSH
<1>10. FrameOK(a, 1)
  <2>1. Len(e.args) = 0
    BY <1>4
  <2> QED BY <1>4, <1>5, <2>1 DEF FrameOK, BYTES_PER_PUSH
<1>11. \A d, c \in 1 .. 1 : Apart(a, d, c)
  BY DEF Apart
<1>12. FrameWords(a, m, 1)
  BY <1>4, <1>5 DEF FrameWords
<1>13. StackOK(a, m)
  BY <1>5, <1>10, <1>11, <1>12 DEF StackOK
<1>14. Moves(<<>>) = <<>>
  <2>1. Placement(<<>>)[0] = Unplaced
    BY <1>2, PlacementTurns
  <2> QED BY <2>1 DEF Moves, Placing, Unplaced
<1>15. Moved(<<>>, 1, r, Len(Moves(<<>>)))
  BY <1>14 DEF Moved
<1>16. TopOK(a, 1, r, 0, 0, m)
  BY <1>4, <1>5, <1>15 DEF TopOK, Entry, Below
<1> QED BY <1>5, <1>9, <1>13, <1>16 DEF State

LEMMA InitIInv == Init => IInv
BY InitState DEF Init, IInv

LEMMA PrologueKeeps ==
  ASSUME IInv, Prologue PROVE IInv'
<1>1. PICK g : g = [active[Len(active)] EXCEPT !.phase = "params", !.rbp = rsp - 8,
                      !.code = function_params(active[Len(active)].args)]
  OBVIOUS
<1>2. State(active, regs, rsp, rbp, memory) /\ active[Len(active)].phase = "prologue"
  BY DEF IInv, Prologue, Top, Depth
<1>3. State([active EXCEPT ![Len(active)] = g], regs,
            rsp - 8 - FrameBytes(active[Len(active)]), rsp - 8,
            StoredIn(memory, rsp - 8, <<"rbp", rbp, 0>>))
  BY <1>1, <1>2, PrologueStep
<1>4. /\ active' = [active EXCEPT ![Len(active)] = g] /\ regs' = regs
      /\ rsp' = rsp - 8 - FrameBytes(active[Len(active)]) /\ rbp' = rsp - 8
      /\ memory' = StoredIn(memory, rsp - 8, <<"rbp", rbp, 0>>)
      /\ status' = status
  BY <1>1 DEF Prologue, With, Top, Depth, Stored, StoredIn, BYTES_PER_PUSH
<1> QED BY <1>3, <1>4 DEF IInv

LEMMA ReceiveKeeps ==
  ASSUME IInv, Receive PROVE IInv'
<1>1. PICK f : f = active[Len(active)]
  OBVIOUS
<1>2. PICK g, v :
        /\ g = [active[Len(active)] EXCEPT !.code = Tail(@), !.received = @ + 1]
        /\ v = IF Head(active[Len(active)].code).op = "store"
               THEN regs[Head(active[Len(active)].code).reg]
               ELSE WordIn(memory, rbp + 16 + 8 * Head(active[Len(active)].code).n)
  OBVIOUS
<1>3. /\ State(active, regs, rsp, rbp, memory)
      /\ active[Len(active)].phase = "params" /\ active[Len(active)].code # <<>>
  BY DEF IInv, Receive, Top, Depth
<1>4. State([active EXCEPT ![Len(active)] = g], regs, rsp, rbp,
            StoredIn(memory, Slot(active[Len(active)], active[Len(active)].received + 1), v))
  BY <1>2, <1>3, ReceiveStep
<1>5. v = IF Head(f.code).op = "store" THEN regs[Head(f.code).reg]
          ELSE Word(StackParameter(Head(f.code).n))
  BY <1>1, <1>2 DEF Word, WordIn, StackParameter, BYTES_ARG_FIRST, BYTES_PER_PUSH
<1>6. /\ active' = [active EXCEPT ![Len(active)] = g] /\ regs' = regs
      /\ rsp' = rsp /\ rbp' = rbp /\ status' = status
  BY <1>2 DEF Receive, With, Top, Depth
<1>7. memory' = StoredIn(memory, Slot(f, f.received + 1), v)
  BY <1>1, <1>5 DEF Receive, Top, Depth, Stored, StoredIn
<1> QED BY <1>1, <1>4, <1>6, <1>7 DEF IInv

LEMMA ReceivedKeeps ==
  ASSUME IInv, Received PROVE IInv'
<1>1. PICK g : g = [active[Len(active)] EXCEPT !.phase = "body"]
  OBVIOUS
<1>2. /\ State(active, regs, rsp, rbp, memory)
      /\ active[Len(active)].phase = "params" /\ active[Len(active)].code = <<>>
  BY DEF IInv, Received, Top, Depth
<1>3. State([active EXCEPT ![Len(active)] = g], regs, rsp, rbp, memory)
  BY <1>1, <1>2, ReceivedStep
<1>4. /\ active' = [active EXCEPT ![Len(active)] = g] /\ regs' = regs
      /\ rsp' = rsp /\ rbp' = rbp /\ memory' = memory /\ status' = status
  BY <1>1 DEF Received, With, Top, Depth
<1> QED BY <1>3, <1>4 DEF IInv

LEMMA SignatureType ==
  ASSUME NEW args \in Signatures
  PROVE  args \in Seq(Classes)
<1>1. PICK n \in 0 .. MaxArgs : args \in [1 .. n -> Classes]
  BY DEF Signatures
<1>2. n \in Nat
  BY BoundAssumption
<1> QED BY <1>1, <1>2

LEMMA CallKeeps ==
  ASSUME IInv, NEW args \in Signatures, NEW ret \in Returns, Call(args, ret) PROVE IInv'
<1>1. PICK g : g = [active[Len(active)] EXCEPT !.phase = "calling",
                      !.code = op_call(args, ret), !.callee = args, !.returns = ret]
  OBVIOUS
<1>2. /\ State(active, regs, rsp, rbp, memory) /\ Len(active) < MaxDepth
      /\ active[Len(active)].phase = "body"
  BY DEF IInv, Call, Top, Depth
<1>3. /\ regs' = regs /\ rsp' = rsp /\ rbp' = rbp /\ memory' = memory
      /\ \/ active' = active /\ status' \in {"assert", "overrun"}
         \/ active' = [active EXCEPT ![Len(active)] = g] /\ status' = status
  BY <1>1 DEF Call, With, Top, Depth
<1>4. State([active EXCEPT ![Len(active)] = g], regs, rsp, rbp, memory)
  <2>1. args \in Seq(Classes)
    BY SignatureType
  <2> QED BY <1>1, <1>2, <2>1, CallStep
<1>5. CASE active' = active /\ status' \in {"assert", "overrun"}
  BY <1>2, <1>3, <1>5 DEF IInv
<1>6. CASE active' = [active EXCEPT ![Len(active)] = g] /\ status' = status
  BY <1>3, <1>4, <1>6 DEF IInv
<1> QED BY <1>3, <1>5, <1>6

\* What the instructions of a call have in common.
LEMMA ExecutesIs ==
  ASSUME IInv, NEW ops, Executes(ops)
  PROVE  /\ State(active, regs, rsp, rbp, memory)
         /\ active[Len(active)].phase = "calling" /\ active[Len(active)].code # <<>>
         /\ Head(active[Len(active)].code).op \in ops
         /\ rbp' = rbp /\ status' = status
BY DEF IInv, Executes, Next1, Top, Depth

LEMMA AdjustRspKeeps ==
  ASSUME IInv, AdjustRsp PROVE IInv'
<1>1. PICK g, next : /\ g = [active[Len(active)] EXCEPT !.code = Tail(@)]
                     /\ next = Head(active[Len(active)].code)
  OBVIOUS
<1>2. PICK tp : tp = IF next.op = "subq" THEN rsp - next.n ELSE rsp + next.n
  OBVIOUS
<1>3. Executes({"subq", "addq"})
  BY DEF AdjustRsp
<1>4. /\ State(active, regs, rsp, rbp, memory)
      /\ active[Len(active)].phase = "calling" /\ active[Len(active)].code # <<>>
      /\ Head(active[Len(active)].code).op \in {"subq", "addq"}
      /\ rbp' = rbp /\ status' = status
  BY <1>3, ExecutesIs
<1>5. State([active EXCEPT ![Len(active)] = g], regs, tp, rbp, Above(memory, tp))
  BY <1>1, <1>2, <1>4, AdjustStep
<1>6. rsp' = tp
  BY <1>1, <1>2 DEF AdjustRsp, Next1, Top, Depth
<1>7. /\ active' = [active EXCEPT ![Len(active)] = g] /\ regs' = regs
      /\ memory' = Above(memory, tp)
  BY <1>1, <1>6 DEF AdjustRsp, Advance, With, Top, Depth
<1> QED BY <1>4, <1>5, <1>6, <1>7 DEF IInv

LEMMA MoveArgumentKeeps ==
  ASSUME IInv, MoveArgument PROVE IInv'
<1>1. PICK g, next : /\ g = [active[Len(active)] EXCEPT !.code = Tail(@)]
                     /\ next = Head(active[Len(active)].code)
  OBVIOUS
<1>2. PICK q : q = [regs EXCEPT ![next.reg] = Argument(Len(active) + 1, next.n)]
  OBVIOUS
<1>3. Executes({"mov"})
  BY DEF MoveArgument
<1>4. /\ State(active, regs, rsp, rbp, memory)
      /\ active[Len(active)].phase = "calling" /\ active[Len(active)].code # <<>>
      /\ Head(active[Len(active)].code).op \in {"mov"}
      /\ rbp' = rbp /\ status' = status
  BY <1>3, ExecutesIs
<1>5. State([active EXCEPT ![Len(active)] = g], q, rsp, rbp, memory)
  BY <1>1, <1>2, <1>4, MoveStep
<1>6. /\ active' = [active EXCEPT ![Len(active)] = g] /\ regs' = q
      /\ rsp' = rsp /\ memory' = memory
  BY <1>1, <1>2 DEF MoveArgument, Advance, With, Next1, Top, Depth
<1> QED BY <1>4, <1>5, <1>6 DEF IInv

LEMMA PushKeeps ==
  ASSUME IInv, Push PROVE IInv'
<1>1. PICK g, next : /\ g = [active[Len(active)] EXCEPT !.code = Tail(@)]
                     /\ next = Head(active[Len(active)].code)
  OBVIOUS
<1>2. PICK v : v = IF next.op = "push_rax" THEN regs[Rax]
                   ELSE Argument(Len(active) + 1, next.n)
  OBVIOUS
<1>3. Executes({"push", "push_rax"})
  BY DEF Push
<1>4. /\ State(active, regs, rsp, rbp, memory)
      /\ active[Len(active)].phase = "calling" /\ active[Len(active)].code # <<>>
      /\ Head(active[Len(active)].code).op \in {"push", "push_rax"}
      /\ rbp' = rbp /\ status' = status
  BY <1>3, ExecutesIs
<1>5. State([active EXCEPT ![Len(active)] = g], regs, rsp - 8, rbp,
            StoredIn(memory, rsp - 8, v))
  BY <1>1, <1>2, <1>4, PushStep
<1>6. /\ active' = [active EXCEPT ![Len(active)] = g] /\ regs' = regs
      /\ rsp' = rsp - 8
  BY <1>1 DEF Push, Advance, With, Top, Depth, BYTES_PER_PUSH
<1>7. memory' = StoredIn(memory, rsp - 8, v)
  BY <1>1, <1>2, <1>6 DEF Push, Next1, Top, Depth, Stored, StoredIn
<1> QED BY <1>4, <1>5, <1>6, <1>7 DEF IInv

LEMMA EnterCalleeKeeps ==
  ASSUME IInv, EnterCallee PROVE IInv'
<1>1. PICK g, next : /\ g = [active[Len(active)] EXCEPT !.code = Tail(@)]
                     /\ next = Head(active[Len(active)].code)
  OBVIOUS
<1>2. PICK b : b = Append([active EXCEPT ![Len(active)] = g],
                          Entered(active[Len(active)].callee, active[Len(active)].returns))
  OBVIOUS
<1>3. Executes({"call"})
  BY DEF EnterCallee
<1>4. /\ State(active, regs, rsp, rbp, memory)
      /\ active[Len(active)].phase = "calling" /\ active[Len(active)].code # <<>>
      /\ Head(active[Len(active)].code).op \in {"call"}
      /\ rbp' = rbp /\ status' = status
  BY <1>3, ExecutesIs
<1>5. State(b, regs, rsp - 8, rbp, StoredIn(memory, rsp - 8, <<"return", Len(active), 0>>))
  BY <1>1, <1>2, <1>4, EnterStep
<1>6. rsp' = rsp - 8 /\ regs' = regs
  BY DEF EnterCallee, BYTES_PER_PUSH
<1>7. memory' = StoredIn(memory, rsp - 8, <<"return", Len(active), 0>>)
  BY <1>6 DEF EnterCallee, Depth, Stored, StoredIn
<1>8. active' = b
  <2>1. active' = Append([active EXCEPT ![Len(active)].code = Tail(@)],
                         Entered(active[Len(active)].callee, active[Len(active)].returns))
    BY DEF EnterCallee, Top, Depth
  <2>2. [active EXCEPT ![Len(active)].code = Tail(@)] = [active EXCEPT ![Len(active)] = g]
    BY <1>1
  <2> QED BY <1>2, <2>1, <2>2
<1> QED BY <1>4, <1>5, <1>6, <1>7, <1>8 DEF IInv

LEMMA TakeResultKeeps ==
  ASSUME IInv, TakeResult PROVE IInv'
<1>1. PICK next : next = Head(active[Len(active)].code)
  OBVIOUS
<1>2. PICK g : g = [active[Len(active)] EXCEPT !.code = Tail(@), !.got = regs[next.reg]]
  OBVIOUS
<1>3. Executes({"result"})
  BY DEF TakeResult
<1>4. /\ State(active, regs, rsp, rbp, memory)
      /\ active[Len(active)].phase = "calling" /\ active[Len(active)].code # <<>>
      /\ Head(active[Len(active)].code).op \in {"result"}
      /\ rbp' = rbp /\ status' = status
  BY <1>3, ExecutesIs
<1>5. State([active EXCEPT ![Len(active)] = g], regs, rsp, rbp, memory)
  BY <1>1, <1>2, <1>4, ResultStep
<1>6. /\ active' = [active EXCEPT ![Len(active)] = g] /\ regs' = regs
      /\ rsp' = rsp /\ memory' = memory
  BY <1>1, <1>2 DEF TakeResult, With, Next1, Top, Depth
<1> QED BY <1>4, <1>5, <1>6 DEF IInv

LEMMA CallDoneKeeps ==
  ASSUME IInv, CallDone PROVE IInv'
<1>1. PICK g : g = [active[Len(active)] EXCEPT !.phase = "body", !.callee = <<>>,
                      !.returns = "void", !.got = Nothing]
  OBVIOUS
<1>2. /\ State(active, regs, rsp, rbp, memory)
      /\ active[Len(active)].phase = "calling" /\ active[Len(active)].code = <<>>
  BY DEF IInv, CallDone, Top, Depth
<1>3. State([active EXCEPT ![Len(active)] = g], regs, rsp, rbp, memory)
  BY <1>1, <1>2, DoneStep
<1>4. /\ active' = [active EXCEPT ![Len(active)] = g] /\ regs' = regs
      /\ rsp' = rsp /\ rbp' = rbp /\ memory' = memory /\ status' = status
  BY <1>1 DEF CallDone, With, Top, Depth
<1> QED BY <1>3, <1>4 DEF IInv

LEMMA ReturnKeeps ==
  ASSUME IInv, Return PROVE IInv'
<1>1. PICK q : q = [x \in Regs |-> IF /\ active[Len(active)].ret # "void"
                                      /\ x = Returned(active[Len(active)].ret)
                                   THEN Result(Len(active)) ELSE Nothing]
  OBVIOUS
<1>2. /\ State(active, regs, rsp, rbp, memory) /\ status \in {"ok", "assert", "overrun"}
      /\ active[Len(active)].phase = "body" /\ Len(active) > 1
  BY DEF IInv, Return, Top, Depth
<1>3. /\ State(SubSeq(active, 1, Len(active) - 1), q, rbp + 16, WordIn(memory, rbp)[2],
               Above(memory, rbp + 16))
      /\ WordIn(memory, rbp + 8) = <<"return", Len(active) - 1, 0>>
  BY <1>1, <1>2, ReturnStep
<1>4. rsp' = rbp + 16 /\ rbp' = WordIn(memory, rbp)[2] /\ regs' = q
  BY <1>1 DEF Return, Top, Depth, Word, WordIn, BYTES_PER_PUSH
<1>5. status' = status
  BY <1>3 DEF Return, Depth, Word, WordIn, BYTES_PER_PUSH
<1>6. active' = SubSeq(active, 1, Len(active) - 1) /\ memory' = Above(memory, rbp + 16)
  BY <1>4 DEF Return, Depth
<1> QED BY <1>2, <1>3, <1>4, <1>5, <1>6 DEF IInv

LEMMA NextIInv == IInv /\ [Next]_vars => IInv'
<1> SUFFICES ASSUME IInv, [Next]_vars
             PROVE  IInv'
  OBVIOUS
<1>1. CASE Prologue
  BY <1>1, PrologueKeeps
<1>2. CASE Receive
  BY <1>2, ReceiveKeeps
<1>3. CASE Received
  BY <1>3, ReceivedKeeps
<1>4. ASSUME NEW args \in Signatures, NEW ret \in Returns, Call(args, ret)
      PROVE  IInv'
  BY <1>4, CallKeeps
<1>5. CASE AdjustRsp
  BY <1>5, AdjustRspKeeps
<1>6. CASE MoveArgument
  BY <1>6, MoveArgumentKeeps
<1>7. CASE Push
  BY <1>7, PushKeeps
<1>8. CASE EnterCallee
  BY <1>8, EnterCalleeKeeps
<1>9. CASE TakeResult
  BY <1>9, TakeResultKeeps
<1>10. CASE CallDone
  BY <1>10, CallDoneKeeps
<1>11. CASE Return
  BY <1>11, ReturnKeeps
<1>12. CASE UNCHANGED vars
  BY <1>12 DEF vars, IInv
<1> QED BY <1>1, <1>2, <1>3, <1>4, <1>5, <1>6, <1>7, <1>8, <1>9, <1>10, <1>11, <1>12
        DEF Next

LEMMA Invariance == Spec => []IInv
BY InitIInv, NextIInv, PTL DEF Spec

(***************************************************************************)
(* The theorems.                                                           *)
(***************************************************************************)
\* The machine keeps its types, and its words stay aligned.
THEOREM TypeCorrect == Spec => []TypeOK
<1>1. IInv => TypeOK
  <2> SUFFICES ASSUME IInv PROVE TypeOK
    OBVIOUS
  <2>1. Typed(active, regs, rsp, rbp, memory) /\ status \in {"ok", "assert", "overrun"}
    BY DEF IInv, State
  <2>2. active \in Seq([args: Seq(Classes), ret: Returns, rbp: Int, received: Nat,
                        phase: {"prologue", "params", "body", "calling"}, code: Code,
                        callee: Seq(Classes), returns: Returns, got: Value])
    BY <2>1, CodeIsSeq DEF Typed, Frames
  <2> QED BY <2>1, <2>2 DEF TypeOK, Typed, Depth
<1> QED BY Invariance, <1>1, PTL

\* What codegen_function_params reads is what codegen_op_call has put in
\* registers and on the stack, whatever the signature; nothing that is
\* pushed later reaches it.
THEOREM ArgumentsReachParameters == Spec => []ParametersHoldArguments
<1>1. IInv => ParametersHoldArguments
  <2> SUFFICES ASSUME IInv, NEW d \in 1 .. Len(active), NEW i \in 1 .. active[d].received
               PROVE  Word(Slot(active[d], i)) = Argument(d, i)
    BY DEF ParametersHoldArguments, Depth
  <2>1. FrameWords(active, memory, d)
    BY DEF IInv, State, StackOK
  <2>2. WordIn(memory, Slot(active[d], i)) = Argument(d, i)
    BY <2>1 DEF FrameWords
  <2> QED BY <2>2 DEF Word, WordIn
<1> QED BY Invariance, <1>1, PTL

\* The subq, the pushes and the addq of codegen_op_call cancel out, and every
\* `ret' pops the address its `call' pushed.
THEOREM StackStaysBalanced == Spec => []StackBalanced
<1>1. IInv => StackBalanced
  <2> SUFFICES ASSUME IInv
               PROVE  StackBalanced
    OBVIOUS
  <2>1. status # "lost"
    BY DEF IInv
  <2>2. ASSUME Top.phase = "body"
        PROVE  rbp = Top.rbp /\ rsp = rbp - FrameBytes(Top) /\ Top.received = Len(Top.args)
    <3>1. State(active, regs, rsp, rbp, memory)
      BY DEF IInv
    <3>2. FrameOK(active, Len(active))
      BY <3>1, StateTop
    <3>3. TopOK(active, Len(active), regs, rsp, rbp, memory)
      BY <3>1 DEF State
    <3> QED BY <2>2, <3>2, <3>3 DEF Top, Depth, FrameOK, TopOK, Base
  <2> QED BY <2>1, <2>2 DEF StackBalanced
<1> QED BY Invariance, <1>1, PTL

\* IR_OP_RET and codegen_op_call agree on the register of a result, which
\* nothing overwrites in between.
THEOREM ResultsReachCallers == Spec => []ResultsArrive
<1>1. IInv => ResultsArrive
  <2> SUFFICES ASSUME IInv, Top.phase = "calling", Top.code = <<>>, Top.returns # "void"
               PROVE  Top.got = Result(Depth + 1)
    BY DEF ResultsArrive
  <2>1. PICK n, f : n = Len(active) /\ f = active[n]
    OBVIOUS
  <2>2. State(active, regs, rsp, rbp, memory) /\ active[Len(active)].phase = "calling"
    BY DEF IInv, Top, Depth
  <2>3. Calling(f, n + 1, regs, rsp, memory) /\ f \in Frames
    BY <2>1, <2>2, CallingTop
  <2>4. f.code = <<>> /\ f.returns # "void"
    BY <2>1 DEF Top, Depth
  <2>5. f.got = Result(n + 1)
    BY <2>3, <2>4, DoneIs
  <2> QED BY <2>1, <2>5 DEF Top, Depth
<1> QED BY Invariance, <1>1, PTL
=============================================================================
