-------------------------------- MODULE Calls --------------------------------
(***************************************************************************)
(* Function calls in the code that src/passes/codegen.c generates: what    *)
(* codegen_op_call emits around a `call', what codegen_function_params     *)
(* emits at the start of a function, and a machine that executes both.  A  *)
(* function here receives its parameters, calls other functions and        *)
(* returns.  Arguments are evaluated before the call and live in the frame *)
(* of the caller; every slot is 8 bytes (module StackSlots lays them out). *)
(***************************************************************************)
EXTENDS Integers, Sequences, FiniteSets

CONSTANTS
  CallReg,         \* CODEGEN_REGISTER_ARGS, scaled down
  CallFp,          \* CODEGEN_FP_REGISTER_ARGS, scaled down
  ParameterLimit,  \* FUNCTION_PARAMETER_LIMIT, scaled down
  MaxArgs,         \* bound on the arguments of a call
  MaxDepth         \* bound on the active calls

Classes == {"int", "long", "double"}   \* an int stands for types below 8 bytes
Returns == {"int", "double", "void"}

ASSUME RegisterAssumption == CallReg \in Nat /\ CallFp \in Nat \ {0}
ASSUME BoundAssumption ==
  ParameterLimit \in Nat /\ MaxArgs \in Nat /\ MaxDepth \in Nat \ {0}

VARIABLES
  active,  \* the active functions, outermost first
  regs,    \* argument and return registers
  rsp, rbp,
  memory,  \* the words pushed or stored, by address
  status   \* "ok", "assert" or "overrun"

vars == <<active, regs, rsp, rbp, memory, status>>

BYTES_PER_PUSH  == 8
BYTES_ARG_FIRST == 16
BYTES_ALIGN     == 16  \* CODEGEN_BYTES_STACK_ALIGN_TOP_OR_ARR

General(k) == <<"general", k>>   \* CALL_REG[k - 1]
Fp(k)      == <<"fp", k>>        \* CALL_FP[k - 1], the first of which is %xmm0
Rax        == <<"rax", 0>>
Regs == {General(k) : k \in 1 .. CallReg} \cup {Fp(k) : k \in 1 .. CallFp} \cup {Rax}

Nothing == <<"nothing", 0, 0>>

(***************************************************************************)
(* Generated code: [op, reg, n].  n is an argument, a parameter, a number  *)
(* of bytes or the place of a parameter on the stack.                      *)
(***************************************************************************)
Instruction(op, reg, n) == [op |-> op, reg |-> reg, n |-> n]
Mov(i, reg) == Instruction("mov", reg, i)
IsFp(class) == class = "double"

\* Mutation: one general register too many.
HasRegister_OffByOne(class, general, double) ==
  IF IsFp(class) THEN double < CallFp ELSE general =< CallReg

HasRegister(class, general, double) ==
  IF IsFp(class) THEN double < CallFp ELSE general < CallReg

\* One turn of the first loop of codegen_op_call: argument i goes to the next
\* register of its class, or is set aside.  s: the counters and what came before.
PlaceOne(s, class, i) ==
  IF ~ HasRegister(class, s.general, s.double)
  THEN [s EXCEPT !.stack = Append(@, i)]
  ELSE IF IsFp(class)
  THEN [s EXCEPT !.double = @ + 1, !.code = Append(@, Mov(i, Fp(s.double + 1)))]
  ELSE [s EXCEPT !.general = @ + 1, !.code = Append(@, Mov(i, General(s.general + 1)))]

\* The loop after each of the arguments.
Placement(args) ==
  LET after[i \in 0 .. Len(args)] ==
        IF i = 0
        THEN [general |-> 0, double |-> 0, stack |-> <<>>, code |-> <<>>]
        ELSE PlaceOne(after[i - 1], args[i], i)
  IN  after

Placing(args) == Placement(args)[Len(args)]

\* An argument below 8 bytes goes through %rax.  (Constants of any width are
\* pushed as they are, which only saves the detour.)
PushOne(class, i) ==
  IF class = "int" THEN <<Mov(i, Rax), Instruction("push_rax", Rax, 0)>>
  ELSE <<Instruction("push", Rax, i)>>

\* Mutation: the arguments are pushed in their own order.
Pushes_InOrder(args, stack) ==
  LET from[k \in 0 .. Len(stack)] ==
        IF k = 0 THEN <<>>
        ELSE from[k - 1] \o PushOne(args[stack[k]], stack[k])
  IN  from[Len(stack)]

\* The second loop: those set aside, the last one first.  At k, what the loop
\* emits from the k-th of them on.
PushesFrom(args, stack) ==
  LET from[k \in 0 .. Len(stack)] ==
        IF k = 0 THEN <<>>
        ELSE PushOne(args[stack[k]], stack[k]) \o from[k - 1]
  IN  from

Pushes(args, stack) == PushesFrom(args, stack)[Len(stack)]

Padding(args) == IF Len(args) % 2 = 1 THEN BYTES_PER_PUSH ELSE 0

\* Mutation: the padding stays.
Deallocate_KeepsPadding(args, stack) == BYTES_PER_PUSH * Len(stack)

Deallocate(args, stack) == BYTES_PER_PUSH * Len(stack) + Padding(args)

\* Mutation: the result is always taken from %rax.
ResultRegister_Rax(ret) == Rax

ResultRegister(ret) == IF ret = "double" THEN Fp(1) ELSE Rax

Sized(op, n) == IF n > 0 THEN <<Instruction(op, Rax, n)>> ELSE <<>>

op_call(args, ret) ==
  LET placing == Placing(args)
  IN  Sized("subq", Padding(args))
      \o placing.code
      \o Pushes(args, placing.stack)
      \o <<Instruction("call", Rax, 0)>>
      \o Sized("addq", Deallocate(args, placing.stack))
      \o (IF ret = "void" THEN <<>>
          ELSE <<Instruction("result", ResultRegister(ret), 0)>>)

\* One turn of codegen_function_params: a parameter is taken from the next
\* register of its class, counted whether there is one or not, or from the
\* next place on the stack.
FetchOne(s, class) ==
  LET inReg == HasRegister(class, s.general, s.double)
      from  == IF ~ inReg THEN Instruction("load", Rax, s.stack)
               ELSE Instruction("store", IF IsFp(class) THEN Fp(s.double + 1)
                                         ELSE General(s.general + 1), 0)
  IN  [general |-> IF IsFp(class) THEN s.general ELSE s.general + 1,
       double  |-> IF IsFp(class) THEN s.double + 1 ELSE s.double,
       stack   |-> IF inReg THEN s.stack ELSE s.stack + 1,
       code    |-> Append(s.code, from)]

Fetching(args) ==
  LET after[i \in 0 .. Len(args)] ==
        IF i = 0
        THEN [general |-> 0, double |-> 0, stack |-> 0, code |-> <<>>]
        ELSE FetchOne(after[i - 1], args[i])
  IN  after

function_params(args) == Fetching(args)[Len(args)].code

(***************************************************************************)
(* The machine.                                                            *)
(***************************************************************************)
Depth == Len(active)
Top == active[Depth]
Argument(depth, i) == <<"argument", depth, i>>
Result(depth) == <<"result", depth, 0>>

\* A function with this signature, its frame not there yet.
Entered(args, ret) ==
  [args |-> args, ret |-> ret, rbp |-> 0, received |-> 0,
   phase |-> "prologue", code |-> <<>>, callee |-> <<>>, returns |-> "void",
   got |-> Nothing]

FrameBytes(f) == ((BYTES_PER_PUSH * Len(f.args) + BYTES_ALIGN - 1)
                    \div BYTES_ALIGN) * BYTES_ALIGN

Word(address) == IF address \in DOMAIN memory THEN memory[address] ELSE Nothing
Stored(address, value) ==
  [a \in DOMAIN memory \cup {address} |-> IF a = address THEN value ELSE memory[a]]

\* What lies below %rsp is lost.
Above(bytes, address) == [a \in {a \in DOMAIN bytes : a >= address} |-> bytes[a]]

\* main, entered with its return address on the stack.
Init ==
  /\ active = <<Entered(<<>>, "int")>>
  /\ regs = [r \in Regs |-> Nothing]
  /\ rsp = 0 /\ rbp = 0
  /\ memory = <<>>
  /\ status = "ok"

With(f) == active' = [active EXCEPT ![Depth] = f]

\* IR_OP_RET: where a function leaves its result.
Returned(ret) == IF ret = "double" THEN Fp(1) ELSE Rax

Running == status = "ok" /\ active # <<>>

\* pushq %rbp, movq %rsp %rbp, and the subq of codegen_fixup_alloc_stack.
Prologue ==
  /\ Running /\ Top.phase = "prologue"
  /\ memory' = Stored(rsp - BYTES_PER_PUSH, <<"rbp", rbp, 0>>)
  /\ rbp' = rsp - BYTES_PER_PUSH
  /\ rsp' = rbp' - FrameBytes(Top)
  /\ With([Top EXCEPT !.phase = "params", !.rbp = rbp',
                      !.code = function_params(Top.args)])
  /\ UNCHANGED <<regs, status>>

Slot(f, i) == f.rbp - BYTES_PER_PUSH * i

\* Where a parameter on the stack is read.
StackParameter(place) == rbp + BYTES_ARG_FIRST + BYTES_PER_PUSH * place

Receive ==
  /\ Running /\ Top.phase = "params" /\ Top.code # <<>>
  /\ LET next  == Head(Top.code)
         value == IF next.op = "store" THEN regs[next.reg]
                  ELSE Word(StackParameter(next.n))
     IN  memory' = Stored(Slot(Top, Top.received + 1), value)
  /\ With([Top EXCEPT !.code = Tail(@), !.received = @ + 1])
  /\ UNCHANGED <<regs, rsp, rbp, status>>

Received ==
  /\ Running /\ Top.phase = "params" /\ Top.code = <<>>
  /\ With([Top EXCEPT !.phase = "body"])
  /\ UNCHANGED <<regs, rsp, rbp, memory, status>>

\* ir_call collects the arguments and the place of the result.
Call(args, ret) ==
  /\ Running /\ Top.phase = "body" /\ Depth < MaxDepth
  /\ IF Len(args) > ParameterLimit
     THEN status' = "assert" /\ UNCHANGED active
     ELSE IF Len(args) = ParameterLimit
     THEN status' = "overrun" /\ UNCHANGED active
     ELSE /\ With([Top EXCEPT !.phase = "calling", !.code = op_call(args, ret),
                              !.callee = args, !.returns = ret])
          /\ UNCHANGED status
  /\ UNCHANGED <<regs, rsp, rbp, memory>>

Next1 == Head(Top.code)
Executes(ops) ==
  /\ Running /\ Top.phase = "calling" /\ Top.code # <<>> /\ Next1.op \in ops
  /\ UNCHANGED <<rbp, status>>

Advance == With([Top EXCEPT !.code = Tail(@)])

AdjustRsp ==
  /\ Executes({"subq", "addq"})
  /\ rsp' = IF Next1.op = "subq" THEN rsp - Next1.n ELSE rsp + Next1.n
  /\ memory' = Above(memory, rsp')
  /\ Advance /\ UNCHANGED regs

MoveArgument ==
  /\ Executes({"mov"})
  /\ regs' = [regs EXCEPT ![Next1.reg] = Argument(Depth + 1, Next1.n)]
  /\ Advance /\ UNCHANGED <<rsp, memory>>

Push ==
  /\ Executes({"push", "push_rax"})
  /\ rsp' = rsp - BYTES_PER_PUSH
  /\ memory' = Stored(rsp', IF Next1.op = "push_rax" THEN regs[Rax]
                            ELSE Argument(Depth + 1, Next1.n))
  /\ Advance /\ UNCHANGED regs

EnterCallee ==
  /\ Executes({"call"})
  /\ rsp' = rsp - BYTES_PER_PUSH
  /\ memory' = Stored(rsp', <<"return", Depth, 0>>)
  /\ active' = Append([active EXCEPT ![Depth].code = Tail(@)],
                      Entered(Top.callee, Top.returns))
  /\ UNCHANGED regs

TakeResult ==
  /\ Executes({"result"})
  /\ With([Top EXCEPT !.code = Tail(@), !.got = regs[Next1.reg]])
  /\ UNCHANGED <<regs, rsp, memory>>

CallDone ==
  /\ Running /\ Top.phase = "calling" /\ Top.code = <<>>
  /\ With([Top EXCEPT !.phase = "body", !.callee = <<>>, !.returns = "void",
                      !.got = Nothing])
  /\ UNCHANGED <<regs, rsp, rbp, memory, status>>

\* The result, then movq %rbp %rsp, popq %rbp, ret.  The caller may count on
\* no register but that of the result.
Return ==
  /\ Running /\ Top.phase = "body" /\ Depth > 1
  /\ regs' = [r \in Regs |-> IF Top.ret # "void" /\ r = Returned(Top.ret)
                              THEN Result(Depth) ELSE Nothing]
  /\ rbp' = Word(rbp)[2]
  /\ rsp' = rbp + 2 * BYTES_PER_PUSH
  /\ status' = IF Word(rbp + BYTES_PER_PUSH) = <<"return", Depth - 1, 0>>
               THEN status ELSE "lost"
  /\ active' = SubSeq(active, 1, Depth - 1)
  /\ memory' = Above(memory, rsp')

Signatures == UNION {[1 .. n -> Classes] : n \in 0 .. MaxArgs}

Next ==
  \/ Prologue \/ Receive \/ Received
  \/ \E args \in Signatures, ret \in Returns : Call(args, ret)
  \/ AdjustRsp \/ MoveArgument \/ Push \/ EnterCallee \/ TakeResult \/ CallDone
  \/ Return

Spec == Init /\ [][Next]_vars
-----------------------------------------------------------------------------
(* Properties *)

Value == {Nothing} \cup ({"argument", "result", "rbp", "return"} \X Int \X Int)
Code ==
  Seq([op: {"mov", "push", "push_rax", "subq", "addq", "call", "result", "load", "store"},
       reg: Regs, n: Nat])

TypeOK ==
  /\ active \in Seq([args: Seq(Classes), ret: Returns, rbp: Int, received: Nat,
                     phase: {"prologue", "params", "body", "calling"}, code: Code,
                     callee: Seq(Classes), returns: Returns, got: Value])
  /\ Depth \in 1 .. MaxDepth
  /\ regs \in [Regs -> Value]
  /\ rsp \in Int /\ rbp \in Int
  /\ \A a \in DOMAIN memory : a % BYTES_PER_PUSH = 0 /\ memory[a] \in Value
  /\ status \in {"ok", "assert", "overrun", "lost"}

\* Every parameter received holds the argument of its position, through all
\* that the function and those it calls push afterwards: the caller's and
\* the callee's count of registers and of places on the stack agree.
ParametersHoldArguments ==
  \A d \in 1 .. Depth : \A i \in 1 .. active[d].received :
    Word(Slot(active[d], i)) = Argument(d, i)

\* Between two calls %rsp and %rbp are where the prologue left them, and
\* every `ret' finds the address its caller pushed.
StackBalanced ==
  /\ status # "lost"
  /\ Running /\ Top.phase = "body" =>
       /\ rbp = Top.rbp /\ rsp = rbp - FrameBytes(Top)
       /\ Top.received = Len(Top.args)

\* What the callee returns is what the caller takes.
ResultsArrive ==
  Running /\ Top.phase = "calling" /\ Top.code = <<>> /\ Top.returns # "void" =>
    Top.got = Result(Depth + 1)
=============================================================================
