------------------------------ MODULE StackSlots ------------------------------
(***************************************************************************)
(* codegen_replace_pseudo and codegen_fixup_alloc_stack of                 *)
(* src/passes/codegen.c: the pseudo registers and arrays of a function are *)
(* given bytes of its stack frame.  The function is the sequence of its    *)
(* mentions of them; the preflight walk, which only measures the range of  *)
(* the IDs, chooses it, and the second walk places the mentions in turn.   *)
(* Functions are independent: range, offsets and cursor start over.        *)
(***************************************************************************)
EXTENDS Integers, Sequences, FiniteSets

CONSTANTS
  Ids,          \* IDs of temporaries and locals
  Types,        \* what they hold: [word, total], total 0 unless an array
  SizeLimit,    \* the 4096 of codegen_replace_pseudo
  MaxMentions   \* bound on the mentions in the function

Words == {1, 4, 8}    \* enum word_type, in bytes

BYTES_PER_VALUE == 4
BYTES_PER_PUSH  == 8
BYTES_ALIGN     == 16  \* CODEGEN_BYTES_STACK_ALIGN_TOP_OR_ARR

IsArray(t) == t.total # 0

ASSUME IdAssumption == Ids \subseteq Nat
ASSUME TypeAssumption ==
  /\ Types \subseteq [word: Words, total: Nat]
  /\ \A t \in Types : IsArray(t) => t.total % t.word = 0 /\ t.total >= t.word
ASSUME BoundAssumption == SizeLimit \in Nat /\ MaxMentions \in Nat

VARIABLES
  type,         \* what each ID holds
  ops,          \* the mentions, in program order: [id, word, offset]
  range,        \* least and greatest ID met, or None
  offsets,      \* the offset of each slot by ID - range.lo; 0 is unset
  cursor,       \* the bytes given away
  placed,       \* the operands rewritten so far: n for the operand -n(%rbp)
  stack_usage,
  frame,        \* what the prologue subtracts from %rsp
  pass,         \* "preflight" | "replace" | "usage" | "fixup" | "done"
  status        \* "ok" or "assert"

vars == <<type, ops, range, offsets, cursor, placed, stack_usage, frame, pass, status>>

None == [lo |-> -1, hi |-> -1]

\* The operands codegen_map_operand makes for an ID: the word of its type,
\* a narrower one where IR_OP_CTYPE_TRUNCATE reads part of it, and for an
\* array the word of an element and where it starts.
Mentions(id) ==
  IF IsArray(type[id])
  THEN {[id |-> id, word |-> type[id].word, offset |-> o] :
          o \in {o \in 0 .. type[id].total - 1 : o % type[id].word = 0}}
  ELSE {[id |-> id, word |-> w, offset |-> 0] :
          w \in {w \in Words : w =< type[id].word}}

Init ==
  /\ type \in [Ids -> Types]
  /\ ops = <<>> /\ range = None
  /\ offsets = <<>>
  /\ cursor = 0
  /\ placed = <<>>
  /\ stack_usage = 0 /\ frame = 0
  /\ pass = "preflight" /\ status = "ok"

Lesser(a, b)  == IF a < b THEN a ELSE b
Greater(a, b) == IF a < b THEN b ELSE a

Preflight(m) ==
  /\ pass = "preflight" /\ Len(ops) < MaxMentions
  /\ ops' = Append(ops, m)
  /\ range' = IF range = None THEN [lo |-> m.id, hi |-> m.id]
              ELSE [lo |-> Lesser(range.lo, m.id), hi |-> Greater(range.hi, m.id)]
  /\ UNCHANGED <<type, offsets, cursor, placed, stack_usage, frame, pass, status>>

Size == 1 + range.hi - range.lo

\* Mutation: the table may hold one entry too many.
Fits_OffByOne == Size - 1 =< SizeLimit

Fits == Size =< SizeLimit

\* A function that mentions no ID has nothing to replace.
EndPreflight ==
  /\ pass = "preflight"
  /\ IF range = None
     THEN pass' = "fixup" /\ UNCHANGED <<offsets, status>>
     ELSE IF ~ Fits
     THEN pass' = "done" /\ status' = "assert" /\ UNCHANGED offsets
     ELSE /\ pass' = "replace" /\ UNCHANGED status
          /\ offsets' = [i \in 0 .. Size - 1 |-> 0]
  /\ UNCHANGED <<type, ops, range, cursor, placed, stack_usage, frame>>

round_up_to_multiple_of(n, base) == ((n + base - 1) \div base) * base

\* Mutation: an array takes the room of one element.
Advance_Element(m) ==
  CASE IsArray(type[m.id]) ->
         round_up_to_multiple_of(cursor + m.word, BYTES_ALIGN)
    [] m.word = 1 -> cursor + 1
    [] m.word = 4 -> round_up_to_multiple_of(cursor + 4, BYTES_PER_VALUE)
    [] m.word = 8 -> round_up_to_multiple_of(cursor + 8, BYTES_PER_PUSH)

\* Mutation: a 64-bit slot is aligned as a 32-bit one.
Advance_Misaligned(m) ==
  IF IsArray(type[m.id])
  THEN round_up_to_multiple_of(cursor + type[m.id].total, BYTES_ALIGN)
  ELSE IF m.word = 1 THEN cursor + 1
  ELSE round_up_to_multiple_of(cursor + m.word, BYTES_PER_VALUE)

\* The cursor once the ID of m has its slot: the word of this mention
\* decides the size of the slot.
Advance(m) ==
  CASE IsArray(type[m.id]) ->
         round_up_to_multiple_of(cursor + type[m.id].total, BYTES_ALIGN)
    [] ~ IsArray(type[m.id]) /\ m.word = 1 -> cursor + 1
    [] ~ IsArray(type[m.id]) /\ m.word = 4 ->
         round_up_to_multiple_of(cursor + BYTES_PER_VALUE, BYTES_PER_VALUE)
    [] ~ IsArray(type[m.id]) /\ m.word = 8 ->
         round_up_to_multiple_of(cursor + BYTES_PER_VALUE * 2, BYTES_PER_PUSH)

Current == ops[Len(placed) + 1]
Index(id) == id - range.lo

\* assert(computed_offset > 0) is part of the handler.
Place(offset) ==
  LET computed == offset - Current.offset
  IN  IF computed > 0
      THEN placed' = Append(placed, computed) /\ UNCHANGED <<pass, status>>
      ELSE pass' = "done" /\ status' = "assert" /\ UNCHANGED placed

Replace ==
  /\ pass = "replace" /\ Len(placed) < Len(ops)
  /\ LET i == Index(Current.id)
     IN  IF offsets[i] # 0
         THEN Place(offsets[i]) /\ UNCHANGED <<offsets, cursor>>
         ELSE /\ cursor' = Advance(Current)
              /\ offsets' = [offsets EXCEPT ![i] = cursor']
              /\ Place(cursor')
  /\ UNCHANGED <<type, ops, range, stack_usage, frame>>

EndReplace ==
  /\ pass = "replace" /\ Len(placed) = Len(ops)
  /\ pass' = "usage"
  /\ UNCHANGED <<type, ops, range, offsets, cursor, placed, stack_usage, frame, status>>

\* Mutation: the last slot of the table is forgotten.
Slots_OffByOne == {0} \cup {offsets[i] : i \in 0 .. Size - 2}

Slots == {0} \cup {offsets[i] : i \in 0 .. Size - 1}

Usage ==
  /\ pass = "usage"
  /\ \E n \in Slots : (\A k \in Slots : k =< n) /\ stack_usage' = n
  /\ pass' = "fixup"
  /\ UNCHANGED <<type, ops, range, offsets, cursor, placed, frame, status>>

\* codegen_fixup_alloc_stack
AllocStack ==
  /\ pass = "fixup"
  /\ frame' = IF stack_usage = 0 THEN 0
              ELSE round_up_to_multiple_of(stack_usage, BYTES_ALIGN)
  /\ pass' = "done"
  /\ UNCHANGED <<type, ops, range, offsets, cursor, placed, stack_usage, status>>

Next ==
  \/ \E id \in Ids : \E m \in Mentions(id) : Preflight(m)
  \/ EndPreflight \/ Replace \/ EndReplace \/ Usage \/ AllocStack

Spec == Init /\ [][Next]_vars
-----------------------------------------------------------------------------
(* Properties *)

Mention == [id: Ids, word: Words, offset: Nat]

TypeOK ==
  /\ type \in [Ids -> Types]
  /\ ops \in Seq(Mention)
  /\ \A p \in 1 .. Len(ops) : ops[p] \in Mentions(ops[p].id)
  /\ \/ range = None /\ ops = <<>>
     \/ range \in [lo: Nat, hi: Nat] /\ range.lo =< range.hi
  /\ pass \in {"replace", "usage"} =>
       offsets \in [0 .. Size - 1 -> Nat] /\ Size \in 1 .. SizeLimit
  /\ cursor \in Nat
  /\ placed \in Seq(Nat \ {0}) /\ Len(placed) =< Len(ops)
  /\ stack_usage \in Nat /\ frame \in Nat
  /\ pass \in {"preflight", "replace", "usage", "fixup", "done"}
  /\ status \in {"ok", "assert"}

Done == 1 .. Len(placed)

\* The bytes that placed mention p reaches, -k(%rbp) being byte k: those of
\* its word, and all of an array, by its address.
Low(p)  == IF IsArray(type[ops[p].id])
           THEN placed[p] + ops[p].offset - type[ops[p].id].total + 1
           ELSE placed[p] - ops[p].word + 1
High(p) == placed[p] + ops[p].offset

Apart(p, q) == High(p) < Low(q) \/ High(q) < Low(p)

\* The first mention of its ID is as wide as its type.
First(p) == \A q \in 1 .. p - 1 : ops[q].id # ops[p].id
MetWhole(id) ==
  \A p \in 1 .. Len(ops) : ops[p].id = id /\ First(p) => ops[p].word = type[id].word

\* Every ID keeps one place, and what is mentioned of an ID first met whole
\* shares no byte with what is mentioned of another one.
EachIdItsOwnBytes ==
  \A p, q \in Done :
    IF ops[p].id = ops[q].id THEN High(p) = High(q)
    ELSE MetWhole(ops[p].id) /\ MetWhole(ops[q].id) => Apart(p, q)

\* All of it lies between %rsp and the saved %rbp once the prologue has run,
\* and the frame keeps %rsp on a multiple of 16.
InsideTheFrame ==
  pass = "done" /\ status = "ok" =>
    /\ frame % BYTES_ALIGN = 0
    /\ Len(placed) = Len(ops)
    /\ \A p \in Done : High(p) =< frame /\ (MetWhole(ops[p].id) => Low(p) >= 1)

\* %rbp is a multiple of 16: every element and every ID first met whole is
\* aligned to its word, and every array to 16 bytes.
OperandsAligned ==
  \A p \in Done :
    /\ MetWhole(ops[p].id) => placed[p] % ops[p].word = 0
    /\ IsArray(type[ops[p].id]) => High(p) % BYTES_ALIGN = 0

\* Operands are within the bounds the assertions of the walk state, as long
\* as the table fits.
AssertionsHold == status = "assert" => ~ Fits

(***************************************************************************)
(* A comment of codegen_statement_one says of a truncation that it uses an *)
(* int's or a char's worth of its source: the source is wider, and all of  *)
(* it is its own even when this mention comes first.                       *)
(***************************************************************************)
TruncatedSourceKeepsItsBytes ==
  \A p, q \in Done : ops[p].id # ops[q].id => Apart(p, q)
=============================================================================
