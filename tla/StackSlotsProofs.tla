--------------------------- MODULE StackSlotsProofs ---------------------------
(***************************************************************************)
(* The invariants of StackSlots for any IDs and types and any number of    *)
(* mentions.  The argument: the slot of an ID starts where the cursor      *)
(* stood when the ID was first met, and is as wide as that mention, so     *)
(* slots lie one beyond the other in the order of the first mentions.      *)
(***************************************************************************)
EXTENDS StackSlots, SequenceTheorems, TLAPS

\* What mention m makes its slot hold.
Room(m) == IF IsArray(type[m.id]) THEN type[m.id].total ELSE m.word

RangeCovers ==
  \A p \in 1 .. Len(ops) : range.lo =< ops[p].id /\ ops[p].id =< range.hi

\* What the walk leaves behind, by how far it is.
Progress ==
  /\ pass = "preflight" => placed = <<>> /\ cursor = 0
  /\ pass \in {"usage", "fixup"} => Len(placed) = Len(ops)
  /\ pass = "fixup" => \A p \in Done : High(p) =< stack_usage
  /\ pass = "done" /\ status = "ok" =>
       /\ Len(placed) = Len(ops)
       /\ frame % BYTES_ALIGN = 0
       /\ \A p \in Done : High(p) =< frame
  /\ status = "assert" => pass = "done" /\ ~ Fits

\* The table is filled by what has been placed, and by nothing else.
TableFilled ==
  pass \in {"replace", "usage"} =>
    /\ \A p \in Done : offsets[Index(ops[p].id)] = High(p)
    /\ \A i \in 0 .. Size - 1 :
         offsets[i] # 0 => \E p \in Done : Index(ops[p].id) = i

\* The slots, by the first mentions of their IDs.
SlotsInOrder ==
  /\ \A p \in Done : \E r \in 1 .. p : First(r) /\ ops[r].id = ops[p].id
  /\ \A p, q \in Done : ops[p].id = ops[q].id => High(p) = High(q)
  /\ \A p \in Done : High(p) =< cursor
  /\ \A p \in Done : First(p) => High(p) >= Room(ops[p])
  /\ \A p, q \in Done :
       p < q /\ First(p) /\ First(q) => High(p) =< High(q) - Room(ops[q])

SlotsAligned ==
  \A p \in Done : First(p) =>
    IF IsArray(type[ops[p].id]) THEN High(p) % BYTES_ALIGN = 0
    ELSE High(p) % ops[p].word = 0

IInv ==
  /\ TypeOK /\ RangeCovers /\ Progress
  /\ TableFilled /\ SlotsInOrder /\ SlotsAligned
-----------------------------------------------------------------------------
(* Arithmetic. *)

\* round_up_to_multiple_of returns the multiple it asserts.
LEMMA RoundUp ==
  ASSUME NEW n \in Nat, NEW base \in {4, 8, 16}
  PROVE  /\ round_up_to_multiple_of(n, base) \in Nat
         /\ round_up_to_multiple_of(n, base) >= n
         /\ round_up_to_multiple_of(n, base) % base = 0
<1>1. CASE base = 4
  BY <1>1 DEF round_up_to_multiple_of
<1>2. CASE base = 8
  BY <1>2 DEF round_up_to_multiple_of
<1>3. CASE base = 16
  BY <1>3 DEF round_up_to_multiple_of
<1> QED BY <1>1, <1>2, <1>3

\* A multiple of a wide word is one of a narrower word.
LEMMA NarrowerWord ==
  ASSUME NEW n \in Int, NEW w \in Words, NEW v \in Words, v =< w, n % w = 0
  PROVE  n % v = 0
<1>1. CASE w = 1
  BY <1>1 DEF Words
<1>2. CASE w = 4
  BY <1>2 DEF Words
<1>3. CASE w = 8
  BY <1>3 DEF Words
<1> QED BY <1>1, <1>2, <1>3 DEF Words

\* An element of an array aligned to 16 bytes is aligned to its word.
LEMMA ElementAligned ==
  ASSUME NEW n \in Int, NEW o \in Nat, NEW w \in Words,
         n % 16 = 0, o % w = 0
  PROVE  (n - o) % w = 0
<1>1. CASE w = 1
  BY <1>1
<1>2. CASE w = 4
  BY <1>2
<1>3. CASE w = 8
  BY <1>3
<1> QED BY <1>1, <1>2, <1>3 DEF Words

\* What the operands of codegen_map_operand look like.
LEMMA MentionShape ==
  ASSUME type \in [Ids -> Types], NEW id \in Ids, NEW m \in Mentions(id)
  PROVE  /\ m \in Mention /\ m.id = id
         /\ type[id] \in [word: Words, total: Nat]
         /\ IsArray(type[id]) =>
              /\ m.word = type[id].word /\ m.offset < type[id].total
              /\ m.offset % m.word = 0
         /\ ~ IsArray(type[id]) => m.word =< type[id].word /\ m.offset = 0
         /\ Room(m) \in Nat /\ m.offset < Room(m)
<1>1. type[id] \in Types /\ type[id] \in [word: Words, total: Nat]
  BY TypeAssumption
<1>2. CASE IsArray(type[id])
  BY <1>1, <1>2 DEF Mentions, Mention, Room, Words
<1>3. CASE ~ IsArray(type[id])
  BY <1>1, <1>3 DEF Mentions, Mention, Room, Words
<1> QED BY <1>1, <1>2, <1>3

\* A new slot lies beyond the cursor, and is wide and aligned enough.
LEMMA AdvanceMakesRoom ==
  ASSUME TypeOK, NEW id \in Ids, NEW m \in Mentions(id)
  PROVE  /\ Advance(m) \in Nat
         /\ Advance(m) >= cursor + Room(m)
         /\ IF IsArray(type[id]) THEN Advance(m) % BYTES_ALIGN = 0
            ELSE Advance(m) % m.word = 0
<1>1. /\ m.id = id /\ m.word \in Words /\ type[id].total \in Nat /\ cursor \in Nat
  BY MentionShape DEF TypeOK, Mention
<1>2. CASE IsArray(type[id])
  <2> DEFINE n == cursor + type[id].total
  <2>1. n \in Nat /\ Advance(m) = round_up_to_multiple_of(n, 16)
    BY <1>1, <1>2 DEF Advance, BYTES_ALIGN
  <2> HIDE DEF n
  <2>2. Advance(m) \in Nat /\ Advance(m) % 16 = 0 /\ Advance(m) >= n
    BY <2>1, RoundUp
  <2> USE DEF n
  <2> QED BY <1>1, <1>2, <2>2 DEF Room, BYTES_ALIGN
<1>3. CASE ~ IsArray(type[id]) /\ m.word = 1
  <2>1. Advance(m) = cursor + 1
    BY <1>1, <1>3 DEF Advance
  <2> QED BY <1>1, <1>3, <2>1 DEF Room
<1>4. CASE ~ IsArray(type[id]) /\ m.word = 4
  <2>1. Advance(m) = round_up_to_multiple_of(cursor + 4, 4)
    BY <1>1, <1>4 DEF Advance, BYTES_PER_VALUE
  <2> QED BY <1>1, <1>4, <2>1, RoundUp DEF Room
<1>5. CASE ~ IsArray(type[id]) /\ m.word = 8
  <2>1. Advance(m) = round_up_to_multiple_of(cursor + 8, 8)
    BY <1>1, <1>5 DEF Advance, BYTES_PER_VALUE, BYTES_PER_PUSH
  <2> QED BY <1>1, <1>5, <2>1, RoundUp DEF Room
<1> QED BY <1>1, <1>2, <1>3, <1>4, <1>5 DEF Words
-----------------------------------------------------------------------------
(* The inductive invariant. *)

LEMMA InitIInv == Init => IInv
<1> SUFFICES ASSUME Init PROVE IInv
  OBVIOUS
<1>1. TypeOK
  BY DEF Init, TypeOK, None, Mention
<1>2. RangeCovers /\ Progress /\ TableFilled /\ SlotsInOrder /\ SlotsAligned
  BY DEF Init, RangeCovers, Progress, TableFilled, SlotsInOrder, SlotsAligned, Done
<1> QED BY <1>1, <1>2 DEF IInv

\* While nothing is placed there is nothing to say of what is.
LEMMA NothingPlaced ==
  ASSUME placed = <<>>
  PROVE  SlotsInOrder /\ SlotsAligned
BY DEF SlotsInOrder, SlotsAligned, Done

LEMMA PreflightStep ==
  ASSUME IInv, NEW id \in Ids, NEW m \in Mentions(id), Preflight(m)
  PROVE  IInv'
<1> DEFINE l == Len(ops)
<1>1. /\ type \in [Ids -> Types] /\ ops \in Seq(Mention) /\ l \in Nat
      /\ \A p \in 1 .. l : ops[p] \in Mentions(ops[p].id)
      /\ m \in Mention /\ m.id = id /\ id \in Nat
      /\ placed = <<>> /\ cursor = 0 /\ pass = "preflight"
  BY MentionShape, IdAssumption DEF IInv, TypeOK, Progress, Preflight
<1>2. /\ ops' \in Seq(Mention) /\ Len(ops') = l + 1 /\ ops' # <<>>
      /\ \A p \in 1 .. l : ops'[p] = ops[p]
      /\ ops'[l + 1] = m
  BY <1>1, AppendProperties DEF Preflight
<1>3. \A p \in 1 .. Len(ops') : ops'[p] \in Mentions(ops'[p].id)
  BY <1>1, <1>2
<1>4. /\ range' \in [lo: Nat, hi: Nat] /\ range'.lo =< range'.hi
      /\ range'.lo =< id /\ id =< range'.hi
      /\ ops # <<>> => range'.lo =< range.lo /\ range.hi =< range'.hi
                      /\ range \in [lo: Nat, hi: Nat]
  <2>1. CASE range = None
    BY <1>1, <2>1 DEF Preflight, IInv, TypeOK, None
  <2>2. CASE range # None
    <3>1. range \in [lo: Nat, hi: Nat] /\ range.lo =< range.hi
      BY <2>2 DEF IInv, TypeOK
    <3> QED BY <1>1, <2>2, <3>1 DEF Preflight, Lesser, Greater
  <2> QED BY <2>1, <2>2
<1>5. UNCHANGED <<type, offsets, cursor, placed, stack_usage, frame, pass, status>>
  BY DEF Preflight
<1>6. TypeOK'
  BY <1>1, <1>2, <1>3, <1>4, <1>5 DEF IInv, TypeOK, Mentions
<1>7. RangeCovers'
  <2>1. l > 0 => ops # <<>>
    BY <1>1
  <2>2. \A p \in 1 .. l : ops[p].id \in Nat
    <3>1. \A p \in 1 .. l : ops[p] \in Mention
      BY <1>1, ElementOfSeq
    <3> QED BY <3>1, IdAssumption DEF Mention
  <2>3. \A p \in 1 .. l + 1 : range'.lo =< ops'[p].id /\ ops'[p].id =< range'.hi
    BY <1>1, <1>2, <1>4, <2>1, <2>2 DEF IInv, RangeCovers
  <2> QED BY <1>2, <2>3 DEF RangeCovers
<1>8. Progress' /\ TableFilled'
  BY <1>1, <1>5 DEF IInv, Progress, TableFilled
<1>9. SlotsInOrder' /\ SlotsAligned'
  BY <1>1, <1>5 DEF SlotsInOrder, SlotsAligned, Done
<1> QED BY <1>6, <1>7, <1>8, <1>9 DEF IInv

\* What is known of a mention of the function, and of one that is placed.
LEMMA MentionTyped ==
  ASSUME IInv, NEW p \in 1 .. Len(ops)
  PROVE  /\ ops[p] \in Mention /\ ops[p] \in Mentions(ops[p].id)
         /\ ops[p].id \in Ids /\ ops[p].id \in Nat /\ ops[p].offset \in Nat
         /\ Index(ops[p].id) \in 0 .. Size - 1
         /\ range \in [lo: Nat, hi: Nat]
<1>1. ops \in Seq(Mention) /\ ops[p] \in Mentions(ops[p].id)
  BY DEF IInv, TypeOK
<1>2. ops[p] \in Mention
  BY <1>1, ElementOfSeq
<1>3. ops[p].id \in Ids /\ ops[p].id \in Nat /\ ops[p].offset \in Nat
  BY <1>2, IdAssumption DEF Mention
<1>4. range \in [lo: Nat, hi: Nat]
  BY <1>1 DEF IInv, TypeOK
<1>5. range.lo =< ops[p].id /\ ops[p].id =< range.hi
  BY DEF IInv, RangeCovers
<1> QED BY <1>1, <1>2, <1>3, <1>4, <1>5 DEF Index, Size

LEMMA PlacedTyped ==
  ASSUME IInv, NEW p \in Done
  PROVE  /\ p \in 1 .. Len(ops) /\ p \in Nat /\ placed[p] \in Nat \ {0}
         /\ High(p) \in Nat /\ High(p) >= placed[p]
<1>1. p \in 1 .. Len(ops) /\ p \in Nat
  BY DEF Done, IInv, TypeOK
<1>2. placed[p] \in Nat \ {0}
  BY ElementOfSeq DEF Done, IInv, TypeOK
<1> QED BY <1>1, <1>2, MentionTyped DEF High

\* The steps that place nothing leave the slots as they are.
LEMMA SlotsUntouched ==
  ASSUME IInv, UNCHANGED <<type, ops, placed, cursor, range>>
  PROVE  /\ RangeCovers' /\ SlotsInOrder' /\ SlotsAligned'
         /\ Done' = Done /\ \A p \in Done : High(p)' = High(p)
<1>1. RangeCovers'
  BY DEF IInv, RangeCovers
<1>2. SlotsInOrder'
  BY DEF IInv, SlotsInOrder, Done, First, High, Room, IsArray
<1>3. SlotsAligned'
  BY DEF IInv, SlotsAligned, Done, First, High, IsArray
<1>4. Done' = Done /\ \A p \in Done : High(p)' = High(p)
  BY DEF Done, High
<1> QED BY <1>1, <1>2, <1>3, <1>4

LEMMA EndPreflightStep ==
  ASSUME IInv, EndPreflight
  PROVE  IInv'
<1>1. /\ UNCHANGED <<type, ops, range, cursor, placed, stack_usage, frame>>
      /\ pass = "preflight" /\ placed = <<>> /\ Len(ops) \in Nat
      /\ status # "assert"
  BY DEF EndPreflight, IInv, Progress, TypeOK
<1>2. RangeCovers' /\ SlotsInOrder' /\ SlotsAligned'
  BY <1>1, SlotsUntouched
<1>3. Done' = {}
  BY <1>1 DEF Done
<1>4. CASE range = None
  <2>1. ops = <<>>
    BY <1>4 DEF IInv, TypeOK, None
  <2>2. TypeOK' /\ Progress' /\ TableFilled'
    BY <1>1, <1>3, <1>4, <2>1
    DEF EndPreflight, IInv, TypeOK, Progress, TableFilled, Mentions
  <2> QED BY <1>2, <2>2 DEF IInv
<1>5. CASE range # None /\ ~ Fits
  <2>1. pass' = "done" /\ status' = "assert" /\ offsets' = offsets
    BY <1>5 DEF EndPreflight
  <2>2. TypeOK'
    BY <1>1, <2>1 DEF IInv, TypeOK, Mentions
  <2>3. Progress' /\ TableFilled'
    BY <1>1, <1>5, <2>1 DEF Progress, TableFilled, Fits, Size
  <2> QED BY <1>2, <2>2, <2>3 DEF IInv
<1>6. CASE range # None /\ Fits
  <2>1. /\ pass' = "replace" /\ status' = status
        /\ offsets' = [i \in 0 .. Size - 1 |-> 0]
    BY <1>6 DEF EndPreflight
  <2>2. Size \in 1 .. SizeLimit /\ Size' = Size
    BY <1>1, <1>6, BoundAssumption DEF IInv, TypeOK, Size, Fits
  <2>3. offsets' \in [0 .. Size' - 1 -> Nat] /\ Size' \in 1 .. SizeLimit
    BY <2>1, <2>2
  <2>4. TypeOK'
    BY <1>1, <2>1, <2>3 DEF IInv, TypeOK, Mentions
  <2>5. Progress' /\ TableFilled'
    BY <1>1, <1>3, <2>1, <2>2 DEF Progress, TableFilled
  <2> QED BY <1>2, <2>4, <2>5 DEF IInv
<1> QED BY <1>4, <1>5, <1>6

LEMMA EndReplaceStep ==
  ASSUME IInv, EndReplace
  PROVE  IInv'
<1>1. /\ UNCHANGED <<type, ops, range, offsets, cursor, placed, stack_usage, frame, status>>
      /\ pass = "replace" /\ pass' = "usage" /\ Len(placed) = Len(ops)
  BY DEF EndReplace
<1>2. /\ RangeCovers' /\ SlotsInOrder' /\ SlotsAligned' /\ Done' = Done
      /\ \A p \in Done : High(p)' = High(p)
  BY <1>1, SlotsUntouched
<1>3. TypeOK'
  BY <1>1 DEF IInv, TypeOK, Mentions, Size
<1>4. Progress'
  BY <1>1 DEF IInv, Progress
<1>5. TableFilled'
  BY <1>1, <1>2 DEF IInv, TableFilled, Index, Size
<1> QED BY <1>2, <1>3, <1>4, <1>5 DEF IInv

LEMMA UsageStep ==
  ASSUME IInv, Usage
  PROVE  IInv'
<1>1. /\ UNCHANGED <<type, ops, range, offsets, cursor, placed, frame, status>>
      /\ pass = "usage" /\ pass' = "fixup" /\ Len(placed) = Len(ops)
      /\ stack_usage' \in Slots /\ \A k \in Slots : k =< stack_usage'
  BY DEF Usage, IInv, Progress
<1>2. /\ RangeCovers' /\ SlotsInOrder' /\ SlotsAligned' /\ Done' = Done
      /\ \A p \in Done : High(p)' = High(p)
  BY <1>1, SlotsUntouched
<1>3. offsets \in [0 .. Size - 1 -> Nat]
  BY <1>1 DEF IInv, TypeOK
<1>4. stack_usage' \in Nat
  BY <1>1, <1>3 DEF Slots
<1>5. TypeOK'
  BY <1>1, <1>4 DEF IInv, TypeOK, Mentions
<1>6. ASSUME NEW p \in Done PROVE High(p) \in Slots
  <2>1. Index(ops[p].id) \in 0 .. Size - 1
    BY PlacedTyped, MentionTyped
  <2>2. High(p) = offsets[Index(ops[p].id)]
    BY <1>1 DEF IInv, TableFilled
  <2> QED BY <2>1, <2>2 DEF Slots
<1>7. \A p \in Done' : High(p)' =< stack_usage'
  BY <1>1, <1>2, <1>6
<1>8. Progress' /\ TableFilled'
  BY <1>1, <1>7 DEF IInv, Progress, TableFilled
<1> QED BY <1>2, <1>5, <1>8 DEF IInv

LEMMA AllocStackStep ==
  ASSUME IInv, AllocStack
  PROVE  IInv'
<1>1. /\ UNCHANGED <<type, ops, range, offsets, cursor, placed, stack_usage, status>>
      /\ pass = "fixup" /\ pass' = "done" /\ Len(placed) = Len(ops)
      /\ stack_usage \in Nat /\ \A p \in Done : High(p) =< stack_usage
  BY DEF AllocStack, IInv, Progress, TypeOK
<1>2. /\ RangeCovers' /\ SlotsInOrder' /\ SlotsAligned' /\ Done' = Done
      /\ \A p \in Done : High(p)' = High(p)
  BY <1>1, SlotsUntouched
<1>3. frame' \in Nat /\ frame' % 16 = 0 /\ stack_usage =< frame'
  <2>1. CASE stack_usage = 0
    BY <2>1 DEF AllocStack
  <2>2. CASE stack_usage # 0
    <3>1. frame' = round_up_to_multiple_of(stack_usage, 16)
      BY <2>2 DEF AllocStack, BYTES_ALIGN
    <3> QED BY <1>1, <3>1, RoundUp
  <2> QED BY <2>1, <2>2
<1>4. TypeOK'
  BY <1>1, <1>3 DEF IInv, TypeOK, Mentions
<1>5. \A p \in Done : High(p) \in Nat
  BY PlacedTyped
<1>6. Progress'
  <2>1. \A p \in Done' : High(p)' =< frame'
    BY <1>1, <1>2, <1>3, <1>5
  <2>2. status # "assert"
    BY <1>1 DEF IInv, Progress
  <2> QED BY <1>1, <1>3, <2>1, <2>2 DEF Progress, BYTES_ALIGN
<1>7. TableFilled'
  BY <1>1 DEF TableFilled
<1> QED BY <1>2, <1>4, <1>6, <1>7 DEF IInv

\* The function stays as it is while it is replaced.
LEMMA MentionsKept ==
  ASSUME IInv, UNCHANGED <<type, ops>>
  PROVE  \A p \in 1 .. Len(ops') : (ops[p] \in Mentions(ops[p].id))'
<1>1. \A p \in 1 .. Len(ops) : ops[p] \in Mentions(ops[p].id)
  BY DEF IInv, TypeOK
<1> QED BY <1>1 DEF Mentions, IsArray

\* One more mention placed: those before it stay as they are.
LEMMA OneMorePlaced ==
  ASSUME IInv, Len(placed) < Len(ops), NEW k \in Nat \ {0},
         placed' = Append(placed, k), UNCHANGED <<type, ops>>,
         NEW c, c = Len(placed) + 1
  PROVE  /\ placed' \in Seq(Nat \ {0}) /\ Len(placed') = c
         /\ c \notin Done /\ Done' = Done \cup {c}
         /\ \A p \in Done : p < c /\ placed'[p] = placed[p] /\ High(p)' = High(p)
         /\ High(c)' = k + ops[c].offset
         /\ \A p \in Nat : First(p)' <=> First(p)
         /\ \A p \in Nat : Room(ops[p])' = Room(ops[p])
<1>1. placed \in Seq(Nat \ {0}) /\ Len(placed) \in Nat /\ Len(ops) \in Nat
  BY DEF IInv, TypeOK
<1>2. /\ placed' \in Seq(Nat \ {0}) /\ Len(placed') = c
      /\ \A p \in 1 .. Len(placed) : placed'[p] = placed[p]
      /\ placed'[c] = k
  BY <1>1, AppendProperties
<1>3. c \notin Done /\ Done' = Done \cup {c} /\ \A p \in Done : p < c
  BY <1>1, <1>2 DEF Done
<1>4. \A p \in Done : placed'[p] = placed[p] /\ High(p)' = High(p)
  BY <1>2 DEF Done, High
<1>5. High(c)' = k + ops[c].offset
  BY <1>2 DEF High
<1>6. \A p \in Nat : (First(p)' <=> First(p)) /\ Room(ops[p])' = Room(ops[p])
  BY DEF First, Room, IsArray
<1> QED BY <1>2, <1>3, <1>4, <1>5, <1>6

\* The ID of the mention has a slot already.
LEMMA ReplaceKnown ==
  ASSUME IInv, Replace, offsets[Index(Current.id)] # 0
  PROVE  IInv'
<1>0. PICK c \in Nat : c = Len(placed) + 1
  BY DEF IInv, TypeOK
<1> DEFINE m == ops[c]
           k == offsets[Index(m.id)] - m.offset
<1>1. /\ pass = "replace" /\ Len(placed) < Len(ops) /\ c \in 1 .. Len(ops)
      /\ Current = m
      /\ UNCHANGED <<type, ops, range, offsets, cursor, stack_usage, frame>>
      /\ Place(offsets[Index(m.id)])
  BY <1>0 DEF Replace, Current, IInv, TypeOK
<1>2. /\ m \in Mentions(m.id) /\ m.id \in Ids /\ m.id \in Nat /\ m.offset \in Nat
      /\ Index(m.id) \in 0 .. Size - 1 /\ type \in [Ids -> Types]
  BY <1>1, MentionTyped DEF IInv, TypeOK
<1>3. PICK q \in Done : Index(ops[q].id) = Index(m.id)
  BY <1>1, <1>2 DEF IInv, TableFilled
<1>4. ops[q].id = m.id /\ offsets[Index(m.id)] = High(q)
  <2>1. ops[q].id \in Nat /\ range \in [lo: Nat, hi: Nat]
    BY PlacedTyped, MentionTyped
  <2>2. ops[q].id = m.id
    BY <1>2, <1>3, <2>1 DEF Index
  <2> QED BY <1>1, <2>2 DEF IInv, TableFilled
<1>5. PICK r \in 1 .. q : First(r) /\ ops[r].id = m.id
  BY <1>4 DEF IInv, SlotsInOrder
<1>6. r \in Done /\ r \in Nat /\ r < c /\ q \in Nat /\ q < c
  BY <1>0, <1>1 DEF Done, IInv, TypeOK
<1>7. High(q) \in Nat /\ High(q) >= 1 /\ High(r) = High(q)
  BY <1>4, <1>5, <1>6, PlacedTyped DEF IInv, SlotsInOrder
<1>8. k \in Nat \ {0} /\ k + m.offset = High(q)
  <2>1. High(r) >= Room(ops[r])
    BY <1>5, <1>6 DEF IInv, SlotsInOrder
  <2>2. IsArray(type[m.id]) => Room(ops[r]) = type[m.id].total
    BY <1>5 DEF Room
  <2>3. m.offset < High(q)
    BY <1>2, <1>7, <2>1, <2>2, MentionShape
  <2> QED BY <1>2, <1>4, <1>7, <2>3
<1>9. placed' = Append(placed, k) /\ pass' = pass /\ status' = status
  BY <1>1, <1>8 DEF Place
<1> HIDE DEF k
<1>10. /\ placed' \in Seq(Nat \ {0}) /\ Len(placed') = c
       /\ c \notin Done /\ Done' = Done \cup {c}
       /\ \A p \in Done : p < c /\ placed'[p] = placed[p] /\ High(p)' = High(p)
       /\ High(c)' = High(q)
       /\ \A p \in Nat : First(p)' <=> First(p)
       /\ \A p \in Nat : Room(ops[p])' = Room(ops[p])
  BY <1>0, <1>1, <1>8, <1>9, OneMorePlaced
<1>11. ~ First(c)
  BY <1>1, <1>5, <1>6 DEF First
<1>12. Done \subseteq Nat
  BY DEF Done
<1> HIDE DEF m
<1>13. TypeOK'
  <2>1. \A p \in 1 .. Len(ops') : (ops[p] \in Mentions(ops[p].id))'
    BY <1>1, MentionsKept
  <2>2. offsets' \in [0 .. Size' - 1 -> Nat] /\ Size' \in 1 .. SizeLimit
    BY <1>1 DEF IInv, TypeOK, Size
  <2>3. placed' \in Seq(Nat \ {0}) /\ Len(placed') =< Len(ops')
    BY <1>1, <1>10
  <2> QED BY <1>1, <1>9, <2>1, <2>2, <2>3 DEF IInv, TypeOK
<1>14. RangeCovers' /\ Progress'
  BY <1>1, <1>9 DEF IInv, RangeCovers, Progress
<1>15. TableFilled'
  <2>1. \A p \in Done' : offsets'[Index(ops[p].id)'] = High(p)'
    BY <1>1, <1>4, <1>10 DEF IInv, TableFilled, Index, m
  <2>2. \A i \in 0 .. Size - 1 : offsets'[i] # 0 => \E p \in Done' : Index(ops[p].id)' = i
    BY <1>1, <1>10 DEF IInv, TableFilled, Index
  <2> QED BY <1>1, <2>1, <2>2 DEF TableFilled, Size, Index
<1>16. SlotsInOrder'
  <2>1. \A p \in Done' : \E s \in 1 .. p : First(s)' /\ ops'[s].id = ops'[p].id
    <3>1. ASSUME NEW p \in Done
          PROVE  \E s \in 1 .. p : First(s)' /\ ops'[s].id = ops'[p].id
      <4>1. PICK s \in 1 .. p : First(s) /\ ops[s].id = ops[p].id
        BY DEF IInv, SlotsInOrder
      <4> QED BY <1>1, <1>10, <4>1
    <3>2. \E s \in 1 .. c : First(s)' /\ ops'[s].id = ops'[c].id
      <4>1. r \in 1 .. c
        BY <1>6
      <4> QED BY <1>1, <1>5, <1>6, <1>10, <4>1 DEF m
    <3> QED BY <1>10, <3>1, <3>2
  <2>2. \A p \in Done : ops[p].id = m.id => High(p) = High(q)
    BY <1>4 DEF IInv, SlotsInOrder
  <2>3. \A p, s \in Done' : ops'[p].id = ops'[s].id => High(p)' = High(s)'
    BY <1>1, <1>10, <2>2 DEF IInv, SlotsInOrder, m
  <2>4. \A p \in Done' : High(p)' =< cursor'
    BY <1>1, <1>10 DEF IInv, SlotsInOrder
  <2>5. \A p \in Done' : First(p)' => p \in Done /\ First(p)
    BY <1>10, <1>11, <1>12
  <2>6. \A p \in Done' : First(p)' => High(p)' >= Room(ops[p])'
    BY <1>10, <1>12, <2>5 DEF IInv, SlotsInOrder
  <2>7. \A p, s \in Done' :
          p < s /\ First(p)' /\ First(s)' => High(p)' =< High(s)' - Room(ops[s])'
    BY <1>10, <1>12, <2>5 DEF IInv, SlotsInOrder
  <2> QED BY <2>1, <2>3, <2>4, <2>6, <2>7 DEF SlotsInOrder
<1>17. SlotsAligned'
  <2>1. \A p \in Done' : First(p)' => p \in Done /\ First(p) /\ High(p)' = High(p)
    BY <1>10, <1>11, <1>12
  <2> QED BY <1>1, <2>1 DEF IInv, SlotsAligned, IsArray
<1> QED BY <1>13, <1>14, <1>15, <1>16, <1>17 DEF IInv

\* The ID of the mention is met for the first time.
LEMMA ReplaceNew ==
  ASSUME IInv, Replace, offsets[Index(Current.id)] = 0
  PROVE  IInv'
<1>0. PICK c \in Nat : c = Len(placed) + 1
  BY DEF IInv, TypeOK
<1> DEFINE m == ops[c]
           new == Advance(m)
           k == new - m.offset
<1>1. /\ pass = "replace" /\ Len(placed) < Len(ops) /\ c \in 1 .. Len(ops)
      /\ Current = m
      /\ UNCHANGED <<type, ops, range, stack_usage, frame>>
      /\ cursor' = new /\ offsets' = [offsets EXCEPT ![Index(m.id)] = new]
      /\ Place(new)
  BY <1>0 DEF Replace, Current, IInv, TypeOK
<1>2. /\ m \in Mentions(m.id) /\ m.id \in Ids /\ m.id \in Nat /\ m.offset \in Nat
      /\ m.word \in Words
      /\ Index(m.id) \in 0 .. Size - 1 /\ type \in [Ids -> Types]
      /\ offsets \in [0 .. Size - 1 -> Nat] /\ range \in [lo: Nat, hi: Nat]
      /\ cursor \in Nat
  BY <1>1, MentionTyped DEF IInv, TypeOK, Mention
<1>3. /\ new \in Nat /\ new >= cursor + Room(m) /\ Room(m) \in Nat
      /\ m.offset < Room(m)
      /\ IF IsArray(type[m.id]) THEN new % BYTES_ALIGN = 0 ELSE new % m.word = 0
      /\ ~ IsArray(type[m.id]) => m.offset = 0
  BY <1>2, AdvanceMakesRoom, MentionShape DEF IInv
<1> HIDE DEF new
<1>4. k \in Nat \ {0} /\ k + m.offset = new
  BY <1>2, <1>3
<1>5. placed' = Append(placed, k) /\ pass' = pass /\ status' = status
  BY <1>1, <1>4 DEF Place
<1> HIDE DEF k
<1>6. /\ placed' \in Seq(Nat \ {0}) /\ Len(placed') = c
      /\ c \notin Done /\ Done' = Done \cup {c}
      /\ \A p \in Done : p < c /\ placed'[p] = placed[p] /\ High(p)' = High(p)
      /\ High(c)' = new
      /\ \A p \in Nat : First(p)' <=> First(p)
      /\ \A p \in Nat : Room(ops[p])' = Room(ops[p])
  BY <1>0, <1>1, <1>4, <1>5, OneMorePlaced
<1>7. ASSUME NEW p \in Done
      PROVE  /\ p \in Nat /\ High(p) \in Nat /\ High(p) >= 1 /\ High(p) =< cursor
             /\ ops[p].id \in Nat /\ ops[p].id # m.id
             /\ offsets[Index(ops[p].id)] = High(p)
  <2>1. /\ p \in Nat /\ High(p) \in Nat /\ High(p) >= 1 /\ ops[p].id \in Nat
    BY PlacedTyped, MentionTyped
  <2>2. High(p) =< cursor /\ offsets[Index(ops[p].id)] = High(p)
    BY <1>1 DEF IInv, SlotsInOrder, TableFilled
  <2>3. offsets[Index(m.id)] = 0
    BY <1>1
  <2> QED BY <2>1, <2>2, <2>3
<1>8. First(c)
  BY <1>0, <1>7 DEF First, Done
<1> HIDE DEF m
<1>9. TypeOK'
  <2>1. \A p \in 1 .. Len(ops') : (ops[p] \in Mentions(ops[p].id))'
    BY <1>1, MentionsKept
  <2>2. offsets' \in [0 .. Size - 1 -> Nat]
    BY <1>1, <1>2, <1>3
  <2>3. offsets' \in [0 .. Size' - 1 -> Nat] /\ Size' \in 1 .. SizeLimit
    BY <1>1, <2>2 DEF IInv, TypeOK, Size
  <2>4. placed' \in Seq(Nat \ {0}) /\ Len(placed') =< Len(ops')
    BY <1>1, <1>6
  <2> QED BY <1>1, <1>3, <1>5, <2>1, <2>3, <2>4 DEF IInv, TypeOK
<1>10. RangeCovers' /\ Progress'
  BY <1>1, <1>5 DEF IInv, RangeCovers, Progress
<1>11. TableFilled'
  <2>1. ASSUME NEW p \in Done PROVE offsets'[Index(ops[p].id)] = High(p)
    <3>1. Index(ops[p].id) # Index(m.id)
      BY <1>2, <1>7 DEF Index
    <3>2. Index(ops[p].id) \in 0 .. Size - 1
      BY PlacedTyped, MentionTyped
    <3> QED BY <1>1, <1>2, <1>7, <3>1, <3>2
  <2>2. offsets'[Index(m.id)] = new
    BY <1>1, <1>2
  <2>3. \A p \in Done' : offsets'[Index(ops[p].id)'] = High(p)'
    BY <1>1, <1>6, <2>1, <2>2 DEF Index, m
  <2>4. ASSUME NEW i \in 0 .. Size - 1, offsets'[i] # 0
        PROVE  \E p \in Done' : Index(ops[p].id)' = i
    <3>1. CASE i = Index(m.id)
      BY <1>1, <1>6, <3>1 DEF Index, m
    <3>2. CASE i # Index(m.id)
      <4>1. offsets[i] # 0
        BY <1>1, <1>2, <2>4, <3>2
      <4>2. PICK p \in Done : Index(ops[p].id) = i
        BY <1>1, <4>1 DEF IInv, TableFilled
      <4> QED BY <1>1, <1>6, <4>2 DEF Index
    <3> QED BY <3>1, <3>2
  <2> QED BY <1>1, <2>3, <2>4 DEF TableFilled, Size, Index
<1>12. SlotsInOrder'
  <2>1. \A p \in Done' : \E s \in 1 .. p : First(s)' /\ ops'[s].id = ops'[p].id
    <3>1. ASSUME NEW p \in Done
          PROVE  \E s \in 1 .. p : First(s)' /\ ops'[s].id = ops'[p].id
      <4>1. PICK s \in 1 .. p : First(s) /\ ops[s].id = ops[p].id
        BY DEF IInv, SlotsInOrder
      <4> QED BY <1>1, <1>6, <4>1
    <3>2. c \in 1 .. c /\ First(c)'
      BY <1>1, <1>6, <1>8
    <3> QED BY <1>6, <3>1, <3>2
  <2>2. \A p, s \in Done' : ops'[p].id = ops'[s].id => High(p)' = High(s)'
    BY <1>1, <1>6, <1>7 DEF IInv, SlotsInOrder, m
  <2>3. \A p \in Done' : High(p)' =< cursor'
    BY <1>1, <1>2, <1>3, <1>6, <1>7
  <2>4. \A p \in Done' : First(p)' => High(p)' >= Room(ops[p])'
    <3>1. ASSUME NEW p \in Done, First(p) PROVE High(p)' >= Room(ops[p])'
      BY <1>6, <1>7, <3>1 DEF IInv, SlotsInOrder
    <3>2. High(c)' >= Room(ops[c])'
      BY <1>2, <1>3, <1>6 DEF m
    <3> QED BY <1>6, <1>7, <3>1, <3>2
  <2>5. ASSUME NEW p \in Done', NEW s \in Done', p < s, First(p)', First(s)'
        PROVE  High(p)' =< High(s)' - Room(ops[s])'
    <3>1. CASE s \in Done
      <4>1. p \in Done /\ p \in Nat /\ s \in Nat
        BY <1>6, <1>7, <2>5, <3>1
      <4> QED BY <1>6, <2>5, <3>1, <4>1 DEF IInv, SlotsInOrder
    <3>2. CASE s = c
      <4>1. p \in Done
        BY <1>6, <2>5, <3>2
      <4> QED BY <1>2, <1>3, <1>6, <1>7, <3>2, <4>1 DEF m
    <3> QED BY <1>6, <3>1, <3>2
  <2> QED BY <2>1, <2>2, <2>3, <2>4, <2>5 DEF SlotsInOrder
<1>13. SlotsAligned'
  <2>1. ASSUME NEW p \in Done, First(p)'
        PROVE  IF IsArray(type[ops[p].id]) THEN High(p)' % BYTES_ALIGN = 0
               ELSE High(p)' % ops[p].word = 0
    BY <1>6, <1>7, <2>1 DEF IInv, SlotsAligned
  <2>2. IF IsArray(type[m.id]) THEN High(c)' % BYTES_ALIGN = 0
        ELSE High(c)' % m.word = 0
    BY <1>3, <1>6
  <2> QED BY <1>1, <1>6, <2>1, <2>2 DEF SlotsAligned, IsArray, m
<1> QED BY <1>9, <1>10, <1>11, <1>12, <1>13 DEF IInv

LEMMA NextIInv == IInv /\ [Next]_vars => IInv'
<1> SUFFICES ASSUME IInv, [Next]_vars PROVE IInv'
  OBVIOUS
<1>1. ASSUME NEW id \in Ids, NEW m \in Mentions(id), Preflight(m) PROVE IInv'
  BY <1>1, PreflightStep
<1>2. CASE EndPreflight
  BY <1>2, EndPreflightStep
<1>3. CASE Replace
  BY <1>3, ReplaceKnown, ReplaceNew
<1>4. CASE EndReplace
  BY <1>4, EndReplaceStep
<1>5. CASE Usage
  BY <1>5, UsageStep
<1>6. CASE AllocStack
  BY <1>6, AllocStackStep
<1>7. CASE UNCHANGED vars
  <2>1. UNCHANGED <<type, ops, placed, cursor, range>>
    BY <1>7 DEF vars
  <2>2. TypeOK'
    BY <1>7 DEF vars, IInv, TypeOK, Mentions, Size
  <2>3. Progress' /\ TableFilled'
    BY <1>7 DEF vars, IInv, Progress, TableFilled, Done, High, Index, Size, Fits
  <2> QED BY <2>1, <2>2, <2>3, SlotsUntouched DEF IInv
<1> QED BY <1>1, <1>2, <1>3, <1>4, <1>5, <1>6, <1>7 DEF Next

LEMMA Invariance == Spec => []IInv
  BY InitIInv, NextIInv, PTL DEF Spec
-----------------------------------------------------------------------------
(* The theorems. *)

\* The walk keeps its table within the range it measured and its asserted
\* size (codegen_replace_pseudo).
THEOREM TypeCorrect == Spec => []TypeOK
<1>1. IInv => TypeOK
  BY DEF IInv
<1> QED BY Invariance, <1>1, PTL

\* An ID first met whole has a slot as wide as its type, at its High.
LEMMA WholeSlot ==
  ASSUME IInv, NEW p \in Done, MetWhole(ops[p].id)
  PROVE  \E r \in Done : /\ First(r) /\ ops[r].id = ops[p].id
                         /\ High(r) = High(p)
                         /\ Low(p) >= High(r) - Room(ops[r]) + 1
                         /\ ops[p].word =< ops[r].word
<1>1. PICK r \in 1 .. p : First(r) /\ ops[r].id = ops[p].id
  BY DEF IInv, SlotsInOrder
<1>2. r \in Done /\ r \in 1 .. Len(ops) /\ p \in 1 .. Len(ops)
  BY PlacedTyped DEF Done, IInv, TypeOK
<1>3. High(r) = High(p) /\ High(p) \in Nat /\ placed[p] \in Nat
  BY <1>1, <1>2, PlacedTyped DEF IInv, SlotsInOrder
<1> DEFINE id == ops[p].id
<1>4. /\ ops[p] \in Mentions(id) /\ ops[r] \in Mentions(id) /\ id \in Ids
      /\ type \in [Ids -> Types] /\ ops[p].offset \in Nat
      /\ ops[p].word \in Words /\ ops[r].word \in Words
  BY <1>1, <1>2, MentionTyped DEF IInv, TypeOK, Mention
<1>5. ops[r].word = type[id].word
  BY <1>1, <1>2 DEF MetWhole
<1>6. CASE IsArray(type[id])
  <2>1. Room(ops[r]) = type[id].total /\ type[id].total \in Nat
    BY <1>1, <1>4, <1>6, MentionShape DEF Room
  <2>2. ops[p].word = ops[r].word
    BY <1>4, <1>5, <1>6, MentionShape
  <2>3. Low(p) = High(p) - type[id].total + 1
    BY <1>3, <1>4, <1>6, <2>1 DEF Low, High
  <2> QED BY <1>1, <1>2, <1>3, <1>4, <2>1, <2>2, <2>3 DEF Words
<1>7. CASE ~ IsArray(type[id])
  <2>1. Room(ops[r]) = ops[r].word
    BY <1>1, <1>7 DEF Room
  <2>2. ops[p].word =< ops[r].word /\ ops[p].offset = 0
    BY <1>4, <1>5, <1>7, MentionShape
  <2>3. Low(p) = High(p) - ops[p].word + 1
    BY <1>3, <1>4, <1>7, <2>2 DEF Low, High, Words
  <2> QED BY <1>1, <1>2, <1>3, <1>4, <2>1, <2>2, <2>3 DEF Words
<1> QED BY <1>6, <1>7

\* codegen_replace_pseudo_fn gives no byte to two IDs, as long as each is
\* first mentioned whole.
THEOREM NoByteTwice == Spec => []EachIdItsOwnBytes
<1>1. ASSUME IInv PROVE EachIdItsOwnBytes
  <2> SUFFICES ASSUME NEW p \in Done, NEW q \in Done
               PROVE  IF ops[p].id = ops[q].id THEN High(p) = High(q)
                      ELSE MetWhole(ops[p].id) /\ MetWhole(ops[q].id) => Apart(p, q)
    BY DEF EachIdItsOwnBytes
  <2>1. CASE ops[p].id = ops[q].id
    BY <1>1, <2>1 DEF IInv, SlotsInOrder
  <2>2. ASSUME ops[p].id # ops[q].id, MetWhole(ops[p].id), MetWhole(ops[q].id)
        PROVE  Apart(p, q)
    <3>1. PICK r \in Done : /\ First(r) /\ ops[r].id = ops[p].id /\ High(r) = High(p)
                            /\ Low(p) >= High(r) - Room(ops[r]) + 1
      BY <1>1, <2>2, WholeSlot
    <3>2. PICK s \in Done : /\ First(s) /\ ops[s].id = ops[q].id /\ High(s) = High(q)
                            /\ Low(q) >= High(s) - Room(ops[s]) + 1
      BY <1>1, <2>2, WholeSlot
    <3>3. r < s \/ s < r
      BY <1>1, <2>2, <3>1, <3>2, PlacedTyped
    <3>4. /\ High(r) \in Nat /\ High(s) \in Nat
          /\ Room(ops[r]) \in Nat /\ Room(ops[s]) \in Nat
      BY <1>1, PlacedTyped, MentionTyped, MentionShape DEF IInv, TypeOK
    <3>5. Low(p) \in Int /\ Low(q) \in Int
      <4>1. ASSUME NEW t \in Done PROVE Low(t) \in Int
        <5>1. /\ placed[t] \in Nat /\ ops[t] \in Mention
              /\ type[ops[t].id] \in [word: Words, total: Nat]
          BY <1>1, PlacedTyped, MentionTyped, MentionShape DEF IInv, TypeOK
        <5> QED BY <5>1 DEF Low, Mention, Words
      <4> QED BY <4>1
    <3>6. CASE r < s
      <4>1. High(r) =< High(s) - Room(ops[s])
        BY <1>1, <3>1, <3>2, <3>6 DEF IInv, SlotsInOrder
      <4> QED BY <3>1, <3>2, <3>4, <3>5, <4>1 DEF Apart
    <3>7. CASE s < r
      <4>1. High(s) =< High(r) - Room(ops[r])
        BY <1>1, <3>1, <3>2, <3>7 DEF IInv, SlotsInOrder
      <4> QED BY <3>1, <3>2, <3>4, <3>5, <4>1 DEF Apart
    <3> QED BY <3>3, <3>6, <3>7
  <2> QED BY <2>1, <2>2
<1> QED BY Invariance, <1>1, PTL

\* stack_usage and codegen_fixup_alloc_stack make a frame that holds every
\* slot and keeps %rsp on a multiple of 16.
THEOREM FrameHoldsSlots == Spec => []InsideTheFrame
<1>1. ASSUME IInv, pass = "done", status = "ok", NEW p \in Done, MetWhole(ops[p].id)
      PROVE  Low(p) >= 1
  <2>1. PICK r \in Done : /\ First(r) /\ High(r) = High(p)
                          /\ Low(p) >= High(r) - Room(ops[r]) + 1
    BY <1>1, WholeSlot
  <2>2. High(r) >= Room(ops[r])
    BY <1>1, <2>1 DEF IInv, SlotsInOrder
  <2>4. High(r) \in Nat /\ Room(ops[r]) \in Nat
    BY <1>1, PlacedTyped, MentionTyped, MentionShape DEF IInv, TypeOK
  <2>3. Low(p) \in Int
    <3>1. /\ placed[p] \in Nat /\ ops[p] \in Mention
          /\ type[ops[p].id] \in [word: Words, total: Nat]
      BY <1>1, PlacedTyped, MentionTyped, MentionShape DEF IInv, TypeOK
    <3> QED BY <3>1 DEF Low, Mention, Words
  <2> QED BY <2>1, <2>2, <2>3, <2>4
<1>2. IInv => InsideTheFrame
  BY <1>1 DEF IInv, Progress, InsideTheFrame
<1> QED BY Invariance, <1>2, PTL

\* What codegen_replace_pseudo_fn rounds is aligned: every operand of an ID
\* first met whole to its word, every array to 16 bytes.
THEOREM AlignedOperands == Spec => []OperandsAligned
<1>1. ASSUME IInv, NEW p \in Done
      PROVE  /\ MetWhole(ops[p].id) => placed[p] % ops[p].word = 0
             /\ IsArray(type[ops[p].id]) => High(p) % BYTES_ALIGN = 0
  <2> DEFINE id == ops[p].id
  <2>1. /\ ops[p] \in Mentions(id) /\ id \in Ids /\ type \in [Ids -> Types]
        /\ ops[p].offset \in Nat /\ ops[p].word \in Words
        /\ High(p) \in Nat /\ placed[p] \in Nat
        /\ placed[p] = High(p) - ops[p].offset
    BY <1>1, PlacedTyped, MentionTyped DEF IInv, TypeOK, Mention, High
  <2>2. CASE IsArray(type[id])
    <3>1. PICK r \in 1 .. p : First(r) /\ ops[r].id = id
      BY <1>1 DEF IInv, SlotsInOrder
    <3>2. r \in Done
      BY <1>1 DEF Done, IInv, TypeOK
    <3>3. High(p) % 16 = 0
      BY <1>1, <2>2, <3>1, <3>2 DEF IInv, SlotsInOrder, SlotsAligned, BYTES_ALIGN
    <3>4. ops[p].offset % ops[p].word = 0
      BY <2>1, <2>2, MentionShape
    <3> QED BY <2>1, <3>3, <3>4, ElementAligned DEF BYTES_ALIGN
  <2>3. ASSUME ~ IsArray(type[id]), MetWhole(id) PROVE placed[p] % ops[p].word = 0
    <3>1. PICK r \in Done : /\ First(r) /\ ops[r].id = id /\ High(r) = High(p)
                            /\ ops[p].word =< ops[r].word
      BY <1>1, <2>3, WholeSlot
    <3>2. High(p) % ops[r].word = 0
      BY <1>1, <2>3, <3>1 DEF IInv, SlotsAligned
    <3>3. ops[r].word \in Words
      BY <1>1, PlacedTyped, MentionTyped DEF Mention
    <3>4. ops[p].offset = 0
      BY <2>1, <2>3, MentionShape
    <3>5. High(p) % ops[p].word = 0
      BY <2>1, <3>1, <3>2, <3>3, NarrowerWord
    <3> QED BY <2>1, <3>4, <3>5
  <2> QED BY <2>2, <2>3
<1>2. IInv => OperandsAligned
  BY <1>1 DEF OperandsAligned
<1> QED BY Invariance, <1>2, PTL

\* assert(computed_offset > 0) never fails: the only assertion that can is
\* the one on the size of the table.
THEOREM OffsetsStayPositive == Spec => []AssertionsHold
<1>1. IInv => AssertionsHold
  BY DEF IInv, Progress, AssertionsHold
<1> QED BY Invariance, <1>1, PTL
=============================================================================
