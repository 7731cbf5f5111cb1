-------------------------------- MODULE Labels --------------------------------
(***************************************************************************)
(* The two walks of src/passes/sema.c that number jump targets:            *)
(* sema_label_loops, then sema_label_gotos.  The tree is the sequence of   *)
(* nodes a walk meets, every construct closed by an "end"; the first walk  *)
(* chooses it among what the parser can build, the second one replays it.  *)
(* Expressions count only where the IR gives them labels of their own.     *)
(***************************************************************************)
EXTENDS Integers, Sequences, FiniteSets

CONSTANTS
  Nodes,         \* kinds of statements the tree is made of
  Tests,         \* where loops test their condition, of AllTests
  Controls,      \* types of controlling expressions, of AllControls
  Name,          \* names of goto labels
  Value,         \* case constants
  IntMax,        \* INT_MAX, scaled down
  IntModulus,    \* LONG_TO_INT_TRUNCATOR, scaled down
  NestingLimit,  \* BLOCK_NESTING_LIMIT
  MaxNodes,      \* bound on the statements of the tree
  MaxFunctions   \* bound on its functions

AllTests    == {"before", "after", "none"}
AllControls == {"int", "long"}

ASSUME KindAssumption == Tests \subseteq AllTests /\ Controls \subseteq AllControls
ASSUME ValueAssumption ==
  /\ Value \subseteq Nat /\ IntMax \in Nat
  /\ IntModulus \in Nat /\ IntModulus > IntMax
ASSUME BoundAssumption ==
  NestingLimit \in Nat /\ MaxNodes \in Nat /\ MaxFunctions \in Nat

VARIABLES
  tree,       \* the nodes met so far: [node, num, name]
  ids,        \* the IDs the walks wrote into those nodes
  open,       \* positions of the constructs entered and not left
  container,  \* sema_label_loops_state: enclosing loops and switches
  labels,     \* sema_label_gotos_state: names of this function, oldest first
  generator,  \* both walks: the next ID, the last one
  pos,        \* second walk: how much of the tree is done
  pass,       \* "loops" | "gotos" | "labelled"
  status      \* "ok", the diagnostic that ended the compilation, or "assert"

vars == <<tree, ids, open, container, labels, generator, pos, pass, status>>

Unset == -1
UnsetDefault == -100

\* Fields of a node that hold IDs.  A switch has end, default and cases, a
\* loop start, continue and end, the others only unique.
Blank == [start |-> Unset, continue |-> Unset, end |-> Unset,
          unique |-> Unset, default |-> Unset, cases |-> <<>>]

Constructs == {"function", "loop", "switch", "if", "ifelse"}

Init ==
  /\ tree = <<>> /\ ids = <<>> /\ open = <<>>
  /\ container = <<>> /\ labels = <<>>
  /\ generator = 0
  /\ pos = 0
  /\ pass = "loops"
  /\ status = "ok"

(***************************************************************************)
(* The first walk.                                                         *)
(***************************************************************************)
Count(kinds) == Cardinality({i \in 1 .. Len(tree) : tree[i].node \in kinds})
Innermost == open[Len(open)]

\* The end of construct i, or the else that belongs to it.
Position(node, i) == {k \in 1 .. Len(tree) : tree[k].node = node /\ tree[k].num = i}

\* The walk can meet a statement of this kind here.
CanMeet(node) ==
  /\ pass = "loops" /\ status = "ok"
  /\ node \in Nodes
  /\ open # <<>>
  /\ Count(Nodes) < MaxNodes

\* num: a case's constant, or where the construct of an "else" or "end" is.
\* name: a label, where a loop tests, or the type a switch controls on.
Numbered(node, num)  == [node |-> node, num |-> num, name |-> ""]
Called(node, name)   == [node |-> node, num |-> Unset, name |-> name]
Plain(node)          == Called(node, "")

Meet(statement, id) ==
  /\ tree' = Append(tree, statement)
  /\ ids' = Append(ids, id)

Here == Len(tree) + 1
Enter == open' = Append(open, Here)

\* The walk ends at this node.
Fail(statement, error) ==
  /\ Meet(statement, Blank)
  /\ status' = error
  /\ UNCHANGED <<open, container, generator>>

FirstWalk == UNCHANGED <<labels, pos, pass>>

\* A function of the translation unit.
EnterFunction ==
  /\ pass = "loops" /\ status = "ok"
  /\ open = <<>> /\ Count({"function"}) < MaxFunctions
  /\ IF container = <<>>
     THEN /\ Meet(Plain("function"), Blank)
          /\ Enter
          /\ UNCHANGED <<container, generator, status>>
     ELSE Fail(Plain("function"), "assert")
  /\ FirstWalk

\* A function declared in a block: the walk enters and leaves its node.
Prototype ==
  /\ CanMeet("prototype")
  /\ IF container = <<>>
     THEN /\ Meet(Plain("prototype"), Blank)
          /\ UNCHANGED <<open, container, generator, status>>
     ELSE Fail(Plain("prototype"), "assert")
  /\ FirstWalk

Fits == Len(container) < NestingLimit

Contain(kind) == container' = Append(container, [origin |-> Here, statement |-> kind])

\* name: where the loop tests, before the body (while, for), after it
\* (do), or nowhere (for without a condition).
EnterLoop(test) ==
  /\ CanMeet("loop")
  /\ IF Fits
     THEN /\ Meet(Called("loop", test),
               [Blank EXCEPT !.start    = generator,
                             !.continue = generator + 1,
                             !.end      = generator + 2])
          /\ Contain("loop") /\ Enter
          /\ generator' = generator + 3
          /\ UNCHANGED status
     ELSE Fail(Called("loop", test), "assert")
  /\ FirstWalk

\* name: the type of the controlling expression.
EnterSwitch(control) ==
  /\ CanMeet("switch")
  /\ IF Fits
     THEN /\ Meet(Called("switch", control),
               [Blank EXCEPT !.default = UnsetDefault, !.end = generator])
          /\ Contain("switch") /\ Enter
          /\ generator' = generator + 1
          /\ UNCHANGED status
     ELSE Fail(Called("switch", control), "assert")
  /\ FirstWalk

\* Nodes the labelling walks pass over: `if', with or without `else', a
\* statement whose expression is an && or ||, and `return'.
EnterIf(node) ==
  /\ node \in {"if", "ifelse"} /\ CanMeet(node)
  /\ Meet(Plain(node), Blank) /\ Enter
  /\ UNCHANGED <<container, generator, status>>
  /\ FirstWalk

Else ==
  /\ pass = "loops" /\ status = "ok" /\ open # <<>>
  /\ tree[Innermost].node = "ifelse" /\ Position("else", Innermost) = {}
  /\ Meet(Numbered("else", Innermost), Blank)
  /\ UNCHANGED <<open, container, generator, status>>
  /\ FirstWalk

Leaf == UNCHANGED <<open, container>>

\* has_container: the position of the innermost one of this kind, or 0.
has_container(kind) ==
  LET of == {k \in 1 .. Len(container) : container[k].statement = kind}
  IN  IF of = {} THEN 0
      ELSE container[CHOOSE k \in of : \A j \in of : j =< k].origin

\* Mutation: break leaves the innermost loop.
BreakTarget_Loop ==
  IF has_container("loop") = 0 THEN Unset ELSE ids[has_container("loop")].end

BreakTarget ==
  IF container = <<>> THEN Unset ELSE ids[container[Len(container)].origin].end

Break ==
  /\ CanMeet("break")
  /\ IF BreakTarget = Unset
     THEN Fail(Plain("break"), "break_outside")
     ELSE /\ Meet(Plain("break"), [Blank EXCEPT !.unique = BreakTarget])
          /\ Leaf /\ UNCHANGED <<generator, status>>
  /\ FirstWalk

Continue ==
  /\ CanMeet("continue")
  /\ LET loop == has_container("loop")
     IN  IF loop = 0
         THEN Fail(Plain("continue"), "continue_outside")
         ELSE /\ Meet(Plain("continue"),
                   [Blank EXCEPT !.unique = ids[loop].continue])
              /\ Leaf /\ UNCHANGED <<generator, status>>
  /\ FirstWalk

\* Mutation: a constant is compared as it is written.
CaseValue_AsWritten(control, v) == v

\* guess on a constant, by map_numeric_type_scalar: an int control keeps
\* the low bits of a constant that does not fit.
CaseValue(control, v) ==
  IF control = "int" /\ v > IntMax THEN v % IntModulus ELSE v

\* case_prepend: refused when a case of the switch has that value already.
Case(v) ==
  /\ CanMeet("case")
  /\ LET switch  == has_container("switch")
         control == tree[switch].name
         value   == CaseValue(control, v)
         cases   == ids[switch].cases
     IN  IF switch = 0
         THEN Fail(Numbered("case", v), "case_outside")
         ELSE IF \E k \in 1 .. Len(cases) :
                   CaseValue(control, cases[k].value) = value
         THEN /\ Meet(Numbered("case", v), [Blank EXCEPT !.unique = generator])
              /\ generator' = generator + 1
              /\ status' = "case_duplicate"
              /\ Leaf
         ELSE /\ tree' = Append(tree, Numbered("case", v))
              /\ ids' = Append(
                   [ids EXCEPT ![switch].cases =
                      <<[value |-> value, unique |-> generator]>> \o @],
                   [Blank EXCEPT !.unique = generator])
              /\ generator' = generator + 1
              /\ Leaf /\ UNCHANGED status
  /\ FirstWalk

Default ==
  /\ CanMeet("default")
  /\ LET switch == has_container("switch")
     IN  IF switch = 0
         THEN Fail(Plain("default"), "default_outside")
         ELSE /\ tree' = Append(tree, Plain("default"))
              /\ generator' = generator + 1
              /\ Leaf
              /\ IF ids[switch].default # UnsetDefault
                 THEN /\ status' = "default_duplicate"
                      /\ ids' = Append(ids, [Blank EXCEPT !.unique = generator])
                 ELSE /\ ids' = Append([ids EXCEPT ![switch].default = generator],
                                       [Blank EXCEPT !.unique = generator])
                      /\ UNCHANGED status
  /\ FirstWalk

Other(node) ==
  /\ node \in {"logical", "return"} /\ CanMeet(node)
  /\ Meet(Plain(node), Blank)
  /\ Leaf /\ UNCHANGED <<generator, status>>
  /\ FirstWalk

\* Nodes only the second walk looks at.
Goto(n) ==
  /\ CanMeet("goto") /\ Meet(Called("goto", n), Blank)
  /\ Leaf /\ UNCHANGED <<generator, status>>
  /\ FirstWalk

Label(n) ==
  /\ CanMeet("label") /\ Meet(Called("label", n), Blank)
  /\ Leaf /\ UNCHANGED <<generator, status>>
  /\ FirstWalk

\* sema_exit_loop_id
Exit ==
  /\ pass = "loops" /\ status = "ok" /\ open # <<>>
  /\ tree[Innermost].node = "ifelse" => Position("else", Innermost) # {}
  /\ Meet(Numbered("end", Innermost), Blank)
  /\ open' = SubSeq(open, 1, Len(open) - 1)
  /\ IF tree[Innermost].node \in {"loop", "switch"}
     THEN container' = SubSeq(container, 1, Len(container) - 1)
     ELSE UNCHANGED container
  /\ status' = IF tree[Innermost].node = "function" /\ container # <<>>
               THEN "assert" ELSE status
  /\ UNCHANGED generator
  /\ FirstWalk

EndLoops ==
  /\ pass = "loops" /\ status = "ok" /\ open = <<>>
  /\ tree # <<>>
  /\ pass' = "gotos"
  /\ UNCHANGED <<tree, ids, open, container, labels, generator, pos, status>>

(***************************************************************************)
(* The second walk, over the same tree.                                    *)
(***************************************************************************)
SecondWalk(node) ==
  /\ pass = "gotos" /\ status = "ok"
  /\ pos < Len(tree) /\ tree[pos + 1].node = node
  /\ pos' = pos + 1
  /\ UNCHANGED <<tree, open, container, pass>>

Next2 == pos + 1
Named(n) == {k \in 1 .. Len(labels) : labels[k].name = n}

\* labels_prepend, then one of the two flags: the entry of n, made with the
\* next ID if it is new.
WithLabel(n, flag) ==
  LET fresh == [name |-> n, id |-> generator + 1,
                used_as_label |-> FALSE, used_as_target |-> FALSE]
      all   == IF Named(n) = {} THEN Append(labels, fresh) ELSE labels
  IN  [k \in 1 .. Len(all) |->
        IF all[k].name = n THEN [all[k] EXCEPT ![flag] = TRUE] ELSE all[k]]

Record(n, flag) ==
  /\ labels' = WithLabel(n, flag)
  /\ generator' = IF Named(n) = {} THEN generator + 1 ELSE generator
  /\ ids' = [ids EXCEPT ![Next2].unique =
                (CHOOSE l \in {labels'[k] : k \in 1 .. Len(labels')} : l.name = n).id]

GotoId ==
  /\ SecondWalk("goto")
  /\ Record(tree[Next2].name, "used_as_target")
  /\ UNCHANGED status

\* Mutation: every mention of the name counts.
IsLabel_AnyMention(n) == Named(n) # {}

IsLabel(n) == \E k \in Named(n) : labels[k].used_as_label

LabelId ==
  /\ SecondWalk("label")
  /\ LET n == tree[Next2].name
     IN  IF IsLabel(n)
         THEN /\ status' = "label_duplicate"
              /\ UNCHANGED <<ids, labels, generator>>
         ELSE /\ Record(n, "used_as_label")
              /\ UNCHANGED status

FunctionLabels ==
  /\ SecondWalk("function") \/ SecondWalk("prototype")
  /\ status' = IF labels = <<>> THEN status ELSE "assert"
  /\ UNCHANGED <<ids, labels, generator>>

\* sema_exit_goto_id, when the construct that ends is a function.
EndFunctionLabels ==
  /\ SecondWalk("end")
  /\ IF tree[tree[Next2].num].node # "function"
     THEN UNCHANGED <<labels, status>>
     ELSE IF \E k \in 1 .. Len(labels) :
                 labels[k].used_as_target /\ ~ labels[k].used_as_label
          THEN status' = "goto_nonexistent" /\ UNCHANGED labels
          ELSE labels' = <<>> /\ UNCHANGED status
  /\ UNCHANGED <<ids, generator>>

PassOver ==
  /\ \E node \in {"loop", "switch", "if", "ifelse", "else", "logical", "return",
                   "break", "continue", "case", "default"} : SecondWalk(node)
  /\ UNCHANGED <<ids, labels, generator, status>>

EndGotos ==
  /\ pass = "gotos" /\ status = "ok" /\ pos = Len(tree)
  /\ pass' = "labelled"
  /\ UNCHANGED <<tree, ids, open, container, labels, generator, pos, status>>

Next ==
  \/ EnterFunction \/ Prototype
  \/ \E test \in Tests : EnterLoop(test)
  \/ \E control \in Controls : EnterSwitch(control)
  \/ \E node \in {"if", "ifelse"} : EnterIf(node)
  \/ Else \/ Break \/ Continue \/ Default
  \/ \E node \in {"logical", "return"} : Other(node)
  \/ \E v \in Value : Case(v)
  \/ \E n \in Name : Goto(n) \/ Label(n)
  \/ Exit \/ EndLoops
  \/ GotoId \/ LabelId \/ FunctionLabels \/ EndFunctionLabels
  \/ PassOver \/ EndGotos

Spec == Init /\ [][Next]_vars
-----------------------------------------------------------------------------
(* Properties *)

Ids == [start: Int, continue: Int, end: Int, unique: Int, default: Int,
        cases: Seq([value: Nat, unique: Nat])]

TypeOK ==
  /\ tree \in Seq([node: Nodes \cup Constructs \cup {"else", "end"},
                   num: Value \cup {Unset} \cup 1 .. Len(tree),
                   name: Name \cup {""} \cup AllTests \cup AllControls])
  /\ ids \in Seq(Ids) /\ Len(ids) = Len(tree)
  /\ open \in Seq(1 .. Len(tree))
  /\ container \in Seq([origin: 1 .. Len(tree), statement: {"loop", "switch"}])
  /\ Len(container) =< NestingLimit
  /\ labels \in Seq([name: Name, id: Nat,
                     used_as_label: BOOLEAN, used_as_target: BOOLEAN])
  /\ generator \in Nat
  /\ pos \in 0 .. Len(tree)
  /\ pass \in {"loops", "gotos", "labelled"}

\* The structure of the tree, by the ends of its constructs.
Around(p, kinds) ==
  {i \in 1 .. p - 1 : tree[i].node \in kinds /\ \A k \in Position("end", i) : p < k}

Closest(p, kinds) ==
  IF Around(p, kinds) = {} THEN 0
  ELSE CHOOSE i \in Around(p, kinds) : \A j \in Around(p, kinds) : j =< i

Breakable == {"loop", "switch"}

\* Two constants that are one value once converted to the control's type.
SameCase(control, v, w) ==
  IF control = "int" THEN v % IntModulus = w % IntModulus ELSE v = w

\* What C asks of the statement at p, given those before it.
Allowed(p) ==
  CASE tree[p].node = "break"    -> Around(p, Breakable) # {}
    [] tree[p].node = "continue" -> Around(p, {"loop"}) # {}
    [] tree[p].node = "case"     ->
         /\ Around(p, {"switch"}) # {}
         /\ \A q \in 1 .. p - 1 :
              /\ tree[q].node = "case"
              /\ Closest(q, {"switch"}) = Closest(p, {"switch"})
              => ~ SameCase(tree[Closest(p, {"switch"})].name, tree[q].num, tree[p].num)
    [] tree[p].node = "default"  ->
         /\ Around(p, {"switch"}) # {}
         /\ \A q \in 1 .. p - 1 :
              tree[q].node = "default" =>
                Closest(q, {"switch"}) # Closest(p, {"switch"})
    [] OTHER -> TRUE

Misplaced == {"break_outside", "continue_outside", "case_outside",
              "default_outside", "case_duplicate", "default_duplicate"}

\* The container stack and the lists in the switches accept and refuse
\* exactly what C does: a diagnostic is deserved, and no statement out of
\* place, no second case of one value and no second default goes through.
LoopsDiagnosedExactly ==
  \A p \in 1 .. Len(tree) :
    Allowed(p) <=> ~ (p = Len(tree) /\ status \in Misplaced)

SameFunction(p, q) == Closest(p, {"function"}) = Closest(q, {"function"})
LabelsNamed(p, n) ==
  {q \in 1 .. Len(tree) : /\ tree[q].node = "label" /\ tree[q].name = n
                         /\ SameFunction(p, q)}

\* The second walk accepts exactly the functions whose gotos have a label
\* and whose labels differ, and no label serves another function.
GotosDiagnosedExactly ==
  /\ pass = "labelled" =>
       \A p \in 1 .. Len(tree) : tree[p].node \in {"goto", "label"} =>
         /\ Cardinality(LabelsNamed(p, tree[p].name)) = 1
         /\ \A q \in LabelsNamed(p, tree[p].name) : ids[q].unique = ids[p].unique
  /\ status = "label_duplicate" =>
       Cardinality(LabelsNamed(pos, tree[pos].name)) > 1
  /\ status = "goto_nonexistent" =>
       \E p \in 1 .. pos : /\ tree[p].node = "goto"
                           /\ Closest(p, {"function"}) = tree[pos].num
                           /\ LabelsNamed(p, tree[p].name) = {}
=============================================================================
