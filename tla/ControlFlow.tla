------------------------------ MODULE ControlFlow ------------------------------
(***************************************************************************)
(* Where control goes: through the statements, as C says, and through the  *)
(* labels and jumps module Lowering makes of them.                         *)
(***************************************************************************)
EXTENDS Lowering

(***************************************************************************)
(* What C says: the node control goes to from node p, given the outcome of *)
(* the test there.  Exit is leaving the function; the end of a loop is     *)
(* where it counts on, its head where it tests first.                      *)
(***************************************************************************)
ExitNode == 0
EndOf(p) == CHOOSE k \in Position("end", p) : TRUE
ElseOf(p) == CHOOSE k \in Position("else", p) : TRUE

InSwitch(p, nodes) ==
  {q \in p .. EndOf(p) : tree[q].node \in nodes /\ Closest(q, {"switch"}) = p}

SwitchGoesTo(p, value) ==
  LET hits == {q \in InSwitch(p, {"case"}) :
                 SameCase(tree[p].name, tree[q].num, value)}
      or   == InSwitch(p, {"default"})
  IN  IF hits # {} THEN CHOOSE q \in hits : TRUE
      ELSE IF or # {} THEN CHOOSE q \in or : TRUE
      ELSE EndOf(p) + 1

EndGoesTo(p, zero) ==
  LET opener == tree[p].num
  IN  CASE tree[opener].node = "function" -> ExitNode
        [] tree[opener].node = "loop" ->
             IF tree[opener].name = "after" /\ zero THEN p + 1 ELSE opener
        [] OTHER -> p + 1

GoesTo(p, zero, value) ==
  CASE tree[p].node = "return"   -> ExitNode
    [] tree[p].node = "break"    -> EndOf(Closest(p, Breakable)) + 1
    [] tree[p].node = "continue" -> EndOf(Closest(p, {"loop"}))
    [] tree[p].node = "goto"     -> CHOOSE q \in LabelsNamed(p, tree[p].name) : TRUE
    [] tree[p].node = "switch"   -> SwitchGoesTo(p, value)
    [] tree[p].node = "loop"     ->
         IF tree[p].name = "before" /\ zero THEN EndOf(p) + 1 ELSE p + 1
    [] tree[p].node = "if"       -> IF zero THEN EndOf(p) + 1 ELSE p + 1
    [] tree[p].node = "ifelse"   -> IF zero THEN ElseOf(p) + 1 ELSE p + 1
    [] tree[p].node = "else"     -> EndOf(tree[p].num) + 1
    [] tree[p].node = "end"      -> EndGoesTo(p, zero)
    [] OTHER                     -> p + 1

(***************************************************************************)
(* What the code does: the first operation of another node, or of an       *)
(* earlier place, that control reaches from operation k of node p; 0 for   *)
(* a return.                                                               *)
(***************************************************************************)
LabelAt(id) == CHOOSE k \in LabelsAt(id) : TRUE

RECURSIVE Landing(_)
Landing(k) ==
  IF k =< Len(code) /\ code[k].op = "label" THEN Landing(k + 1) ELSE k

RECURSIVE Run(_, _, _, _)
Run(k, p, zero, value) ==
  LET o      == code[k]
      taken  == \/ o.op = "jump"
                \/ o.op = "jump_if_zero" /\ zero
                \/ /\ o.op = "jump_if_equal"
                   /\ SameCase(tree[p].name, o.value, value)
      target == LabelAt(o.id)
  IN  IF k > Len(code) THEN k
      ELSE IF o.op = "label" THEN Run(k + 1, p, zero, value)
      ELSE IF o.from # p THEN k
      ELSE IF o.op = "ret" THEN 0
      ELSE IF ~ taken THEN Run(k + 1, p, zero, value)
      ELSE IF target < k THEN Landing(target)
      ELSE Run(target, p, zero, value)

\* A function whose last operation is a return needs no code for its end.
NeedsNoCode(p) ==
  tree[p].node = "end" /\ \A k \in 1 .. Len(code) : code[k].from # p

\* Break, continue, goto, the dispatch of a switch, falling through, the
\* loops and the clauses of if: from every node, whatever the outcome of its
\* test, the jumps and labels lead where C says.
CodeFollowsTheSource ==
  Lowered =>
    \A p \in 1 .. Len(tree) : \A zero \in BOOLEAN : \A value \in 0 .. IntModulus :
      NeedsNoCode(p) \/
      LET q == GoesTo(p, zero, value)
      IN  Run(starts[p], p, zero, value)
            = IF q = ExitNode THEN 0 ELSE Landing(starts[q])
=============================================================================
