------------------------------- MODULE Lowering -------------------------------
(***************************************************************************)
(* src/passes/ir.c on the statements module Labels has numbered: the tree  *)
(* becomes a list of labels and jumps.  Other operations of the IR are     *)
(* left out, the code of an expression is where its node is.               *)
(***************************************************************************)
EXTENDS Labels

VARIABLES
  code,        \* operations so far: [op, id, value, from]
  starts,      \* history: for each node lowered, where its code begins
  clauses,     \* locals of the ir_if_else activations: [cond, end]
  env_labels,  \* ir->env.labels, 0 before ir_init
  at           \* how much of the tree is lowered

lvars == <<code, starts, clauses, env_labels, at>>
allvars == <<vars, lvars>>

LInit ==
  /\ Init
  /\ code = <<>> /\ starts = <<>> /\ clauses = <<>>
  /\ env_labels = 0
  /\ at = 0

\* Mutation: the last goto label and the first label of the IR are one.
base_label_NoGap == generator

\* main.c: base_label = label_generator + 1.
base_label == generator + 1

ir_init ==
  /\ pass = "labelled" /\ env_labels = 0
  /\ env_labels' = base_label
  /\ UNCHANGED <<vars, code, starts, clauses, at>>

Now == at + 1
\* The next node to lower is one of these.
Lower(nodes) ==
  /\ env_labels # 0 /\ at < Len(tree)
  /\ tree[Now].node \in nodes
  /\ at' = Now
  /\ starts' = Append(starts, Len(code) + 1)
  /\ UNCHANGED vars

Op(op, id)        == [op |-> op, id |-> id, value |-> 0, from |-> Now]
Emit(ops)         == code' = code \o ops
KeepEnv           == UNCHANGED <<clauses, env_labels>>
Top(s)            == s[Len(s)]

\* A prototype is ignored, the body of a function is lowered as a block.
LowerFunction ==
  /\ Lower({"function", "prototype"})
  /\ Emit(<<>>) /\ KeepEnv

\* The end of a function: a final return, unless its last operation is one.
EndFunction ==
  /\ Lower({"end"}) /\ tree[tree[Now].num].node = "function"
  /\ LET first == starts[tree[Now].num]
     IN  Emit(IF Len(code) >= first /\ Top(code).op = "ret"
              THEN <<>> ELSE << Op("ret", Unset) >>)
  /\ KeepEnv

Return == Lower({"return"}) /\ Emit(<< Op("ret", Unset) >>) /\ KeepEnv

\* ir_loop: what comes before its body, and what comes after.
LowerLoop ==
  /\ Lower({"loop"})
  /\ Emit(<< Op("label", ids[Now].start) >> \o
          IF tree[Now].name = "before"
          THEN << Op("jump_if_zero", ids[Now].end) >> ELSE <<>>)
  /\ KeepEnv

EndLoop ==
  /\ Lower({"end"}) /\ tree[tree[Now].num].node = "loop"
  /\ LET loop == tree[Now].num
     IN  Emit(<< Op("label", ids[loop].continue) >> \o
              (IF tree[loop].name = "after"
               THEN << Op("jump_if_zero", ids[loop].end) >> ELSE <<>>) \o
              << Op("jump", ids[loop].start), Op("label", ids[loop].end) >>)
  /\ KeepEnv

\* ir_loop_control_op, ir_goto
LowerJump ==
  /\ Lower({"break", "continue", "goto"})
  /\ Emit(<< Op("jump", ids[Now].unique) >>)
  /\ KeepEnv

\* ir_label
LowerLabel ==
  /\ Lower({"label", "case", "default"})
  /\ Emit(<< Op("label", ids[Now].unique) >>)
  /\ KeepEnv

\* ir_switch: the tests of the cases, each put before the ones so far, the
\* jump to the default, if there is one, and the jump past the body.
CaseJumpers(switch) ==
  LET cases == ids[switch].cases
      n     == Len(cases)
  IN  [k \in 1 .. n |-> [Op("jump_if_equal", cases[n + 1 - k].unique)
                           EXCEPT !.value = cases[n + 1 - k].value]]

\* Mutation: the sentinel is not looked at.
DefaultJumper_Always(switch) == << Op("jump", ids[switch].default) >>

DefaultJumper(switch) ==
  IF ids[switch].default >= 0 THEN << Op("jump", ids[switch].default) >> ELSE <<>>

LowerSwitch ==
  /\ Lower({"switch"})
  /\ Emit(CaseJumpers(Now) \o DefaultJumper(Now) \o << Op("jump", ids[Now].end) >>)
  /\ KeepEnv

EndSwitch ==
  /\ Lower({"end"}) /\ tree[tree[Now].num].node = "switch"
  /\ Emit(<< Op("label", ids[tree[Now].num].end) >>)
  /\ KeepEnv

\* ir_if_else and ir_if_else_prepare.  cond is where a false condition goes,
\* end where the first clause goes to pass the second.
LowerIf ==
  /\ Lower({"if", "ifelse"})
  /\ Emit(<< Op("jump_if_zero", env_labels) >>)
  /\ IF tree[Now].node = "ifelse"
     THEN /\ clauses' = Append(clauses, [cond |-> env_labels, end |-> env_labels + 1])
          /\ env_labels' = env_labels + 2
     ELSE /\ clauses' = Append(clauses, [cond |-> env_labels, end |-> Unset])
          /\ env_labels' = env_labels + 1

LowerElse ==
  /\ Lower({"else"})
  /\ Emit(<< Op("jump", Top(clauses).end), Op("label", Top(clauses).cond) >>)
  /\ KeepEnv

EndIf ==
  /\ Lower({"end"})
  /\ LET node == tree[tree[Now].num].node
     IN  /\ node \in {"if", "ifelse"}
         /\ Emit(<< Op("label", IF node = "if" THEN Top(clauses).cond
                                               ELSE Top(clauses).end) >>)
  /\ clauses' = SubSeq(clauses, 1, Len(clauses) - 1)
  /\ UNCHANGED env_labels

\* ir_logical_op: both arms jump to lf when they decide the result.
LowerLogical ==
  /\ Lower({"logical"})
  /\ LET lf        == env_labels
         label_end == env_labels + 1
     IN  Emit(<< Op("jump_if_zero", lf), Op("jump_if_zero", lf),
                 Op("jump", label_end), Op("label", lf), Op("label", label_end) >>)
  /\ env_labels' = env_labels + 2
  /\ UNCHANGED clauses

LNext ==
  \/ Next /\ UNCHANGED lvars
  \/ ir_init
  \/ LowerFunction \/ EndFunction \/ Return
  \/ LowerLoop \/ EndLoop \/ LowerJump \/ LowerLabel
  \/ LowerSwitch \/ EndSwitch
  \/ LowerIf \/ LowerElse \/ EndIf \/ LowerLogical

LSpec == LInit /\ [][LNext]_allvars
-----------------------------------------------------------------------------
(* Properties *)

Lowered == env_labels # 0 /\ at = Len(tree)

LabelsAt(id) == {k \in 1 .. Len(code) : code[k].op = "label" /\ code[k].id = id}

LowerTypeOK ==
  /\ TypeOK
  /\ code \in Seq([op: {"label", "jump", "jump_if_zero", "jump_if_equal", "ret"},
                   id: {Unset} \cup Nat, value: Nat, from: 1 .. Len(tree)])
  /\ starts \in Seq(1 .. Len(code) + 1) /\ Len(starts) = at
  /\ clauses \in Seq([cond: Nat, end: {Unset} \cup Nat])
  /\ env_labels \in Nat
  /\ at \in 0 .. Len(tree)

\* The assembler sees every label once, and every jump has its label, in
\* the function it is in: the numbers of the two walks and of the IR never
\* meet.
LabelsDefinedOnce ==
  Lowered =>
    \A k \in 1 .. Len(code) :
      code[k].id # Unset =>
        /\ Cardinality(LabelsAt(code[k].id)) = 1
        /\ \A l \in LabelsAt(code[k].id) :
             SameFunction(code[k].from, code[l].from)
=============================================================================
