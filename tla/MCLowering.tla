------------------------------ MODULE MCLowering ------------------------------
(* Small instances of Lowering and ControlFlow for TLC.  Label names are
   interchangeable. *)
EXTENDS ControlFlow, TLC

NameSymmetry == Permutations(Name)

\* A bound on the programs: one function of loops and switches, or two with
\* goto statements, labels, and loops or if-else; branches in the first, logical
\* operators, returns and prototypes in the second only among fewer statements.
Kinds == {tree[k].node : k \in 1 .. Len(tree)} \ {"function", "else", "end"}
JumpsOnly ==
  /\ Kinds \subseteq {"loop", "switch", "if", "ifelse", "break", "continue", "case", "default"}
  /\ Count({"function"}) =< 1
  /\ Kinds \cap {"if", "ifelse"} # {} => Count(Nodes) < MaxNodes
GotosOnly ==
  /\ Kinds \subseteq {"loop", "ifelse", "goto", "label", "logical", "return", "prototype"}
  /\ \A k \in 1 .. Len(tree) : tree[k].node = "loop" => tree[k].name = "before"
  /\ Kinds \cap {"logical", "return", "prototype"} # {} \/ {"loop", "ifelse"} \subseteq Kinds
       => Count(Nodes) < MaxNodes
Bound == JumpsOnly \/ GotosOnly
=============================================================================
