------------------------------ MODULE MCLinkage ------------------------------
(* Small instances of Linkage for TLC.  Names and types are only compared. *)
EXTENDS Linkage, TLC

NameSymmetry == Permutations(Name)
TypeSymmetry == Permutations(Type)

\* A bound on the programs: either there is one type and no name is both that
\* of a variable and of a function, or there are few nodes, all of one name.
OneKind ==
  \A k \in 1 .. Len(tree) :
    /\ tree[k].type = CHOOSE t \in Type : TRUE
    /\ tree[k].node = "function" => tree[k].name \notin Variables
OneName ==
  Len(tree) < MaxNodes /\ \A k \in 1 .. Len(tree) : tree[k].name \in Variables
Bound == OneKind \/ OneName
=============================================================================
