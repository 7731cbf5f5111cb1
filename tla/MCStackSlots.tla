----------------------------- MODULE MCStackSlots -----------------------------
(* Small instances of StackSlots for TLC. *)
EXTENDS StackSlots

\* char, int, long, char[3] and long[3].
MCTypes ==
  {[word |-> 1, total |-> 0], [word |-> 4, total |-> 0], [word |-> 8, total |-> 0],
   [word |-> 1, total |-> 3], [word |-> 8, total |-> 24]}
=============================================================================
