------------------------------ MODULE MCResolve ------------------------------
(* Small instances of Resolve for TLC.  Nothing tells one name from another, *)
(* so permuting them is a symmetry.                                          *)
EXTENDS Resolve, TLC

NameSymmetry == Permutations(Name)
=============================================================================
