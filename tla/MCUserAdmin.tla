---------------------------- MODULE MCUserAdmin ----------------------------
(* Small instances of UserAdmin for TLC. *)
EXTENDS UserAdmin, TLC

CONSTANTS o1, o2

OpSymmetry == Permutations(Op)
=============================================================================
