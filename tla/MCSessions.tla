----------------------------- MODULE MCSessions -----------------------------
(* Small instances of Sessions for TLC. *)
EXTENDS Sessions, TLC

CONSTANTS o1, o2, p1, p2

OpSymmetry == Permutations(Op)
PasswordSymmetry == Permutations(Password)
Symmetry == OpSymmetry \cup PasswordSymmetry
=============================================================================
