---------------------------- MODULE MCOnboarding ----------------------------
(* Small instances of Onboarding for TLC. *)
EXTENDS Onboarding, TLC

CONSTANTS o1, o2, o3

OpSymmetry == Permutations(Op)
=============================================================================
