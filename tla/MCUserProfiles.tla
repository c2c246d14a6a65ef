--------------------------- MODULE MCUserProfiles ---------------------------
(* Small instances of UserProfiles for TLC.                                  *)
EXTENDS UserProfiles, TLC

CONSTANTS o1, o2, r1

\* Three people, two of one name.
MCProfile == {[email |-> 1, code |-> 1, name |-> 1],
              [email |-> 2, code |-> 2, name |-> 2],
              [email |-> 3, code |-> 3, name |-> 1]}

\* A PATCH of a name, and of both keys at once, with values that others have.
MCChange == {[name |-> 2], [code |-> 2, email |-> 1]}

Symmetry == Permutations(Op)
=============================================================================
