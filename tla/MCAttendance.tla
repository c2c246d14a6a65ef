---------------------------- MODULE MCAttendance ----------------------------
(* Small instances of Attendance for TLC. *)
EXTENDS Attendance, TLC

CONSTANTS t1, t2, u1, u2, r1, r2, r3, s1, s2

OneTenant == [u \in User |-> t1]
\* One site, whose longest shift an administrator moves from 1 to 3.
ShortAndLong == {[at |-> 0, radius |-> 1, maxShift |-> m] : m \in {1, 3}}
Short == {[at |-> 0, radius |-> 1, maxShift |-> 1]}

\* A reading inside the geofence, and one outside of it.
Inside == [wellFormed |-> TRUE, at |-> 1, accuracy |-> 0]
Outside == [wellFormed |-> TRUE, at |-> 2, accuracy |-> 0]
InsideOnly == {Inside}
InsideAndOutside == {Inside, Outside}

RequestSymmetry == Permutations(Request)
=============================================================================
