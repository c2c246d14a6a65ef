-------------------------- MODULE MCAttendanceReads --------------------------
(* Small instances of AttendanceReads for TLC: days of two hours, weeks of   *)
(* two days, and a month that begins in the middle of a week.                *)
EXTENDS AttendanceReads

CONSTANTS u1, a, b, r1

HomeOf == [u \in User |-> a]

FirstDays == {0, 1}
=============================================================================
