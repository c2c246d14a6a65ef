-------------------------- MODULE AttendanceLedger --------------------------
(***************************************************************************)
(* What attendance promises, without requests, transactions, clocks or     *)
(* locks: each user has a ledger that opens with a check-in and in which   *)
(* every check-in is closed, by the user or automatically, before the next *)
(* one.  Entries are added, one at a time or an automatic closure together *)
(* with the check-in it makes room for, and go only with the user.         *)
(***************************************************************************)
EXTENDS Sequences, Integers

CONSTANT User

VARIABLES
  ledger,   \* ledger[u]: the entries of u, oldest first
  present   \* the users that have not been deleted

Entry == {"CHECK_IN", "CHECK_OUT", "AUTO_CLOSED"}

IsOpen(u) == ledger[u] # <<>> /\ ledger[u][Len(ledger[u])] = "CHECK_IN"

Init ==
  /\ ledger = [u \in User |-> <<>>]
  /\ present = User

Write(u, entries) ==
  /\ u \in present
  /\ ledger' = [ledger EXCEPT ![u] = @ \o entries]
  /\ UNCHANGED present

CheckIn(u) == ~IsOpen(u) /\ Write(u, <<"CHECK_IN">>)

CheckOut(u) == IsOpen(u) /\ Write(u, <<"CHECK_OUT">>)

AutoClose(u) == IsOpen(u) /\ Write(u, <<"AUTO_CLOSED">>)

AutoCloseAndCheckIn(u) == IsOpen(u) /\ Write(u, <<"AUTO_CLOSED", "CHECK_IN">>)

Delete(u) ==
  /\ u \in present
  /\ present' = present \ {u}
  /\ ledger' = [ledger EXCEPT ![u] = <<>>]

Next ==
  \E u \in User :
    \/ CheckIn(u) \/ CheckOut(u) \/ AutoClose(u) \/ AutoCloseAndCheckIn(u)
    \/ Delete(u)

LedgerSpec == Init /\ [][Next]_<<ledger, present>>
=============================================================================
