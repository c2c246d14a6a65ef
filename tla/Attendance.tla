----------------------------- MODULE Attendance -----------------------------
(***************************************************************************)
(* Check-in, check-out and the sweep that closes forgotten sessions        *)
(* (services/attendance, jobs/close_stale_sessions, api/v1/attendance).    *)
(*                                                                         *)
(* Every HTTP attempt and every candidate of a sweep is one database       *)
(* transaction under READ COMMITTED.  A transaction is a process that      *)
(* takes one step per group of statements: its inserts stay in pending[p]  *)
(* and logged[p] until Commit(p) publishes them all, and are lost if the   *)
(* transaction dies.  The user's row is the mutex: SELECT ... FOR UPDATE   *)
(* is LockUser(p), and the lock is released by the end of the transaction. *)
(* Administrators deactivate, activate and delete users and edit the       *)
(* location between any two of these steps.                                *)
(*                                                                         *)
(* Time is a counter that Tick advances, up to MaxTime.  An INSERT stamps  *)
(* its row with clock_timestamp(), and no two such reads are equal: it     *)
(* advances the counter by one.  Each attempt runs once, so the inserts,   *)
(* and with them the clock, are bounded without a guard of their own.      *)
(***************************************************************************)
EXTENDS PresenceRules, Sequences, FiniteSets

CONSTANTS
  User,             \* users, over all tenants
  TenantOf,         \* the tenant each user belongs to
  Request,          \* check-in and check-out attempts, each made once
  Sweeper,          \* running instances of the close_stale_sessions job
  Nobody,           \* holder of a free row lock
  NoWork,           \* the work of a process that has had none
  DefaultMaxShift,  \* DEFAULT_MAX_SHIFT_HOURS
  MaxTime,          \* bound: Tick stops here
  MaxFaults         \* bound on timeouts, lost connections and crashes

Process == Request \cup Sweeper

ASSUME TenantAssumption == TenantOf \in [User -> Tenant]
ASSUME ProcessAssumption == Request \cap Sweeper = {} /\ Nobody \notin Process
ASSUME BoundAssumption ==
  DefaultMaxShift \in Nat /\ MaxTime \in Nat /\ MaxFaults \in Nat

VARIABLES
  clock,      \* the wall clock
  users,      \* users[u]: status of the row of u, "DELETED" once it is gone
  locations,  \* locations[t]: the location row of tenant t, or NoLocation
  events,     \* events[u]: committed attendance_events rows, in commit order
  audit,      \* audit[u]: committed attendance audit_logs rows about u
  lock,       \* lock[u]: the transaction that holds the row lock of u
  pc,         \* pc[p]: the next statement of transaction p
  req,        \* req[p]: what transaction p works on
  qrReason,   \* qrReason[p]: what p's SELECT of the scanned token found
  pending,    \* pending[p]: events p has inserted and not committed
  logged,     \* logged[p]: audit rows p has added and not committed
  outcome,    \* outcome[p]: the AttendanceOutcome that p answers
  todo,       \* todo[s]: candidates the sweep s has still to visit
  faults      \* transactions lost so far

rows == <<users, locations, events, audit>>
vars == <<clock, users, locations, events, audit, lock, pc, req, qrReason,
          pending, logged, outcome, todo, faults>>

-----------------------------------------------------------------------------
(* The values *)

EventType == {"CHECK_IN", "CHECK_OUT"}
AttendanceState == {"NOT_CHECKED_IN", "CHECKED_IN"}

\* An attendance_events row: event_timestamp, created_at (the start of the
\* inserting transaction) and, for an automatic closure, its cutoff_hours.
Event == [type : EventType, status : {"VERIFIED", "AUTO_CLOSED"},
          at : Nat, created : Nat, cutoff : Nat]

SuccessAction == [CHECK_IN |-> "ATTENDANCE_CHECK_IN",
                  CHECK_OUT |-> "ATTENDANCE_CHECK_OUT"]
FailureAction == [CHECK_IN |-> "ATTENDANCE_CHECK_IN_FAILED",
                  CHECK_OUT |-> "ATTENDANCE_CHECK_OUT_FAILED"]
AuditAction == {"ATTENDANCE_CHECK_IN", "ATTENDANCE_CHECK_OUT",
                "ATTENDANCE_CHECK_IN_FAILED", "ATTENDANCE_CHECK_OUT_FAILED",
                "ATTENDANCE_AUTO_CLOSED", "USER_DELETED"}

StateAfterEvent == [CHECK_IN |-> "CHECKED_IN", CHECK_OUT |-> "NOT_CHECKED_IN"]
StateRequiredForEvent ==
  [CHECK_IN |-> "NOT_CHECKED_IN", CHECK_OUT |-> "CHECKED_IN"]
WrongStateReason ==
  [CHECK_IN |-> "ALREADY_CHECKED_IN", CHECK_OUT |-> "NOT_CHECKED_IN"]

AttendanceReason == FailureReason \cup {"ALREADY_CHECKED_IN", "NOT_CHECKED_IN"}
Outcome == [success : BOOLEAN, state : AttendanceState,
            reason : AttendanceReason, autoClosed : BOOLEAN, at : Nat]
NoOutcome == [success |-> FALSE, state |-> "NOT_CHECKED_IN",
              reason |-> "NONE", autoClosed |-> FALSE, at |-> 0]

UserRow == {"ACTIVE", "INACTIVE", "DELETED"}
Attempt == [user : User, type : EventType, token : QrToken,
            reading : Readings, started : Nat]
\* The transaction of a sweep works on one candidate.
Candidate == [user : User, started : Nat]

\* A transaction is open from the first statement to its end.
OpenPC == {"waiting", "locked", "checked", "scanned", "committing"}
\* An attempt ends with an answer, rolled back, or committed with its answer lost.
PC == OpenPC \cup {"idle", "sweeping", "answered", "failed", "lost"}
\* The states of a transaction that has the row lock.
LockedPC == OpenPC \ {"waiting"}

-----------------------------------------------------------------------------
(* Reading the events of a user *)

\* ORDER BY event_timestamp DESC, created_at DESC LIMIT 1
Newest(s) ==
  s[CHOOSE i \in DOMAIN s :
      \A j \in DOMAIN s : \/ s[j].at < s[i].at
                          \/ s[j].at = s[i].at /\ s[j].created <= s[i].created]

CurrentState(s) ==
  IF s = <<>> THEN "NOT_CHECKED_IN" ELSE StateAfterEvent[Newest(s).type]

\* The events of its user as transaction p sees them: the committed ones and
\* the ones it has inserted itself.
View(p) == events[req[p].user] \o pending[p]

MaxShift(t) ==
  IF locations[t] = NoLocation THEN DefaultMaxShift ELSE locations[t].maxShift

\* Mutant: an open session is closed whatever its age.
OpenIsStale(s, t) == CurrentState(s) = "CHECKED_IN"

\* The open session in s is older than its tenant allows.
Stale(s, t) ==
  /\ CurrentState(s) = "CHECKED_IN"
  /\ clock - Newest(s).at > MaxShift(t)

Init ==
  /\ clock = 0
  /\ users = [u \in User |-> "ACTIVE"]
  /\ locations = [t \in Tenant |-> NoLocation]
  /\ events = [u \in User |-> <<>>]
  /\ audit = [u \in User |-> <<>>]
  /\ lock = [u \in User |-> Nobody]
  /\ pc = [p \in Process |-> "idle"]
  /\ req = [p \in Process |-> NoWork]
  /\ qrReason = [p \in Process |-> "NONE"]
  /\ pending = [p \in Process |-> <<>>]
  /\ logged = [p \in Process |-> <<>>]
  /\ outcome = [p \in Process |-> NoOutcome]
  /\ todo = [s \in Sweeper |-> {}]
  /\ faults = 0

-----------------------------------------------------------------------------
(* Opening a transaction and taking the row lock *)

\* A request is authenticated and its handler starts: get_current_user reads
\* the status of the user's row, without a lock, in the same transaction.
Begin(r) ==
  /\ pc[r] = "idle"
  /\ \E u \in User, type \in EventType, token \in QrToken, reading \in Readings :
       /\ users[u] = "ACTIVE"
       /\ req' = [req EXCEPT ![r] = [user |-> u, type |-> type, token |-> token,
                                     reading |-> reading, started |-> clock]]
  /\ pc' = [pc EXCEPT ![r] = "waiting"]
  /\ UNCHANGED <<clock, rows, lock, qrReason, pending, logged, outcome, todo,
                 faults>>

\* Mutant: SELECT without FOR UPDATE does not wait.
LockUserWithoutWaiting(p) ==
  /\ pc[p] = "waiting"
  /\ users[req[p].user] # "DELETED"
  /\ lock' = [lock EXCEPT ![req[p].user] = p]
  /\ pc' = [pc EXCEPT ![p] = "locked"]
  /\ UNCHANGED <<clock, rows, req, qrReason, pending, logged, outcome, todo,
                 faults>>

\* _lock_user: SELECT ... FOR UPDATE waits until the row is free.
LockUser(p) ==
  /\ pc[p] = "waiting"
  /\ users[req[p].user] # "DELETED"
  /\ lock[req[p].user] = Nobody
  /\ lock' = [lock EXCEPT ![req[p].user] = p]
  /\ pc' = [pc EXCEPT ![p] = "locked"]
  /\ UNCHANGED <<clock, rows, req, qrReason, pending, logged, outcome, todo,
                 faults>>

\* Mutants: the connection goes back to the pool with its lock; or with the
\* rows it has not committed.
CloseKeepingLock(p, next) ==
  /\ pending' = [pending EXCEPT ![p] = <<>>]
  /\ logged' = [logged EXCEPT ![p] = <<>>]
  /\ pc' = [pc EXCEPT ![p] = next]
  /\ UNCHANGED lock
CloseKeepingRows(p, next) ==
  /\ lock' = [u \in User |-> IF lock[u] = p THEN Nobody ELSE lock[u]]
  /\ pc' = [pc EXCEPT ![p] = next]
  /\ UNCHANGED <<pending, logged>>

\* The end of a transaction: the lock and the uncommitted rows are gone.
Close(p, next) ==
  /\ lock' = [u \in User |-> IF lock[u] = p THEN Nobody ELSE lock[u]]
  /\ pending' = [pending EXCEPT ![p] = <<>>]
  /\ logged' = [logged EXCEPT ![p] = <<>>]
  /\ pc' = [pc EXCEPT ![p] = next]

\* After a transaction a sweep goes on to its next candidate.
After(p, last) == IF p \in Sweeper THEN "sweeping" ELSE last

\* The row vanished between authentication and the lock: the attempt is
\* refused, with nothing written; a sweep skips the user.
UserMissing(p) ==
  /\ pc[p] = "waiting"
  /\ users[req[p].user] = "DELETED"
  /\ Close(p, After(p, "answered"))
  /\ outcome' = IF p \in Sweeper THEN outcome
                ELSE [outcome EXCEPT ![p] =
                        [NoOutcome EXCEPT !.reason = WrongStateReason[req[p].type]]]
  /\ UNCHANGED <<clock, rows, req, qrReason, todo, faults>>

-----------------------------------------------------------------------------
(* Closing a forgotten session *)

\* Mutant: the server default of event_timestamp is now(), the start of the
\* transaction.
InsertAtStart(p, type, status, cutoff, action) ==
  /\ clock' = clock + 1
  /\ pending' = [pending EXCEPT ![p] =
       Append(@, [type |-> type, status |-> status, at |-> req[p].started,
                  created |-> req[p].started, cutoff |-> cutoff])]
  /\ logged' = [logged EXCEPT ![p] = Append(@, action)]

\* INSERT of an event of transaction p and of the audit row that goes with it.
Insert(p, type, status, cutoff, action) ==
  /\ clock' = clock + 1
  /\ pending' = [pending EXCEPT ![p] =
       Append(@, [type |-> type, status |-> status, at |-> clock + 1,
                  created |-> req[p].started, cutoff |-> cutoff])]
  /\ logged' = [logged EXCEPT ![p] = Append(@, action)]

\* close_stale_session_if_needed, when the open session is past its cutoff.
\* A sweep has then only to commit.
AutoClose(p) ==
  LET tenant == TenantOf[req[p].user]
  IN  /\ pc[p] = "locked"
      /\ Stale(View(p), tenant)
      /\ Insert(p, "CHECK_OUT", "AUTO_CLOSED", MaxShift(tenant),
                "ATTENDANCE_AUTO_CLOSED")
      /\ pc' = [pc EXCEPT ![p] = IF p \in Sweeper THEN "committing" ELSE "checked"]
      /\ UNCHANGED <<rows, lock, req, qrReason, outcome, todo, faults>>

\* The same, when there is nothing to close: an attempt goes on.
NothingToClose(r) ==
  /\ pc[r] = "locked"
  /\ ~Stale(View(r), TenantOf[req[r].user])
  /\ pc' = [pc EXCEPT ![r] = "checked"]
  /\ UNCHANGED <<clock, rows, lock, req, qrReason, pending, logged, outcome,
                 todo, faults>>

\* A sweep rolls back instead and leaves the user alone.
SkipUser(s) ==
  /\ pc[s] = "locked"
  /\ ~Stale(View(s), TenantOf[req[s].user])
  /\ Close(s, "sweeping")
  /\ UNCHANGED <<clock, rows, req, qrReason, outcome, todo, faults>>

-----------------------------------------------------------------------------
(* record_attendance, after the automatic closure *)

\* Mutant: the state was derived before the automatic closure.
RefuseWithEarlierState(r, reason) ==
  /\ outcome' = [outcome EXCEPT ![r] =
       [success |-> FALSE, state |-> CurrentState(events[req[r].user]),
        reason |-> reason, autoClosed |-> pending[r] # <<>>, at |-> 0]]
  /\ logged' = [logged EXCEPT ![r] = Append(@, FailureAction[req[r].type])]
  /\ pc' = [pc EXCEPT ![r] = "committing"]
  /\ UNCHANGED <<clock, rows, lock, req, pending, todo, faults>>

\* The outcome of an attempt that writes no event of its own.
Refuse(r, reason) ==
  /\ outcome' = [outcome EXCEPT ![r] =
       [success |-> FALSE, state |-> CurrentState(View(r)), reason |-> reason,
        autoClosed |-> pending[r] # <<>>, at |-> 0]]
  /\ logged' = [logged EXCEPT ![r] = Append(@, FailureAction[req[r].type])]
  /\ pc' = [pc EXCEPT ![r] = "committing"]
  /\ UNCHANGED <<clock, rows, lock, req, pending, todo, faults>>

\* The user is not in the state that the attempted event requires.
RefuseWrongState(r) ==
  /\ pc[r] = "checked"
  /\ CurrentState(View(r)) # StateRequiredForEvent[req[r].type]
  /\ Refuse(r, WrongStateReason[req[r].type])
  /\ UNCHANGED qrReason

\* Mutant: presence is enough, whatever the state.
ScanQrInAnyState(r) ==
  /\ pc[r] = "checked"
  /\ qrReason' = [qrReason EXCEPT ![r] =
       ResolveQr(locations, TenantOf[req[r].user], req[r].token)]
  /\ pc' = [pc EXCEPT ![r] = "scanned"]
  /\ UNCHANGED <<clock, rows, lock, req, pending, logged, outcome, todo, faults>>

\* The state is right; verify_presence starts by resolving the scanned token.
ScanQr(r) ==
  /\ pc[r] = "checked"
  /\ CurrentState(View(r)) = StateRequiredForEvent[req[r].type]
  /\ qrReason' = [qrReason EXCEPT ![r] =
       ResolveQr(locations, TenantOf[req[r].user], req[r].token)]
  /\ pc' = [pc EXCEPT ![r] = "scanned"]
  /\ UNCHANGED <<clock, rows, lock, req, pending, logged, outcome, todo, faults>>

\* The second statement of verify_presence reads the location; the decision
\* follows without a further read.
PresenceOf(r) ==
  PresenceReason(locations[TenantOf[req[r].user]], req[r].reading, qrReason[r])

RefusePresence(r) ==
  /\ pc[r] = "scanned"
  /\ PresenceOf(r) # "NONE"
  /\ Refuse(r, ToClientReason(PresenceOf(r)))
  /\ UNCHANGED qrReason

RecordEvent(r) ==
  /\ pc[r] = "scanned"
  /\ PresenceOf(r) = "NONE"
  /\ Insert(r, req[r].type, "VERIFIED", 0, SuccessAction[req[r].type])
  /\ outcome' = [outcome EXCEPT ![r] =
       [success |-> TRUE, state |-> StateAfterEvent[req[r].type],
        reason |-> "NONE", autoClosed |-> pending[r] # <<>>, at |-> clock']]
  /\ pc' = [pc EXCEPT ![r] = "committing"]
  /\ UNCHANGED <<rows, lock, req, qrReason, todo, faults>>

-----------------------------------------------------------------------------
(* The end of a transaction *)

\* COMMIT takes effect: everything the transaction wrote appears at once.
Publish(p, next) ==
  LET u == req[p].user
  IN  /\ pc[p] = "committing"
      /\ events' = [events EXCEPT ![u] = View(p)]
      /\ audit' = [audit EXCEPT ![u] = @ \o logged[p]]
      /\ Close(p, next)
      /\ UNCHANGED <<clock, users, locations, req, qrReason, outcome, todo>>

\* session.commit() in _record and in the sweep, for refused attempts too, and
\* the answer that follows.
Commit(p) == Publish(p, After(p, "answered")) /\ UNCHANGED faults

\* The transaction is committed, but the acknowledgement of the COMMIT or the
\* HTTP answer is lost: whoever made the attempt learns nothing, and may make it
\* again.  A sweep tells nobody; one that misses an acknowledgement goes on as
\* after Commit.
CommitUnanswered(r) ==
  /\ faults < MaxFaults
  /\ faults' = faults + 1
  /\ Publish(r, "lost")

\* Mutants: the events are committed ahead of their audit rows, and a failure
\* falls between; the client is answered although the commit fails.
AbortAfterEvents(p) ==
  /\ faults < MaxFaults
  /\ faults' = faults + 1
  /\ pc[p] = "committing"
  /\ events' = [events EXCEPT ![req[p].user] = View(p)]
  /\ Close(p, After(p, "failed"))
  /\ outcome' = IF p \in Sweeper THEN outcome
                ELSE [outcome EXCEPT ![p] = NoOutcome]
  /\ UNCHANGED <<clock, users, locations, audit, req, qrReason, todo>>
AbortAnswered(p) ==
  /\ faults < MaxFaults
  /\ faults' = faults + 1
  /\ pc[p] = "committing"
  /\ Close(p, After(p, "answered"))
  /\ UNCHANGED <<clock, rows, req, qrReason, outcome, todo>>

\* lock_timeout, statement_timeout, an exception, or a connection that is lost
\* before COMMIT has taken effect: the transaction is rolled back; a sweep logs
\* it and goes on.
Abort(p) ==
  /\ faults < MaxFaults
  /\ faults' = faults + 1
  /\ pc[p] \in OpenPC
  /\ Close(p, After(p, "failed"))
  /\ outcome' = IF p \in Sweeper THEN outcome
                ELSE [outcome EXCEPT ![p] = NoOutcome]
  /\ UNCHANGED <<clock, rows, req, qrReason, todo>>

-----------------------------------------------------------------------------
(* The sweep *)

\* Mutant: the query filters by one age for all tenants.
ScanByDefaultAge(s) ==
  /\ pc[s] = "idle"
  /\ todo' = [todo EXCEPT ![s] =
       {u \in User : /\ CurrentState(events[u]) = "CHECKED_IN"
                     /\ clock - Newest(events[u]).at > DefaultMaxShift}]
  /\ pc' = [pc EXCEPT ![s] = "sweeping"]
  /\ UNCHANGED <<clock, rows, lock, req, qrReason, pending, logged, outcome,
                 faults>>

\* _open_sessions: every user whose latest event is a CHECK_IN, in a session
\* of its own that holds no lock.
Scan(s) ==
  /\ pc[s] = "idle"
  /\ todo' = [todo EXCEPT ![s] =
       {u \in User : CurrentState(events[u]) = "CHECKED_IN"}]
  /\ pc' = [pc EXCEPT ![s] = "sweeping"]
  /\ UNCHANGED <<clock, rows, lock, req, qrReason, pending, logged, outcome,
                 faults>>

\* The next candidate, in a transaction of its own.
NextCandidate(s) ==
  /\ pc[s] = "sweeping"
  /\ \E u \in todo[s] :
       /\ todo' = [todo EXCEPT ![s] = @ \ {u}]
       /\ req' = [req EXCEPT ![s] = [user |-> u, started |-> clock]]
  /\ pc' = [pc EXCEPT ![s] = "waiting"]
  /\ UNCHANGED <<clock, rows, lock, qrReason, pending, logged, outcome, faults>>

EndSweep(s) ==
  /\ pc[s] = "sweeping"
  /\ todo[s] = {}
  /\ pc' = [pc EXCEPT ![s] = "idle"]
  /\ UNCHANGED <<clock, rows, lock, req, qrReason, pending, logged, outcome,
                 todo, faults>>

\* The job is killed: nothing remembers how far it came.
Crash(s) ==
  /\ faults < MaxFaults
  /\ faults' = faults + 1
  /\ pc[s] # "idle"
  /\ Close(s, "idle")
  /\ todo' = [todo EXCEPT ![s] = {}]
  /\ UNCHANGED <<clock, rows, req, qrReason, outcome>>

-----------------------------------------------------------------------------
(* Administrators.  Each operation takes the row lock of the user it changes *)
(* and commits at its end, so between other transactions it is one step.     *)

\* set_user_status
SetUserStatus(u, status) ==
  /\ users[u] \notin {"DELETED", status}
  /\ lock[u] = Nobody
  /\ users' = [users EXCEPT ![u] = status]
  /\ UNCHANGED <<clock, locations, events, audit, lock, pc, req, qrReason,
                 pending, logged, outcome, todo, faults>>

\* Mutant: the target row is read without FOR UPDATE.
DeleteUserWithoutLock(u) ==
  /\ users[u] # "DELETED"
  /\ users' = [users EXCEPT ![u] = "DELETED"]
  /\ events' = [events EXCEPT ![u] = <<>>]
  /\ audit' = [audit EXCEPT ![u] = Append(@, "USER_DELETED")]
  /\ UNCHANGED <<clock, locations, lock, pc, req, qrReason, pending, logged,
                 outcome, todo, faults>>

\* delete_user: the events go with the row, the audit trail stays.
DeleteUser(u) ==
  /\ users[u] # "DELETED"
  /\ lock[u] = Nobody
  /\ users' = [users EXCEPT ![u] = "DELETED"]
  /\ events' = [events EXCEPT ![u] = <<>>]
  /\ audit' = [audit EXCEPT ![u] = Append(@, "USER_DELETED")]
  /\ UNCHANGED <<clock, locations, lock, pc, req, qrReason, pending, logged,
                 outcome, todo, faults>>

\* create_own_location; UNIQUE(tenant_id) refuses the second.
CreateLocation(t, site) ==
  /\ locations[t] = NoLocation
  /\ locations' = [locations EXCEPT ![t] =
       [at |-> site.at, radius |-> site.radius, maxShift |-> site.maxShift,
        qr |-> <<t, 0>>]]
  /\ UNCHANGED <<clock, users, events, audit, lock, pc, req, qrReason, pending,
                 logged, outcome, todo, faults>>

\* update_own_location: any of the settings, never the token.
UpdateLocation(t, site) ==
  /\ locations[t] # NoLocation
  /\ locations' = [locations EXCEPT ![t] =
       [at |-> site.at, radius |-> site.radius, maxShift |-> site.maxShift,
        qr |-> locations[t].qr]]
  /\ UNCHANGED <<clock, users, events, audit, lock, pc, req, qrReason, pending,
                 logged, outcome, todo, faults>>

\* regenerate_location_qr_token: a token that was never in use.
RegenerateQr(t) ==
  /\ locations[t] # NoLocation
  /\ locations[t].qr[2] < MaxQrVersion
  /\ locations' = [locations EXCEPT ![t].qr = <<t, locations[t].qr[2] + 1>>]
  /\ UNCHANGED <<clock, users, events, audit, lock, pc, req, qrReason, pending,
                 logged, outcome, todo, faults>>

Tick ==
  /\ clock < MaxTime
  /\ clock' = clock + 1
  /\ UNCHANGED <<rows, lock, pc, req, qrReason, pending, logged, outcome, todo,
                 faults>>

-----------------------------------------------------------------------------
(* The specification *)

\* The steps of an HTTP attempt once it has the lock.
Handle(r) ==
  \/ AutoClose(r) \/ NothingToClose(r)
  \/ RefuseWrongState(r) \/ ScanQr(r) \/ RefusePresence(r) \/ RecordEvent(r)
  \/ Commit(r)

\* The steps of a sweep, waiting for a lock apart.
Sweep(s) ==
  Scan(s) \/ NextCandidate(s) \/ AutoClose(s) \/ SkipUser(s) \/ Commit(s)
  \/ EndSweep(s)

Obtain(p) == LockUser(p) \/ UserMissing(p)

Administer ==
  \/ \E u \in User : \/ \E status \in {"ACTIVE", "INACTIVE"} : SetUserStatus(u, status)
                     \/ DeleteUser(u)
  \/ \E t \in Tenant : \/ \E site \in Sites : CreateLocation(t, site) \/ UpdateLocation(t, site)
                       \/ RegenerateQr(t)

Next ==
  \/ \E r \in Request : \/ Begin(r) \/ Obtain(r) \/ Handle(r)
                        \/ Abort(r) \/ CommitUnanswered(r)
  \/ \E s \in Sweeper : Sweep(s) \/ Obtain(s) \/ Abort(s) \/ Crash(s)
  \/ Administer
  \/ Tick

Spec == Init /\ [][Next]_vars

\* The lock manager queues the waiters of a row, so a waiter that keeps
\* waiting is served; a transaction that holds the lock runs, and the platform
\* runs the job again and again.  Nothing obliges a user or an administrator.
Fairness ==
  /\ \A r \in Request : SF_vars(Obtain(r)) /\ WF_vars(Handle(r))
  /\ \A s \in Sweeper : SF_vars(Obtain(s)) /\ WF_vars(Sweep(s))
  /\ WF_vars(Tick)

FairSpec == Spec /\ Fairness

-----------------------------------------------------------------------------
(* Properties *)

TypeOK ==
  /\ clock \in Nat
  /\ users \in [User -> UserRow]
  /\ locations \in [Tenant -> Location \cup {NoLocation}]
  /\ events \in [User -> Seq(Event)]
  /\ audit \in [User -> Seq(AuditAction)]
  /\ lock \in [User -> Process \cup {Nobody}]
  /\ pc \in [Process -> PC]
  /\ req \in [Process -> Attempt \cup Candidate \cup {NoWork}]
  /\ qrReason \in [Process -> QrReason]
  /\ pending \in [Process -> Seq(Event)]
  /\ logged \in [Process -> Seq(AuditAction)]
  /\ outcome \in [Process -> Outcome]
  /\ todo \in [Sweeper -> SUBSET User]
  /\ faults \in Nat

\* The first event of s is a CHECK_IN and no two neighbours have one type.
Alternates(s) ==
  /\ s # <<>> => s[1].type = "CHECK_IN"
  /\ \A i \in 1 .. Len(s) - 1 : s[i].type # s[i + 1].type

\* The timestamps of s grow strictly.
Ordered(s) == \A i, j \in DOMAIN s : i < j => s[i].at < s[j].at

\* The committed events of every user alternate, CHECK_IN first, whatever
\* attempts, sweeps and administrators do at the same time: the state machine
\* that _lock_user protects (service.py:127-130).
EventsAlternate == \A u \in User : Alternates(events[u])

\* Ordering a user's events by event_timestamp gives the order in which they
\* were committed (models/attendance_event.py:115-116), so the newest event is
\* the last one written.
StoredOrderIsCommitOrder == \A u \in User : Ordered(events[u])

\* An automatic closure ends a check-in that was open longer than the cutoff
\* recorded with it, and that cutoff is a setting the tenant could have had: a
\* shift is never cut short.
AutoCloseIsDue ==
  \A u \in User : \A i \in DOMAIN events[u] :
    events[u][i].status = "AUTO_CLOSED" =>
      /\ i > 1
      /\ events[u][i - 1].type = "CHECK_IN"
      /\ events[u][i].at - events[u][i - 1].at > events[u][i].cutoff
      /\ events[u][i].cutoff \in {DefaultMaxShift} \cup {site.maxShift : site \in Sites}

\* No event outlives its user: an attempt in flight cannot insert behind a
\* deletion (users/service.py:552-556), the foreign key is never violated.
NoOrphanEvents ==
  \A u \in User : users[u] = "DELETED" =>
    /\ events[u] = <<>>
    /\ \A p \in Process : pending[p] # <<>> => req[p].user # u

ActionOf(event) ==
  IF event.status = "AUTO_CLOSED" THEN "ATTENDANCE_AUTO_CLOSED"
  ELSE SuccessAction[event.type]

EventAction ==
  {"ATTENDANCE_CHECK_IN", "ATTENDANCE_CHECK_OUT", "ATTENDANCE_AUTO_CLOSED"}

\* The rows of a trail that are not about failed attempts.
EventRows(trail) == {i \in DOMAIN trail : trail[i] \in EventAction}

\* As many of them as events, and the n-th is about the n-th event.
Tells(trail, s) ==
  /\ Cardinality(EventRows(trail)) = Len(s)
  /\ \A i \in EventRows(trail) :
       trail[i] = ActionOf(s[Cardinality({j \in EventRows(trail) : j <= i})])

\* The audit trail of a user tells the same story as the events: without the
\* failed attempts it lists one action per event, in order.
AuditTellsTheEvents ==
  \A u \in User : users[u] # "DELETED" => Tells(audit[u], events[u])

\* Whoever made the attempt was told of a success; or would have been.
Succeeded(r) == pc[r] = "answered" /\ outcome[r].success
Recorded(r) == pc[r] \in {"answered", "lost"} /\ outcome[r].success

\* Attempts and verified events match: whoever was told of a success finds
\* that event stored for as long as the user exists, and a verified event of
\* which nobody was told is that of an attempt whose answer was lost after its
\* commit (api/v1/attendance.py:74-75); a refused attempt and one that is rolled
\* back leave none.
SuccessesAreTheEvents ==
  \A u \in User : users[u] # "DELETED" =>
    {<<req[r].type, outcome[r].at>> : r \in {q \in Request : Recorded(q) /\ req[q].user = u}}
    = {<<events[u][i].type, events[u][i].at>> :
         i \in {j \in DOMAIN events[u] : events[u][j].status = "VERIFIED"}}

\* A success is for a token of the user's own tenant, and the token existed.
OwnTokenOnly ==
  \A r \in Request : Succeeded(r) =>
    /\ req[r].token[1] = TenantOf[req[r].user]
    /\ req[r].token[2] <= locations[TenantOf[req[r].user]].qr[2]

\* An answer tells the attendance state as of the commit that precedes it,
\* refused attempts and vanished users included (results.py:70-74).
AnswersTellTheState ==
  [][\A r \in Request :
       pc[r] # "answered" /\ pc'[r] = "answered" =>
         outcome[r]'.state = CurrentState(events'[req[r].user])]_vars

\* Once a token has been replaced, an attempt that has not yet scanned it can
\* never succeed with it (tenant/service.py:116-117).
ReplacedTokenNeverWorks ==
  \A r \in Request :
    [](/\ pc[r] \in {"waiting", "locked", "checked"}
       /\ locations[TenantOf[req[r].user]] # NoLocation
       /\ req[r].token[1] = TenantOf[req[r].user]
       /\ req[r].token[2] < locations[TenantOf[req[r].user]].qr[2]
       => [](~Succeeded(r)))

\* Every attempt that starts is answered or rolled back, or its answer is lost.
EveryAttemptEnds ==
  \A r \in Request : pc[r] = "waiting" ~> pc[r] \in {"answered", "failed", "lost"}

\* A forgotten session is closed although its user never returns: it stops
\* being stale, by the sweep, by the user or by a longer shift.
StaleSessionsAreClosed ==
  \A u \in User : Stale(events[u], TenantOf[u]) ~> ~Stale(events[u], TenantOf[u])

-----------------------------------------------------------------------------
(* The inductive invariant behind the safety properties *)

\* An open transaction works on a user.
WorkInv ==
  /\ \A r \in Request : pc[r] \in OpenPC => req[r] \in Attempt
  /\ \A s \in Sweeper : pc[s] \in OpenPC => req[s] \in Candidate

\* A transaction past the lock statement holds the lock of its user, whose row
\* is still there.
LockInv ==
  \A p \in Process : pc[p] \in LockedPC =>
    /\ lock[req[p].user] = p
    /\ users[req[p].user] # "DELETED"

\* Only such a transaction has rows to commit, and none before it has looked
\* for a stale session.
PendingInv ==
  \A p \in Process : pc[p] \notin LockedPC \/ pc[p] = "locked" =>
    pending[p] = <<>> /\ logged[p] = <<>>

\* A deletion leaves no event.
DeletedInv == \A u \in User : users[u] = "DELETED" => events[u] = <<>>

\* A sequence of events as it should be: alternating, in the order of its
\* timestamps, none of them in the future.
Sound(s) ==
  /\ Alternates(s)
  /\ Ordered(s)
  /\ \A i \in DOMAIN s : s[i].at <= clock

\* That holds of the committed events and of what each transaction that has
\* the lock would make of them.
HistoryInv ==
  /\ \A u \in User : Sound(events[u])
  /\ \A p \in Process : pc[p] \in LockedPC => Sound(View(p))

\* Once the state has been checked it stays the required one.
EligibleInv ==
  \A r \in Request : pc[r] = "scanned" =>
    CurrentState(View(r)) = StateRequiredForEvent[req[r].type]

\* Transactions on one user never overlap, and what a transaction reads of its
\* user stays true until it ends: the claim of _lock_user (service.py:132-135),
\* strong enough to be inductive.
IInv ==
  /\ TypeOK
  /\ WorkInv
  /\ LockInv
  /\ PendingInv
  /\ DeletedInv
  /\ HistoryInv
  /\ EligibleInv

-----------------------------------------------------------------------------
(* Refinement: the committed rows implement the ledger. *)

EntryOf(event) ==
  IF event.status = "AUTO_CLOSED" THEN "AUTO_CLOSED" ELSE event.type

Ledger ==
  INSTANCE AttendanceLedger WITH
    ledger <- [u \in User |-> [i \in 1 .. Len(events[u]) |-> EntryOf(events[u][i])]],
    present <- {u \in User : users[u] # "DELETED"}

\* Every step of attendance is a step of the ledger or leaves it alone.
ImplementsLedger == Ledger!LedgerSpec
=============================================================================
