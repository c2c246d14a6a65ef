-------------------------- MODULE AttendanceProofs --------------------------
(***************************************************************************)
(* Proofs about Attendance for every set of users, tenants, attempts and   *)
(* sweeps, every shift length and every value of the bounds: the history   *)
(* of events first, then the answers; then that attendance implements the  *)
(* ledger, that no shift is cut short, and that answers and audit trail    *)
(* tell the events.                                                        *)
(***************************************************************************)
EXTENDS Attendance, SequenceTheorems, FiniteSetTheorems, TLAPS

-----------------------------------------------------------------------------
(* Sequences of events *)

LEMMA EventOfSeq ==
  ASSUME NEW s \in Seq(Event)
  PROVE  \A i \in DOMAIN s : /\ s[i] \in Event
                             /\ s[i].at \in Nat /\ s[i].created \in Nat
                             /\ s[i].type \in {"CHECK_IN", "CHECK_OUT"}
<1>1. \A i \in DOMAIN s : s[i] \in Event
  BY ElementOfSeq, LenProperties
<1> QED
  BY <1>1 DEF Event, EventType

\* In timestamp order the newest event, which get_latest_event selects, is the
\* last of the sequence.
LEMMA NewestIsLast ==
  ASSUME NEW s \in Seq(Event), s # <<>>, Ordered(s)
  PROVE  Newest(s) = s[Len(s)]
<1> DEFINE IsNewest(i) ==
             \A j \in DOMAIN s : \/ s[j].at < s[i].at
                                 \/ s[j].at = s[i].at /\ s[j].created <= s[i].created
<1>1. Len(s) \in DOMAIN s /\ DOMAIN s = 1 .. Len(s) /\ Len(s) \in Nat
  BY EmptySeq, LenProperties
<1>2. \A i \in DOMAIN s : s[i].at \in Nat /\ s[i].created \in Nat
  BY EventOfSeq
<1>3. IsNewest(Len(s))
  BY <1>1, <1>2 DEF Ordered
<1>4. \A i \in DOMAIN s : IsNewest(i) => i = Len(s)
  <2> SUFFICES ASSUME NEW i \in DOMAIN s, IsNewest(i), i # Len(s) PROVE FALSE
    OBVIOUS
  <2>1. i < Len(s)
    BY <1>1
  <2>2. s[i].at < s[Len(s)].at
    BY <1>1, <2>1 DEF Ordered
  <2>3. s[Len(s)].at <= s[i].at
    BY <1>1, <1>2
  <2> QED
    BY <1>1, <1>2, <2>2, <2>3
<1>5. (CHOOSE i \in DOMAIN s : IsNewest(i)) = Len(s)
  BY <1>1, <1>3, <1>4
<1> QED
  BY <1>5 DEF Newest

\* The state derived from a sequence is the one its last event leaves behind.
LEMMA StateIsOfLast ==
  ASSUME NEW s \in Seq(Event), Ordered(s)
  PROVE  /\ CurrentState(s) = "CHECKED_IN" =>
              s # <<>> /\ s[Len(s)].type = "CHECK_IN"
         /\ CurrentState(s) = "NOT_CHECKED_IN" =>
              s = <<>> \/ s[Len(s)].type = "CHECK_OUT"
         /\ CurrentState(s) \in AttendanceState
<1>1. CASE s = <<>>
  BY <1>1 DEF CurrentState, AttendanceState
<1>2. CASE s # <<>>
  <2>1. Newest(s) = s[Len(s)] /\ Len(s) \in 1 .. Len(s)
    BY <1>2, NewestIsLast, EmptySeq
  <2>2. s[Len(s)].type \in {"CHECK_IN", "CHECK_OUT"}
    BY <2>1, EventOfSeq, LenProperties
  <2> QED
    BY <1>2, <2>1, <2>2 DEF CurrentState, StateAfterEvent, AttendanceState
<1> QED
  BY <1>1, <1>2

\* Appending an event of the other type, stamped later than all, preserves
\* soundness (the clock is passed as now, to relate two moments).
SoundAt(s, now) ==
  /\ Alternates(s)
  /\ Ordered(s)
  /\ \A i \in DOMAIN s : s[i].at <= now

LEMMA AppendSound ==
  ASSUME NEW s \in Seq(Event), NEW e \in Event, NEW now \in Nat,
         SoundAt(s, now), e.at = now + 1,
         s = <<>> => e.type = "CHECK_IN",
         s # <<>> => s[Len(s)].type # e.type
  PROVE  SoundAt(Append(s, e), now + 1)
<1> DEFINE t == Append(s, e)
<1>1. /\ Len(s) \in Nat
      /\ DOMAIN s = 1 .. Len(s)
      /\ t \in Seq(Event)
      /\ Len(t) = Len(s) + 1
      /\ DOMAIN t = 1 .. Len(s) + 1
      /\ \A i \in 1 .. Len(s) : t[i] = s[i]
      /\ t[Len(s) + 1] = e
      /\ s = <<>> <=> Len(s) = 0
  BY EmptySeq, LenProperties
<1>2. \A i \in DOMAIN s : s[i].at \in Nat
  BY EventOfSeq
<1>6. Len(s) \in Nat /\ Len(t) = Len(s) + 1
  BY <1>1
<1> HIDE DEF t
<1>3. Alternates(t)
  <2>1. t[1].type = "CHECK_IN"
    BY <1>1 DEF SoundAt, Alternates
  <2>2. ASSUME NEW i \in 1 .. Len(t) - 1 PROVE t[i].type # t[i + 1].type
    <3>1. CASE i = Len(s)
      <4>1. s # <<>>
        BY <1>1, <3>1
      <4>2. t[i] = s[Len(s)] /\ t[i + 1] = e
        BY <1>1, <3>1
      <4> QED
        BY <4>1, <4>2
    <3>2. CASE i # Len(s)
      <4>1. i \in 1 .. Len(s) - 1 /\ i \in 1 .. Len(s) /\ i + 1 \in 1 .. Len(s)
        BY <1>6, <3>2
      <4>2. t[i] = s[i] /\ t[i + 1] = s[i + 1]
        BY <1>1, <4>1
      <4> QED
        BY <4>1, <4>2 DEF SoundAt, Alternates
    <3> QED
      BY <3>1, <3>2
  <2> QED
    BY <2>1, <2>2 DEF Alternates
<1>4. Ordered(t)
  BY <1>1, <1>2 DEF SoundAt, Ordered
<1>5. \A i \in DOMAIN t : t[i].at <= now + 1
  BY <1>1, <1>2 DEF SoundAt
<1> QED
  BY <1>3, <1>4, <1>5 DEF SoundAt, t

\* Appending to the second part appends to the whole.
LEMMA AppendConcat ==
  ASSUME NEW S, NEW s \in Seq(S), NEW t \in Seq(S), NEW e \in S
  PROVE  s \o Append(t, e) = Append(s \o t, e)
<1> DEFINE a == s \o Append(t, e)
           b == Append(s \o t, e)
<1>1. Append(t, e) \in Seq(S) /\ s \o t \in Seq(S)
  BY ConcatProperties
<1>2. a \in Seq(S) /\ b \in Seq(S)
  BY <1>1, ConcatProperties
<1>3. /\ Len(s) \in Nat /\ Len(t) \in Nat
      /\ Len(s \o t) = Len(s) + Len(t)
      /\ Len(Append(t, e)) = Len(t) + 1
      /\ Len(a) = Len(s) + Len(t) + 1
      /\ Len(b) = Len(s) + Len(t) + 1
  BY <1>1, ConcatProperties, LenProperties
<1>5. \A i \in 1 .. Len(s) + Len(Append(t, e)) :
        a[i] = IF i <= Len(s) THEN s[i] ELSE Append(t, e)[i - Len(s)]
  BY <1>1, ConcatProperties
<1> HIDE DEF a
<1>4. ASSUME NEW i \in 1 .. Len(a) PROVE a[i] = b[i]
  <2>1. a[i] = IF i <= Len(s) THEN s[i] ELSE Append(t, e)[i - Len(s)]
    BY <1>3, <1>5
  <2>2. CASE i = Len(s) + Len(t) + 1
    BY <1>1, <1>3, <2>1, <2>2
  <2>3. CASE i <= Len(s) + Len(t)
    <3>1. b[i] = (s \o t)[i]
      BY <1>1, <1>3, <2>3
    <3>2. (s \o t)[i] = IF i <= Len(s) THEN s[i] ELSE t[i - Len(s)]
      BY <1>3, <2>3, ConcatProperties
    <3> QED
      BY <1>3, <2>1, <2>3, <3>1, <3>2
  <2> QED
    BY <1>3, <2>2, <2>3
<1> QED
  BY <1>2, <1>3, <1>4, SeqEqual DEF a

\* A transaction sees what it inserts at the end of what it saw before.
LEMMA AppendView ==
  ASSUME NEW s \in Seq(Event), NEW t \in Seq(Event), NEW e \in Event
  PROVE  s \o Append(t, e) = Append(s \o t, e)
BY AppendConcat

-----------------------------------------------------------------------------
(* Presence *)

\* The verdicts of the presence rules are among the documented reasons.
LEMMA ReasonsTyped ==
  /\ \A t \in Tenant, token \in QrToken : ResolveQr(locations, t, token) \in QrReason
  /\ \A loc, reading : \A q \in QrReason :
       /\ PresenceReason(loc, reading, q) \in FailureReason
       /\ ToClientReason(PresenceReason(loc, reading, q)) \in AttendanceReason
<1>1. \A t \in Tenant, token \in QrToken : ResolveQr(locations, t, token) \in QrReason
  BY DEF ResolveQr, QrReason
<1>2. \A loc, reading : VerifyGps(reading, loc) \in GpsReason
  BY DEF VerifyGps, GpsReason
<1>3. \A loc, reading : \A q \in QrReason : PresenceReason(loc, reading, q) \in FailureReason
  BY <1>2 DEF PresenceReason, FailureReason
<1> QED
  BY <1>1, <1>3 DEF ToClientReason, AttendanceReason, FailureReason, QrReason

-----------------------------------------------------------------------------
(* The inductive invariant *)

LEMMA SoundIsSoundAt ==
  /\ \A s : Sound(s) <=> SoundAt(s, clock)
  /\ \A s : Sound(s)' <=> SoundAt(s, clock)'
BY DEF Sound, SoundAt

\* Time passing spoils nothing.
LEMMA SoundLater ==
  ASSUME NEW s \in Seq(Event), NEW m \in Nat, NEW n \in Nat, m <= n, SoundAt(s, m)
  PROVE  SoundAt(s, n)
<1>1. \A i \in DOMAIN s : s[i].at \in Nat
  BY EventOfSeq
<1> QED
  BY <1>1 DEF SoundAt

\* A transaction's view is a sequence of events.
LEMMA ViewTyped ==
  ASSUME TypeOK, NEW p \in Process, req[p].user \in User
  PROVE  View(p) \in Seq(Event)
<1>1. events[req[p].user] \in Seq(Event) /\ pending[p] \in Seq(Event)
  BY DEF TypeOK
<1> QED
  BY <1>1, ConcatProperties DEF View

\* An open transaction has a user.
LEMMA HasUser ==
  ASSUME WorkInv, NEW p \in Process, pc[p] \in OpenPC
  PROVE  req[p].user \in User /\ req[p].started \in Nat
BY DEF WorkInv, Process, Attempt, Candidate

LEMMA InitInv == Init => IInv
<1> SUFFICES ASSUME Init PROVE IInv
  OBVIOUS
<1>1. TypeOK
  BY BoundAssumption DEF Init, TypeOK, UserRow, PC, OpenPC, QrReason, Outcome,
     NoOutcome, AttendanceState, AttendanceReason, FailureReason, QrReason
<1>2. WorkInv /\ LockInv /\ PendingInv /\ DeletedInv /\ EligibleInv
  BY DEF Init, WorkInv, LockInv, PendingInv, DeletedInv, EligibleInv, OpenPC,
     LockedPC, Process
<1>3. HistoryInv
  <2>1. \A u \in User : Sound(events[u])
    BY DEF Init, Sound, Alternates, Ordered
  <2>2. \A p \in Process : pc[p] \notin LockedPC
    BY DEF Init, LockedPC, OpenPC
  <2> QED
    BY <2>1, <2>2 DEF HistoryInv
<1> QED
  BY <1>1, <1>2, <1>3 DEF IInv

\* HistoryInv survives a step that leaves every list of events as it is or
\* makes it sound at the new time.
LEMMA HistoryStep ==
  ASSUME TypeOK, WorkInv, HistoryInv, clock' \in Nat, clock <= clock',
         \A u \in User : events'[u] = events[u] \/ SoundAt(events'[u], clock'),
         \A q \in Process : pc'[q] \in LockedPC =>
           \/ pc[q] \in LockedPC /\ View(q)' = View(q)
           \/ SoundAt(View(q)', clock')
  PROVE  HistoryInv'
<1>1. clock \in Nat
  BY DEF TypeOK
<1>2. ASSUME NEW u \in User PROVE SoundAt(events'[u], clock')
  <2>1. CASE events'[u] = events[u]
    <3>1. events[u] \in Seq(Event) /\ SoundAt(events[u], clock)
      BY SoundIsSoundAt DEF TypeOK, HistoryInv
    <3> QED
      BY <1>1, <2>1, <3>1, SoundLater
  <2> QED
    BY <2>1
<1>3. ASSUME NEW q \in Process, pc'[q] \in LockedPC PROVE SoundAt(View(q)', clock')
  <2>1. CASE pc[q] \in LockedPC /\ View(q)' = View(q)
    <3>1. View(q) \in Seq(Event)
      BY <2>1, HasUser, ViewTyped DEF LockedPC
    <3>2. SoundAt(View(q), clock)
      BY <2>1, SoundIsSoundAt DEF HistoryInv
    <3> QED
      BY <1>1, <2>1, <3>1, <3>2, SoundLater
  <2> QED
    BY <1>3, <2>1
<1>4. \A u \in User : Sound(events[u])'
  BY <1>2 DEF Sound, SoundAt
<1>5. \A q \in Process : (pc[q] \in LockedPC)' => Sound(View(q))'
  BY <1>3 DEF Sound, SoundAt
<1> QED
  BY <1>4, <1>5 DEF HistoryInv

\* A view depends on the transaction's work, its own rows and its user's rows.
LEMMA ViewKept ==
  ASSUME NEW q \in Process, req'[q] = req[q], pending'[q] = pending[q],
         events'[req[q].user] = events[req[q].user]
  PROVE  View(q)' = View(q)
BY DEF View

LEMMA BeginInv ==
  ASSUME IInv, NEW r \in Request, Begin(r)
  PROVE  IInv'
<1> USE DEF IInv
<1>1. PICK u \in User, type \in EventType, token \in QrToken, reading \in Readings :
        req' = [req EXCEPT ![r] = [user |-> u, type |-> type, token |-> token,
                                   reading |-> reading, started |-> clock]]
  BY DEF Begin
<1>2. /\ req'[r] \in Attempt
      /\ \A q \in Process : q # r => req'[q] = req[q] /\ pc'[q] = pc[q]
      /\ pc'[r] = "waiting"
      /\ pc[r] = "idle"
      /\ r \in Process /\ r \notin Sweeper
  BY <1>1, ProcessAssumption DEF Begin, TypeOK, Attempt, Process
<1>3. TypeOK'
  <2>1. req' \in [Process -> Attempt \cup Candidate \cup {NoWork}]
    BY <1>1, <1>2 DEF TypeOK
  <2> QED
    BY <2>1 DEF Begin, TypeOK, PC, OpenPC, rows
<1>4. WorkInv'
  BY <1>2 DEF WorkInv, Process
<1>5. LockInv' /\ PendingInv' /\ DeletedInv'
  BY <1>2 DEF Begin, LockInv, PendingInv, DeletedInv, rows, LockedPC, OpenPC
<1>6. \A q \in Process : pc'[q] \in LockedPC =>
        pc[q] \in LockedPC /\ View(q)' = View(q)
  BY <1>2, ViewKept DEF Begin, rows, LockedPC
<1>7. HistoryInv'
  BY <1>6, HistoryStep DEF Begin, rows, TypeOK
<1>8. EligibleInv'
  BY <1>2, <1>6 DEF EligibleInv, Process, LockedPC, OpenPC
<1> QED
  BY <1>3, <1>4, <1>5, <1>7, <1>8 DEF IInv

LEMMA LockUserInv ==
  ASSUME IInv, NEW p \in Process, LockUser(p)
  PROVE  IInv'
<1> USE DEF IInv
<1>1. /\ req[p].user \in User
      /\ \A q \in Process : q # p => pc'[q] = pc[q]
      /\ pc'[p] = "locked" /\ pc[p] = "waiting"
      /\ lock'[req[p].user] = p
      /\ lock[req[p].user] = Nobody
      /\ \A u \in User : u # req[p].user => lock'[u] = lock[u]
      /\ req' = req /\ pending' = pending /\ events' = events
  BY HasUser DEF LockUser, TypeOK, OpenPC, rows
<1>2. TypeOK'
  BY <1>1 DEF LockUser, TypeOK, PC, OpenPC, rows
<1>3. WorkInv'
  BY <1>1 DEF WorkInv, Process, OpenPC
<1>4. LockInv'
  BY <1>1, ProcessAssumption, HasUser DEF LockUser, LockInv, LockedPC, rows
<1>5. PendingInv' /\ DeletedInv'
  BY <1>1 DEF LockUser, PendingInv, DeletedInv, rows, LockedPC, OpenPC
<1>6. pending[p] = <<>>
  BY <1>1 DEF PendingInv, LockedPC
<1>7. View(p)' = events[req[p].user]
  BY <1>1, <1>6, ConcatEmptySeq DEF View, TypeOK
<1>8. SoundAt(View(p)', clock')
  BY <1>1, <1>7, SoundIsSoundAt DEF LockUser, HistoryInv
<1>9. \A q \in Process : q # p => View(q)' = View(q)
  BY <1>1, ViewKept
<1>10. HistoryInv'
  BY <1>1, <1>8, <1>9, HistoryStep DEF LockUser, TypeOK
<1>11. EligibleInv'
  BY <1>1, <1>9 DEF EligibleInv, Process
<1> QED
  BY <1>2, <1>3, <1>4, <1>5, <1>10, <1>11 DEF IInv

\* The end of a transaction that publishes nothing: a rollback, or the commit
\* of a transaction that never had the lock.
LEMMA CloseInv ==
  ASSUME IInv, NEW p \in Process, NEW next \in PC \ OpenPC, Close(p, next),
         UNCHANGED <<clock, rows, req, qrReason>>,
         outcome' \in [Process -> Outcome], todo' \in [Sweeper -> SUBSET User],
         faults' \in Nat
  PROVE  IInv'
<1> USE DEF IInv
<1>1. /\ \A q \in Process : q # p => pc'[q] = pc[q] /\ pending'[q] = pending[q]
                                     /\ logged'[q] = logged[q]
      /\ pc'[p] = next /\ pending'[p] = <<>> /\ logged'[p] = <<>>
      /\ req' = req /\ events' = events /\ users' = users /\ clock' = clock
  BY DEF Close, TypeOK, rows
<1>2. TypeOK'
  <2>1. lock' \in [User -> Process \cup {Nobody}]
    BY DEF Close, TypeOK
  <2>2. /\ pending' \in [Process -> Seq(Event)]
        /\ logged' \in [Process -> Seq(AuditAction)]
        /\ pc' \in [Process -> PC]
    BY DEF Close, TypeOK
  <2> QED
    BY <2>1, <2>2 DEF TypeOK, rows
<1>3. WorkInv'
  BY <1>1 DEF WorkInv, Process
<1>4. LockInv'
  <2> SUFFICES ASSUME NEW q \in Process, pc'[q] \in LockedPC
               PROVE  lock'[req[q].user] = q /\ users[req[q].user] # "DELETED"
    BY <1>1 DEF LockInv
  <2>1. q # p /\ pc[q] \in LockedPC
    BY <1>1 DEF LockedPC
  <2>2. lock[req[q].user] = q /\ users[req[q].user] # "DELETED"
    BY <2>1 DEF LockInv
  <2>3. req[q].user \in User
    BY <2>1, HasUser DEF LockedPC
  <2> QED
    BY <2>1, <2>2, <2>3 DEF Close
<1>5. PendingInv' /\ DeletedInv'
  BY <1>1 DEF PendingInv, DeletedInv
<1>6. \A q \in Process : pc'[q] \in LockedPC =>
        pc[q] \in LockedPC /\ View(q)' = View(q)
  BY <1>1, ViewKept DEF LockedPC
<1>7. HistoryInv'
  BY <1>1, <1>6, HistoryStep DEF TypeOK
<1>8. EligibleInv'
  BY <1>1, <1>6 DEF EligibleInv, Process, LockedPC, OpenPC
<1> QED
  BY <1>2, <1>3, <1>4, <1>5, <1>7, <1>8 DEF IInv

LEMMA AfterTyped ==
  \A p \in Process : /\ After(p, "answered") \in PC \ OpenPC
                     /\ After(p, "failed") \in PC \ OpenPC
BY DEF After, PC, OpenPC

\* Any outcome without an event is an outcome.
LEMMA RefusalTyped ==
  \A reason \in AttendanceReason, b \in BOOLEAN, st \in AttendanceState :
    [success |-> FALSE, state |-> st, reason |-> reason, autoClosed |-> b,
     at |-> 0] \in Outcome
BY DEF Outcome

LEMMA NoOutcomeTyped ==
  NoOutcome \in Outcome
BY DEF NoOutcome, Outcome, AttendanceState, AttendanceReason, FailureReason, QrReason

LEMMA WrongStateTyped ==
  \A type \in EventType :
    /\ WrongStateReason[type] \in AttendanceReason
    /\ FailureAction[type] \in AuditAction
    /\ SuccessAction[type] \in AuditAction
    /\ StateAfterEvent[type] \in AttendanceState
BY DEF EventType, WrongStateReason, AttendanceReason, FailureAction, SuccessAction,
   AuditAction, StateAfterEvent, AttendanceState

LEMMA UserMissingInv ==
  ASSUME IInv, NEW p \in Process, UserMissing(p)
  PROVE  IInv'
<1>1. CASE p \in Sweeper
  <2>1. outcome' = outcome
    BY <1>1 DEF UserMissing
  <2> QED
    BY <2>1, AfterTyped, CloseInv DEF UserMissing, IInv, TypeOK
<1>2. CASE p \notin Sweeper
  <2>1. p \in Request /\ req[p].type \in EventType
    BY <1>2 DEF UserMissing, IInv, WorkInv, Process, OpenPC, Attempt
  <2>2. [NoOutcome EXCEPT !.reason = WrongStateReason[req[p].type]] \in Outcome
    BY <2>1, WrongStateTyped, NoOutcomeTyped DEF Outcome, NoOutcome
  <2>3. outcome' \in [Process -> Outcome]
    BY <1>2, <2>2 DEF UserMissing, IInv, TypeOK
  <2> QED
    BY <2>3, AfterTyped, CloseInv DEF UserMissing, IInv, TypeOK
<1> QED
  BY <1>1, <1>2

LEMMA SkipUserInv ==
  ASSUME IInv, NEW s \in Sweeper, SkipUser(s)
  PROVE  IInv'
<1>1. "sweeping" \in PC \ OpenPC
  BY DEF PC, OpenPC
<1> QED
  BY <1>1, CloseInv DEF SkipUser, Process, IInv, TypeOK

LEMMA AbortInv ==
  ASSUME IInv, NEW p \in Process, Abort(p)
  PROVE  IInv'
<1>1. outcome' \in [Process -> Outcome]
  BY NoOutcomeTyped DEF Abort, IInv, TypeOK
<1>2. faults' \in Nat
  BY DEF Abort, IInv, TypeOK
<1> QED
  BY <1>1, <1>2, AfterTyped, CloseInv DEF Abort, IInv, TypeOK

LEMMA CrashInv ==
  ASSUME IInv, NEW s \in Sweeper, Crash(s)
  PROVE  IInv'
<1>1. "idle" \in PC \ OpenPC
  BY DEF PC, OpenPC
<1>2. faults' \in Nat /\ todo' \in [Sweeper -> SUBSET User]
  BY DEF Crash, IInv, TypeOK
<1> QED
  BY <1>1, <1>2, CloseInv DEF Crash, Process, IInv, TypeOK

\* A statement of a transaction that has the lock and inserts no event.
LEMMA StatementInv ==
  ASSUME IInv, NEW r \in Request, pc[r] \in {"locked", "checked", "scanned"},
         NEW next \in {"checked", "scanned", "committing"},
         pc' = [pc EXCEPT ![r] = next],
         UNCHANGED <<clock, rows, lock, req, pending, todo, faults>>,
         qrReason' \in [Process -> QrReason],
         outcome' \in [Process -> Outcome],
         logged' \in [Process -> Seq(AuditAction)],
         \A q \in Process : q # r => logged'[q] = logged[q],
         next = "scanned" =>
           CurrentState(View(r)) = StateRequiredForEvent[req[r].type]
  PROVE  IInv'
<1> USE DEF IInv
<1>1. /\ r \in Process
      /\ \A q \in Process : q # r => pc'[q] = pc[q]
      /\ pc'[r] = next /\ pc[r] \in LockedPC /\ next \in LockedPC
      /\ req' = req /\ events' = events /\ users' = users /\ clock' = clock
      /\ pending' = pending /\ lock' = lock
  BY DEF Process, TypeOK, LockedPC, OpenPC, rows
<1>2. TypeOK'
  BY <1>1 DEF TypeOK, PC, OpenPC, rows
<1>3. WorkInv'
  BY <1>1 DEF WorkInv, Process, LockedPC
<1>4. LockInv'
  BY <1>1 DEF LockInv
<1>5. PendingInv' /\ DeletedInv'
  BY <1>1 DEF PendingInv, DeletedInv, LockedPC, OpenPC
<1>6. \A q \in Process : View(q)' = View(q)
  BY <1>1, ViewKept
<1>7. HistoryInv'
  BY <1>1, <1>6, HistoryStep DEF TypeOK
<1>8. EligibleInv'
  BY <1>1, <1>6 DEF EligibleInv, Process
<1> QED
  BY <1>2, <1>3, <1>4, <1>5, <1>7, <1>8 DEF IInv

LEMMA NothingToCloseInv ==
  ASSUME IInv, NEW r \in Request, NothingToClose(r)
  PROVE  IInv'
BY StatementInv DEF NothingToClose, IInv, TypeOK

LEMMA ScanQrInv ==
  ASSUME IInv, NEW r \in Request, ScanQr(r)
  PROVE  IInv'
<1>1. req[r] \in Attempt /\ r \in Process
  BY DEF ScanQr, IInv, WorkInv, OpenPC, Process
<1>2. ResolveQr(locations, TenantOf[req[r].user], req[r].token) \in QrReason
  BY <1>1, ReasonsTyped, TenantAssumption DEF Attempt
<1>3. qrReason' \in [Process -> QrReason]
  BY <1>1, <1>2 DEF ScanQr, IInv, TypeOK
<1> QED
  BY <1>3, StatementInv DEF ScanQr, IInv, TypeOK

LEMMA RefuseTyped ==
  ASSUME IInv, NEW r \in Request, pc[r] \in LockedPC, NEW reason \in AttendanceReason,
         Refuse(r, reason)
  PROVE  /\ outcome' \in [Process -> Outcome]
         /\ logged' \in [Process -> Seq(AuditAction)]
         /\ \A q \in Process : q # r => logged'[q] = logged[q]
<1>1. req[r] \in Attempt /\ r \in Process
  BY DEF IInv, WorkInv, LockedPC, Process
<1>2. View(r) \in Seq(Event) /\ Ordered(View(r))
  BY <1>1, ViewTyped DEF IInv, Attempt, HistoryInv, Sound
<1>3. CurrentState(View(r)) \in AttendanceState
  BY <1>2, StateIsOfLast
<1>4. outcome' \in [Process -> Outcome]
  BY <1>1, <1>3, RefusalTyped DEF Refuse, IInv, TypeOK
<1>5. FailureAction[req[r].type] \in AuditAction
  BY <1>1, WrongStateTyped DEF Attempt
<1>6. logged' \in [Process -> Seq(AuditAction)]
  BY <1>1, <1>5 DEF Refuse, IInv, TypeOK
<1>7. \A q \in Process : q # r => logged'[q] = logged[q]
  BY DEF Refuse, IInv, TypeOK
<1> QED
  BY <1>4, <1>6, <1>7

LEMMA RefuseWrongStateInv ==
  ASSUME IInv, NEW r \in Request, RefuseWrongState(r)
  PROVE  IInv'
<1>1. WrongStateReason[req[r].type] \in AttendanceReason
  BY WrongStateTyped DEF RefuseWrongState, IInv, WorkInv, OpenPC, Attempt
<1>2. pc[r] \in LockedPC
  BY DEF RefuseWrongState, LockedPC, OpenPC
<1>3. /\ outcome' \in [Process -> Outcome]
      /\ logged' \in [Process -> Seq(AuditAction)]
      /\ \A q \in Process : q # r => logged'[q] = logged[q]
  BY <1>1, <1>2, RefuseTyped DEF RefuseWrongState
<1> QED
  BY <1>3, StatementInv DEF RefuseWrongState, Refuse, IInv, TypeOK

LEMMA RefusePresenceInv ==
  ASSUME IInv, NEW r \in Request, RefusePresence(r)
  PROVE  IInv'
<1>1. r \in Process /\ qrReason[r] \in QrReason
  BY DEF Process, IInv, TypeOK
<1>2. ToClientReason(PresenceOf(r)) \in AttendanceReason
  BY <1>1, ReasonsTyped DEF PresenceOf
<1>3. pc[r] \in LockedPC
  BY DEF RefusePresence, LockedPC, OpenPC
<1>4. /\ outcome' \in [Process -> Outcome]
      /\ logged' \in [Process -> Seq(AuditAction)]
      /\ \A q \in Process : q # r => logged'[q] = logged[q]
  BY <1>2, <1>3, RefuseTyped DEF RefusePresence
<1> QED
  BY <1>4, StatementInv DEF RefusePresence, Refuse, IInv, TypeOK

\* An INSERT by a transaction that has the lock, of an event of the type that
\* the derived state calls for.
LEMMA InsertInv ==
  ASSUME IInv, NEW p \in Process, pc[p] \in LockedPC,
         NEW type \in EventType, NEW status \in {"VERIFIED", "AUTO_CLOSED"},
         NEW cutoff \in Nat, NEW action \in AuditAction,
         NEW next \in {"checked", "committing"},
         Insert(p, type, status, cutoff, action),
         pc' = [pc EXCEPT ![p] = next],
         UNCHANGED <<rows, lock, req, qrReason, todo, faults>>,
         outcome' \in [Process -> Outcome],
         CurrentState(View(p)) = StateRequiredForEvent[type]
  PROVE  IInv'
<1> USE DEF IInv
<1> DEFINE u == req[p].user
           e == [type |-> type, status |-> status, at |-> clock + 1,
                 created |-> req[p].started, cutoff |-> cutoff]
<1>1. /\ \A q \in Process : q # p => /\ pc'[q] = pc[q]
                                     /\ pending'[q] = pending[q]
                                     /\ logged'[q] = logged[q]
      /\ pc'[p] = next /\ next \in LockedPC /\ next # "scanned"
      /\ pending'[p] = Append(pending[p], e)
      /\ logged'[p] = Append(logged[p], action)
      /\ req' = req /\ events' = events /\ users' = users /\ lock' = lock
      /\ clock \in Nat /\ clock' = clock + 1
  BY DEF Insert, TypeOK, LockedPC, OpenPC, rows
<1>2. u \in User /\ req[p].started \in Nat
  BY HasUser DEF LockedPC
<1>3. e \in Event
  BY <1>1, <1>2 DEF Event
<1>4. View(p) \in Seq(Event) /\ SoundAt(View(p), clock)
  BY <1>2, ViewTyped, SoundIsSoundAt DEF HistoryInv
<1>5. TypeOK'
  <2>1. pending' \in [Process -> Seq(Event)]
    BY <1>3 DEF Insert, TypeOK
  <2>2. logged' \in [Process -> Seq(AuditAction)]
    BY DEF Insert, TypeOK
  <2>3. pc' \in [Process -> PC]
    BY DEF TypeOK, PC, OpenPC
  <2> QED
    BY <1>1, <2>1, <2>2, <2>3 DEF TypeOK, rows
<1>6. WorkInv'
  BY <1>1 DEF WorkInv, Process, LockedPC
<1>7. LockInv'
  BY <1>1 DEF LockInv
<1>8. PendingInv' /\ DeletedInv'
  BY <1>1 DEF PendingInv, DeletedInv, LockedPC, OpenPC
<1>9. View(p)' = Append(View(p), e)
  <2>1. events[u] \in Seq(Event) /\ pending[p] \in Seq(Event)
    BY <1>2 DEF TypeOK
  <2> HIDE DEF e
  <2>2. events[u] \o Append(pending[p], e) = Append(events[u] \o pending[p], e)
    BY <1>3, <2>1, AppendView
  <2>3. View(p)' = events[u] \o Append(pending[p], e)
    BY <1>1 DEF View
  <2> QED
    BY <2>2, <2>3 DEF View
<1>10. /\ View(p) = <<>> => type = "CHECK_IN"
       /\ View(p) # <<>> => View(p)[Len(View(p))].type # type
  <2>1. Ordered(View(p))
    BY <1>4 DEF SoundAt
  <2>2. \/ type = "CHECK_IN" /\ CurrentState(View(p)) = "NOT_CHECKED_IN"
        \/ type = "CHECK_OUT" /\ CurrentState(View(p)) = "CHECKED_IN"
    BY DEF EventType, StateRequiredForEvent
  <2>3. /\ CurrentState(View(p)) = "CHECKED_IN" =>
             View(p) # <<>> /\ View(p)[Len(View(p))].type = "CHECK_IN"
        /\ CurrentState(View(p)) = "NOT_CHECKED_IN" =>
             View(p) = <<>> \/ View(p)[Len(View(p))].type = "CHECK_OUT"
    BY <1>4, <2>1, StateIsOfLast
  <2>4. CASE type = "CHECK_IN"
    BY <2>2, <2>3, <2>4
  <2>5. CASE type = "CHECK_OUT"
    BY <2>2, <2>3, <2>5
  <2> QED
    BY <2>2, <2>4, <2>5
<1>11. SoundAt(View(p)', clock')
  <2>1. e.at = clock + 1 /\ e.type = type
    OBVIOUS
  <2> HIDE DEF e
  <2> QED
    BY <1>1, <1>3, <1>4, <1>9, <1>10, <2>1, AppendSound
<1>12. \A q \in Process : q # p => View(q)' = View(q)
  BY <1>1, ViewKept
<1>13. HistoryInv'
  BY <1>1, <1>11, <1>12, HistoryStep
<1>14. EligibleInv'
  BY <1>1, <1>12 DEF EligibleInv, Process
<1> QED
  BY <1>5, <1>6, <1>7, <1>8, <1>13, <1>14 DEF IInv

LEMMA MaxShiftTyped ==
  ASSUME TypeOK, NEW t \in Tenant
  PROVE  MaxShift(t) \in Nat
BY BoundAssumption DEF TypeOK, MaxShift, Location

LEMMA AutoCloseInv ==
  ASSUME IInv, NEW p \in Process, AutoClose(p)
  PROVE  IInv'
<1>1. pc[p] \in LockedPC /\ pc[p] \in OpenPC
  BY DEF AutoClose, LockedPC, OpenPC
<1>2. MaxShift(TenantOf[req[p].user]) \in Nat
  BY <1>1, HasUser, MaxShiftTyped, TenantAssumption DEF IInv
<1>3. CurrentState(View(p)) = StateRequiredForEvent["CHECK_OUT"]
  BY DEF AutoClose, Stale, StateRequiredForEvent
<1>4. "CHECK_OUT" \in EventType /\ "ATTENDANCE_AUTO_CLOSED" \in AuditAction
  BY DEF EventType, AuditAction
<1>5. outcome' \in [Process -> Outcome]
  BY DEF AutoClose, IInv, TypeOK
<1>6. PICK next \in {"checked", "committing"} : pc' = [pc EXCEPT ![p] = next]
  BY DEF AutoClose
<1> QED
  BY <1>1, <1>2, <1>3, <1>4, <1>5, <1>6, InsertInv DEF AutoClose

LEMMA RecordEventInv ==
  ASSUME IInv, NEW r \in Request, RecordEvent(r)
  PROVE  IInv'
<1>1. pc[r] \in LockedPC /\ r \in Process /\ pc[r] \in OpenPC
  BY DEF RecordEvent, LockedPC, OpenPC, Process
<1>2. req[r].type \in EventType
  BY <1>1 DEF IInv, WorkInv, Attempt
<1>3. CurrentState(View(r)) = StateRequiredForEvent[req[r].type]
  BY DEF RecordEvent, IInv, EligibleInv
<1>4. outcome' \in [Process -> Outcome]
  <2>1. clock' \in Nat
    BY DEF RecordEvent, Insert, IInv, TypeOK
  <2>2. StateAfterEvent[req[r].type] \in AttendanceState
    BY <1>2, WrongStateTyped
  <2>3. "NONE" \in AttendanceReason
    BY DEF AttendanceReason, FailureReason, QrReason
  <2>4. [success |-> TRUE, state |-> StateAfterEvent[req[r].type],
         reason |-> "NONE", autoClosed |-> pending[r] # <<>>, at |-> clock'] \in Outcome
    BY <2>1, <2>2, <2>3 DEF Outcome
  <2> QED
    BY <2>4 DEF RecordEvent, IInv, TypeOK
<1>5. SuccessAction[req[r].type] \in AuditAction
  BY <1>2, WrongStateTyped
<1> QED
  BY <1>1, <1>2, <1>3, <1>4, <1>5, InsertInv DEF RecordEvent

\* A commit, be it answered or not.
Commits(p) == Commit(p) \/ (p \in Request /\ CommitUnanswered(p))

LEMMA CommitsPublish ==
  ASSUME NEW p \in Process, Commits(p)
  PROVE  \E next \in PC \ OpenPC :
            /\ Publish(p, next)
            /\ p \in Request => next \in {"answered", "lost"}
            /\ p \in Sweeper => next = "sweeping"
<1>1. {"answered", "lost", "sweeping"} \subseteq PC \ OpenPC
  BY DEF PC, OpenPC
<1> QED
  BY <1>1, ProcessAssumption DEF Commits, Commit, CommitUnanswered, After, Process

LEMMA CommitInv ==
  ASSUME IInv, NEW p \in Process, Commits(p)
  PROVE  IInv'
<1> USE DEF IInv
<1> DEFINE u == req[p].user
<1>0. PICK next \in PC \ OpenPC : Publish(p, next)
  BY CommitsPublish
<1>1. pc[p] \in LockedPC /\ u \in User
  BY <1>0, HasUser DEF Publish, LockedPC, OpenPC
<1>2. /\ \A q \in Process : q # p => /\ pc'[q] = pc[q]
                                     /\ pending'[q] = pending[q]
                                     /\ logged'[q] = logged[q]
      /\ pc'[p] \notin OpenPC /\ pending'[p] = <<>> /\ logged'[p] = <<>>
      /\ req' = req /\ users' = users /\ clock' = clock
      /\ events'[u] = View(p)
      /\ \A v \in User : v # u => events'[v] = events[v]
  BY <1>0, <1>1 DEF Publish, Close, TypeOK
<1>3. View(p) \in Seq(Event) /\ SoundAt(View(p), clock)
  BY <1>1, ViewTyped, SoundIsSoundAt DEF HistoryInv
<1>4. TypeOK'
  <2>1. events' \in [User -> Seq(Event)]
    BY <1>0, <1>3 DEF Publish, TypeOK
  <2>2. audit' \in [User -> Seq(AuditAction)]
    <3>1. audit[u] \o logged[p] \in Seq(AuditAction)
      BY <1>1, ConcatProperties DEF TypeOK
    <3> QED
      BY <1>0, <3>1 DEF Publish, TypeOK
  <2>3. /\ lock' \in [User -> Process \cup {Nobody}]
        /\ pending' \in [Process -> Seq(Event)]
        /\ logged' \in [Process -> Seq(AuditAction)]
        /\ pc' \in [Process -> PC]
    BY <1>0 DEF Publish, Close, TypeOK
  <2>4. faults' \in Nat
    BY DEF Commits, Commit, CommitUnanswered, TypeOK
  <2> QED
    BY <1>0, <2>1, <2>2, <2>3, <2>4 DEF Publish, TypeOK
<1>5. WorkInv'
  BY <1>2 DEF WorkInv, Process
<1>6. \A q \in Process : pc'[q] \in LockedPC =>
        /\ q # p /\ pc[q] \in LockedPC /\ req[q].user \in User
        /\ lock[req[q].user] = q /\ req[q].user # u
  <2> SUFFICES ASSUME NEW q \in Process, pc'[q] \in LockedPC
               PROVE  /\ q # p /\ pc[q] \in LockedPC /\ req[q].user \in User
                      /\ lock[req[q].user] = q /\ req[q].user # u
    OBVIOUS
  <2>1. q # p /\ pc[q] \in LockedPC
    BY <1>2 DEF LockedPC
  <2> QED
    BY <1>1, <2>1, HasUser DEF LockInv, LockedPC
<1>7. LockInv'
  BY <1>0, <1>2, <1>6 DEF Publish, Close, LockInv
<1>8. PendingInv'
  BY <1>2 DEF PendingInv
<1>9. DeletedInv'
  BY <1>1, <1>2 DEF DeletedInv, LockInv
<1>10. \A q \in Process : pc'[q] \in LockedPC =>
         pc[q] \in LockedPC /\ View(q)' = View(q)
  BY <1>2, <1>6, ViewKept
<1>11. HistoryInv'
  <2>1. \A v \in User : events'[v] = events[v] \/ SoundAt(events'[v], clock')
    BY <1>2, <1>3
  <2> QED
    BY <1>2, <1>10, <2>1, HistoryStep DEF TypeOK
<1>12. EligibleInv'
  BY <1>2, <1>10 DEF EligibleInv, Process, LockedPC, OpenPC
<1> QED
  BY <1>4, <1>5, <1>7, <1>8, <1>9, <1>11, <1>12 DEF IInv

-----------------------------------------------------------------------------
(* The steps of sweeps, administrators and time *)

\* A step that touches no open transaction and no event.
LEMMA SideStepInv ==
  ASSUME IInv, TypeOK', clock <= clock',
         UNCHANGED <<users, events, lock, pending, logged>>,
         \A q \in Process : pc'[q] \in OpenPC => pc'[q] = pc[q] /\ req'[q] = req[q],
         \A q \in Process : pc'[q] \notin LockedPC => pc[q] \notin LockedPC
  PROVE  IInv'
<1> USE DEF IInv
<1>1. WorkInv' /\ LockInv' /\ PendingInv' /\ DeletedInv'
  BY DEF WorkInv, LockInv, PendingInv, DeletedInv, LockedPC, OpenPC, Process
<1>2. \A q \in Process : pc'[q] \in LockedPC =>
        pc[q] \in LockedPC /\ View(q)' = View(q)
  BY ViewKept DEF LockedPC
<1>3. HistoryInv'
  BY <1>2, HistoryStep DEF TypeOK
<1>4. EligibleInv'
  BY <1>2 DEF EligibleInv, Process, LockedPC, OpenPC
<1> QED
  BY <1>1, <1>3, <1>4 DEF IInv

LEMMA ScanInv ==
  ASSUME IInv, NEW s \in Sweeper, Scan(s)
  PROVE  IInv'
<1>1. TypeOK'
  BY DEF Scan, IInv, TypeOK, PC, rows
<1>2. /\ clock <= clock'
      /\ \A q \in Process : pc'[q] \in OpenPC => pc'[q] = pc[q] /\ req'[q] = req[q]
      /\ \A q \in Process : pc'[q] \notin LockedPC => pc[q] \notin LockedPC
  BY DEF Scan, IInv, TypeOK, LockedPC, OpenPC, Process
<1> QED
  BY <1>1, <1>2, SideStepInv DEF Scan, rows

LEMMA EndSweepInv ==
  ASSUME IInv, NEW s \in Sweeper, EndSweep(s)
  PROVE  IInv'
<1>1. TypeOK'
  BY DEF EndSweep, IInv, TypeOK, PC, rows
<1>2. /\ clock <= clock'
      /\ \A q \in Process : pc'[q] \in OpenPC => pc'[q] = pc[q] /\ req'[q] = req[q]
      /\ \A q \in Process : pc'[q] \notin LockedPC => pc[q] \notin LockedPC
  BY DEF EndSweep, IInv, TypeOK, LockedPC, OpenPC, Process
<1> QED
  BY <1>1, <1>2, SideStepInv DEF EndSweep, rows

LEMMA TickInv ==
  ASSUME IInv, Tick
  PROVE  IInv'
<1>1. TypeOK' /\ clock <= clock'
  BY DEF Tick, IInv, TypeOK, rows
<1> QED
  BY <1>1, SideStepInv DEF Tick, rows

LEMMA CreateLocationInv ==
  ASSUME IInv, NEW t \in Tenant, NEW site \in Sites,
         CreateLocation(t, site) \/ UpdateLocation(t, site)
  PROVE  IInv'
<1>1. \A qr \in QrToken :
        [at |-> site.at, radius |-> site.radius, maxShift |-> site.maxShift,
         qr |-> qr] \in Location
  BY SitesAssumption DEF Site, Location
<1>2. <<t, 0>> \in QrToken
  BY QrVersionAssumption DEF QrToken
<1>3. locations[t] # NoLocation => locations[t].qr \in QrToken
  BY DEF IInv, TypeOK, Location
<1>4. locations' \in [Tenant -> Location \cup {NoLocation}]
  BY <1>1, <1>2, <1>3 DEF CreateLocation, UpdateLocation, IInv, TypeOK
<1>5. TypeOK' /\ clock <= clock'
  BY <1>4 DEF CreateLocation, UpdateLocation, IInv, TypeOK
<1> QED
  BY <1>5, SideStepInv DEF CreateLocation, UpdateLocation

LEMMA RegenerateQrInv ==
  ASSUME IInv, NEW t \in Tenant, RegenerateQr(t)
  PROVE  IInv'
<1>1. locations[t] \in Location
  BY DEF RegenerateQr, IInv, TypeOK
<1>2. locations[t].qr[2] \in 0 .. MaxQrVersion
  BY <1>1 DEF Location, QrToken
<1>3. <<t, locations[t].qr[2] + 1>> \in QrToken
  BY <1>2, QrVersionAssumption DEF RegenerateQr, QrToken
<1>4. [locations[t] EXCEPT !.qr = <<t, locations[t].qr[2] + 1>>] \in Location
  BY <1>1, <1>3 DEF Location
<1>5. locations' \in [Tenant -> Location \cup {NoLocation}]
  BY <1>4 DEF RegenerateQr, IInv, TypeOK
<1>6. TypeOK' /\ clock <= clock'
  BY <1>5 DEF RegenerateQr, IInv, TypeOK
<1> QED
  BY <1>6, SideStepInv DEF RegenerateQr

LEMMA NextCandidateInv ==
  ASSUME IInv, NEW s \in Sweeper, NextCandidate(s)
  PROVE  IInv'
<1> USE DEF IInv
<1>1. PICK u \in todo[s] : req' = [req EXCEPT ![s] = [user |-> u, started |-> clock]]
  BY DEF NextCandidate
<1>2. /\ req'[s] \in Candidate
      /\ \A q \in Process : q # s => req'[q] = req[q] /\ pc'[q] = pc[q]
      /\ pc'[s] = "waiting" /\ pc[s] = "sweeping"
      /\ s \in Process /\ s \notin Request
  BY <1>1, ProcessAssumption DEF NextCandidate, TypeOK, Candidate, Process
<1>3. TypeOK'
  <2>1. req' \in [Process -> Attempt \cup Candidate \cup {NoWork}]
    BY <1>1, <1>2 DEF TypeOK
  <2>2. todo' \in [Sweeper -> SUBSET User]
    BY DEF NextCandidate, TypeOK
  <2> QED
    BY <2>1, <2>2 DEF NextCandidate, TypeOK, PC, OpenPC, rows
<1>4. WorkInv'
  BY <1>2 DEF WorkInv, Process
<1>5. LockInv' /\ PendingInv' /\ DeletedInv'
  BY <1>2 DEF NextCandidate, LockInv, PendingInv, DeletedInv, rows, LockedPC, OpenPC
<1>6. \A q \in Process : pc'[q] \in LockedPC =>
        pc[q] \in LockedPC /\ View(q)' = View(q)
  BY <1>2, ViewKept DEF NextCandidate, rows, LockedPC
<1>7. HistoryInv'
  BY <1>6, HistoryStep DEF NextCandidate, rows, TypeOK
<1>8. EligibleInv'
  BY <1>2, <1>6 DEF EligibleInv, Process, LockedPC, OpenPC
<1> QED
  BY <1>3, <1>4, <1>5, <1>7, <1>8 DEF IInv

LEMMA SetUserStatusInv ==
  ASSUME IInv, NEW u \in User, NEW status \in {"ACTIVE", "INACTIVE"},
         SetUserStatus(u, status)
  PROVE  IInv'
<1> USE DEF IInv
<1>1. TypeOK'
  BY DEF SetUserStatus, TypeOK, UserRow
<1>2. WorkInv' /\ PendingInv'
  BY DEF SetUserStatus, WorkInv, PendingInv
<1>3. LockInv' /\ DeletedInv'
  BY DEF SetUserStatus, LockInv, DeletedInv, TypeOK
<1>4. \A q \in Process : View(q)' = View(q)
  BY ViewKept DEF SetUserStatus
<1>5. HistoryInv'
  BY <1>4, HistoryStep DEF SetUserStatus, TypeOK
<1>6. EligibleInv'
  BY <1>4 DEF SetUserStatus, EligibleInv, Process
<1> QED
  BY <1>1, <1>2, <1>3, <1>5, <1>6 DEF IInv

LEMMA DeleteUserInv ==
  ASSUME IInv, NEW u \in User, DeleteUser(u)
  PROVE  IInv'
<1> USE DEF IInv
<1>1. TypeOK'
  <2>1. audit' \in [User -> Seq(AuditAction)]
    <3>1. Append(audit[u], "USER_DELETED") \in Seq(AuditAction)
      BY DEF TypeOK, AuditAction
    <3> QED
      BY <3>1 DEF DeleteUser, TypeOK
  <2>2. events' \in [User -> Seq(Event)]
    BY DEF DeleteUser, TypeOK
  <2> QED
    BY <2>1, <2>2 DEF DeleteUser, TypeOK, UserRow
<1>2. WorkInv' /\ PendingInv'
  BY DEF DeleteUser, WorkInv, PendingInv
<1>3. \A q \in Process : pc[q] \in LockedPC => req[q].user \in User /\ req[q].user # u
  <2> SUFFICES ASSUME NEW q \in Process, pc[q] \in LockedPC
               PROVE  req[q].user \in User /\ req[q].user # u
    OBVIOUS
  <2> QED
    BY ProcessAssumption, HasUser DEF DeleteUser, LockInv, LockedPC
<1>4. LockInv' /\ DeletedInv'
  BY <1>3 DEF DeleteUser, LockInv, DeletedInv, TypeOK
<1>5. \A q \in Process : pc[q] \in LockedPC => View(q)' = View(q)
  BY <1>3, ViewKept DEF DeleteUser, TypeOK
<1>6. HistoryInv'
  <2>1. SoundAt(<<>>, clock')
    BY DEF SoundAt, Alternates, Ordered
  <2>2. \A v \in User : events'[v] = events[v] \/ SoundAt(events'[v], clock')
    BY <2>1 DEF DeleteUser, TypeOK
  <2> QED
    BY <1>5, <2>2, HistoryStep DEF DeleteUser, TypeOK
<1>7. EligibleInv'
  BY <1>5 DEF DeleteUser, EligibleInv, Process, LockedPC, OpenPC
<1> QED
  BY <1>1, <1>2, <1>4, <1>6, <1>7 DEF IInv

-----------------------------------------------------------------------------
(* The invariant, and what follows from it *)

LEMMA NextInv == IInv /\ [Next]_vars => IInv'
<1> SUFFICES ASSUME IInv, [Next]_vars PROVE IInv'
  OBVIOUS
<1>1. ASSUME NEW r \in Request, Begin(r) \/ Obtain(r) \/ Handle(r) \/ Abort(r) \/ CommitUnanswered(r)
      PROVE  IInv'
  <2>1. r \in Process
    BY DEF Process
  <2>2. CASE Begin(r)
    BY <2>2, BeginInv
  <2>3. CASE Obtain(r)
    BY <2>1, <2>3, LockUserInv, UserMissingInv DEF Obtain
  <2>4. CASE Handle(r)
    BY <2>1, <2>4, AutoCloseInv, NothingToCloseInv, RefuseWrongStateInv, ScanQrInv,
       RefusePresenceInv, RecordEventInv, CommitInv DEF Handle, Commits
  <2>5. CASE Abort(r)
    BY <2>1, <2>5, AbortInv
  <2>6. CASE CommitUnanswered(r)
    BY <2>1, <2>6, CommitInv DEF Commits
  <2> QED
    BY <1>1, <2>2, <2>3, <2>4, <2>5, <2>6
<1>2. ASSUME NEW s \in Sweeper, Sweep(s) \/ Obtain(s) \/ Abort(s) \/ Crash(s)
      PROVE  IInv'
  <2>1. s \in Process
    BY DEF Process
  <2>2. CASE Sweep(s)
    BY <2>1, <2>2, ScanInv, NextCandidateInv, AutoCloseInv, SkipUserInv, CommitInv,
       EndSweepInv DEF Sweep, Commits
  <2>3. CASE Obtain(s)
    BY <2>1, <2>3, LockUserInv, UserMissingInv DEF Obtain
  <2>4. CASE Abort(s)
    BY <2>1, <2>4, AbortInv
  <2>5. CASE Crash(s)
    BY <2>5, CrashInv
  <2> QED
    BY <1>2, <2>2, <2>3, <2>4, <2>5
<1>3. CASE Administer
  <2>1. ASSUME NEW u \in User,
               (\E status \in {"ACTIVE", "INACTIVE"} : SetUserStatus(u, status))
               \/ DeleteUser(u)
        PROVE  IInv'
    BY <2>1, SetUserStatusInv, DeleteUserInv
  <2>2. ASSUME NEW t \in Tenant,
               (\E site \in Sites : CreateLocation(t, site) \/ UpdateLocation(t, site))
               \/ RegenerateQr(t)
        PROVE  IInv'
    BY <2>2, CreateLocationInv, RegenerateQrInv
  <2> QED
    BY <1>3, <2>1, <2>2 DEF Administer
<1>4. CASE Tick
  BY <1>4, TickInv
<1>5. CASE UNCHANGED vars
  <2>1. TypeOK' /\ clock <= clock'
    BY <1>5 DEF vars, rows, IInv, TypeOK
  <2> QED
    BY <1>5, <2>1, SideStepInv DEF vars, rows
<1> QED
  BY <1>1, <1>2, <1>3, <1>4, <1>5 DEF Next

\* The inductive invariant holds in every behaviour of Attendance: at most one
\* transaction works on a user, and what it has read stays true until it ends.
THEOREM InductiveInvariant == Spec => []IInv
BY InitInv, NextInv, PTL DEF Spec

\* Every variable keeps its type.
THEOREM TypeCorrect == Spec => []TypeOK
<1>1. IInv => TypeOK
  BY DEF IInv
<1> QED
  BY <1>1, InductiveInvariant, PTL

\* However many attempts and sweeps run at once, the committed events of every
\* user alternate between CHECK_IN and CHECK_OUT.
THEOREM Alternation == Spec => []EventsAlternate
<1>1. IInv => EventsAlternate
  BY DEF IInv, HistoryInv, Sound, EventsAlternate
<1> QED
  BY <1>1, InductiveInvariant, PTL

\* Ordering the events of a user by their timestamps is ordering them by their
\* commits, so get_latest_event finds the last one written.
THEOREM StoredOrder == Spec => []StoredOrderIsCommitOrder
<1>1. IInv => StoredOrderIsCommitOrder
  BY DEF IInv, HistoryInv, Sound, StoredOrderIsCommitOrder
<1> QED
  BY <1>1, InductiveInvariant, PTL

\* A deleted user has no event, and no transaction is about to commit one.
THEOREM NoOrphans == Spec => []NoOrphanEvents
<1>1. IInv => NoOrphanEvents
  BY DEF IInv, DeletedInv, LockInv, PendingInv, NoOrphanEvents
<1> QED
  BY <1>1, InductiveInvariant, PTL

-----------------------------------------------------------------------------
(* Answers *)

\* A request about to commit has the answer of the state that it will leave.
AnswerInv ==
  \A r \in Request : pc[r] = "committing" => outcome[r].state = CurrentState(View(r))

AInv == IInv /\ AnswerInv

\* What others do to a request about to commit: nothing.
Waits(r) ==
  pc[r] = "committing" /\ View(r)' = View(r) /\ outcome'[r] = outcome[r]

LEMMA AnswerKept ==
  ASSUME AnswerInv,
         \A r \in Request : pc'[r] = "committing" =>
           Waits(r) \/ outcome'[r].state = CurrentState(View(r)')
  PROVE  AnswerInv'
<1>1. ASSUME NEW r \in Request, pc'[r] = "committing"
      PROVE  outcome'[r].state = CurrentState(View(r)')
  BY <1>1 DEF AnswerInv, Waits
<1>2. \A r \in Request : (pc[r] = "committing")' => (outcome[r].state = CurrentState(View(r)))'
  BY <1>1 DEF CurrentState, Newest
<1> QED
  BY <1>2 DEF AnswerInv

\* A step of p that changes no committed event.
LEMMA OthersWait ==
  ASSUME AInv, NEW p \in Process, events' = events,
         \A q \in Process : q # p =>
           /\ pc'[q] = pc[q] /\ req'[q] = req[q]
           /\ pending'[q] = pending[q] /\ outcome'[q] = outcome[q],
         p \in Request /\ pc'[p] = "committing" =>
           outcome'[p].state = CurrentState(View(p)')
  PROVE  AnswerInv'
<1>1. \A r \in Request : r # p /\ pc'[r] = "committing" => Waits(r)
  BY DEF Waits, View, Process
<1> QED
  BY <1>1, AnswerKept DEF AInv

LEMMA RefusalAnswers ==
  ASSUME AInv, NEW r \in Request, RefuseWrongState(r) \/ RefusePresence(r)
  PROVE  AnswerInv'
<1>1. PICK reason : Refuse(r, reason)
  BY DEF RefuseWrongState, RefusePresence
<1>2. r \in Process /\ TypeOK
  BY DEF Process, AInv, IInv
<1>3. /\ events' = events /\ req' = req /\ pending' = pending
      /\ \A q \in Process : q # r => pc'[q] = pc[q] /\ outcome'[q] = outcome[q]
      /\ outcome'[r].state = CurrentState(View(r))
  BY <1>1, <1>2 DEF Refuse, TypeOK, rows
<1>4. View(r)' = View(r)
  BY <1>3 DEF View
<1> QED
  BY <1>2, <1>3, <1>4, OthersWait

LEMMA SuccessAnswers ==
  ASSUME AInv, IInv', NEW r \in Request, RecordEvent(r)
  PROVE  AnswerInv'
<1>1. /\ r \in Process /\ TypeOK /\ pc[r] \in OpenPC
      /\ pc'[r] = "committing" /\ "committing" \in LockedPC
  BY DEF RecordEvent, Process, AInv, IInv, TypeOK, OpenPC, LockedPC
<1>2. /\ events' = events /\ req' = req
      /\ \A q \in Process : q # r =>
           pc'[q] = pc[q] /\ outcome'[q] = outcome[q] /\ pending'[q] = pending[q]
      /\ outcome'[r].state = StateAfterEvent[req[r].type]
  BY <1>1 DEF RecordEvent, Insert, TypeOK, rows
<1>3. PICK e : e.type = req[r].type /\ pending'[r] = Append(pending[r], e)
  BY <1>1 DEF RecordEvent, Insert, TypeOK
<1>4. req[r].user \in User /\ req'[r].user \in User
  BY <1>1, <1>2, HasUser DEF AInv, IInv
<1>5. PICK s \in Seq(Event), t \in Seq(Event), w \in Seq(Event) :
        /\ s = events[req[r].user] /\ t = pending[r] /\ w = pending'[r]
  BY <1>1, <1>4 DEF TypeOK, IInv
<1>6. View(r)' = s \o w
  BY <1>2, <1>5 DEF View
<1>7. Ordered(s \o w)
  <2>1. Sound(View(r))'
    BY <1>1 DEF IInv, HistoryInv
  <2>2. Ordered(View(r)')
    BY <2>1 DEF Sound, Ordered
  <2> QED
    BY <1>6, <2>2
<1>8. /\ s \o w \in Seq(Event) /\ s \o w # <<>>
      /\ (s \o w)[Len(s \o w)] = e
  <2>1. w = Append(t, e) /\ Len(w) = Len(t) + 1 /\ w[Len(w)] = e
    BY <1>3, <1>5, LenProperties
  <2>2. Len(s) \in Nat /\ Len(t) \in Nat /\ Len(w) \in Nat /\ Len(w) # 0
    BY <2>1, LenProperties
  <2>3. /\ s \o w \in Seq(Event) /\ Len(s \o w) = Len(s) + Len(w)
        /\ (s \o w)[Len(s) + Len(w)] =
             IF Len(s) + Len(w) <= Len(s) THEN s[Len(s) + Len(w)]
             ELSE w[Len(s) + Len(w) - Len(s)]
    BY <2>2, ConcatProperties
  <2>4. ~ Len(s) + Len(w) <= Len(s) /\ Len(s) + Len(w) - Len(s) = Len(w)
    BY <2>2
  <2>5. s \o w # <<>>
    BY <2>2, <2>3, EmptySeq
  <2> QED
    BY <2>1, <2>3, <2>4, <2>5
<1>9. CurrentState(s \o w) = StateAfterEvent[e.type]
  BY <1>7, <1>8, NewestIsLast DEF CurrentState
<1>10. outcome'[r].state = CurrentState(View(r)')
  BY <1>2, <1>3, <1>6, <1>9
<1> QED
  BY <1>1, <1>2, <1>10, OthersWait

LEMMA CommitAnswers ==
  ASSUME AInv, NEW p \in Process, Commits(p)
  PROVE  AnswerInv'
<1>0. PICK next \in PC \ OpenPC : Publish(p, next)
  BY CommitsPublish
<1>1. /\ req[p].user \in User /\ lock[req[p].user] = p
      /\ req' = req /\ outcome' = outcome /\ pc'[p] # "committing"
      /\ \A q \in Process : q # p => pc'[q] = pc[q] /\ pending'[q] = pending[q]
      /\ \A u \in User : u # req[p].user => events'[u] = events[u]
  BY <1>0, HasUser DEF Publish, Close, AInv, IInv, TypeOK, LockInv, LockedPC, OpenPC
<1>2. ASSUME NEW r \in Request, pc'[r] = "committing" PROVE Waits(r)
  <2>1. r \in Process /\ r # p /\ pc[r] = "committing"
    BY <1>1, <1>2 DEF Process
  <2>2. req[r].user \in User /\ lock[req[r].user] = r
    BY <2>1, HasUser DEF AInv, IInv, LockInv, LockedPC, OpenPC
  <2>3. events'[req[r].user] = events[req[r].user]
    BY <1>1, <2>1, <2>2
  <2> QED
    BY <1>1, <2>1, <2>3 DEF Waits, View
<1> QED
  BY <1>2, AnswerKept DEF AInv

LEMMA DeletionAnswers ==
  ASSUME AInv, NEW u \in User, DeleteUser(u)
  PROVE  AnswerInv'
<1>1. ASSUME NEW r \in Request, pc'[r] = "committing" PROVE Waits(r)
  <2>1. r \in Process /\ pc[r] = "committing"
    BY <1>1 DEF DeleteUser, Process
  <2>2. req[r].user \in User /\ req[r].user # u
    BY <2>1, ProcessAssumption, HasUser
    DEF DeleteUser, AInv, IInv, LockInv, LockedPC, OpenPC
  <2> QED
    BY <2>1, <2>2 DEF DeleteUser, Waits, View, AInv, IInv, TypeOK
<1> QED
  BY <1>1, AnswerKept DEF AInv

\* Steps that no request about to commit notices.
LEMMA QuietAnswers ==
  ASSUME AInv, events' = events, pending' = pending, outcome' = outcome,
         \A q \in Process : pc'[q] = "committing" =>
           pc[q] = "committing" /\ req'[q] = req[q]
  PROVE  AnswerInv'
<1>1. \A r \in Request : pc'[r] = "committing" => Waits(r)
  BY DEF Waits, View, Process
<1> QED
  BY <1>1, AnswerKept DEF AInv

LEMMA PlainAnswers ==
  ASSUME AInv, NEW p \in Process,
         \/ LockUser(p)
         \/ p \in Request /\ (Begin(p) \/ NothingToClose(p) \/ ScanQr(p))
         \/ p \in Sweeper /\ (Scan(p) \/ NextCandidate(p) \/ EndSweep(p))
  PROVE  AnswerInv'
<1>1. /\ events' = events /\ pending' = pending /\ outcome' = outcome
      /\ pc'[p] # "committing"
      /\ \A q \in Process : q # p => pc'[q] = pc[q] /\ req'[q] = req[q]
  BY DEF LockUser, Begin, NothingToClose, ScanQr, Scan, NextCandidate, EndSweep,
     AInv, IInv, TypeOK, rows
<1> QED
  BY <1>1, QuietAnswers

\* An automatic closure is not an answer yet, and the sweep gives none.
LEMMA AutoCloseAnswers ==
  ASSUME AInv, NEW p \in Process, AutoClose(p)
  PROVE  AnswerInv'
<1>1. /\ events' = events /\ req' = req /\ outcome' = outcome
      /\ \A q \in Process : q # p => pc'[q] = pc[q] /\ pending'[q] = pending[q]
      /\ p \in Request => pc'[p] # "committing"
  BY ProcessAssumption DEF AutoClose, Insert, AInv, IInv, TypeOK, rows
<1> QED
  BY <1>1, OthersWait

LEMMA EndAnswers ==
  ASSUME AInv, NEW p \in Process,
         \/ UserMissing(p) \/ Abort(p)
         \/ p \in Sweeper /\ (SkipUser(p) \/ Crash(p))
  PROVE  AnswerInv'
<1>1. /\ events' = events /\ req' = req /\ pc'[p] # "committing"
      /\ \A q \in Process : q # p =>
           pc'[q] = pc[q] /\ pending'[q] = pending[q] /\ outcome'[q] = outcome[q]
  BY DEF UserMissing, Abort, SkipUser, Crash, Close, After, AInv, IInv, TypeOK, rows
<1> QED
  BY <1>1, OthersWait

LEMMA NextAInv == ASSUME AInv, [Next]_vars PROVE AInv'
<1>1. IInv'
  BY NextInv DEF AInv
<1>2. ASSUME NEW r \in Request, Begin(r) \/ Obtain(r) \/ Handle(r) \/ Abort(r) \/ CommitUnanswered(r)
      PROVE  AnswerInv'
  <2>1. r \in Process
    BY DEF Process
  <2>2. CASE Handle(r)
    BY <1>1, <2>1, <2>2, AutoCloseAnswers, PlainAnswers, RefusalAnswers, SuccessAnswers,
       CommitAnswers DEF Handle, Commits
  <2> QED
    BY <1>2, <2>1, <2>2, PlainAnswers, EndAnswers, CommitAnswers DEF Obtain, Commits
<1>3. ASSUME NEW s \in Sweeper, Sweep(s) \/ Obtain(s) \/ Abort(s) \/ Crash(s)
      PROVE  AnswerInv'
  <2>1. s \in Process
    BY DEF Process
  <2>2. CASE Sweep(s)
    BY <2>1, <2>2, AutoCloseAnswers, PlainAnswers, EndAnswers, CommitAnswers
    DEF Sweep, Commits
  <2> QED
    BY <1>3, <2>1, <2>2, PlainAnswers, EndAnswers DEF Obtain
<1>4. ASSUME Administer PROVE AnswerInv'
  <2>1. ASSUME ~ \E u \in User : DeleteUser(u)
        PROVE  UNCHANGED <<events, pending, outcome, pc, req>>
    BY <1>4, <2>1
    DEF Administer, SetUserStatus, CreateLocation, UpdateLocation, RegenerateQr
  <2> QED
    BY <2>1, DeletionAnswers, QuietAnswers
<1>5. ASSUME Tick \/ UNCHANGED vars PROVE AnswerInv'
  BY <1>5, QuietAnswers DEF Tick, vars, rows
<1>6. AnswerInv'
  BY <1>2, <1>3, <1>4, <1>5 DEF Next
<1> QED
  BY <1>1, <1>6 DEF AInv

\* The step that answers is a commit, or finds that the user is gone.
LEMMA AnswersAreTrue ==
  ASSUME AInv, [Next]_vars, NEW r \in Request, pc[r] # "answered", pc'[r] = "answered"
  PROVE  outcome'[r].state = CurrentState(events'[req[r].user])
<1>1. r \in Process /\ r \notin Sweeper /\ TypeOK
  BY ProcessAssumption DEF Process, AInv, IInv
<1>2. Commit(r) \/ UserMissing(r)
  <2>1. ASSUME NEW p \in Process,
               \E next \in PC \ {"answered"} : pc' = [pc EXCEPT ![p] = next]
        PROVE  FALSE
    BY <1>1, <2>1 DEF TypeOK
  <2>2. /\ "sweeping" \in PC \ {"answered"}
        /\ OpenPC \cup {"idle", "failed", "lost"} \subseteq PC \ {"answered"}
    BY DEF PC, OpenPC
  <2>3. ASSUME NEW q \in Request, Begin(q) \/ Obtain(q) \/ Handle(q) \/ Abort(q) \/ CommitUnanswered(q)
        PROVE  Commit(r) \/ UserMissing(r)
    <3>1. q \in Process /\ After(q, "failed") = "failed"
      BY ProcessAssumption DEF Process, After
    <3>2. CASE Commit(q) \/ UserMissing(q)
      <4>1. \A x \in Process : x # q => pc'[x] = pc[x]
        BY <1>1, <3>2 DEF Commit, Publish, UserMissing, Close, TypeOK
      <4> QED
        BY <1>1, <3>2, <4>1
    <3>3. CASE ~ (Commit(q) \/ UserMissing(q))
      <4>1. \E next \in OpenPC \cup {"failed", "lost"} : pc' = [pc EXCEPT ![q] = next]
        BY <2>3, <3>1, <3>3
        DEF Begin, Obtain, LockUser, Handle, AutoClose, NothingToClose, RefuseWrongState,
            ScanQr, RefusePresence, Refuse, RecordEvent, Abort, CommitUnanswered,
            Publish, Close, OpenPC
      <4> QED
        BY <2>1, <2>2, <3>1, <4>1
    <3> QED
      BY <3>2, <3>3
  <2>4. ASSUME NEW s \in Sweeper, Sweep(s) \/ Obtain(s) \/ Abort(s) \/ Crash(s)
        PROVE  FALSE
    <3>1. s \in Process /\ \A last : After(s, last) = "sweeping"
      BY DEF Process, After
    <3>2. \E next \in OpenPC \cup {"idle", "sweeping"} : pc' = [pc EXCEPT ![s] = next]
      BY <2>4, <3>1
      DEF Sweep, Scan, NextCandidate, AutoClose, SkipUser, Commit, Publish, EndSweep, Obtain,
          LockUser, UserMissing, Abort, Crash, Close, OpenPC
    <3> QED
      BY <2>1, <2>2, <3>1, <3>2
  <2>5. pc' # pc
    BY <1>1
  <2>6. ~ Administer /\ ~ Tick /\ ~ UNCHANGED vars
    BY <2>5
    DEF Administer, SetUserStatus, DeleteUser, CreateLocation, UpdateLocation,
        RegenerateQr, Tick, vars
  <2> QED
    BY <2>3, <2>4, <2>6 DEF Next
<1>3. CASE Commit(r)
  <2>1. req[r].user \in User /\ pc[r] = "committing" /\ outcome' = outcome
    BY <1>1, <1>3, HasUser DEF Commit, Publish, OpenPC, AInv, IInv
  <2>2. events'[req[r].user] = View(r)
    BY <1>3, <2>1 DEF Commit, Publish, AInv, IInv, TypeOK
  <2> QED
    BY <2>1, <2>2 DEF AInv, AnswerInv
<1>4. CASE UserMissing(r)
  <2>1. /\ req[r].user \in User /\ users[req[r].user] = "DELETED" /\ events' = events
        /\ outcome'[r] = [NoOutcome EXCEPT !.reason = WrongStateReason[req[r].type]]
    BY <1>1, <1>4, HasUser DEF UserMissing, OpenPC, AInv, IInv, TypeOK, rows
  <2>2. events'[req[r].user] = <<>>
    BY <2>1 DEF AInv, IInv, DeletedInv
  <2> QED
    BY <2>1, <2>2 DEF NoOutcome, CurrentState
<1> QED
  BY <1>2, <1>3, <1>4

\* Whoever is answered is told the state as it is committed at that moment, also
\* when the attempt was refused or the user is gone.
THEOREM TrueAnswers == Spec => AnswersTellTheState
<1>1. Init => AInv
  BY InitInv DEF AInv, AnswerInv, Init, Process
<1>2. AInv /\ [Next]_vars => AInv'
  BY NextAInv
<1>3. AInv /\ [Next]_vars =>
        \A r \in Request : pc[r] # "answered" /\ pc'[r] = "answered" =>
          outcome[r]'.state = CurrentState(events'[req[r].user])
  BY AnswersAreTrue
<1>4. AInv /\ [Next]_vars =>
        [\A r \in Request : pc[r] # "answered" /\ pc'[r] = "answered" =>
           outcome[r]'.state = CurrentState(events'[req[r].user])]_vars
  BY <1>3
<1> QED
  BY <1>1, <1>2, <1>4, PTL DEF Spec, AnswersTellTheState

-----------------------------------------------------------------------------
(* Tokens *)

RequestSteps(r) == Begin(r) \/ Obtain(r) \/ Handle(r) \/ Abort(r) \/ CommitUnanswered(r)
SweeperSteps(s) == Sweep(s) \/ Obtain(s) \/ Abort(s) \/ Crash(s)

\* What a process does leaves the others and the locations as they are.
LEMMA OneProcessSteps ==
  ASSUME TypeOK, NEW p \in Process,
         \/ p \in Request /\ RequestSteps(p)
         \/ p \in Sweeper /\ SweeperSteps(p)
  PROVE  /\ locations' = locations
         /\ \A q \in Process : q # p =>
              /\ pc'[q] = pc[q] /\ req'[q] = req[q] /\ qrReason'[q] = qrReason[q]
              /\ pending'[q] = pending[q] /\ logged'[q] = logged[q]
              /\ outcome'[q] = outcome[q]
<1>1. CASE Begin(p) \/ LockUser(p) \/ NothingToClose(p) \/ ScanQr(p)
  BY <1>1 DEF Begin, LockUser, NothingToClose, ScanQr, TypeOK, rows
<1>2. CASE UserMissing(p) \/ Abort(p) \/ Crash(p) \/ SkipUser(p)
  BY <1>2 DEF UserMissing, Abort, Crash, SkipUser, Close, TypeOK, rows
<1>3. CASE AutoClose(p) \/ RecordEvent(p)
  BY <1>3 DEF AutoClose, RecordEvent, Insert, TypeOK, rows
<1>4. CASE RefuseWrongState(p) \/ RefusePresence(p)
  BY <1>4 DEF RefuseWrongState, RefusePresence, Refuse, TypeOK, rows
<1>5. CASE Commits(p)
  BY <1>5, CommitsPublish DEF Publish, Close, TypeOK
<1>6. CASE p \in Sweeper /\ (Scan(p) \/ NextCandidate(p) \/ EndSweep(p))
  BY <1>6 DEF Scan, NextCandidate, EndSweep, TypeOK, rows
<1> QED
  BY <1>1, <1>2, <1>3, <1>4, <1>5, <1>6
  DEF RequestSteps, SweeperSteps, Obtain, Handle, Sweep, Commits

\* Nothing but a process changes a process.
LEMMA OutsideSteps ==
  ASSUME Administer \/ Tick \/ UNCHANGED vars
  PROVE  UNCHANGED <<pc, req, qrReason, pending, logged, outcome>>
BY DEF Administer, SetUserStatus, DeleteUser, CreateLocation, UpdateLocation, RegenerateQr,
   Tick, vars, rows

\* The scan found the token of the attempt's tenant, or the attempt was granted.
Vouched(r) ==
  \/ pc[r] = "scanned" /\ qrReason[r] = "NONE"
  \/ pc[r] \in {"committing", "answered"} /\ outcome[r].success

\* The token was once on the wall: tokens are numbered as they are replaced.
Printed(r) ==
  LET t == TenantOf[req[r].user]
  IN  /\ req[r] \in Attempt
      /\ locations[t] # NoLocation
      /\ req[r].token[1] = t
      /\ req[r].token[2] <= locations[t].qr[2]

TokenInv ==
  /\ \A t \in Tenant : locations[t] # NoLocation => locations[t].qr[1] = t
  /\ \A r \in Request : Vouched(r) => Printed(r)

\* Tokens of a location are only replaced by later ones.
LEMMA TokensGrow ==
  ASSUME IInv, [Next]_vars, NEW t \in Tenant, locations[t] # NoLocation
  PROVE  /\ locations'[t] # NoLocation
         /\ locations'[t].qr[1] \in {t, locations[t].qr[1]}
         /\ locations[t].qr[2] \in Nat /\ locations'[t].qr[2] \in Nat
         /\ locations[t].qr[2] <= locations'[t].qr[2]
<1>1. /\ TypeOK /\ TypeOK' /\ locations[t] \in Location
      /\ locations \in [Tenant -> Location \cup {NoLocation}]
  BY NextInv DEF IInv, TypeOK
<1>2. locations[t].qr \in QrToken /\ locations[t].qr[2] \in Nat
  BY <1>1, QrVersionAssumption DEF Location, QrToken
<1>3. CASE locations' = locations
  BY <1>2, <1>3
<1>4. CASE \E o \in Tenant : \E site \in Sites : CreateLocation(o, site) \/ UpdateLocation(o, site)
  <2>1. PICK o \in Tenant, site \in Sites : CreateLocation(o, site) \/ UpdateLocation(o, site)
    BY <1>4
  <2>2. locations'[t].qr = locations[t].qr
    BY <1>1, <2>1 DEF CreateLocation, UpdateLocation
  <2>3. locations'[t] # NoLocation
    <3>1. CASE o = t
      <4> DEFINE new == [at |-> site.at, radius |-> site.radius, maxShift |-> site.maxShift,
                         qr |-> locations[t].qr]
      <4>1. locations'[t] = new
        BY <1>1, <2>1, <3>1 DEF CreateLocation, UpdateLocation
      <4>2. new \in Location
        BY <1>2, SitesAssumption DEF Location, Site
      <4> QED
        BY <4>1, <4>2, NoLocationAssumption
    <3>2. CASE o # t
      BY <1>1, <2>1, <3>2 DEF CreateLocation, UpdateLocation
    <3> QED
      BY <3>1, <3>2
  <2> QED
    BY <1>2, <2>2, <2>3
<1>5. CASE \E o \in Tenant : RegenerateQr(o)
  <2>1. PICK o \in Tenant : RegenerateQr(o)
    BY <1>5
  <2>2. CASE o # t
    BY <1>1, <1>2, <2>1, <2>2 DEF RegenerateQr
  <2>3. CASE o = t
    <3>1. /\ locations[t].qr[2] < MaxQrVersion
          /\ locations'[t] = [locations[t] EXCEPT !.qr = <<t, locations[t].qr[2] + 1>>]
      BY <1>1, <2>1, <2>3 DEF RegenerateQr
    <3> DEFINE next == <<t, locations[t].qr[2] + 1>>
    <3>2. next \in QrToken /\ next[1] = t /\ next[2] = locations[t].qr[2] + 1
      BY <1>2, <3>1, QrVersionAssumption DEF QrToken
    <3> HIDE DEF next
    <3>3. locations'[t] \in Location /\ locations'[t].qr = next
      BY <1>1, <3>1, <3>2 DEF Location, next
    <3> QED
      BY <1>2, <3>2, <3>3, NoLocationAssumption
  <2> QED
    BY <2>2, <2>3
<1>6. ASSUME NEW p \in Process,
             \/ p \in Request /\ RequestSteps(p)
             \/ p \in Sweeper /\ SweeperSteps(p)
      PROVE  locations' = locations
  BY <1>1, <1>6, OneProcessSteps
<1>7. CASE Tick \/ UNCHANGED vars \/ \E u \in User : DeleteUser(u) \/ \E s : SetUserStatus(u, s)
  BY <1>3, <1>7 DEF Tick, vars, rows, DeleteUser, SetUserStatus
<1> QED
  BY <1>3, <1>4, <1>5, <1>6, <1>7
  DEF Next, RequestSteps, SweeperSteps, Administer, Process

\* A step of another process, of an administrator or of the clock.
LEMMA TokenKept ==
  ASSUME IInv, [Next]_vars, TokenInv, NEW r \in Request,
         req'[r] = req[r], Vouched(r) \/ (req[r] \in Attempt /\ Printed(r))
  PROVE  Printed(r)'
<1>1. /\ Printed(r) /\ TenantOf[req[r].user] \in Tenant
      /\ req[r].token[2] \in Nat
  BY TenantAssumption, QrVersionAssumption DEF TokenInv, Printed, Attempt, QrToken
<1> QED
  BY <1>1, TokensGrow DEF Printed

LEMMA NextTokenInv == ASSUME IInv, [Next]_vars, TokenInv PROVE TokenInv'
<1>1. TypeOK /\ TypeOK' /\ IInv'
  BY NextInv DEF IInv
<1>2. ASSUME NEW t \in Tenant, locations'[t] # NoLocation
      PROVE  locations'[t].qr[1] = t
  <2>1. CASE locations[t] # NoLocation
    BY <2>1, TokensGrow DEF TokenInv
  <2>2. CASE locations[t] = NoLocation
    <3>1. locations'[t] # locations[t]
      BY <1>2, <2>2
    <3>2. ASSUME NEW p \in Process,
                 \/ p \in Request /\ RequestSteps(p)
                 \/ p \in Sweeper /\ SweeperSteps(p)
          PROVE  FALSE
      BY <1>1, <3>1, <3>2, OneProcessSteps
    <3>3. ~ (Tick \/ UNCHANGED vars \/ \E u \in User : DeleteUser(u) \/ \E s : SetUserStatus(u, s))
      BY <3>1 DEF Tick, vars, rows, DeleteUser, SetUserStatus
    <3>4. ASSUME NEW o \in Tenant, NEW site \in Sites, CreateLocation(o, site)
          PROVE  locations'[t].qr[1] = t
      BY <1>1, <3>1, <3>4 DEF CreateLocation, TypeOK
    <3>5. ASSUME NEW o \in Tenant,
                 RegenerateQr(o) \/ \E site \in Sites : UpdateLocation(o, site)
          PROVE  FALSE
      BY <1>1, <2>2, <3>1, <3>5 DEF RegenerateQr, UpdateLocation, TypeOK
    <3> QED
      BY <3>2, <3>3, <3>4, <3>5
      DEF Next, RequestSteps, SweeperSteps, Administer, Process
  <2> QED
    BY <2>1, <2>2
<1>3. ASSUME NEW r \in Request, Vouched(r)'
      PROVE  Printed(r)'
  <2>1. r \in Process /\ r \notin Sweeper
    BY ProcessAssumption DEF Process
  <2>2. CASE Vouched(r) /\ req'[r] = req[r]
    BY <2>2, TokenKept
  <2>3. CASE RequestSteps(r)
    <3>1. CASE ScanQr(r)
      <4> DEFINE t == TenantOf[req[r].user]
      <4>1. /\ req' = req /\ locations' = locations /\ pc'[r] = "scanned"
            /\ qrReason'[r] = ResolveQr(locations, t, req[r].token)
            /\ pc[r] = "checked"
        BY <1>1, <2>1, <3>1 DEF ScanQr, TypeOK, rows
      <4>2. req[r] \in Attempt /\ t \in Tenant
        BY <4>1, TenantAssumption DEF IInv, WorkInv, OpenPC, Attempt
      <4>3. t \in LocationsWithToken(locations, req[r].token)
        BY <1>3, <4>1 DEF Vouched, ResolveQr
      <4>4. locations[t] # NoLocation /\ req[r].token = locations[t].qr /\ req[r].token[1] = t
        BY <4>2, <4>3 DEF LocationsWithToken, TokenInv
      <4>5. req[r].token[2] \in Nat
        BY <4>2, QrVersionAssumption DEF Attempt, QrToken
      <4> QED
        BY <4>1, <4>2, <4>4, <4>5 DEF Printed
    <3>2. CASE RecordEvent(r)
      <4>1. pc[r] = "scanned" /\ qrReason[r] = "NONE" /\ req' = req
        BY <3>2 DEF RecordEvent, PresenceOf, PresenceReason
      <4> QED
        BY <2>2, <4>1 DEF Vouched
    <3>3. CASE Commits(r)
      <4>1. /\ pc[r] = "committing" /\ outcome' = outcome /\ req' = req
            /\ pc'[r] \in {"answered", "lost"}
        BY <1>1, <2>1, <3>3, CommitsPublish DEF Publish, Close, TypeOK
      <4> QED
        BY <1>3, <2>2, <4>1 DEF Vouched
    <3>4. CASE RefuseWrongState(r) \/ RefusePresence(r)
      <4>1. pc'[r] = "committing" /\ outcome'[r].success = FALSE
        BY <1>1, <2>1, <3>4 DEF RefuseWrongState, RefusePresence, Refuse, TypeOK
      <4> QED
        BY <1>3, <4>1 DEF Vouched
    <3>5. CASE UserMissing(r)
      <4>1. pc'[r] = "answered" /\ outcome'[r].success = FALSE
        BY <1>1, <2>1, <3>5 DEF UserMissing, Close, After, NoOutcome, TypeOK
      <4> QED
        BY <1>3, <4>1 DEF Vouched
    <3>6. CASE Begin(r) \/ LockUser(r) \/ AutoClose(r) \/ NothingToClose(r) \/ Abort(r)
      <4>1. pc'[r] \notin {"scanned", "committing", "answered"}
        BY <1>1, <2>1, <3>6
        DEF Begin, LockUser, AutoClose, NothingToClose, Abort, Close, After, TypeOK
      <4> QED
        BY <1>3, <4>1 DEF Vouched
    <3> QED
      BY <2>3, <3>1, <3>2, <3>3, <3>4, <3>5, <3>6 DEF RequestSteps, Obtain, Handle, Commits
  <2>4. ASSUME NEW p \in Process, p # r,
               \/ p \in Request /\ RequestSteps(p)
               \/ p \in Sweeper /\ SweeperSteps(p)
        PROVE  Printed(r)'
    <3>1. /\ pc'[r] = pc[r] /\ req'[r] = req[r] /\ qrReason'[r] = qrReason[r]
          /\ outcome'[r] = outcome[r]
      BY <1>1, <2>1, <2>4, OneProcessSteps
    <3> QED
      BY <1>3, <2>2, <3>1 DEF Vouched
  <2>5. CASE Administer \/ Tick \/ UNCHANGED vars
    BY <1>3, <2>2, <2>5, OutsideSteps DEF Vouched
  <2> QED
    BY <2>1, <2>3, <2>4, <2>5 DEF Next, RequestSteps, SweeperSteps, Process
<1> QED
  BY <1>2, <1>3 DEF TokenInv

LEMMA SpecTokenInv == Spec => [](IInv /\ TokenInv)
<1>1. Init => IInv /\ TokenInv
  BY InitInv DEF Init, TokenInv, Vouched, Process
<1>2. IInv /\ TokenInv /\ [Next]_vars => (IInv /\ TokenInv)'
  BY NextInv, NextTokenInv
<1> QED
  BY <1>1, <1>2, PTL DEF Spec

\* Nobody is granted attendance by a token of another tenant, or by one that was never
\* on the wall, whatever administrators do to locations during the attempt.
THEOREM OwnTokens == Spec => []OwnTokenOnly
<1>1. IInv /\ TokenInv => OwnTokenOnly
  BY DEF OwnTokenOnly, Succeeded, TokenInv, Vouched, Printed
<1> QED
  BY <1>1, SpecTokenInv, PTL

-----------------------------------------------------------------------------
(* Tokens that were replaced *)

\* The attempt has not scanned its token, or in vain, and the token is an old one.
Void(r) ==
  LET t == TenantOf[req[r].user]
  IN  /\ pc[r] # "idle" /\ ~Vouched(r)
      /\ req[r] \in Attempt
      /\ locations[t] # NoLocation
      /\ req[r].token[2] < locations[t].qr[2]

LEMMA VoidStays ==
  ASSUME IInv, [Next]_vars, NEW r \in Request, Void(r)
  PROVE  Void(r)'
<1> DEFINE t == TenantOf[req[r].user]
<1>1. /\ TypeOK /\ r \in Process /\ r \notin Sweeper /\ pc[r] # "idle"
      /\ req[r] \in Attempt /\ t \in Tenant /\ req[r].token[2] \in Nat
  BY ProcessAssumption, TenantAssumption, QrVersionAssumption
  DEF IInv, Process, Void, Attempt, QrToken
<1>2. /\ locations'[t] # NoLocation
      /\ req[r].token[2] < locations'[t].qr[2]
  BY <1>1, TokensGrow DEF Void
<1>3. CASE RequestSteps(r)
  <2>1. req' = req
    BY <1>1, <1>3
    DEF RequestSteps, Begin, Obtain, LockUser, UserMissing, Handle, AutoClose, NothingToClose,
        RefuseWrongState, RefusePresence, Refuse, ScanQr, RecordEvent, Commit,
        CommitUnanswered, Publish, Abort
  <2>2. ~Vouched(r)' /\ pc'[r] # "idle"
    <3>1. CASE ScanQr(r)
      <4>1. /\ locations' = locations /\ pc'[r] = "scanned"
            /\ qrReason'[r] = ResolveQr(locations, t, req[r].token)
        BY <1>1, <3>1 DEF ScanQr, TypeOK, rows
      <4>2. locations[t].qr # req[r].token
        <5>1. locations[t].qr[2] \in Nat /\ req[r].token[2] < locations[t].qr[2]
          BY <1>1, TokensGrow DEF Void
        <5> QED
          BY <1>1, <5>1
      <4>3. qrReason'[r] # "NONE"
        BY <4>1, <4>2 DEF ResolveQr, LocationsWithToken
      <4> QED
        BY <4>1, <4>3 DEF Vouched
    <3>2. ~RecordEvent(r)
      BY DEF RecordEvent, PresenceOf, PresenceReason, Void, Vouched
    <3>3. CASE Commits(r)
      <4>1. pc[r] = "committing" /\ outcome' = outcome /\ pc'[r] \in {"answered", "lost"}
        BY <1>1, <3>3, CommitsPublish DEF Publish, Close, TypeOK
      <4> QED
        BY <4>1 DEF Vouched, Void
    <3>4. CASE RefuseWrongState(r) \/ RefusePresence(r)
      <4>1. pc'[r] = "committing" /\ outcome'[r].success = FALSE
        BY <1>1, <3>4 DEF RefuseWrongState, RefusePresence, Refuse, TypeOK
      <4> QED
        BY <4>1 DEF Vouched
    <3>5. CASE UserMissing(r)
      <4>1. pc'[r] = "answered" /\ outcome'[r].success = FALSE
        BY <1>1, <3>5 DEF UserMissing, Close, After, NoOutcome, TypeOK
      <4> QED
        BY <4>1 DEF Vouched
    <3>6. CASE LockUser(r) \/ AutoClose(r) \/ NothingToClose(r) \/ Abort(r)
      <4>1. pc'[r] \notin {"idle", "scanned", "committing", "answered"}
        BY <1>1, <3>6 DEF LockUser, AutoClose, NothingToClose, Abort, Close, After, TypeOK
      <4> QED
        BY <4>1 DEF Vouched
    <3> QED
      BY <1>1, <1>3, <3>1, <3>2, <3>3, <3>4, <3>5, <3>6
      DEF RequestSteps, Begin, Obtain, Handle, Commits
  <2> QED
    BY <1>1, <1>2, <2>1, <2>2 DEF Void
<1>4. CASE /\ pc'[r] = pc[r] /\ req'[r] = req[r] /\ qrReason'[r] = qrReason[r]
           /\ outcome'[r] = outcome[r]
  BY <1>1, <1>2, <1>4 DEF Void, Vouched
<1>5. ASSUME NEW p \in Process, p # r,
             \/ p \in Request /\ RequestSteps(p)
             \/ p \in Sweeper /\ SweeperSteps(p)
      PROVE  Void(r)'
  BY <1>1, <1>4, <1>5, OneProcessSteps
<1>6. CASE Administer \/ Tick \/ UNCHANGED vars
  BY <1>4, <1>6, OutsideSteps
<1> QED
  BY <1>1, <1>3, <1>5, <1>6 DEF Next, RequestSteps, SweeperSteps, Process

\* An attempt whose token is replaced before the attempt has scanned it fails, whether it
\* waits for the lock, holds it, or has closed a forgotten session already.
THEOREM ReplacedTokensAreVoid == Spec => ReplacedTokenNeverWorks
<1> SUFFICES ASSUME NEW CONSTANT r \in Request
             PROVE  Spec => [](/\ pc[r] \in {"waiting", "locked", "checked"}
                               /\ locations[TenantOf[req[r].user]] # NoLocation
                               /\ req[r].token[1] = TenantOf[req[r].user]
                               /\ req[r].token[2] < locations[TenantOf[req[r].user]].qr[2]
                               => [](~Succeeded(r)))
  BY DEF ReplacedTokenNeverWorks
<1>1. /\ IInv
      /\ pc[r] \in {"waiting", "locked", "checked"}
      /\ locations[TenantOf[req[r].user]] # NoLocation
      /\ req[r].token[1] = TenantOf[req[r].user]
      /\ req[r].token[2] < locations[TenantOf[req[r].user]].qr[2]
      => Void(r)
  BY DEF IInv, WorkInv, OpenPC, Void, Vouched
<1>2. IInv /\ Void(r) /\ [Next]_vars => Void(r)'
  BY VoidStays
<1>3. Void(r) => ~Succeeded(r)
  BY DEF Void, Vouched, Succeeded
<1> QED
  BY <1>1, <1>2, <1>3, InductiveInvariant, PTL DEF Spec

-----------------------------------------------------------------------------
(* The invariants behind the ledger *)

\* The longest shifts that a tenant may have.
Settings == {DefaultMaxShift} \cup {site.maxShift : site \in Sites}

SettingsInv == \A t \in Tenant : MaxShift(t) \in Settings

\* The automatic closures in s follow check-ins that were due.
Due(s) ==
  \A i \in DOMAIN s : s[i].status = "AUTO_CLOSED" =>
    /\ i > 1
    /\ s[i - 1].type = "CHECK_IN"
    /\ s[i].at - s[i - 1].at > s[i].cutoff
    /\ s[i].cutoff \in Settings

\* That holds of the committed events and of what each transaction would make
\* of them.
DueInv ==
  /\ \A u \in User : Due(events[u])
  /\ \A p \in Process : pc[p] \in LockedPC => Due(View(p))

\* A transaction inserts an automatic closure, another event, or both in this
\* order.
InsertsInv ==
  \A p \in Process :
    /\ Len(pending[p]) \in 0 .. 2
    /\ Len(pending[p]) = 2 \/ (Len(pending[p]) = 1 /\ pc[p] # "committing") =>
         pending[p][1].status = "AUTO_CLOSED"
    /\ Len(pending[p]) = 2 => pc[p] = "committing"

LInv == IInv /\ SettingsInv /\ DueInv /\ InsertsInv

-----------------------------------------------------------------------------
(* Closures are due *)

LEMMA AppendDue ==
  ASSUME NEW s \in Seq(Event), NEW e \in Event, Due(s),
         e.status = "AUTO_CLOSED" =>
           /\ s # <<>> /\ s[Len(s)].type = "CHECK_IN"
           /\ e.at - s[Len(s)].at > e.cutoff
           /\ e.cutoff \in Settings
  PROVE  Due(Append(s, e))
<1> DEFINE t == Append(s, e)
<1>1. /\ Len(s) \in Nat /\ DOMAIN s = 1 .. Len(s)
      /\ DOMAIN t = 1 .. Len(s) + 1
      /\ \A i \in 1 .. Len(s) : t[i] = s[i]
      /\ t[Len(s) + 1] = e
      /\ s # <<>> => Len(s) # 0
  BY EmptySeq, LenProperties
<1> HIDE DEF t
<1>2. SUFFICES ASSUME NEW i \in 1 .. Len(s) + 1, t[i].status = "AUTO_CLOSED"
               PROVE  /\ i > 1 /\ t[i - 1].type = "CHECK_IN"
                      /\ t[i].at - t[i - 1].at > t[i].cutoff
                      /\ t[i].cutoff \in Settings
  BY <1>1 DEF Due, t
<1>3. CASE i = Len(s) + 1
  <2>1. t[i] = e /\ s # <<>> /\ i - 1 \in 1 .. Len(s) /\ i - 1 = Len(s)
    BY <1>1, <1>2, <1>3
  <2>2. t[i - 1] = s[Len(s)]
    BY <1>1, <2>1
  <2> QED
    BY <1>2, <1>3, <2>1, <2>2
<1>4. CASE i # Len(s) + 1
  <2>1. i \in DOMAIN s /\ t[i] = s[i]
    BY <1>1, <1>4
  <2>2. i > 1 /\ s[i - 1].type = "CHECK_IN" /\ s[i].at - s[i - 1].at > s[i].cutoff
        /\ s[i].cutoff \in Settings
    BY <1>2, <2>1 DEF Due
  <2>3. t[i - 1] = s[i - 1]
    BY <1>1, <2>1, <2>2
  <2> QED
    BY <2>1, <2>2, <2>3
<1> QED
  BY <1>3, <1>4

\* DueInv survives a step that leaves the lists of events as they are, or due.
LEMMA DueStep ==
  ASSUME DueInv,
         \A u \in User : events'[u] = events[u] \/ Due(events'[u]),
         \A q \in Process : pc'[q] \in LockedPC =>
           \/ pc[q] \in LockedPC /\ View(q)' = View(q)
           \/ Due(View(q)')
  PROVE  DueInv'
<1>1. \A u \in User : Due(events[u])'
  BY DEF DueInv, Due
<1>2. ASSUME NEW q \in Process, pc'[q] \in LockedPC PROVE Due(View(q)')
  BY <1>2 DEF DueInv
<1>3. \A q \in Process : (pc[q] \in LockedPC)' => Due(View(q))'
  BY <1>2 DEF Due
<1> QED
  BY <1>1, <1>3 DEF DueInv

\* A step that inserts and commits nothing.
LEMMA QuietStep ==
  ASSUME LInv, events' = events, pending' = pending,
         \A q \in Process : pc'[q] \in LockedPC =>
           req'[q] = req[q] /\ pc[q] \in LockedPC \cup {"waiting"},
         \A q \in Process : pc'[q] \notin LockedPC \/ pc'[q] = "locked" =>
           pc[q] \notin LockedPC \/ pc[q] = "locked",
         \A q \in Process : pc[q] = "committing" => pc'[q] = "committing"
  PROVE  DueInv' /\ InsertsInv'
<1> USE DEF LInv, IInv
<1>1. ASSUME NEW q \in Process, pc'[q] \in LockedPC
      PROVE  (pc[q] \in LockedPC /\ View(q)' = View(q)) \/ Due(View(q)')
  <2>1. View(q)' = View(q) /\ pc[q] \in OpenPC
    BY <1>1 DEF View, LockedPC, OpenPC
  <2>2. CASE pc[q] = "waiting"
    <3>1. pending[q] = <<>> /\ req[q].user \in User
      BY <2>1, <2>2, HasUser DEF PendingInv, LockedPC
    <3>2. View(q) = events[req[q].user]
      BY <3>1, ConcatEmptySeq DEF View, TypeOK
    <3> QED
      BY <2>1, <3>1, <3>2 DEF DueInv
  <2> QED
    BY <1>1, <2>1, <2>2
<1>2. DueInv'
  BY <1>1, DueStep
<1>3. InsertsInv'
  BY DEF InsertsInv
<1> QED
  BY <1>2, <1>3

\* A transaction that ends without a commit.
LEMMA LostStep ==
  ASSUME LInv, NEW p \in Process, NEW next \in PC \ OpenPC, Close(p, next),
         events' = events, req' = req
  PROVE  DueInv' /\ InsertsInv'
<1> USE DEF LInv, IInv
<1>1. /\ \A q \in Process : q # p => pc'[q] = pc[q] /\ pending'[q] = pending[q]
      /\ pc'[p] = next /\ pending'[p] = <<>>
  BY DEF Close, TypeOK
<1>2. \A q \in Process : pc'[q] \in LockedPC => pc[q] \in LockedPC /\ View(q)' = View(q)
  BY <1>1 DEF LockedPC, View
<1>3. DueInv'
  BY <1>2, DueStep
<1>4. InsertsInv'
  BY <1>1, EmptySeq DEF InsertsInv
<1> QED
  BY <1>3, <1>4

\* An insert that is not an automatic closure, or is one that is due.
LEMMA InsertStep ==
  ASSUME LInv, IInv', NEW p \in Process, pc[p] \in LockedPC, req' = req,
         events' = events, NEW type, NEW status, NEW cutoff, NEW action,
         Insert(p, type, status, cutoff, action),
         \/ status = "VERIFIED" /\ pc' = [pc EXCEPT ![p] = "committing"]
            /\ pc[p] = "scanned"
         \/ /\ status = "AUTO_CLOSED" /\ pc[p] = "locked"
            /\ \E next \in {"checked", "committing"} : pc' = [pc EXCEPT ![p] = next]
            /\ CurrentState(View(p)) = "CHECKED_IN"
            /\ clock - Newest(View(p)).at > cutoff
            /\ cutoff \in Settings \cap Nat
  PROVE  DueInv' /\ InsertsInv'
<1> USE DEF LInv, IInv
<1> DEFINE e == [type |-> type, status |-> status, at |-> clock + 1,
                 created |-> req[p].started, cutoff |-> cutoff]
<1>1. /\ \A q \in Process : q # p => pc'[q] = pc[q] /\ pending'[q] = pending[q]
      /\ pending'[p] = Append(pending[p], e)
      /\ pc'[p] \in {"checked", "committing"}
      /\ clock \in Nat
      /\ pending[p] \in Seq(Event) /\ pending'[p] \in Seq(Event)
  BY DEF Insert, TypeOK
<1>2. req[p].user \in User /\ events[req[p].user] \in Seq(Event)
  BY HasUser DEF LockedPC, TypeOK
<1>3. View(p) \in Seq(Event) /\ Ordered(View(p))
  BY <1>2, ViewTyped DEF HistoryInv, Sound
<1>4. e \in Event
  <2>1. /\ Len(pending[p]) \in Nat
        /\ Append(pending[p], e)[Len(pending[p]) + 1] = e
        /\ Len(Append(pending[p], e)) = Len(pending[p]) + 1
    BY <1>1, LenProperties
  <2> HIDE DEF e
  <2>2. Len(pending[p]) + 1 \in 1 .. Len(pending'[p])
    BY <1>1, <2>1
  <2>3. pending'[p][Len(pending[p]) + 1] \in Event
    BY <1>1, <2>2, ElementOfSeq
  <2> QED
    BY <1>1, <2>1, <2>3
<1>5. View(p)' = Append(View(p), e)
  <2> HIDE DEF e
  <2>1. events[req[p].user] \o Append(pending[p], e)
          = Append(events[req[p].user] \o pending[p], e)
    BY <1>1, <1>2, <1>4, AppendView
  <2> QED
    BY <1>1, <2>1 DEF View
<1>6. e.status = "AUTO_CLOSED" =>
        /\ View(p) # <<>> /\ View(p)[Len(View(p))].type = "CHECK_IN"
        /\ e.at - View(p)[Len(View(p))].at > e.cutoff
        /\ e.cutoff \in Settings
  <2>1. e.status = status /\ e.at = clock + 1 /\ e.cutoff = cutoff
    OBVIOUS
  <2> HIDE DEF e
  <2> SUFFICES ASSUME status = "AUTO_CLOSED"
               PROVE  /\ View(p) # <<>> /\ View(p)[Len(View(p))].type = "CHECK_IN"
                      /\ e.at - View(p)[Len(View(p))].at > e.cutoff
                      /\ e.cutoff \in Settings
    BY <2>1
  <2>2. View(p) # <<>> /\ View(p)[Len(View(p))].type = "CHECK_IN"
    BY <1>3, StateIsOfLast
  <2>3. Newest(View(p)) = View(p)[Len(View(p))]
    BY <1>3, <2>2, NewestIsLast
  <2>4. View(p)[Len(View(p))].at \in Nat
    <3>1. Len(View(p)) \in DOMAIN View(p)
      BY <1>3, <2>2, EmptySeq, LenProperties
    <3> QED
      BY <1>3, <3>1, EventOfSeq
  <2>5. clock \in Nat /\ cutoff \in Nat /\ cutoff \in Settings
    BY <1>1
  <2>6. clock - View(p)[Len(View(p))].at > cutoff
    BY <2>3
  <2>7. e.at - View(p)[Len(View(p))].at > e.cutoff
    BY <2>4, <2>1, <2>5, <2>6
  <2> QED
    BY <2>2, <2>1, <2>5, <2>7
<1>7. Due(View(p)')
  <2>1. Due(View(p))
    BY DEF DueInv
  <2> HIDE DEF e
  <2> QED
    BY <1>3, <1>4, <1>5, <1>6, <2>1, AppendDue
<1>8. \A q \in Process : q # p => View(q)' = View(q)
  BY <1>1 DEF View
<1>9. DueInv'
  BY <1>1, <1>7, <1>8, DueStep
<1>10. InsertsInv'
  <2>1. /\ Len(pending[p]) \in Nat /\ Len(pending'[p]) = Len(pending[p]) + 1
        /\ pending'[p][Len(pending[p]) + 1].status = status
        /\ Len(pending[p]) # 0 => pending'[p][1] = pending[p][1]
    BY <1>1, LenProperties
  <2> DEFINE m == Len(pending[p])
             n == Len(pending'[p])
             Shaped == /\ n \in 0 .. 2
                       /\ n = 2 \/ (n = 1 /\ pc'[p] # "committing") =>
                            pending'[p][1].status = "AUTO_CLOSED"
                       /\ n = 2 => pc'[p] = "committing"
  <2>2. ASSUME pc[p] = "locked", status = "AUTO_CLOSED" PROVE Shaped
    <3>1. m = 0
      BY <2>2, EmptySeq DEF PendingInv
    <3>2. n = 1 /\ pending'[p][1].status = "AUTO_CLOSED"
      BY <2>1, <2>2, <3>1
    <3> HIDE DEF n
    <3> QED
      BY <3>2
  <2>3. ASSUME pc[p] = "scanned", pc'[p] = "committing" PROVE Shaped
    <3>1. m \in 0 .. 2 /\ m # 2 /\ (m = 1 => pending[p][1].status = "AUTO_CLOSED")
      BY <2>3 DEF InsertsInv
    <3>2. m \in 0 .. 1 /\ n = m + 1
      BY <2>1, <3>1
    <3>3. n = 2 => pending'[p][1].status = "AUTO_CLOSED"
      <4> HIDE DEF n, m
      <4>1. n = 2 => m = 1
        BY <3>2
      <4> QED
        BY <2>1, <3>1, <4>1 DEF m
    <3> HIDE DEF n, m
    <3> QED
      BY <2>3, <3>2, <3>3
  <2>4. \/ pc[p] = "scanned" /\ pc'[p] = "committing"
        \/ pc[p] = "locked" /\ status = "AUTO_CLOSED"
    BY DEF TypeOK
  <2>5. Shaped
    BY <2>2, <2>3, <2>4
  <2> QED
    BY <1>1, <2>5 DEF InsertsInv
<1> QED
  BY <1>9, <1>10

LEMMA CommitStep ==
  ASSUME LInv, NEW p \in Process, Commits(p)
  PROVE  DueInv' /\ InsertsInv'
<1> USE DEF LInv, IInv
<1> DEFINE u == req[p].user
<1>0. PICK next \in PC \ OpenPC : Publish(p, next)
  BY CommitsPublish
<1>1. pc[p] \in LockedPC /\ u \in User /\ lock[u] = p
  BY <1>0, HasUser DEF Publish, LockedPC, OpenPC, LockInv
<1>2. /\ \A q \in Process : q # p => pc'[q] = pc[q] /\ pending'[q] = pending[q]
      /\ pc'[p] \notin OpenPC /\ pending'[p] = <<>>
      /\ req' = req
      /\ events'[u] = View(p)
      /\ \A v \in User : v # u => events'[v] = events[v]
  BY <1>0, <1>1 DEF Publish, Close, TypeOK
<1>3. ASSUME NEW q \in Process, pc'[q] \in LockedPC
      PROVE  pc[q] \in LockedPC /\ View(q)' = View(q)
  <2>1. q # p /\ pc[q] \in LockedPC /\ req[q].user \in User
    BY <1>2, <1>3, HasUser DEF LockedPC
  <2>2. req[q].user # u
    BY <1>1, <2>1 DEF LockInv
  <2> QED
    BY <1>2, <2>1, <2>2 DEF View
<1>4. DueInv'
  <2>1. \A v \in User : events'[v] = events[v] \/ Due(events'[v])
    BY <1>1, <1>2 DEF DueInv
  <2> QED
    BY <1>3, <2>1, DueStep
<1>5. InsertsInv'
  BY <1>2, EmptySeq DEF InsertsInv
<1> QED
  BY <1>4, <1>5

LEMMA DeleteStep ==
  ASSUME LInv, NEW u \in User, DeleteUser(u)
  PROVE  DueInv' /\ InsertsInv'
<1> USE DEF LInv, IInv
<1>1. ASSUME NEW q \in Process, pc[q] \in LockedPC PROVE View(q)' = View(q)
  <2>1. req[q].user \in User /\ req[q].user # u
    BY <1>1, ProcessAssumption, HasUser DEF DeleteUser, LockInv, LockedPC
  <2> QED
    BY <2>1 DEF DeleteUser, View, TypeOK
<1>2. \A v \in User : events'[v] = events[v] \/ Due(events'[v])
  BY DEF DeleteUser, TypeOK, Due
<1>3. DueInv'
  BY <1>1, <1>2, DueStep DEF DeleteUser
<1>4. InsertsInv'
  BY DEF DeleteUser, InsertsInv
<1> QED
  BY <1>3, <1>4

\* The longest shift of a tenant changes to a setting.
LEMMA SettingsStep ==
  ASSUME LInv, [Next]_vars
  PROVE  SettingsInv'
<1>1. CASE UNCHANGED locations
  BY <1>1 DEF LInv, SettingsInv, MaxShift
<1>2. ASSUME NEW t \in Tenant, NEW site \in Sites,
             CreateLocation(t, site) \/ UpdateLocation(t, site)
      PROVE  SettingsInv'
  <2>1. /\ locations'[t].maxShift = site.maxShift
        /\ \A v \in Tenant \ {t} : locations'[v] = locations[v]
    BY <1>2 DEF CreateLocation, UpdateLocation, LInv, IInv, TypeOK
  <2> QED
    BY <2>1 DEF LInv, SettingsInv, MaxShift, Settings
<1>3. ASSUME NEW t \in Tenant, RegenerateQr(t) PROVE SettingsInv'
  <2>1. locations[t] # NoLocation /\ locations[t] \in Location
    BY <1>3 DEF RegenerateQr, LInv, IInv, TypeOK
  <2>2. /\ locations'[t].maxShift = locations[t].maxShift
        /\ \A v \in Tenant \ {t} : locations'[v] = locations[v]
    BY <1>3, <2>1 DEF RegenerateQr, LInv, IInv, TypeOK, Location
  <2> QED
    BY <2>1, <2>2 DEF LInv, SettingsInv, MaxShift, Settings
<1>4. CASE ~ UNCHANGED locations
  BY <1>2, <1>3, <1>4
  DEF Next, Begin, Obtain, LockUser, UserMissing, Handle, AutoClose, NothingToClose,
      RefuseWrongState, ScanQr, RefusePresence, Refuse, RecordEvent, Commit,
      CommitUnanswered, Publish, Abort, Sweep,
      Scan, NextCandidate, SkipUser, EndSweep, Crash, Administer, SetUserStatus,
      DeleteUser, Tick, rows, vars
<1> QED
  BY <1>1, <1>4

-----------------------------------------------------------------------------
(* The invariant, and what follows from it *)

LEMMA InitLInv == ASSUME Init PROVE LInv
<1>1. IInv
  BY InitInv
<1>2. SettingsInv
  BY DEF Init, SettingsInv, MaxShift, Settings
<1>3. DueInv
  BY DEF Init, DueInv, Due, LockedPC, OpenPC, Process
<1>4. InsertsInv
  BY EmptySeq DEF Init, InsertsInv
<1> QED
  BY <1>1, <1>2, <1>3, <1>4 DEF LInv

\* The steps that open, lead through or end a transaction without a commit.
LEMMA AttemptStep ==
  ASSUME LInv, NEW r \in Request,
         \/ Begin(r) \/ NothingToClose(r) \/ RefuseWrongState(r) \/ ScanQr(r)
         \/ RefusePresence(r)
  PROVE  DueInv' /\ InsertsInv'
<1>1. r \in Process /\ TypeOK
  BY DEF Process, LInv, IInv
<1>2. events' = events /\ pending' = pending
  BY DEF Begin, NothingToClose, RefuseWrongState, ScanQr, RefusePresence, Refuse, rows
<1>3. CASE Begin(r)
  <2>1. /\ pc[r] = "idle" /\ pc'[r] = "waiting"
        /\ \A q \in Process : q # r => pc'[q] = pc[q] /\ req'[q] = req[q]
    BY <1>1, <1>3 DEF Begin, TypeOK
  <2> QED
    BY <1>2, <2>1, QuietStep DEF LockedPC, OpenPC
<1>4. CASE ~ Begin(r)
  <2>1. /\ req' = req /\ pc[r] \in {"locked", "checked", "scanned"}
        /\ pc'[r] \in {"checked", "scanned", "committing"}
        /\ \A q \in Process : q # r => pc'[q] = pc[q]
    BY <1>1, <1>4
    DEF NothingToClose, RefuseWrongState, ScanQr, RefusePresence, Refuse, TypeOK
  <2> QED
    BY <1>2, <2>1, QuietStep DEF LockedPC, OpenPC
<1> QED
  BY <1>3, <1>4

LEMMA AutoCloseStep ==
  ASSUME LInv, IInv', NEW p \in Process, AutoClose(p)
  PROVE  DueInv' /\ InsertsInv'
<1> DEFINE shift == MaxShift(TenantOf[req[p].user])
<1>1. pc[p] \in LockedPC /\ pc[p] \in OpenPC /\ pc[p] = "locked"
  BY DEF AutoClose, LockedPC, OpenPC
<1>2. TenantOf[req[p].user] \in Tenant
  BY <1>1, HasUser, TenantAssumption DEF LInv, IInv
<1>3. shift \in Settings \cap Nat
  BY <1>2, MaxShiftTyped DEF LInv, IInv, SettingsInv
<1>4. /\ CurrentState(View(p)) = "CHECKED_IN"
      /\ clock - Newest(View(p)).at > shift
      /\ Insert(p, "CHECK_OUT", "AUTO_CLOSED", shift, "ATTENDANCE_AUTO_CLOSED")
      /\ \E next \in {"checked", "committing"} : pc' = [pc EXCEPT ![p] = next]
      /\ req' = req /\ events' = events
  BY DEF AutoClose, Stale, rows
<1> HIDE DEF shift
<1> QED
  BY <1>1, <1>3, <1>4, InsertStep

LEMMA RecordEventStep ==
  ASSUME LInv, IInv', NEW r \in Request, RecordEvent(r)
  PROVE  DueInv' /\ InsertsInv'
BY InsertStep DEF RecordEvent, LockedPC, OpenPC, Process, rows

LEMMA EndStep ==
  ASSUME LInv, NEW p \in Process,
         \/ UserMissing(p) \/ Abort(p)
         \/ p \in Sweeper /\ (SkipUser(p) \/ Crash(p))
  PROVE  DueInv' /\ InsertsInv'
<1>1. "sweeping" \in PC \ OpenPC /\ "idle" \in PC \ OpenPC
  BY DEF PC, OpenPC
<1>2. \E next \in PC \ OpenPC : Close(p, next)
  BY <1>1, AfterTyped DEF UserMissing, Abort, SkipUser, Crash
<1>3. events' = events /\ req' = req
  BY DEF UserMissing, Abort, SkipUser, Crash, rows
<1> QED
  BY <1>2, <1>3, LostStep

LEMMA LockUserStep ==
  ASSUME LInv, NEW p \in Process, LockUser(p)
  PROVE  DueInv' /\ InsertsInv'
<1>1. /\ pc[p] = "waiting" /\ pc'[p] = "locked" /\ req' = req
      /\ \A q \in Process : q # p => pc'[q] = pc[q]
      /\ events' = events /\ pending' = pending
  BY DEF LockUser, LInv, IInv, TypeOK, rows
<1> QED
  BY <1>1, QuietStep DEF LockedPC, OpenPC

LEMMA SweepStep ==
  ASSUME LInv, NEW s \in Sweeper, Scan(s) \/ NextCandidate(s) \/ EndSweep(s)
  PROVE  DueInv' /\ InsertsInv'
<1>1. s \in Process /\ TypeOK
  BY DEF Process, LInv, IInv
<1>2. /\ pc[s] \in {"idle", "sweeping"} /\ pc'[s] \in {"idle", "sweeping", "waiting"}
      /\ \A q \in Process : q # s => pc'[q] = pc[q] /\ req'[q] = req[q]
      /\ events' = events /\ pending' = pending
  BY <1>1 DEF Scan, NextCandidate, EndSweep, TypeOK, rows
<1> QED
  BY <1>2, QuietStep DEF LockedPC, OpenPC

\* Steps of administrators, and time.
LEMMA OutsideStep ==
  ASSUME LInv, UNCHANGED <<events, pending, pc, req>>
  PROVE  DueInv' /\ InsertsInv'
BY QuietStep DEF LockedPC, OpenPC

LEMMA NextLInv == ASSUME LInv, [Next]_vars PROVE LInv'
<1>1. IInv' /\ SettingsInv'
  BY NextInv, SettingsStep DEF LInv
<1>2. ASSUME NEW r \in Request, Begin(r) \/ Obtain(r) \/ Handle(r) \/ Abort(r) \/ CommitUnanswered(r)
      PROVE  DueInv' /\ InsertsInv'
  <2>1. r \in Process
    BY DEF Process
  <2>2. CASE Handle(r)
    BY <1>1, <2>1, <2>2, AutoCloseStep, AttemptStep, RecordEventStep, CommitStep
    DEF Handle, Commits
  <2> QED
    BY <1>2, <2>1, <2>2, AttemptStep, LockUserStep, EndStep, CommitStep DEF Obtain, Commits
<1>3. ASSUME NEW s \in Sweeper, Sweep(s) \/ Obtain(s) \/ Abort(s) \/ Crash(s)
      PROVE  DueInv' /\ InsertsInv'
  <2>1. s \in Process
    BY DEF Process
  <2>2. CASE Sweep(s)
    BY <1>1, <2>1, <2>2, SweepStep, AutoCloseStep, EndStep, CommitStep
    DEF Sweep, Commits
  <2> QED
    BY <1>3, <2>1, <2>2, LockUserStep, EndStep DEF Obtain
<1>4. ASSUME Administer PROVE DueInv' /\ InsertsInv'
  <2>1. ASSUME NEW u \in User, DeleteUser(u) PROVE DueInv' /\ InsertsInv'
    BY <2>1, DeleteStep
  <2>2. ASSUME ~ \E u \in User : DeleteUser(u)
        PROVE  UNCHANGED <<events, pending, pc, req>>
    BY <1>4, <2>2
    DEF Administer, SetUserStatus, CreateLocation, UpdateLocation, RegenerateQr
  <2> QED
    BY <2>1, <2>2, OutsideStep
<1>5. ASSUME Tick \/ UNCHANGED vars PROVE DueInv' /\ InsertsInv'
  BY <1>5, OutsideStep DEF Tick, vars, rows
<1>6. DueInv' /\ InsertsInv'
  BY <1>2, <1>3, <1>4, <1>5 DEF Next
<1> QED
  BY <1>1, <1>6 DEF LInv

\* Only check-ins that have been open longer than the shift of their tenant are
\* closed automatically: whoever closes one reads its age under the user's lock.
THEOREM ShiftsAreNotCutShort == Spec => []AutoCloseIsDue
<1>1. LInv => AutoCloseIsDue
  BY DEF LInv, DueInv, Due, AutoCloseIsDue, Settings
<1>2. Init => LInv
  BY InitLInv
<1>3. LInv /\ [Next]_vars => LInv'
  BY NextLInv
<1> QED
  BY <1>1, <1>2, <1>3, PTL DEF Spec

-----------------------------------------------------------------------------
(* The ledger *)

Entry == {"CHECK_IN", "CHECK_OUT", "AUTO_CLOSED"}
Entries(s) == [i \in 1 .. Len(s) |-> EntryOf(s[i])]

LEMMA EntriesTyped ==
  ASSUME NEW s \in Seq(Event)
  PROVE  /\ Entries(s) \in Seq(Entry)
         /\ Len(Entries(s)) = Len(s)
         /\ \A i \in 1 .. Len(s) : Entries(s)[i] = EntryOf(s[i])
<1>1. Len(s) \in Nat
  BY LenProperties
<1>2. \A i \in 1 .. Len(s) : EntryOf(s[i]) \in Entry
  BY EventOfSeq, LenProperties DEF EntryOf, Entry
<1> QED
  BY <1>1, <1>2 DEF Entries

LEMMA EntriesConcat ==
  ASSUME NEW s \in Seq(Event), NEW t \in Seq(Event)
  PROVE  Entries(s \o t) = Entries(s) \o Entries(t)
<1> DEFINE a == Entries(s \o t)
           b == Entries(s) \o Entries(t)
           n == Len(s) + Len(t)
<1>1. /\ s \o t \in Seq(Event) /\ Len(s \o t) = n /\ Len(s) \in Nat /\ Len(t) \in Nat
      /\ \A i \in 1 .. n : (s \o t)[i] = IF i <= Len(s) THEN s[i] ELSE t[i - Len(s)]
  BY ConcatProperties, LenProperties
<1>2. /\ Entries(s) \in Seq(Entry) /\ Len(Entries(s)) = Len(s)
      /\ Entries(t) \in Seq(Entry) /\ Len(Entries(t)) = Len(t)
      /\ \A i \in 1 .. Len(s) : Entries(s)[i] = EntryOf(s[i])
      /\ \A i \in 1 .. Len(t) : Entries(t)[i] = EntryOf(t[i])
  BY EntriesTyped
<1>3. /\ a \in Seq(Entry) /\ Len(a) = n
      /\ \A i \in 1 .. n : a[i] = EntryOf((s \o t)[i])
  BY <1>1, EntriesTyped
<1>4. /\ b \in Seq(Entry) /\ Len(b) = n
      /\ \A i \in 1 .. n :
           b[i] = IF i <= Len(s) THEN Entries(s)[i] ELSE Entries(t)[i - Len(s)]
  <2>1. /\ b \in Seq(Entry) /\ Len(b) = Len(Entries(s)) + Len(Entries(t))
        /\ \A i \in 1 .. Len(Entries(s)) + Len(Entries(t)) :
             b[i] = IF i <= Len(Entries(s)) THEN Entries(s)[i]
                    ELSE Entries(t)[i - Len(Entries(s))]
    <3>1. PICK e \in Seq(Entry), f \in Seq(Entry) : e = Entries(s) /\ f = Entries(t)
      BY <1>2
    <3>2. /\ e \o f \in Seq(Entry) /\ Len(e \o f) = Len(e) + Len(f)
          /\ \A i \in 1 .. Len(e) + Len(f) :
               (e \o f)[i] = IF i <= Len(e) THEN e[i] ELSE f[i - Len(e)]
      BY ConcatProperties
    <3> QED
      BY <3>1, <3>2
  <2> HIDE DEF b
  <2> QED
    BY <1>2, <2>1
<1> HIDE DEF a, b
<1>5. ASSUME NEW i \in 1 .. n PROVE a[i] = b[i]
  <2>1. CASE i <= Len(s)
    BY <1>1, <1>2, <1>3, <1>4, <2>1
  <2>2. CASE i > Len(s)
    <3>1. i - Len(s) \in 1 .. Len(t) /\ ~ i <= Len(s)
      BY <1>1, <2>2
    <3> QED
      BY <1>1, <1>2, <1>3, <1>4, <3>1
  <2> QED
    BY <1>1, <2>1, <2>2
<1> QED
  BY <1>3, <1>4, <1>5, SeqEqual DEF a, b

LEMMA EntriesOfNone == Entries(<<>>) = <<>>
<1>1. <<>> \in Seq(Event) /\ Len(<<>>) = 0
  BY EmptySeq
<1>2. Entries(<<>>) \in Seq(Entry) /\ Len(Entries(<<>>)) = 0
  BY <1>1, EntriesTyped
<1> QED
  BY <1>2, EmptySeq

LEMMA EntriesOfOne ==
  ASSUME NEW s \in Seq(Event), Len(s) = 1
  PROVE  Entries(s) = <<EntryOf(s[1])>>
<1>1. /\ Entries(s) \in Seq(Entry) /\ Len(Entries(s)) = 1
      /\ Entries(s)[1] = EntryOf(s[1]) /\ EntryOf(s[1]) \in Entry
  BY EntriesTyped, ElementOfSeq
<1>2. <<EntryOf(s[1])>> \in Seq(Entry) /\ Len(<<EntryOf(s[1])>>) = 1
  BY <1>1
<1> HIDE DEF Entries
<1> QED
  BY <1>1, <1>2, SeqEqual

LEMMA EntriesOfTwo ==
  ASSUME NEW s \in Seq(Event), Len(s) = 2
  PROVE  Entries(s) = <<EntryOf(s[1]), EntryOf(s[2])>>
<1>1. /\ Entries(s) \in Seq(Entry) /\ Len(Entries(s)) = 2
      /\ Entries(s)[1] = EntryOf(s[1]) /\ EntryOf(s[1]) \in Entry
      /\ Entries(s)[2] = EntryOf(s[2]) /\ EntryOf(s[2]) \in Entry
  BY EntriesTyped, ElementOfSeq
<1>2. /\ <<EntryOf(s[1]), EntryOf(s[2])>> \in Seq(Entry)
      /\ Len(<<EntryOf(s[1]), EntryOf(s[2])>>) = 2
  BY <1>1
<1> QED
  BY <1>1, <1>2, SeqEqual

\* Closures are check-outs, so the entries of a sound and due sequence tell the
\* types of its events.
LEMMA ClosuresAreCheckOuts ==
  ASSUME NEW s \in Seq(Event), Alternates(s), Due(s)
  PROVE  \A i \in 1 .. Len(s) :
           /\ EntryOf(s[i]) = "CHECK_IN" <=> s[i].type = "CHECK_IN"
           /\ s[i].status = "AUTO_CLOSED" => s[i].type = "CHECK_OUT"
<1> TAKE i \in 1 .. Len(s)
<1>1. Len(s) \in Nat /\ DOMAIN s = 1 .. Len(s)
      /\ s[i].type \in {"CHECK_IN", "CHECK_OUT"}
  BY EventOfSeq, LenProperties
<1>2. ASSUME s[i].status = "AUTO_CLOSED" PROVE s[i].type # "CHECK_IN"
  <2>1. i > 1 /\ s[i - 1].type = "CHECK_IN"
    BY <1>1, <1>2 DEF Due
  <2>2. i - 1 \in 1 .. Len(s) - 1 /\ (i - 1) + 1 = i
    BY <1>1, <2>1
  <2>3. s[i - 1].type # s[(i - 1) + 1].type
    BY <2>2 DEF Alternates
  <2> QED
    BY <2>1, <2>2, <2>3
<1> QED
  BY <1>1, <1>2 DEF EntryOf

IsOpenBook(entries) == entries # <<>> /\ entries[Len(entries)] = "CHECK_IN"

\* What events of a transaction can add to those of its user.
LEMMA EntriesOfCommit ==
  ASSUME NEW s \in Seq(Event), NEW t \in Seq(Event), Len(t) \in 0 .. 2,
         Len(t) = 2 => t[1].status = "AUTO_CLOSED",
         Alternates(s), Due(s), Alternates(s \o t), Due(s \o t)
  PROVE  \/ Entries(t) = <<>>
         \/ Entries(t) = <<"CHECK_IN">> /\ ~ IsOpenBook(Entries(s))
         \/ /\ Entries(t) \in
                 {<<"CHECK_OUT">>, <<"AUTO_CLOSED">>, <<"AUTO_CLOSED", "CHECK_IN">>}
            /\ IsOpenBook(Entries(s))
<1>1. Len(s) \in Nat /\ s \o t \in Seq(Event)
  BY ConcatProperties, LenProperties
<1>2. /\ Len(s \o t) = Len(s) + Len(t)
      /\ \A i \in 1 .. Len(s) : (s \o t)[i] = s[i]
      /\ \A i \in 1 .. Len(t) : (s \o t)[Len(s) + i] = t[i]
  BY <1>1, ConcatProperties
<1>3. \A i \in 1 .. Len(t) :
        /\ EntryOf(t[i]) = "CHECK_IN" <=> t[i].type = "CHECK_IN"
        /\ EntryOf(t[i]) \in Entry
        /\ t[i].type \in {"CHECK_IN", "CHECK_OUT"}
        /\ t[i].status = "AUTO_CLOSED" => EntryOf(t[i]) = "AUTO_CLOSED"
  <2> TAKE i \in 1 .. Len(t)
  <2>1. Len(s) + i \in 1 .. Len(s \o t) /\ (s \o t)[Len(s) + i] = t[i]
    BY <1>1, <1>2
  <2>2. EntryOf(t[i]) = "CHECK_IN" <=> t[i].type = "CHECK_IN"
    BY <1>1, <2>1, ClosuresAreCheckOuts
  <2>3. t[i].type \in {"CHECK_IN", "CHECK_OUT"}
    BY EventOfSeq, LenProperties
  <2> QED
    BY <2>2, <2>3 DEF EntryOf, Entry
<1>4. Len(t) # 0 => (t[1].type = "CHECK_OUT" <=> IsOpenBook(Entries(s)))
  <2> SUFFICES ASSUME Len(t) # 0
               PROVE  t[1].type = "CHECK_OUT" <=> IsOpenBook(Entries(s))
    OBVIOUS
  <2>1. t[1].type \in {"CHECK_IN", "CHECK_OUT"} /\ 1 \in 1 .. Len(t)
    <3>1. 1 \in 1 .. Len(t)
      OBVIOUS
    <3> QED
      BY <1>3, <3>1
  <2>2. /\ Entries(s) \in Seq(Entry) /\ Len(Entries(s)) = Len(s)
        /\ \A i \in 1 .. Len(s) : Entries(s)[i] = EntryOf(s[i])
    BY EntriesTyped
  <2>3. CASE Len(s) = 0
    <3>1. Entries(s) = <<>> /\ s = <<>>
      BY <2>2, <2>3, EmptySeq
    <3>2. (s \o t)[1] = t[1] /\ s \o t # <<>>
      BY <1>1, <1>2, <2>1, <2>3, EmptySeq
    <3>3. t[1].type = "CHECK_IN"
      BY <3>2 DEF Alternates
    <3> QED
      BY <3>1, <3>3 DEF IsOpenBook
  <2>4. CASE Len(s) # 0
    <3>1. Len(s) \in 1 .. Len(s) /\ Len(s) \in 1 .. Len(s \o t) - 1
      BY <1>1, <1>2, <2>1, <2>4
    <3>2. s[Len(s)].type # t[1].type
      BY <1>2, <2>1, <3>1 DEF Alternates
    <3>3. s[Len(s)].type \in {"CHECK_IN", "CHECK_OUT"}
      BY <3>1, EventOfSeq, LenProperties
    <3>4. EntryOf(s[Len(s)]) = "CHECK_IN" <=> s[Len(s)].type = "CHECK_IN"
      BY <3>1, ClosuresAreCheckOuts
    <3>5. Entries(s) # <<>> /\ Entries(s)[Len(Entries(s))] = EntryOf(s[Len(s)])
      BY <2>2, <2>4, <3>1, EmptySeq
    <3> QED
      BY <2>1, <3>2, <3>3, <3>4, <3>5 DEF IsOpenBook
  <2> QED
    BY <2>3, <2>4
<1>5. CASE Len(t) = 0
  <2>1. Entries(t) \in Seq(Entry) /\ Len(Entries(t)) = 0
    BY <1>5, EntriesTyped
  <2> QED
    BY <2>1, EmptySeq
<1>6. CASE Len(t) = 1
  <2>1. 1 \in 1 .. Len(t) /\ Len(t) # 0
    BY <1>6
  <2>2. Entries(t) = <<EntryOf(t[1])>>
    BY <1>6, EntriesOfOne
  <2>3. /\ EntryOf(t[1]) \in {"CHECK_IN", "CHECK_OUT", "AUTO_CLOSED"}
        /\ EntryOf(t[1]) = "CHECK_IN" <=> ~ IsOpenBook(Entries(s))
    BY <1>3, <1>4, <2>1 DEF Entry
  <2>4. CASE EntryOf(t[1]) = "CHECK_IN"
    BY <2>2, <2>3, <2>4
  <2>5. CASE EntryOf(t[1]) # "CHECK_IN"
    BY <2>2, <2>3, <2>5
  <2> QED
    BY <2>4, <2>5
<1>7. CASE Len(t) = 2
  <2>1. 1 \in 1 .. Len(t) /\ 2 \in 1 .. Len(t) /\ Len(t) # 0
    BY <1>7
  <2>2. Entries(t) = <<EntryOf(t[1]), EntryOf(t[2])>>
    BY <1>7, EntriesOfTwo
  <2>3. EntryOf(t[1]) = "AUTO_CLOSED" /\ t[1].type = "CHECK_OUT"
    BY <1>3, <1>7, <2>1
  <2>4. t[1].type # t[2].type
    <3>1. /\ Len(s) + 1 \in 1 .. Len(s \o t) - 1
          /\ (s \o t)[Len(s) + 1] = t[1]
          /\ (s \o t)[Len(s) + 1 + 1] = t[2]
      <4>1. (s \o t)[Len(s) + 1] = t[1] /\ (s \o t)[Len(s) + 2] = t[2]
        BY <1>2, <2>1
      <4>2. Len(s) + 1 + 1 = Len(s) + 2 /\ Len(s) + 1 \in 1 .. Len(s \o t) - 1
        BY <1>1, <1>2, <1>7
      <4> QED
        BY <4>1, <4>2
    <3>2. (s \o t)[Len(s) + 1].type # (s \o t)[Len(s) + 1 + 1].type
      BY <3>1 DEF Alternates
    <3> QED
      BY <3>1, <3>2
  <2>5. EntryOf(t[2]) = "CHECK_IN"
    BY <1>3, <2>1, <2>3, <2>4
  <2> QED
    BY <1>4, <2>1, <2>3, <2>5, <2>2
<1> QED
  BY <1>5, <1>6, <1>7

Present == {u \in User : users[u] # "DELETED"}
Book == [u \in User |-> Entries(events[u])]

LEMMA WriteBook ==
  ASSUME NEW u \in User, users[u] # "DELETED", Present' = Present, NEW entries,
         Book' = [Book EXCEPT ![u] = @ \o entries]
  PROVE  Ledger!Write(u, entries)
BY DEF Ledger!Write, Present, Book, Entries

LEMMA OpenBook ==
  ASSUME NEW u \in User
  PROVE  Ledger!IsOpen(u) <=> IsOpenBook(Entries(events[u]))
BY DEF Ledger!IsOpen, IsOpenBook, Entries

\* A commit writes an entry that the ledger takes, or nothing.
LEMMA CommitWritesTheBook ==
  ASSUME LInv, NEW p \in Process, Commits(p)
  PROVE  Ledger!Next \/ UNCHANGED <<Book, Present>>
<1>0. PICK next \in PC \ OpenPC : Publish(p, next)
  BY CommitsPublish
<1>1. PICK u \in User : u = req[p].user
  BY <1>0, HasUser DEF Publish, OpenPC, LInv, IInv
<1>2. PICK s \in Seq(Event), t \in Seq(Event) : s = events[u] /\ t = pending[p]
  BY DEF LInv, IInv, TypeOK
<1>3. pc[p] \in LockedPC /\ users[u] # "DELETED"
  BY <1>0, <1>1 DEF Publish, LockedPC, OpenPC, LInv, IInv, LockInv
<1>4. Len(t) \in 0 .. 2 /\ (Len(t) = 2 => t[1].status = "AUTO_CLOSED")
  BY <1>0, <1>2 DEF Publish, LInv, InsertsInv
<1>5. View(p) = s \o t /\ Alternates(s) /\ Due(s) /\ Alternates(s \o t) /\ Due(s \o t)
  BY <1>1, <1>2, <1>3 DEF View, LInv, IInv, HistoryInv, Sound, DueInv
<1>6. /\ events' = [events EXCEPT ![u] = s \o t]
      /\ Present' = Present
  BY <1>0, <1>1, <1>5 DEF Publish, Present
<1>7. Book' = [Book EXCEPT ![u] = @ \o Entries(t)]
  <2>1. Entries(s \o t) = Entries(s) \o Entries(t)
    BY EntriesConcat
  <2> QED
    BY <1>2, <1>6, <2>1 DEF Book, LInv, IInv, TypeOK
<1>8. Ledger!Write(u, Entries(t))
  BY <1>3, <1>6, <1>7, WriteBook
<1>9. Ledger!IsOpen(u) <=> IsOpenBook(Entries(s))
  BY <1>2, OpenBook
<1>10. CASE Entries(t) = <<>>
  <2>1. Book[u] \o <<>> = Book[u]
    BY <1>2, EntriesTyped, ConcatEmptySeq DEF Book
  <2>2. Book' = Book
    BY <1>7, <1>10, <2>1 DEF Book
  <2> QED
    BY <1>6, <2>2
<1>11. CASE Entries(t) # <<>>
  <2>1. \/ Entries(t) = <<"CHECK_IN">> /\ ~ Ledger!IsOpen(u)
        \/ /\ Entries(t) \in {<<"CHECK_OUT">>, <<"AUTO_CLOSED">>, <<"AUTO_CLOSED", "CHECK_IN">>}
           /\ Ledger!IsOpen(u)
    BY <1>4, <1>5, <1>9, <1>11, EntriesOfCommit
  <2>2. \/ Ledger!CheckIn(u) \/ Ledger!CheckOut(u) \/ Ledger!AutoClose(u)
        \/ Ledger!AutoCloseAndCheckIn(u)
    BY <1>8, <2>1
    DEF Ledger!CheckIn, Ledger!CheckOut, Ledger!AutoClose, Ledger!AutoCloseAndCheckIn
  <2> QED
    BY <2>2 DEF Ledger!Next
<1> QED
  BY <1>10, <1>11

\* A deletion closes the book of its user for good.
LEMMA DeleteUserDeletes ==
  ASSUME LInv, NEW u \in User, DeleteUser(u)
  PROVE  Ledger!Next
<1>1. users[u] # "DELETED" /\ Present' = Present \ {u}
  BY DEF DeleteUser, Present, LInv, IInv, TypeOK
<1>2. events' = [events EXCEPT ![u] = <<>>]
  BY DEF DeleteUser
<1>3. Book' = [Book EXCEPT ![u] = <<>>]
  BY <1>2, EntriesOfNone DEF Book, LInv, IInv, TypeOK
<1>4. Ledger!Delete(u)
  BY <1>1, <1>3 DEF Ledger!Delete, Present, Book, Entries
<1> QED
  BY <1>4 DEF Ledger!Next

LEMMA NextWritesTheBook ==
  ASSUME LInv, [Next]_vars
  PROVE  Ledger!Next \/ UNCHANGED <<Book, Present>>
<1>1. ASSUME NEW p \in Process, Commits(p)
      PROVE  Ledger!Next \/ UNCHANGED <<Book, Present>>
  BY <1>1, CommitWritesTheBook
<1>2. ASSUME NEW u \in User, DeleteUser(u)
      PROVE  Ledger!Next \/ UNCHANGED <<Book, Present>>
  BY <1>2, DeleteUserDeletes
<1>3. ASSUME NEW u \in User, NEW status \in {"ACTIVE", "INACTIVE"},
             SetUserStatus(u, status)
      PROVE  UNCHANGED <<Book, Present>>
  <2>1. events' = events
    BY <1>3 DEF SetUserStatus
  <2>2. \A v \in User : users'[v] = "DELETED" <=> users[v] = "DELETED"
    BY <1>3 DEF SetUserStatus, LInv, IInv, TypeOK
  <2> QED
    BY <2>1, <2>2 DEF Book, Present
<1>4. ASSUME UNCHANGED <<events, users>> PROVE UNCHANGED <<Book, Present>>
  BY <1>4 DEF Book, Present
<1>5. \/ \E p \in Process : Commits(p)
      \/ \E u \in User : \/ DeleteUser(u)
                         \/ \E status \in {"ACTIVE", "INACTIVE"} : SetUserStatus(u, status)
      \/ UNCHANGED <<events, users>>
  BY DEF Next, Begin, Obtain, LockUser, UserMissing, Handle, AutoClose, NothingToClose,
     RefuseWrongState, ScanQr, RefusePresence, Refuse, RecordEvent, Abort, Sweep,
     Scan, NextCandidate, SkipUser, EndSweep, Crash, Administer, CreateLocation,
     UpdateLocation, RegenerateQr, Tick, rows, vars, Process, Commits
<1> QED
  BY <1>1, <1>2, <1>3, <1>4, <1>5

LEMMA InitWritesTheBook == ASSUME Init PROVE Ledger!Init
<1>1. Book = [u \in User |-> <<>>] /\ Present = User
  BY EntriesOfNone DEF Init, Book, Present
<1> QED
  BY <1>1 DEF Ledger!Init, Book, Present, Entries

\* Attendance implements the ledger: whatever runs concurrently, what is committed
\* about a user is a ledger in which every check-in is closed before the next.
THEOREM LedgerIsImplemented == Spec => ImplementsLedger
<1>1. Init => LInv /\ Ledger!Init
  BY InitLInv, InitWritesTheBook
<1>2. LInv /\ [Next]_vars => LInv'
  BY NextLInv
<1>3. LInv /\ [Next]_vars => [Ledger!Next]_<<Book, Present>>
  BY NextWritesTheBook
<1>4. LInv /\ [Next]_vars =>
        [Ledger!Next]_<<[u \in User |->
                            [i \in 1 .. Len(events[u]) |-> EntryOf(events[u][i])]],
                       {u \in User : users[u] # "DELETED"}>>
  BY <1>3 DEF Book, Present, Entries
<1> QED
  BY <1>1, <1>2, <1>4, PTL DEF Spec, ImplementsLedger, Ledger!LedgerSpec
-----------------------------------------------------------------------------
(* Attempts and verified events match *)

\* The events that the attempts on u have recorded.
Told(u) ==
  {<<req[r].type, outcome[r].at>> : r \in {q \in Request : Recorded(q) /\ req[q].user = u}}

Verified(s) ==
  {<<s[i].type, s[i].at>> : i \in {j \in DOMAIN s : s[j].status = "VERIFIED"}}

\* What p will have told when it commits.
WillTell(p) ==
  IF p \in Request /\ pc[p] = "committing" /\ outcome[p].success
  THEN {<<req[p].type, outcome[p].at>>} ELSE {}

ToldInv ==
  /\ \A u \in User : users[u] # "DELETED" => Told(u) = Verified(events[u])
  /\ \A p \in Process : pc[p] \in LockedPC => Verified(pending[p]) = WillTell(p)

LEMMA VerifiedOfNone == Verified(<<>>) = {}
BY DEF Verified

LEMMA VerifiedOfConcat ==
  ASSUME NEW s \in Seq(Event), NEW t \in Seq(Event)
  PROVE  Verified(s \o t) = Verified(s) \cup Verified(t)
<1>1. /\ Len(s) \in Nat /\ Len(t) \in Nat
      /\ DOMAIN s = 1 .. Len(s) /\ DOMAIN t = 1 .. Len(t)
      /\ DOMAIN (s \o t) = 1 .. Len(s) + Len(t)
      /\ \A i \in 1 .. Len(s) + Len(t) :
           (s \o t)[i] = IF i <= Len(s) THEN s[i] ELSE t[i - Len(s)]
  BY ConcatProperties, LenProperties
<1>2. \A i \in DOMAIN s : i \in DOMAIN (s \o t) /\ (s \o t)[i] = s[i]
  BY <1>1
<1>3. ASSUME NEW i \in DOMAIN t
      PROVE  i + Len(s) \in DOMAIN (s \o t) /\ (s \o t)[i + Len(s)] = t[i]
  <2>1. i + Len(s) \in 1 .. Len(s) + Len(t) /\ ~ i + Len(s) <= Len(s) /\ i + Len(s) - Len(s) = i
    BY <1>1
  <2> QED
    BY <1>1, <2>1
<1>4. ASSUME NEW i \in DOMAIN (s \o t)
      PROVE  \/ i \in DOMAIN s /\ (s \o t)[i] = s[i]
             \/ \E j \in DOMAIN t : (s \o t)[i] = t[j]
  <2>1. i \in DOMAIN s \/ i - Len(s) \in DOMAIN t
    BY <1>1
  <2> QED
    BY <1>1, <2>1
<1>5. Verified(s) \cup Verified(t) \subseteq Verified(s \o t)
  BY <1>2, <1>3 DEF Verified
<1>6. Verified(s \o t) \subseteq Verified(s) \cup Verified(t)
  BY <1>4 DEF Verified
<1> QED
  BY <1>5, <1>6

LEMMA VerifiedOfAppend ==
  ASSUME NEW s \in Seq(Event), NEW e \in Event
  PROVE  Verified(Append(s, e)) =
           Verified(s) \cup (IF e.status = "VERIFIED" THEN {<<e.type, e.at>>} ELSE {})
<1> DEFINE t == Append(s, e)
<1>1. /\ Len(s) \in Nat /\ DOMAIN s = 1 .. Len(s)
      /\ DOMAIN t = 1 .. Len(s) + 1
      /\ \A i \in 1 .. Len(s) : t[i] = s[i]
      /\ t[Len(s) + 1] = e
  BY LenProperties
<1> HIDE DEF t
<1>2. \A i \in DOMAIN s : i \in DOMAIN t /\ t[i] = s[i]
  BY <1>1
<1>3. Len(s) + 1 \in DOMAIN t /\ t[Len(s) + 1] = e
  BY <1>1
<1>4. \A i \in DOMAIN t : (i \in DOMAIN s /\ t[i] = s[i]) \/ t[i] = e
  BY <1>1
<1> QED
  BY <1>2, <1>3, <1>4 DEF Verified, t

\* No attempt records anything, and none that has is forgotten.
LEMMA ToldStays ==
  ASSUME \A q \in Request : Recorded(q)' <=> Recorded(q),
         \A q \in Request : Recorded(q) => req'[q] = req[q] /\ outcome'[q] = outcome[q]
  PROVE  \A u \in User : Told(u)' = Told(u)
BY DEF Told

\* A step of p that changes no committed event and is no success.
LEMMA QuietTelling ==
  ASSUME IInv, [Next]_vars, ToldInv, NEW p \in Process,
         \/ p \in Request /\ RequestSteps(p)
         \/ p \in Sweeper /\ SweeperSteps(p),
         events' = events, users' = users,
         p \in Request => ~Recorded(p) /\ ~Recorded(p)',
         pc'[p] \in LockedPC => Verified(pending[p])' = WillTell(p)'
  PROVE  ToldInv'
<1>1. \A q \in Process : q # p =>
        /\ pc'[q] = pc[q] /\ req'[q] = req[q] /\ pending'[q] = pending[q]
        /\ outcome'[q] = outcome[q]
  BY OneProcessSteps DEF IInv
<1>2. \A u \in User : Told(u)' = Told(u)
  <2>1. \A q \in Request : q # p =>
          (Recorded(q)' <=> Recorded(q)) /\ req'[q] = req[q] /\ outcome'[q] = outcome[q]
    BY <1>1 DEF Recorded, Process
  <2> QED
    BY <2>1, ToldStays
<1>3. ASSUME NEW q \in Process, pc'[q] \in LockedPC PROVE Verified(pending[q])' = WillTell(q)'
  <2>1. CASE q # p
    <3>1. pc[q] \in LockedPC /\ pending'[q] = pending[q] /\ WillTell(q)' = WillTell(q)
      BY <1>1, <1>3, <2>1 DEF WillTell
    <3> QED
      BY <3>1 DEF ToldInv, Verified
  <2> QED
    BY <1>3, <2>1
<1> QED
  BY <1>2, <1>3 DEF ToldInv, Verified

LEMMA CommitTells ==
  ASSUME IInv, [Next]_vars, ToldInv, NEW p \in Process, Commits(p),
         \/ p \in Request /\ RequestSteps(p)
         \/ p \in Sweeper /\ SweeperSteps(p)
  PROVE  ToldInv'
<1> DEFINE x == req[p].user
<1>0. PICK next \in PC \ OpenPC :
        /\ Publish(p, next)
        /\ p \in Request => next \in {"answered", "lost"}
        /\ p \in Sweeper => next = "sweeping"
  BY CommitsPublish
<1>1. /\ TypeOK /\ pc[p] = "committing" /\ pc[p] \in LockedPC /\ pc[p] \in OpenPC
  BY <1>0 DEF Publish, IInv, OpenPC, LockedPC
<1>2. /\ x \in User /\ users' = users /\ users[x] # "DELETED"
      /\ events' = [events EXCEPT ![x] = View(p)]
      /\ req' = req /\ outcome' = outcome
      /\ pc' = [pc EXCEPT ![p] = next]
  BY <1>0, <1>1, HasUser DEF Publish, Close, IInv, LockInv
<1>3. \A q \in Process : q # p => pc'[q] = pc[q] /\ pending'[q] = pending[q]
  BY OneProcessSteps DEF IInv
<1>4. Verified(events'[x]) = Told(x) \cup WillTell(p)
  <2>1. events'[x] = events[x] \o pending[p] /\ events[x] \in Seq(Event) /\ pending[p] \in Seq(Event)
    BY <1>1, <1>2 DEF TypeOK, View
  <2> QED
    <3>1. Verified(events[x]) = Told(x) /\ Verified(pending[p]) = WillTell(p)
      BY <1>1, <1>2 DEF ToldInv
    <3>2. Verified(events[x] \o pending[p]) = Verified(events[x]) \cup Verified(pending[p])
      BY <2>1, VerifiedOfConcat
    <3> QED
      BY <2>1, <3>1, <3>2
<1>5. \A q \in Request : Recorded(q)' <=> Recorded(q) \/ (q = p /\ outcome[p].success)
  BY <1>0, <1>1, <1>2, <1>3 DEF Recorded, Process, TypeOK
<1>6. Told(x)' = Told(x) \cup WillTell(p)
  <2>1. ~ p \in Request \/ ~Recorded(p)
    BY <1>1 DEF Recorded
  <2> QED
    BY <1>1, <1>2, <1>5 DEF Told, WillTell
<1>7. \A u \in User : u # x => Told(u)' = Told(u)
  BY <1>2, <1>5 DEF Told
<1>8. ASSUME NEW u \in User, users'[u] # "DELETED" PROVE Told(u)' = Verified(events[u])'
  <2>1. CASE u = x
    <3>1. Verified(events[u])' = Verified(events'[u]) /\ Verified(events'[u]) = Told(x) \cup WillTell(p)
      BY <1>4, <2>1 DEF Verified
    <3>2. Told(u)' = Told(x) \cup WillTell(p)
      BY <1>2, <1>5, <2>1, <1>6
    <3> QED
      BY <3>1, <3>2
  <2>2. CASE u # x
    <3>1. events'[u] = events[u]
      BY <1>1, <1>2, <2>2 DEF TypeOK
    <3> QED
      BY <1>2, <1>7, <1>8, <2>2, <3>1 DEF ToldInv, Verified
  <2> QED
    BY <2>1, <2>2
<1>9. ASSUME NEW q \in Process, pc'[q] \in LockedPC PROVE Verified(pending[q])' = WillTell(q)'
  <2>1. q # p
    BY <1>0, <1>1, <1>2, <1>9 DEF TypeOK, LockedPC, OpenPC
  <2>2. pc[q] \in LockedPC /\ pending'[q] = pending[q] /\ WillTell(q)' = WillTell(q)
    BY <1>2, <1>3, <1>9, <2>1 DEF WillTell
  <2> QED
    BY <2>2 DEF ToldInv, Verified
<1> QED
  BY <1>8, <1>9 DEF ToldInv

LEMMA InsertVerified ==
  ASSUME IInv, NEW p \in Process, NEW type \in EventType,
         NEW status \in {"VERIFIED", "AUTO_CLOSED"}, NEW cutoff \in Nat, NEW action,
         pc[p] \in LockedPC,
         Insert(p, type, status, cutoff, action)
  PROVE  Verified(pending'[p]) = Verified(pending[p]) \cup
           (IF status = "VERIFIED" THEN {<<type, clock + 1>>} ELSE {})
<1> DEFINE e == [type |-> type, status |-> status, at |-> clock + 1,
                 created |-> req[p].started, cutoff |-> cutoff]
<1>1. pending'[p] = Append(pending[p], e) /\ pending[p] \in Seq(Event)
  BY DEF Insert, IInv, TypeOK
<1>2. e \in Event
  <2>1. req[p].started \in Nat
    BY DEF IInv, WorkInv, LockedPC, Attempt, Candidate, Process
  <2> QED
    BY <2>1 DEF IInv, TypeOK, Event
<1>3. e.status = status /\ e.type = type /\ e.at = clock + 1
  OBVIOUS
<1> HIDE DEF e
<1> QED
  BY <1>1, <1>2, <1>3, VerifiedOfAppend

LEMMA NextToldInv == ASSUME IInv, [Next]_vars, ToldInv PROVE ToldInv'
<1>1. TypeOK /\ IInv'
  BY NextInv DEF IInv
<1>2. ASSUME NEW r \in Request, RequestSteps(r) PROVE ToldInv'
  <2>1. r \in Process /\ r \notin Sweeper
    BY ProcessAssumption DEF Process
  <2>2. CASE Commits(r)
    BY <1>2, <2>1, <2>2, CommitTells
  <2>3. CASE ~Commits(r)
    <3>1. events' = events /\ users' = users
      BY <1>2, <2>3
      DEF RequestSteps, Begin, Obtain, LockUser, UserMissing, Handle, AutoClose, NothingToClose,
          RefuseWrongState, RefusePresence, Refuse, ScanQr, RecordEvent, Abort, rows, Commits
    <3>2. ~Recorded(r)
      BY <1>2, <2>3
      DEF RequestSteps, Begin, Obtain, LockUser, UserMissing, Handle, AutoClose, NothingToClose,
          RefuseWrongState, RefusePresence, ScanQr, RecordEvent, Abort, OpenPC, Recorded,
          Commits
    <3>3. ~Recorded(r)' /\ (pc'[r] \in LockedPC => Verified(pending[r])' = WillTell(r)')
      <4>1. CASE Begin(r) \/ UserMissing(r) \/ Abort(r)
        <5>1. pc'[r] \in {"waiting", "failed"} \/ (pc'[r] = "answered" /\ outcome'[r].success = FALSE)
          <6>1. CASE Begin(r)
            BY <1>1, <2>1, <6>1 DEF Begin, TypeOK
          <6>2. CASE UserMissing(r)
            BY <1>1, <2>1, <6>2 DEF UserMissing, Close, After, NoOutcome, TypeOK
          <6>3. CASE Abort(r)
            BY <1>1, <2>1, <6>3 DEF Abort, Close, After, TypeOK
          <6> QED
            BY <4>1, <6>1, <6>2, <6>3
        <5> QED
          BY <5>1 DEF Recorded, LockedPC, OpenPC
      <4>2. CASE LockUser(r) \/ NothingToClose(r) \/ ScanQr(r)
        <5>1. /\ pc'[r] \in {"locked", "checked", "scanned"} /\ pending' = pending
              /\ (pc[r] = "waiting" \/ pc[r] \in LockedPC \ {"committing"})
          BY <1>1, <2>1, <4>2 DEF LockUser, NothingToClose, ScanQr, TypeOK, LockedPC, OpenPC
        <5>2. Verified(pending[r]) = {}
          <6>1. CASE pc[r] = "waiting"
            BY <2>1, <6>1, VerifiedOfNone DEF IInv, PendingInv, LockedPC
          <6> QED
            BY <2>1, <5>1, <6>1 DEF ToldInv, WillTell
        <5> QED
          BY <5>1, <5>2 DEF Verified, WillTell, Recorded
      <4>3. CASE AutoClose(r)
        <5>1. /\ pc'[r] = "checked" /\ pc[r] = "locked" /\ pc[r] \in LockedPC
              /\ TenantOf[req[r].user] \in Tenant
              /\ Insert(r, "CHECK_OUT", "AUTO_CLOSED", MaxShift(TenantOf[req[r].user]),
                        "ATTENDANCE_AUTO_CLOSED")
          BY <1>1, <2>1, <4>3, HasUser, TenantAssumption
          DEF AutoClose, TypeOK, LockedPC, OpenPC, IInv
        <5>2. Verified(pending'[r]) = Verified(pending[r])
          BY <2>1, <5>1, MaxShiftTyped, InsertVerified DEF EventType, IInv
        <5>3. Verified(pending[r]) = {}
          BY <2>1, <5>1 DEF ToldInv, WillTell
        <5> QED
          BY <5>1, <5>2, <5>3 DEF Verified, WillTell, Recorded
      <4>4. CASE RefuseWrongState(r) \/ RefusePresence(r)
        <5>1. /\ pc'[r] = "committing" /\ outcome'[r].success = FALSE /\ pending' = pending
              /\ pc[r] \in LockedPC \ {"committing"}
          BY <1>1, <2>1, <4>4 DEF RefuseWrongState, RefusePresence, Refuse, TypeOK, LockedPC, OpenPC
        <5>2. Verified(pending[r]) = {}
          BY <2>1, <5>1 DEF ToldInv, WillTell
        <5> QED
          BY <5>1, <5>2 DEF Verified, WillTell, Recorded
      <4>5. CASE RecordEvent(r)
        <5>1. /\ pc[r] = "scanned" /\ pc[r] \in LockedPC /\ pc[r] \in OpenPC
              /\ Insert(r, req[r].type, "VERIFIED", 0, SuccessAction[req[r].type])
              /\ pc'[r] = "committing" /\ req' = req
              /\ outcome'[r].success = TRUE /\ outcome'[r].at = clock'
              /\ clock' = clock + 1
          BY <1>1, <2>1, <4>5 DEF RecordEvent, Insert, TypeOK, LockedPC, OpenPC
        <5>2. req[r].type \in EventType
          BY <5>1 DEF IInv, WorkInv, Attempt
        <5>3. Verified(pending'[r]) = Verified(pending[r]) \cup {<<req[r].type, clock + 1>>}
          BY <2>1, <5>1, <5>2, InsertVerified
        <5>4. Verified(pending[r]) = {}
          BY <2>1, <5>1 DEF ToldInv, WillTell
        <5> QED
          BY <5>1, <5>3, <5>4 DEF Verified, WillTell, Recorded
      <4> QED
        BY <1>2, <2>3, <4>1, <4>2, <4>3, <4>4, <4>5
        DEF RequestSteps, Obtain, Handle, Commits
    <3> QED
      BY <1>2, <2>1, <3>1, <3>2, <3>3, QuietTelling
  <2> QED
    BY <2>2, <2>3
<1>3. ASSUME NEW s \in Sweeper, SweeperSteps(s) PROVE ToldInv'
  <2>1. s \in Process /\ s \notin Request /\ WillTell(s) = {} /\ WillTell(s)' = {}
    BY ProcessAssumption DEF Process, WillTell
  <2>2. CASE Commits(s)
    BY <1>3, <2>1, <2>2, CommitTells
  <2>3. CASE ~Commits(s)
    <3>1. events' = events /\ users' = users
      BY <1>3, <2>3
      DEF SweeperSteps, Sweep, Scan, NextCandidate, AutoClose, SkipUser, EndSweep, Obtain, LockUser,
          UserMissing, Abort, Crash, rows, Commits
    <3>2. ASSUME pc'[s] \in LockedPC PROVE Verified(pending'[s]) = {}
      <4>1. CASE LockUser(s)
        <5>1. pending' = pending /\ pc[s] = "waiting"
          BY <4>1 DEF LockUser
        <5> QED
          BY <2>1, <5>1, VerifiedOfNone DEF IInv, PendingInv, LockedPC
      <4>2. CASE AutoClose(s)
        <5>1. /\ pc[s] = "locked" /\ pc[s] \in LockedPC /\ TenantOf[req[s].user] \in Tenant
              /\ Insert(s, "CHECK_OUT", "AUTO_CLOSED", MaxShift(TenantOf[req[s].user]),
                        "ATTENDANCE_AUTO_CLOSED")
          BY <1>1, <2>1, <4>2, HasUser, TenantAssumption
          DEF AutoClose, TypeOK, LockedPC, OpenPC, IInv
        <5>2. Verified(pending'[s]) = Verified(pending[s])
          BY <2>1, <5>1, MaxShiftTyped, InsertVerified DEF EventType, IInv
        <5> QED
          BY <2>1, <5>1, <5>2 DEF ToldInv
      <4>3. ASSUME ~LockUser(s), ~AutoClose(s) PROVE pc'[s] \notin LockedPC
        <5>1. pc'[s] \in {"idle", "sweeping", "waiting"}
          BY <1>1, <1>3, <2>1, <2>3, <4>3
          DEF SweeperSteps, Sweep, Scan, NextCandidate, SkipUser, EndSweep, Obtain,
              UserMissing, Abort, Crash, Close, After, TypeOK, Commits
        <5> QED
          BY <5>1 DEF LockedPC, OpenPC
      <4> QED
        BY <3>2, <4>1, <4>2, <4>3
    <3> QED
      BY <1>3, <2>1, <3>1, <3>2, QuietTelling DEF Verified
  <2> QED
    BY <2>2, <2>3
<1>4. ASSUME Administer \/ Tick \/ UNCHANGED vars PROVE ToldInv'
  <2>1. UNCHANGED <<pc, req, pending, outcome>>
    BY <1>4, OutsideSteps
  <2>2. \A u \in User : Told(u)' = Told(u)
    BY <2>1, ToldStays DEF Recorded
  <2>3. \A p \in Process : pc'[p] \in LockedPC => Verified(pending[p])' = WillTell(p)'
    BY <2>1 DEF ToldInv, Verified, WillTell
  <2>4. \A u \in User : users'[u] # "DELETED" => users[u] # "DELETED" /\ events'[u] = events[u]
    BY <1>1, <1>4
    DEF Administer, SetUserStatus, DeleteUser, CreateLocation, UpdateLocation, RegenerateQr,
        Tick, vars, rows, TypeOK
  <2> QED
    BY <2>2, <2>3, <2>4 DEF ToldInv, Verified
<1> QED
  BY <1>2, <1>3, <1>4 DEF Next, RequestSteps, SweeperSteps

\* Whoever was told of a success finds the event as long as the user exists; and a
\* verified event of which nobody was told is one whose answer was lost after the
\* commit, never that of an attempt that was refused or rolled back.
THEOREM SuccessesMatchEvents == Spec => []SuccessesAreTheEvents
<1>1. Init => IInv /\ ToldInv
  BY InitInv DEF Init, ToldInv, Told, Verified, Recorded, LockedPC, OpenPC, Process
<1>2. IInv /\ ToldInv /\ [Next]_vars => (IInv /\ ToldInv)'
  BY NextInv, NextToldInv
<1>3. ToldInv => SuccessesAreTheEvents
  BY DEF ToldInv, Told, Verified, SuccessesAreTheEvents
<1> QED
  BY <1>1, <1>2, <1>3, PTL DEF Spec

-----------------------------------------------------------------------------
(* The audit trail *)

\* The trail of p's user as p will leave it.
Trail(p) == audit[req[p].user] \o logged[p]

TrailInv ==
  /\ \A u \in User : users[u] # "DELETED" => Tells(audit[u], events[u])
  /\ \A p \in Process : pc[p] \in LockedPC => Tells(Trail(p), View(p))

LEMMA TellsNothing == Tells(<<>>, <<>>)
<1>1. EventRows(<<>>) = {} /\ Len(<<>>) = 0
  BY EmptySeq DEF EventRows
<1> QED
  BY <1>1, FS_EmptySet DEF Tells

\* The rows of a longer trail.
LEMMA RowsOfAppend ==
  ASSUME NEW trail \in Seq(AuditAction), NEW action \in AuditAction
  PROVE  /\ Len(trail) \in Nat /\ EventRows(trail) \in SUBSET (1 .. Len(trail))
         /\ IsFiniteSet(EventRows(trail)) /\ Cardinality(EventRows(trail)) \in Nat
         /\ EventRows(Append(trail, action)) =
              EventRows(trail) \cup (IF action \in EventAction THEN {Len(trail) + 1} ELSE {})
         /\ \A i \in EventRows(trail) : Append(trail, action)[i] = trail[i]
         /\ Append(trail, action)[Len(trail) + 1] = action
<1> DEFINE t == Append(trail, action)
<1>1. /\ Len(trail) \in Nat /\ DOMAIN trail = 1 .. Len(trail)
      /\ DOMAIN t = 1 .. Len(trail) + 1
      /\ \A i \in 1 .. Len(trail) : t[i] = trail[i]
      /\ t[Len(trail) + 1] = action
  BY LenProperties
<1>2. EventRows(trail) \in SUBSET (1 .. Len(trail))
  BY <1>1 DEF EventRows
<1>3. IsFiniteSet(EventRows(trail)) /\ Cardinality(EventRows(trail)) \in Nat
  <2>1. IsFiniteSet(1 .. Len(trail))
    BY <1>1, FS_Interval
  <2> QED
    BY <1>2, <2>1, FS_Subset, FS_CardinalityType
<1> HIDE DEF t
<1>4. EventRows(t) = EventRows(trail) \cup (IF action \in EventAction THEN {Len(trail) + 1} ELSE {})
  BY <1>1 DEF EventRows
<1> QED
  BY <1>1, <1>2, <1>3, <1>4 DEF t

\* A failed attempt is told between the events.
LEMMA FailureIsTold ==
  ASSUME NEW trail \in Seq(AuditAction), NEW action \in AuditAction \ EventAction,
         NEW s, Tells(trail, s)
  PROVE  Tells(Append(trail, action), s)
<1>1. /\ EventRows(Append(trail, action)) = EventRows(trail)
      /\ \A i \in EventRows(trail) : Append(trail, action)[i] = trail[i]
  BY RowsOfAppend
<1> QED
  BY <1>1 DEF Tells

LEMMA EventIsTold ==
  ASSUME NEW trail \in Seq(AuditAction), NEW s \in Seq(Event), NEW e \in Event,
         NEW action \in EventAction \cap AuditAction, action = ActionOf(e), Tells(trail, s)
  PROVE  Tells(Append(trail, action), Append(s, e))
<1> DEFINE t == Append(trail, action)
           n == Len(trail) + 1
           Upto(told, i) == {j \in told : j <= i}
<1>1. /\ Len(trail) \in Nat /\ EventRows(trail) \in SUBSET (1 .. Len(trail))
      /\ IsFiniteSet(EventRows(trail)) /\ Cardinality(EventRows(trail)) \in Nat
      /\ EventRows(t) = EventRows(trail) \cup {n}
      /\ \A i \in EventRows(trail) : t[i] = trail[i]
      /\ t[n] = action
  BY RowsOfAppend
<1>2. /\ Len(s) \in Nat /\ Len(Append(s, e)) = Len(s) + 1
      /\ \A i \in 1 .. Len(s) : Append(s, e)[i] = s[i]
      /\ Append(s, e)[Len(s) + 1] = e
  BY AppendProperties, LenProperties
<1>3. n \notin EventRows(trail)
  BY <1>1
<1>4. Cardinality(EventRows(t)) = Len(s) + 1
  <2>1. Cardinality(EventRows(trail) \cup {n}) = Cardinality(EventRows(trail)) + 1
    <3> HIDE DEF n
    <3> QED
      BY <1>1, <1>3, FS_AddElement
  <2>2. Cardinality(EventRows(trail)) = Len(s)
    BY DEF Tells
  <2> HIDE DEF t, n
  <2> QED
    BY <1>1, <2>1, <2>2
<1>5. ASSUME NEW i \in EventRows(trail)
      PROVE  /\ Upto(EventRows(t), i) = Upto(EventRows(trail), i)
             /\ Cardinality(Upto(EventRows(trail), i)) \in 1 .. Len(s)
  <2>1. Upto(EventRows(t), i) = Upto(EventRows(trail), i)
    BY <1>1, <1>5
  <2>2. /\ Upto(EventRows(trail), i) \in SUBSET EventRows(trail)
        /\ i \in Upto(EventRows(trail), i)
    BY <1>1, <1>5
  <2> HIDE DEF Upto
  <2>3. /\ IsFiniteSet(Upto(EventRows(trail), i))
        /\ Cardinality(Upto(EventRows(trail), i)) \in Nat
        /\ Cardinality(Upto(EventRows(trail), i)) <= Len(s)
    BY <1>1, <2>2, FS_Subset, FS_CardinalityType DEF Tells
  <2>4. Cardinality(Upto(EventRows(trail), i)) # 0
    BY <2>2, <2>3, FS_EmptySet
  <2> QED
    BY <1>2, <2>1, <2>3, <2>4
<1>6. Upto(EventRows(t), n) = EventRows(t)
  BY <1>1
<1>7. ASSUME NEW i \in EventRows(t)
      PROVE  t[i] = ActionOf(Append(s, e)[Cardinality(Upto(EventRows(t), i))])
  <2>1. CASE i = n
    BY <1>1, <1>2, <1>4, <1>6, <2>1
  <2>2. CASE i # n
    <3>1. i \in EventRows(trail) /\ t[i] = trail[i]
      BY <1>1, <1>7, <2>2
    <3>2. trail[i] = ActionOf(s[Cardinality(Upto(EventRows(trail), i))])
      BY <3>1 DEF Tells
    <3> HIDE DEF Upto, t
    <3> QED
      BY <1>2, <1>5, <3>1, <3>2
  <2> QED
    BY <2>1, <2>2
<1> QED
  BY <1>2, <1>4, <1>7 DEF Tells

LEMMA AppendTrail ==
  ASSUME NEW s \in Seq(AuditAction), NEW t \in Seq(AuditAction), NEW action \in AuditAction
  PROVE  s \o Append(t, action) = Append(s \o t, action)
BY AppendConcat

LEMMA TrailTyped ==
  ASSUME TypeOK, NEW p \in Process, req[p].user \in User
  PROVE  /\ audit[req[p].user] \in Seq(AuditAction) /\ logged[p] \in Seq(AuditAction)
         /\ Trail(p) \in Seq(AuditAction)
<1>1. audit[req[p].user] \in Seq(AuditAction) /\ logged[p] \in Seq(AuditAction)
  BY DEF TypeOK
<1> QED
  BY <1>1, ConcatProperties DEF Trail

\* An event and the row about it, in one step.
LEMMA InsertTells ==
  ASSUME IInv, NEW p \in Process, NEW type \in EventType,
         NEW status \in {"VERIFIED", "AUTO_CLOSED"}, NEW cutoff \in Nat,
         NEW action \in EventAction,
         action = IF status = "AUTO_CLOSED" THEN "ATTENDANCE_AUTO_CLOSED"
                  ELSE SuccessAction[type],
         pc[p] \in LockedPC, Tells(Trail(p), View(p)),
         Insert(p, type, status, cutoff, action),
         req' = req, events' = events, audit' = audit
  PROVE  Tells(Trail(p)', View(p)')
<1> DEFINE e == [type |-> type, status |-> status, at |-> clock + 1,
                 created |-> req[p].started, cutoff |-> cutoff]
<1>1. TypeOK /\ req[p].user \in User /\ req[p].started \in Nat
  BY HasUser DEF IInv, LockedPC
<1>2. e \in Event /\ ActionOf(e) = action
  BY <1>1 DEF TypeOK, Event, ActionOf
<1>3. action \in AuditAction
  BY DEF EventAction, AuditAction
<1>4. pending'[p] = Append(pending[p], e) /\ logged'[p] = Append(logged[p], action)
  BY <1>1 DEF Insert, TypeOK
<1> HIDE DEF e
<1>5. View(p)' = Append(View(p), e)
  <2>1. events[req[p].user] \in Seq(Event) /\ pending[p] \in Seq(Event)
    BY <1>1 DEF TypeOK
  <2>2. events[req[p].user] \o Append(pending[p], e) = Append(events[req[p].user] \o pending[p], e)
    BY <1>2, <2>1, AppendView
  <2> QED
    BY <1>4, <2>2 DEF View
<1>6. Trail(p)' = Append(Trail(p), action)
  <2>1. /\ audit[req[p].user] \in Seq(AuditAction) /\ logged[p] \in Seq(AuditAction)
        /\ action \in AuditAction
    BY <1>1, <1>3, TrailTyped
  <2>2. audit[req[p].user] \o Append(logged[p], action)
          = Append(audit[req[p].user] \o logged[p], action)
    BY <2>1, AppendTrail
  <2> QED
    BY <1>4, <2>2 DEF Trail
<1>7. Trail(p) \in Seq(AuditAction) /\ View(p) \in Seq(Event)
  BY <1>1, TrailTyped, ViewTyped
<1> QED
  BY <1>2, <1>3, <1>5, <1>6, <1>7, EventIsTold

LEMMA RefusalTells ==
  ASSUME IInv, NEW r \in Request, pc[r] \in LockedPC, Tells(Trail(r), View(r)),
         NEW reason, Refuse(r, reason)
  PROVE  Tells(Trail(r)', View(r)')
<1> DEFINE action == FailureAction[req[r].type]
<1>1. TypeOK /\ r \in Process /\ req[r].user \in User
  BY HasUser DEF IInv, LockedPC, Process
<1>2. action \in AuditAction \ EventAction
  <2>1. req[r].type \in {"CHECK_IN", "CHECK_OUT"}
    BY DEF IInv, WorkInv, LockedPC, Attempt, EventType
  <2> QED
    BY <2>1 DEF FailureAction, AuditAction, EventAction
<1>3. logged'[r] = Append(logged[r], action) /\ UNCHANGED <<req, events, audit, pending>>
  BY <1>1 DEF Refuse, TypeOK, rows
<1> HIDE DEF action
<1>4. Trail(r)' = Append(Trail(r), action)
  <2>1. /\ audit[req[r].user] \in Seq(AuditAction) /\ logged[r] \in Seq(AuditAction)
        /\ action \in AuditAction
    BY <1>1, <1>2, TrailTyped
  <2>2. audit[req[r].user] \o Append(logged[r], action)
          = Append(audit[req[r].user] \o logged[r], action)
    BY <2>1, AppendTrail
  <2> QED
    BY <1>3, <2>2 DEF Trail
<1>5. View(r)' = View(r)
  BY <1>3 DEF View
<1> QED
  BY <1>1, <1>2, <1>4, <1>5, TrailTyped, FailureIsTold

\* A step of p that commits nothing.
LEMMA QuietTrail ==
  ASSUME IInv, TrailInv, NEW p \in Process,
         \/ p \in Request /\ RequestSteps(p)
         \/ p \in Sweeper /\ SweeperSteps(p),
         UNCHANGED <<events, users, audit>>,
         pc'[p] \in LockedPC => Tells(Trail(p)', View(p)')
  PROVE  TrailInv'
<1>1. \A q \in Process : q # p =>
        /\ pc'[q] = pc[q] /\ req'[q] = req[q] /\ pending'[q] = pending[q]
        /\ logged'[q] = logged[q]
  BY OneProcessSteps DEF IInv
<1>2. ASSUME NEW q \in Process, pc'[q] \in LockedPC PROVE Tells(Trail(q)', View(q)')
  <2>1. CASE q # p
    <3>1. pc[q] \in LockedPC /\ Trail(q)' = Trail(q) /\ View(q)' = View(q)
      BY <1>1, <1>2, <2>1 DEF Trail, View
    <3> QED
      BY <3>1 DEF TrailInv
  <2> QED
    BY <1>2, <2>1
<1>3. \A u \in User : users'[u] # "DELETED" => Tells(audit'[u], events'[u])
  BY DEF TrailInv
<1> QED
  BY <1>2, <1>3 DEF TrailInv, Tells

LEMMA CommitTrail ==
  ASSUME IInv, TrailInv, NEW p \in Process, Commits(p),
         \/ p \in Request /\ RequestSteps(p)
         \/ p \in Sweeper /\ SweeperSteps(p)
  PROVE  TrailInv'
<1> DEFINE x == req[p].user
<1>0. PICK next \in PC \ OpenPC : Publish(p, next)
  BY CommitsPublish
<1>1. /\ TypeOK /\ pc[p] \in LockedPC /\ x \in User /\ lock[x] = p
  BY <1>0, HasUser DEF Publish, IInv, OpenPC, LockedPC, LockInv
<1>2. /\ users' = users /\ req' = req /\ pc'[p] \notin LockedPC
      /\ events'[x] = View(p) /\ audit'[x] = Trail(p)
      /\ \A u \in User : u # x => events'[u] = events[u] /\ audit'[u] = audit[u]
  BY <1>0, <1>1 DEF Publish, Close, TypeOK, Trail, LockedPC, OpenPC
<1>3. \A q \in Process : q # p =>
        pc'[q] = pc[q] /\ pending'[q] = pending[q] /\ logged'[q] = logged[q]
  BY OneProcessSteps DEF IInv
<1>4. \A u \in User : users'[u] # "DELETED" => Tells(audit'[u], events'[u])
  <2>1. Tells(Trail(p), View(p))
    BY <1>1 DEF TrailInv
  <2> QED
    BY <1>2, <2>1 DEF TrailInv
<1>5. ASSUME NEW q \in Process, pc'[q] \in LockedPC PROVE Tells(Trail(q)', View(q)')
  <2>1. q # p /\ pc[q] \in LockedPC
    BY <1>2, <1>3, <1>5
  <2>2. req[q].user \in User /\ req[q].user # x
    BY <1>1, <2>1, HasUser DEF IInv, LockInv, LockedPC
  <2>3. Trail(q)' = Trail(q) /\ View(q)' = View(q)
    BY <1>2, <1>3, <2>1, <2>2 DEF Trail, View
  <2> QED
    BY <2>1, <2>3 DEF TrailInv
<1> QED
  BY <1>4, <1>5 DEF TrailInv, Tells

\* The transaction has just taken the lock: it sees what is committed.
LEMMA LockedTrail ==
  ASSUME IInv, TrailInv, NEW p \in Process, LockUser(p)
  PROVE  Tells(Trail(p)', View(p)')
<1>1. /\ TypeOK /\ req[p].user \in User /\ users[req[p].user] # "DELETED"
      /\ pending[p] = <<>> /\ logged[p] = <<>>
      /\ UNCHANGED <<req, events, audit, pending, logged>>
  BY HasUser DEF LockUser, IInv, OpenPC, LockedPC, PendingInv, rows
<1>2. Trail(p)' = audit[req[p].user] /\ View(p)' = events[req[p].user]
  <2>1. audit[req[p].user] \o <<>> = audit[req[p].user]
    BY <1>1, ConcatEmptySeq DEF TypeOK
  <2>2. events[req[p].user] \o <<>> = events[req[p].user]
    BY <1>1, ConcatEmptySeq DEF TypeOK
  <2> QED
    BY <1>1, <2>1, <2>2 DEF Trail, View
<1> QED
  BY <1>1, <1>2 DEF TrailInv

LEMMA AutoCloseTells ==
  ASSUME IInv, TrailInv, NEW p \in Process, AutoClose(p)
  PROVE  Tells(Trail(p)', View(p)')
<1>1. /\ pc[p] \in LockedPC /\ pc[p] \in OpenPC /\ TypeOK
      /\ Insert(p, "CHECK_OUT", "AUTO_CLOSED", MaxShift(TenantOf[req[p].user]),
                "ATTENDANCE_AUTO_CLOSED")
      /\ UNCHANGED <<req, events, audit>>
  BY DEF AutoClose, LockedPC, OpenPC, rows, IInv
<1>2. MaxShift(TenantOf[req[p].user]) \in Nat
  BY <1>1, HasUser, TenantAssumption, MaxShiftTyped DEF IInv
<1>3. Tells(Trail(p), View(p))
  BY <1>1 DEF TrailInv
<1>4. "CHECK_OUT" \in EventType /\ "ATTENDANCE_AUTO_CLOSED" \in EventAction
  BY DEF EventType, EventAction
<1> QED
  BY <1>1, <1>2, <1>3, <1>4, InsertTells

LEMMA NextTrailInv == ASSUME IInv, [Next]_vars, TrailInv PROVE TrailInv'
<1>1. TypeOK
  BY DEF IInv
<1>2. ASSUME NEW r \in Request, RequestSteps(r) PROVE TrailInv'
  <2>1. r \in Process /\ r \notin Sweeper
    BY ProcessAssumption DEF Process
  <2>2. CASE Commits(r)
    BY <1>2, <2>1, <2>2, CommitTrail
  <2>3. CASE ~Commits(r)
    <3>1. UNCHANGED <<events, users, audit>>
      BY <1>2, <2>3
      DEF RequestSteps, Begin, Obtain, LockUser, UserMissing, Handle, AutoClose, NothingToClose,
          RefuseWrongState, RefusePresence, Refuse, ScanQr, RecordEvent, Abort, rows, Commits
    <3>2. ASSUME pc'[r] \in LockedPC PROVE Tells(Trail(r)', View(r)')
      <4>1. ~Begin(r) /\ ~UserMissing(r) /\ ~Abort(r)
        <5>1. Begin(r) \/ UserMissing(r) \/ Abort(r) =>
                pc'[r] \in {"waiting", "answered", "failed"}
          BY <1>1, <2>1 DEF Begin, UserMissing, Abort, Close, After, TypeOK
        <5> QED
          BY <3>2, <5>1 DEF LockedPC, OpenPC
      <4>2. CASE NothingToClose(r) \/ ScanQr(r)
        <5>1. /\ pc[r] \in LockedPC /\ UNCHANGED <<req, pending, logged>>
          BY <4>2 DEF NothingToClose, ScanQr, LockedPC, OpenPC
        <5>2. Trail(r)' = Trail(r) /\ View(r)' = View(r)
          BY <3>1, <5>1 DEF Trail, View
        <5> QED
          BY <2>1, <5>1, <5>2 DEF TrailInv
      <4>3. CASE RefuseWrongState(r) \/ RefusePresence(r)
        <5>1. pc[r] \in LockedPC /\ \E reason : Refuse(r, reason)
          BY <4>3 DEF RefuseWrongState, RefusePresence, LockedPC, OpenPC
        <5>2. Tells(Trail(r), View(r))
          BY <2>1, <5>1 DEF TrailInv
        <5> QED
          BY <5>1, <5>2, RefusalTells
      <4>4. CASE RecordEvent(r)
        <5>1. /\ pc[r] \in LockedPC /\ pc[r] = "scanned"
              /\ Insert(r, req[r].type, "VERIFIED", 0, SuccessAction[req[r].type])
              /\ UNCHANGED <<req, events, audit>>
          BY <4>4 DEF RecordEvent, LockedPC, OpenPC, rows
        <5>2. req[r].type \in EventType
          BY <5>1 DEF IInv, WorkInv, Attempt, OpenPC
        <5>3. SuccessAction[req[r].type] \in EventAction
          BY <5>2 DEF EventType, SuccessAction, EventAction
        <5>4. Tells(Trail(r), View(r))
          BY <2>1, <5>1 DEF TrailInv
        <5> QED
          BY <2>1, <5>1, <5>2, <5>3, <5>4, InsertTells
      <4> QED
        BY <1>2, <2>1, <2>3, <4>1, <4>2, <4>3, <4>4, LockedTrail, AutoCloseTells
        DEF RequestSteps, Obtain, Handle, Commits
    <3> QED
      BY <1>2, <2>1, <3>1, <3>2, QuietTrail
  <2> QED
    BY <2>2, <2>3
<1>3. ASSUME NEW s \in Sweeper, SweeperSteps(s) PROVE TrailInv'
  <2>1. s \in Process
    BY DEF Process
  <2>2. CASE Commits(s)
    BY <1>3, <2>1, <2>2, CommitTrail
  <2>3. CASE ~Commits(s)
    <3>1. UNCHANGED <<events, users, audit>>
      BY <1>3, <2>3
      DEF SweeperSteps, Sweep, Scan, NextCandidate, AutoClose, SkipUser, EndSweep, Obtain, LockUser,
          UserMissing, Abort, Crash, rows, Commits
    <3>2. LockUser(s) \/ AutoClose(s) \/ pc'[s] \in {"idle", "sweeping", "waiting"}
      BY <1>1, <1>3, <2>1, <2>3
      DEF SweeperSteps, Sweep, Scan, NextCandidate, SkipUser, EndSweep, Obtain,
          UserMissing, Abort, Crash, Close, After, TypeOK, Commits
    <3>3. pc'[s] \in LockedPC => Tells(Trail(s)', View(s)')
      BY <2>1, <3>2, LockedTrail, AutoCloseTells DEF LockedPC, OpenPC
    <3> QED
      BY <1>3, <2>1, <3>1, <3>3, QuietTrail
  <2> QED
    BY <2>2, <2>3
<1>4. ASSUME Administer \/ Tick \/ UNCHANGED vars PROVE TrailInv'
  <2>1. UNCHANGED <<pc, req, pending, logged>>
    BY <1>4, OutsideSteps
  <2>2. ASSUME NEW u \in User, users'[u] # "DELETED"
        PROVE  users[u] # "DELETED" /\ events'[u] = events[u] /\ audit'[u] = audit[u]
    BY <1>1, <1>4, <2>2
    DEF Administer, SetUserStatus, DeleteUser, CreateLocation, UpdateLocation, RegenerateQr,
        Tick, vars, rows, TypeOK
  <2>3. ASSUME NEW u \in User, lock[u] # Nobody
        PROVE  events'[u] = events[u] /\ audit'[u] = audit[u]
    BY <1>1, <1>4, <2>3
    DEF Administer, SetUserStatus, DeleteUser, CreateLocation, UpdateLocation, RegenerateQr,
        Tick, vars, rows, TypeOK
  <2>4. ASSUME NEW p \in Process, pc'[p] \in LockedPC PROVE Tells(Trail(p)', View(p)')
    <3>1. pc[p] \in LockedPC /\ req[p].user \in User /\ lock[req[p].user] # Nobody
      BY <2>1, <2>4, HasUser, ProcessAssumption DEF IInv, LockInv, LockedPC
    <3>2. Trail(p)' = Trail(p) /\ View(p)' = View(p)
      BY <2>1, <2>3, <3>1 DEF Trail, View
    <3> QED
      BY <3>1, <3>2 DEF TrailInv
  <2>5. \A u \in User : users'[u] # "DELETED" => Tells(audit'[u], events'[u])
    BY <2>2 DEF TrailInv
  <2> QED
    BY <2>4, <2>5 DEF TrailInv, Tells
<1> QED
  BY <1>2, <1>3, <1>4 DEF Next, RequestSteps, SweeperSteps

\* Event and audit row are committed or lost together (_record's one commit, attendance.py:74):
\* the trail of a user lists one row per event, in order, and else only failed attempts.
THEOREM TrailTellsTheEvents == Spec => []AuditTellsTheEvents
<1>1. Init => IInv /\ TrailInv
  BY InitInv, TellsNothing DEF Init, TrailInv, LockedPC, OpenPC, Process
<1>2. IInv /\ TrailInv /\ [Next]_vars => (IInv /\ TrailInv)'
  BY NextInv, NextTrailInv
<1>3. TrailInv => AuditTellsTheEvents
  BY DEF TrailInv, AuditTellsTheEvents
<1> QED
  BY <1>1, <1>2, <1>3, PTL DEF Spec
=============================================================================
