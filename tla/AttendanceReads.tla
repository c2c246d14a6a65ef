--------------------------- MODULE AttendanceReads ---------------------------
(***************************************************************************)
(* What the read endpoints make of attendance_events: days, history pages, *)
(* team views and hours (services/attendance/queries.py, the GET routes of *)
(* api/v1/attendance.py, the responses of schemas/attendance.py).          *)
(*                                                                         *)
(* Events are recorded while requests run.  A request is a few statements, *)
(* each of which sees what is committed by then, and one reading of the    *)
(* clock, which falls between its previous statement and the next.  The    *)
(* calendar is UTC; a tick is an hour, DayLength of them a day.            *)
(***************************************************************************)
EXTENDS Integers, Sequences, FiniteSets, SequencesExt

CONSTANTS
    User,                \* users of all tenants
    Tenant,              \* tenants
    TenantOf,            \* TenantOf[u]: users.tenant_id
    Reader,              \* requests that may run at once
    DayLength,           \* ticks in a day
    WeekLength,          \* days in a week; day 0 is a Monday
    MonthStart,          \* the days that begin a month
    AskedDate,           \* dates that requests name, or NoDate
    PageSize,            \* page sizes that are asked for
    DefaultHistoryDays,  \* DEFAULT_HISTORY_DAYS
    MaxRangeDays,        \* MAX_RANGE_DAYS
    MaxTime,             \* bound of the model: where the clock stops
    MaxEvents,           \* bound of the model: events of one user
    NoEvent,             \* the missing half of a session
    NoDate,              \* a query parameter that was not given
    NoRequest,           \* the work of an idle reader
    NoDay                \* a reader that has not read its events

ASSUME CalendarAssumption ==
    /\ DayLength \in Nat \ {0} /\ WeekLength \in Nat \ {0}
    /\ MonthStart \subseteq Nat /\ 0 \in MonthStart
    /\ MaxTime \in Nat /\ MaxEvents \in Nat

ASSUME PagingAssumption ==
    /\ AskedDate \subseteq Nat \cup {NoDate}
    /\ PageSize \subseteq Nat \ {0}
    /\ DefaultHistoryDays \in Nat \ {0} /\ MaxRangeDays \in Nat \ {0}

ASSUME TenantAssumption == TenantOf \in [User -> Tenant]

Event == [type : {"CHECK_IN", "CHECK_OUT"}, at : 0..MaxTime]

ASSUME MissingAssumption == NoEvent \notin Event

VARIABLES
    clock,   \* datetime.now(UTC)
    status,  \* status[u]: users.status, or GONE
    events,  \* events[u]: the committed attendance_events of u, by timestamp
    pc,      \* pc[r]: the next statement of request r
    req,     \* req[r]: the route that r calls and its parameters
    since,   \* since[r]: when r took its previous step
    now,     \* now[r]: what r has read from the clock
    roster,  \* roster[r]: the users that r has read
    shown,   \* shown[r]: the days of the answer, by user and date
    before   \* history: the events when r asked for its first page

vars == <<clock, status, events, pc, req, since, now, roster, shown, before>>

-----------------------------------------------------------------------------
(* The calendar.                                                           *)

UtcDateOf(at) == at \div DayLength

DayBounds(day) == <<day * DayLength, (day + 1) * DayLength>>

RangeBounds(from, to) == <<DayBounds(from)[1], DayBounds(to)[2]>>

DatesDescending(from, to) == [i \in 1..(to - from + 1) |-> to - (i - 1)]

WeekStartOf(day) == day - (day % WeekLength)

MonthStartOf(day) == Max({m \in MonthStart : m <= day})

\* Dates that a request can name.
Date == 0..UtcDateOf(MaxTime)

-----------------------------------------------------------------------------
(* Events into sessions and days.  `es' are the events of one user, in the *)
(* order of their timestamps.                                              *)

\* Those of es that are in S, in their order.
Select(es, S) ==
    FoldLeft(LAMBDA chosen, e : IF e \in S THEN Append(chosen, e) ELSE chosen, <<>>, es)

\* _events_query for one user: half-open.
InRange(es, start, end) == Select(es, {e \in Event : start <= e.at /\ e.at < end})

Session(in, out) == [check_in |-> in, check_out |-> out]

\* A variant for the mutants: what has no check-in is left out.
PairComplete(acc, e) ==
    IF e.type = "CHECK_IN"
    THEN [sessions |-> acc.sessions, open |-> e]
    ELSE [sessions |-> IF acc.open = NoEvent THEN acc.sessions
                       ELSE Append(acc.sessions, Session(acc.open, e)),
          open |-> NoEvent]

\* The loop of build_sessions; `open' is its open_event.
Pair(acc, e) ==
    IF e.type = "CHECK_IN"
    THEN [sessions |-> IF acc.open = NoEvent THEN acc.sessions
                       ELSE Append(acc.sessions, Session(acc.open, NoEvent)),
          open |-> e]
    ELSE [sessions |-> Append(acc.sessions, Session(acc.open, e)), open |-> NoEvent]

BuildSessions(es) ==
    LET last == FoldLeft(Pair, [sessions |-> <<>>, open |-> NoEvent], es)
    IN  IF last.open = NoEvent THEN last.sessions
        ELSE Append(last.sessions, Session(last.open, NoEvent))

DayStatus == {"NO_RECORD", "CHECKED_IN", "COMPLETED"}

\* A variant for the mutants: the status of the first event.
BuildDayFromFirst(day, es) ==
    [date |-> day,
     status |-> IF es = <<>> THEN "NO_RECORD"
                ELSE IF Head(es).type = "CHECK_IN" THEN "CHECKED_IN" ELSE "COMPLETED",
     sessions |-> BuildSessions(es)]

BuildDay(day, es) ==
    [date |-> day,
     status |-> IF es = <<>> THEN "NO_RECORD"
                ELSE IF Last(es).type = "CHECK_IN" THEN "CHECKED_IN" ELSE "COMPLETED",
     sessions |-> BuildSessions(es)]

\* AttendanceTodayResponse.state
StateOf(day) == IF day.status = "CHECKED_IN" THEN "CHECKED_IN" ELSE "NOT_CHECKED_IN"

GetDay(es, day) == BuildDay(day, InRange(es, DayBounds(day)[1], DayBounds(day)[2]))

\* A variant for the mutants: pages counted from 0.
HistoryWindowFromZero(from, to, page, size) ==
    LET dates == DatesDescending(from, to)
        offset == page * size
    IN  SubSeq(dates, offset + 1, Min({offset + size, Len(dates)}))

\* get_history: one range query for the window, grouped by date.
HistoryWindow(from, to, page, size) ==
    LET dates == DatesDescending(from, to)
        offset == (page - 1) * size
    IN  SubSeq(dates, offset + 1, Min({offset + size, Len(dates)}))

GetHistory(es, from, to, page, size) ==
    LET window == HistoryWindow(from, to, page, size)
        bounds == RangeBounds(Last(window), Head(window))
        loaded == InRange(es, bounds[1], bounds[2])
        grouped(day) == Select(loaded, {e \in Event : UtcDateOf(e.at) = day})
    IN  IF window = <<>> THEN <<>>
        ELSE [i \in DOMAIN window |-> BuildDay(window[i], grouped(window[i]))]

\* ceil(total / page_size) of AttendanceHistoryResponse.build
TotalPages(from, to, size) == ((to - from + 1) + size - 1) \div size

\* _resolve_range; a range that is refused with 422 is not in its result.
ResolveRange(from, to, today) ==
    LET last == IF to = NoDate THEN today ELSE to
        first == IF from = NoDate THEN last - (DefaultHistoryDays - 1) ELSE from
    IN  {range \in {<<first, last>>} :
            first <= last /\ (last - first) + 1 <= MaxRangeDays}

-----------------------------------------------------------------------------
(* Hours.                                                                  *)

\* A variant for the mutants: only whole sessions count.
UnclippedHours(s, start, end) ==
    IF s.check_in = NoEvent \/ s.check_out = NoEvent THEN 0
    ELSE IF s.check_in.at >= start THEN s.check_out.at - s.check_in.at ELSE 0

\* _session_hours_in_window
SessionHours(s, start, end) ==
    LET first == IF s.check_in = NoEvent THEN start ELSE Max({s.check_in.at, start})
        last == IF s.check_out = NoEvent THEN end ELSE Min({s.check_out.at, end})
    IN  IF last <= first THEN 0 ELSE last - first

HoursSince(sessions, start, end) ==
    FoldLeft(LAMBDA sum, s : sum + SessionHours(s, start, end), 0, sessions)

\* get_team_hours for one user: the events since the month began.
TeamHours(es, at) ==
    LET today == UtcDateOf(at)
        month == DayBounds(MonthStartOf(today))[1]
        week == DayBounds(WeekStartOf(today))[1]
        sessions == BuildSessions(InRange(es, month, at))
    IN  [today_hours |-> HoursSince(sessions, DayBounds(today)[1], at),
         week_hours |-> HoursSince(sessions, week, at),
         month_hours |-> HoursSince(sessions, month, at)]

-----------------------------------------------------------------------------
(* The requests.                                                           *)

\* The routes with their parameters: `tenant' is the caller's, `target' the
\* user asked about, who is the caller in /me and /me/history.
Request ==
    [route : {"me", "user"}, tenant : Tenant, target : User, day : AskedDate]
    \cup [route : {"me/history", "user/history"}, tenant : Tenant, target : User,
          from : AskedDate, to : AskedDate, page : 1..MaxRangeDays, size : PageSize]
    \cup [route : {"team"}, tenant : Tenant, day : AskedDate]
    \cup [route : {"hours"}, tenant : Tenant]

\* Clients begin with the first page.
FirstRequest == {q \in Request : "page" \in DOMAIN q => q.page = 1}

TypeOK ==
    /\ clock \in 0..MaxTime
    /\ status \in [User -> {"ACTIVE", "INACTIVE", "GONE"}]
    /\ events \in [User -> Seq(Event)]
    /\ \A u \in User : \A i, j \in DOMAIN events[u] :
          i < j => events[u][i].at < events[u][j].at
    /\ pc \in [Reader -> {"idle", "begun", "found", "listed", "answered", "refused"}]
    /\ req \in [Reader -> Request \cup {NoRequest}]
    /\ since \in [Reader -> 0..MaxTime] /\ now \in [Reader -> 0..MaxTime]
    /\ roster \in [Reader -> SUBSET User]

Init ==
    /\ clock = 0
    /\ status = [u \in User |-> "ACTIVE"]
    /\ events = [u \in User |-> <<>>]
    /\ pc = [r \in Reader |-> "idle"]
    /\ req = [r \in Reader |-> NoRequest]
    /\ since = [r \in Reader |-> 0] /\ now = [r \in Reader |-> 0]
    /\ roster = [r \in Reader |-> {}]
    /\ shown = [r \in Reader |-> NoDay]
    /\ before = [r \in Reader |-> NoDay]

Move(r, to) == pc' = [pc EXCEPT ![r] = to] /\ since' = [since EXCEPT ![r] = clock]

Own(q) == q.route \in {"me", "me/history"}

Paged(q) == q.route \in {"me/history", "user/history"}

\* get_current_user; the caller of the other routes is an administrator of the
\* tenant, who is not modelled.
Authenticated(q) ==
    Own(q) => TenantOf[q.target] = q.tenant /\ status[q.target] = "ACTIVE"

AfterAuthentication(q) == IF q.route \in {"user", "user/history"} THEN "begun" ELSE "found"

Begin(r, q) ==
    /\ pc[r] = "idle" /\ Authenticated(q)
    /\ req' = [req EXCEPT ![r] = q]
    /\ before' = IF Paged(q) THEN [before EXCEPT ![r] = events] ELSE before
    /\ Move(r, AfterAuthentication(q))
    /\ UNCHANGED <<clock, status, events, now, roster, shown>>

\* find_tenant_user: a user of another tenant is as good as none.
FindTenantUser(r) ==
    /\ pc[r] = "begun"
    /\ LET u == req[r].target
           found == status[u] # "GONE" /\ TenantOf[u] = req[r].tenant
       IN  Move(r, IF found THEN "found" ELSE "refused")
    /\ UNCHANGED <<clock, status, events, req, now, roster, shown, before>>

\* A day of one user: read_my_attendance, read_user_attendance.
ReadDay(r) ==
    /\ pc[r] = "found" /\ req[r].route \in {"me", "user"}
    /\ \E at \in since[r]..clock :
          LET u == req[r].target
              day == IF req[r].day = NoDate THEN UtcDateOf(at) ELSE req[r].day
          IN  /\ now' = [now EXCEPT ![r] = at]
              /\ shown' = [shown EXCEPT ![r] = [x \in {u} |-> GetDay(events[x], day)]]
    /\ Move(r, "answered")
    /\ UNCHANGED <<clock, status, events, req, roster, before>>

\* A variant for the mutants: today is a date that some worker has kept.
ReadPageOfKeptDate(r) ==
    /\ pc[r] = "found" /\ Paged(req[r])
    /\ \E at \in 0..clock :
          LET q == req[r]
              ranges == ResolveRange(q.from, q.to, UtcDateOf(at))
          IN  \/ ranges = {} /\ Move(r, "refused") /\ UNCHANGED <<now, shown>>
              \/ /\ \E range \in ranges :
                       shown' = [shown EXCEPT ![r] =
                           (IF @ = NoDay THEN <<>> ELSE @) \o
                           GetHistory(events[q.target], range[1], range[2], q.page, q.size)]
                 /\ now' = [now EXCEPT ![r] = at]
                 /\ Move(r, "answered")
    /\ UNCHANGED <<clock, status, events, req, roster, before>>

\* A page of the history of one user: read_my_history, read_user_history.
ReadPage(r) ==
    /\ pc[r] = "found" /\ Paged(req[r])
    /\ \E at \in since[r]..clock :
          LET q == req[r]
              ranges == ResolveRange(q.from, q.to, UtcDateOf(at))
          IN  \/ ranges = {} /\ Move(r, "refused") /\ UNCHANGED <<now, shown>>
              \/ /\ \E range \in ranges :
                       shown' = [shown EXCEPT ![r] =
                           (IF @ = NoDay THEN <<>> ELSE @) \o
                           GetHistory(events[q.target], range[1], range[2], q.page, q.size)]
                 /\ now' = [now EXCEPT ![r] = at]
                 /\ Move(r, "answered")
    /\ UNCHANGED <<clock, status, events, req, roster, before>>

\* The client asks for the next page of the total it was told.
NextPage(r) ==
    /\ pc[r] = "answered" /\ Paged(req[r])
    /\ Authenticated(req[r])
    /\ \E range \in ResolveRange(req[r].from, req[r].to, UtcDateOf(now[r])) :
          req[r].page < TotalPages(range[1], range[2], req[r].size)
    /\ req' = [req EXCEPT ![r].page = @ + 1]
    /\ Move(r, AfterAuthentication(req[r]))
    /\ UNCHANGED <<clock, status, events, now, roster, shown, before>>

\* get_team_day and get_team_hours: the clock, then the roster.
ReadRoster(r) ==
    /\ pc[r] = "found" /\ req[r].route \in {"team", "hours"}
    /\ roster' = [roster EXCEPT ![r] =
                     {u \in User : TenantOf[u] = req[r].tenant /\ status[u] = "ACTIVE"}]
    /\ \E at \in since[r]..clock : now' = [now EXCEPT ![r] = at]
    /\ Move(r, "listed")
    /\ UNCHANGED <<clock, status, events, req, shown, before>>

TeamDay(r) == IF req[r].day = NoDate THEN UtcDateOf(now[r]) ELSE req[r].day

\* The events of everyone on the roster, in one statement.
ReadTeamEvents(r) ==
    /\ pc[r] = "listed"
    /\ shown' = [shown EXCEPT ![r] =
                    [u \in roster[r] |->
                        IF req[r].route = "team" THEN GetDay(events[u], TeamDay(r))
                        ELSE TeamHours(events[u], now[r])]]
    /\ Move(r, "answered")
    /\ UNCHANGED <<clock, status, events, req, now, roster, before>>

\* The answer has been read; the reader is free again.
Finish(r) ==
    /\ pc[r] \in {"answered", "refused"}
    /\ pc' = [pc EXCEPT ![r] = "idle"]
    /\ req' = [req EXCEPT ![r] = NoRequest]
    /\ since' = [since EXCEPT ![r] = 0] /\ now' = [now EXCEPT ![r] = 0]
    /\ roster' = [roster EXCEPT ![r] = {}]
    /\ shown' = [shown EXCEPT ![r] = NoDay] /\ before' = [before EXCEPT ![r] = NoDay]
    /\ UNCHANGED <<clock, status, events>>

-----------------------------------------------------------------------------
(* The world of the requests.  The events of a user alternate and their    *)
(* timestamps grow: the theorems Alternation and StoredOrder of            *)
(* AttendanceProofs.  An answer is read as soon as it is there: nothing    *)
(* that happens afterwards changes it, and reading it changes nothing else. *)

AnswersAreRead ==
    \A r \in Reader : pc[r] = "answered" => Paged(req[r])

State(es) == IF es # <<>> /\ Last(es).type = "CHECK_IN" THEN "CHECKED_IN" ELSE "NOT_CHECKED_IN"

Record(u, e) ==
    /\ AnswersAreRead
    /\ status[u] # "GONE" /\ Len(events[u]) < MaxEvents
    /\ e.at = clock /\ \A i \in DOMAIN events[u] : events[u][i].at < clock
    /\ e.type = (IF State(events[u]) = "CHECKED_IN" THEN "CHECK_OUT" ELSE "CHECK_IN")
    /\ events' = [events EXCEPT ![u] = Append(@, e)]
    /\ UNCHANGED <<clock, status, pc, req, since, now, roster, shown, before>>

\* A change of status, or a deletion, which takes the events along.
SetStatus(u, new) ==
    /\ AnswersAreRead
    /\ status[u] # "GONE" /\ new # status[u]
    /\ status' = [status EXCEPT ![u] = new]
    /\ events' = IF new = "GONE" THEN [events EXCEPT ![u] = <<>>] ELSE events
    /\ UNCHANGED <<clock, pc, req, since, now, roster, shown, before>>

Tick ==
    /\ AnswersAreRead
    /\ clock < MaxTime
    /\ clock' = clock + 1
    /\ UNCHANGED <<status, events, pc, req, since, now, roster, shown, before>>

Next ==
    \/ \E r \in Reader :
          \/ \E q \in FirstRequest : Begin(r, q)
          \/ FindTenantUser(r) \/ ReadDay(r) \/ ReadPage(r) \/ NextPage(r)
          \/ ReadRoster(r) \/ ReadTeamEvents(r) \/ Finish(r)
    \/ \E u \in User :
          \/ \E e \in Event : Record(u, e)
          \/ \E new \in {"ACTIVE", "INACTIVE", "GONE"} : SetStatus(u, new)
    \/ Tick

Spec == Init /\ [][Next]_vars

-----------------------------------------------------------------------------
(* Properties.  Those about algorithms say it for every history that can   *)
(* be reached, and say it once: when no request runs.                      *)

NoRequestRuns == \A r \in Reader : pc[r] = "idle"

\* The events that a list of sessions shows.
Half(e) == IF e = NoEvent THEN <<>> ELSE <<e>>

EventsOf(sessions) ==
    FlattenSeq([i \in DOMAIN sessions |->
                   Half(sessions[i].check_in) \o Half(sessions[i].check_out)])

\* "unexpected input still round-trips every event into some session instead of
\* silently dropping it" (queries.py:171-173): whatever part of a history
\* build_sessions is given, ragged edges and repeated types included, its
\* sessions show exactly those events, in order.
NoEventIsLost ==
    NoRequestRuns =>
        \A u \in User, times \in SUBSET (0..MaxTime) :
            LET es == Select(events[u], {e \in Event : e.at \in times})
            IN  EventsOf(BuildSessions(es)) = es

\* "Every date in the inclusive range, newest first" (queries.py:91): get_history,
\* over all pages, and each is the day that the single-day route shows; "and no
\* event can land in two buckets" (queries.py:18-19): those days together show
\* every event of the range, once.
PagesShowEveryDay ==
    NoRequestRuns =>
        \A u \in User, from, to \in Date, size \in PageSize :
            from <= to =>
                LET days == FlattenSeq([p \in 1..TotalPages(from, to, size) |->
                                           GetHistory(events[u], from, to, p, size)])
                    shownEvents == FlattenSeq([i \in DOMAIN days |->
                                       EventsOf(days[Len(days) + 1 - i].sessions)])
                IN  /\ days = [i \in 1..(to - from + 1) |-> GetDay(events[u], to - (i - 1))]
                    /\ shownEvents = Select(events[u],
                                        {e \in Event : UtcDateOf(e.at) \in from..to})

\* Hours in which a user was checked in, counted one by one.
CheckedInAt(es, x) == State(Select(es, {e \in Event : e.at <= x})) = "CHECKED_IN"

Worked(es, start, end) == Cardinality({x \in start..(end - 1) : CheckedInAt(es, x)})

MonthBegan == DayBounds(MonthStartOf(UtcDateOf(clock)))[1]

WeekBegan == DayBounds(WeekStartOf(UtcDateOf(clock)))[1]

\* A session of an earlier month that nothing in this month refers to.
OutOfSight(es) ==
    CheckedInAt(es, MonthBegan) /\ InRange(es, MonthBegan, clock) = <<>>

\* "the same half-open range, no event double-counted or dropped discipline"
\* (queries.py:370-371): the clipped sessions of get_team_hours add up to the
\* hours in which the user was checked in, today, this month, and this week if
\* it lies in the month; open sessions and those that cross midnight included.
HoursAreWorked ==
    NoRequestRuns =>
        \A u \in User :
            LET hours == TeamHours(events[u], clock)
            IN  \/ OutOfSight(events[u])
                \/ /\ hours.today_hours =
                         Worked(events[u], DayBounds(UtcDateOf(clock))[1], clock)
                   /\ hours.month_hours = Worked(events[u], MonthBegan, clock)
                   /\ WeekBegan >= MonthBegan =>
                         hours.week_hours = Worked(events[u], WeekBegan, clock)

\* Pages of the default range are asked for one by one while the days go by, so
\* the range moves under them ("Every date in the requested range appears",
\* schemas/attendance.py:235): a day may be shown again, but none is passed over, and no event
\* that was there before the first page is missing from the days that are shown.
HistoryHasNoGap ==
    \A r \in Reader :
        pc[r] # "idle" /\ shown[r] # NoDay /\ Paged(req[r]) =>
            LET days == shown[r]
                seen == UNION {ToSet(EventsOf(days[i].sessions)) : i \in DOMAIN days}
            IN  /\ \A i \in 1..(Len(days) - 1) : days[i + 1].date >= days[i].date - 1
                /\ status[req[r].target] # "GONE" =>
                      \A e \in ToSet(before[r][req[r].target]) :
                          (\E i \in DOMAIN days : days[i].date = UtcDateOf(e.at)) => e \in seen

\* A request for today, answered on the same day.
AnswersToday(r) ==
    /\ pc[r] = "answered" /\ req[r].route \in {"me", "user"} /\ req[r].day = NoDate
    /\ UtcDateOf(now[r]) = UtcDateOf(clock)

StateIsTold(r) ==
    LET u == req[r].target IN StateOf(shown[r][u]) = State(events[u])

\* On a day on which something was recorded, the state that the answer derives
\* from that day is that of the last event.  (The next attempt closes a stale session
\* first, attendance/service.py:352, and may be judged by another.)
LiveStateOnceRecorded ==
    \A r \in Reader :
        AnswersToday(r) /\ shown[r][req[r].target].sessions # <<>> => StateIsTold(r)
=============================================================================
