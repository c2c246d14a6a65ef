----------------------------- MODULE RateLimiter -----------------------------
(***************************************************************************)
(* The in-memory rate limiter of one process (core/rate_limit.py) and the  *)
(* requests that reach it (api/limits.py, api/v1/auth.py): a table of      *)
(* fixed windows behind a lock, and the threads of the pool that use it.   *)
(*                                                                         *)
(* A method of the limiter reads the clock, waits for the lock and then    *)
(* works on the table: `now' may be old when it is used.  The lock makes   *)
(* the rest one step; the reading falls anywhere between the thread's      *)
(* previous step and this one, at most MaxDelay ago.                       *)
(***************************************************************************)
EXTENDS Integers, FiniteSets, Functions

CONSTANTS
    Thread,         \* threads of the pool
    Client,         \* network peers and authenticated users
    Account,        \* (tenant, e-mail) pairs, after lower-casing
    Route,          \* the rules of the routes that are called
    Limit,          \* RateLimitRule.limit, by rule
    WindowSeconds,  \* RateLimitRule.window_seconds, by rule
    SweepInterval,  \* _SWEEP_INTERVAL_SECONDS
    Hour,           \* HOUR, the age at which the sweep takes a window for dead
    MaxKeys,        \* max_keys
    MaxDelay,       \* the longest wait between a reading of the clock and the lock
    MaxTime,        \* bound of the model: where the clock stops
    NoAccount       \* a request that is no login

VARIABLES
    clock,      \* time.monotonic()
    windows,    \* _windows: a partial function from keys to windows
    lastSweep,  \* _last_sweep
    pc,         \* pc[t]: what thread t does next
    req,        \* req[t]: the request it serves
    since,      \* since[t]: when it took its previous step
    recent,     \* history: recent[k]: the last events that were admitted for k
    guesses     \* history: failed logins since the window of an account began

vars == <<clock, windows, lastSweep, pc, req, since, recent, guesses>>

Rule ==
    {"login", "login_failures", "refresh", "password_change", "presence",
     "attendance", "admin_write", "onboarding", "email_verification"}

\* _key: a counter belongs to a rule and to a caller, or to a rule and an account.
Key == ((Rule \ {"login_failures"}) \X Client) \cup ({"login_failures"} \X Account)

FailureKey(account) == <<"login_failures", account>>

RuleOf(k) == k[1]

ASSUME ThreadAssumption == IsFiniteSet(Thread)

ASSUME RulesAssumption ==
    /\ Route \subseteq Rule \ {"login_failures"}
    /\ Limit \in [Rule -> Nat \ {0}]
    /\ WindowSeconds \in [Rule -> Nat \ {0}]
    \* "the longest rule Karya configures is one hour"
    /\ \A r \in Rule : WindowSeconds[r] <= Hour

ASSUME BoundsAssumption ==
    /\ Hour \in Nat /\ SweepInterval \in Nat \ {0}
    /\ MaxKeys \in Nat \ {0} /\ MaxTime \in Nat
    /\ MaxDelay \in Nat /\ \A r \in Rule : MaxDelay < WindowSeconds[r]
    /\ NoAccount \notin Account

Time == 0..MaxTime

Request == [rule : Route, client : Client, account : Account \cup {NoAccount}]

NoRequest == [rule |-> "login", client |-> CHOOSE c \in Client : TRUE,
              account |-> NoAccount]

Window == [started : Time, count : Nat \ {0}]

TypeOK ==
    /\ clock \in Time /\ lastSweep \in Time
    /\ DOMAIN windows \subseteq Key
    /\ Cardinality(DOMAIN windows) <= MaxKeys
    /\ \A k \in DOMAIN windows : windows[k] \in Window
    /\ pc \in [Thread -> {"idle", "limited", "guarded", "verifying"}]
    /\ \A t \in Thread : req[t] \in Request \cup {NoRequest}
    /\ since \in [Thread -> Time]
    /\ recent \in [Key -> SUBSET [at : Time, nth : Nat]]
    /\ guesses \in [Account -> Nat]

Init ==
    /\ clock = 0 /\ lastSweep = 0
    /\ windows = [k \in {} |-> [started |-> 0, count |-> 1]]
    /\ pc = [t \in Thread |-> "idle"]
    /\ req = [t \in Thread |-> NoRequest]
    /\ since = [t \in Thread |-> 0]
    /\ recent = [k \in Key |-> {}]
    /\ guesses = [a \in Account |-> 0]

-----------------------------------------------------------------------------
(* The table.                                                              *)

\* What t may have read from the clock for the call it makes now.
Readings(t) == {now \in since[t]..clock : clock - now <= MaxDelay}

Expired(k, now) == now - windows[k].started >= WindowSeconds[RuleOf(k)]

\* _live_window: nothing, or a window that is still current.
Live(k, now) == k \in DOMAIN windows /\ ~Expired(k, now)

\* A variant for the mutants: the shortest rule taken for the longest.
DeadAfterAMinute(now) ==
    {k \in DOMAIN windows : windows[k].started < now - SweepInterval}

Dead(now) == {k \in DOMAIN windows : windows[k].started < now - Hour}

SweepIsDue(now) == now - lastSweep >= SweepInterval

\* _maybe_sweep: the keys that it drops.
Swept(now) == IF SweepIsDue(now) THEN Dead(now) ELSE {}

\* _enforce_capacity on table w: the sets of keys it may drop, oldest windows
\* first; those that began together in any order.
Evictions(w) ==
    LET overflow == Cardinality(DOMAIN w) - MaxKeys
    IN  {gone \in SUBSET DOMAIN w :
            /\ Cardinality(gone) = IF overflow > 0 THEN overflow ELSE 0
            /\ \A k \in gone, j \in DOMAIN w \ gone : w[k].started <= w[j].started}

Without(w, keys) == Restrict(w, DOMAIN w \ keys)

-----------------------------------------------------------------------------
(* consume, one disjunct per return statement.                             *)

\* An event of key k, told from those of the same tick by its number.
Admitted(k) == [at |-> clock, nth |-> Cardinality({e \in recent[k] : e.at = clock})]

\* The events of the keys in `gone' are forgiven, one of k is counted.
Count(k, gone) ==
    recent' = [j \in Key |->
                  IF j \in gone THEN {}
                  ELSE recent[j] \cup (IF j = k THEN {Admitted(k)} ELSE {})]

SweepAt(now) == lastSweep' = IF SweepIsDue(now) THEN now ELSE lastSweep

ConsumeRefused(k, now) ==
    /\ Live(k, now) /\ k \notin Swept(now)
    /\ windows[k].count >= Limit[RuleOf(k)]
    /\ windows' = Without(windows, Swept(now))
    /\ SweepAt(now) /\ UNCHANGED recent

\* A variant for the mutants: the comparison off by one.
ConsumeOneMore(k, now) ==
    /\ Live(k, now) /\ k \notin Swept(now)
    /\ windows[k].count <= Limit[RuleOf(k)]
    /\ windows' = Without([windows EXCEPT ![k].count = @ + 1], Swept(now))
    /\ SweepAt(now) /\ Count(k, {})

ConsumeCounted(k, now) ==
    /\ Live(k, now) /\ k \notin Swept(now)
    /\ windows[k].count < Limit[RuleOf(k)]
    /\ windows' = Without([windows EXCEPT ![k].count = @ + 1], Swept(now))
    /\ SweepAt(now) /\ Count(k, {})

ConsumeNewWindow(k, now) ==
    /\ ~Live(k, now) \/ k \in Swept(now)
    /\ LET fresh == [j \in {k} |-> [started |-> now, count |-> 1]]
           w == [j \in (DOMAIN windows \ Swept(now)) \cup {k} |->
                    IF j = k THEN fresh[k] ELSE windows[j]]
       IN  \E gone \in Evictions(w) : windows' = Without(w, gone) /\ Count(k, gone)
    /\ SweepAt(now)

-----------------------------------------------------------------------------
(* The requests.                                                           *)

Goto(t, next) ==
    /\ pc' = [pc EXCEPT ![t] = next]
    /\ since' = [since EXCEPT ![t] = IF next = "idle" THEN 0 ELSE clock]
    /\ req' = IF next = "idle" THEN [req EXCEPT ![t] = NoRequest] ELSE req

\* A request arrives; its first act is the limit of its route.
Arrive(t, r) ==
    /\ pc[t] = "idle"
    /\ r.account \in IF r.rule = "login" THEN Account ELSE {NoAccount}
    /\ req' = [req EXCEPT ![t] = r]
    /\ pc' = [pc EXCEPT ![t] = "limited"]
    /\ since' = [since EXCEPT ![t] = clock]
    /\ UNCHANGED <<clock, windows, lastSweep, recent, guesses>>

\* rate_limit_by_ip, rate_limit_by_user: 429, the handler of the route (whose
\* work is no matter here), or on to the guard of the login route.
Enforce(t) ==
    /\ pc[t] = "limited"
    /\ LET k == <<req[t].rule, req[t].client>>
       IN  \E now \in Readings(t) :
              \/ ConsumeRefused(k, now) /\ Goto(t, "idle")
              \/ /\ ConsumeCounted(k, now) \/ ConsumeNewWindow(k, now)
                 /\ Goto(t, IF req[t].rule = "login" THEN "guarded" ELSE "idle")
    /\ UNCHANGED <<clock, guesses>>

\* peek: an expired window is dropped, nothing is counted.
Peek(k, now) ==
    windows' = IF k \in DOMAIN windows /\ ~Live(k, now)
               THEN Without(windows, {k}) ELSE windows

\* A variant for the mutants: the last failure of the budget is one too few.
PeekRefusesLate(k, now) == Live(k, now) /\ windows[k].count > Limit[RuleOf(k)]

PeekRefuses(k, now) == Live(k, now) /\ windows[k].count >= Limit[RuleOf(k)]

\* guard_login_failures
Guard(t) ==
    /\ pc[t] = "guarded"
    /\ \E now \in Readings(t) :
          LET k == FailureKey(req[t].account)
          IN  /\ Peek(k, now)
              /\ Goto(t, IF PeekRefuses(k, now) THEN "idle" ELSE "verifying")
    /\ UNCHANGED <<clock, lastSweep, recent, guesses>>

\* AuthenticationError: the failure is counted, whatever the limiter says.
RecordFailure(t) ==
    /\ pc[t] = "verifying"
    /\ LET a == req[t].account
           k == FailureKey(a)
       IN  \E now \in Readings(t) :
              \/ /\ ConsumeRefused(k, now) \/ ConsumeCounted(k, now)
                 /\ guesses' = [guesses EXCEPT ![a] = @ + 1]
              \/ /\ ConsumeNewWindow(k, now)
                 /\ guesses' = [guesses EXCEPT ![a] = 1]
    /\ Goto(t, "idle")
    /\ UNCHANGED clock

\* The password was right: the failures of the account are forgotten.
ClearFailures(t) ==
    /\ pc[t] = "verifying"
    /\ LET k == FailureKey(req[t].account)
       IN  /\ windows' = Without(windows, {k})
           /\ recent' = [recent EXCEPT ![k] = {}]
    /\ guesses' = [guesses EXCEPT ![req[t].account] = 0]
    /\ Goto(t, "idle")
    /\ UNCHANGED <<clock, lastSweep>>

\* Any other exception of the service: nothing is counted or forgotten.
Fail(t) ==
    /\ pc[t] = "verifying"
    /\ Goto(t, "idle")
    /\ UNCHANGED <<clock, windows, lastSweep, recent, guesses>>

\* How long an admitted event is remembered, for AtMostTwiceTheLimit.
Span(k) == WindowSeconds[RuleOf(k)] - MaxDelay

Tick ==
    /\ clock < MaxTime
    /\ clock' = clock + 1
    /\ recent' = [k \in Key |-> {e \in recent[k] : clock' - e.at < Span(k)}]
    /\ UNCHANGED <<windows, lastSweep, pc, req, since, guesses>>

Next ==
    \/ \E t \in Thread :
          \/ \E r \in Request : Arrive(t, r)
          \/ Enforce(t) \/ Guard(t)
          \/ RecordFailure(t) \/ ClearFailures(t) \/ Fail(t)
    \/ Tick

Spec == Init /\ [][Next]_vars

-----------------------------------------------------------------------------
(* Properties.                                                             *)

\* "A fixed window admits up to 2 * limit requests across a window boundary"
\* (rate_limit.py:35): no span as long as a window, less the delay of a thread
\* between clock and lock, sees more than two full budgets, whatever sweeps,
\* peeks and other keys do to the table in between.  Events that an eviction or
\* a successful login forgave do not count.
AtMostTwiceTheLimit ==
    \A k \in Key : Cardinality(recent[k]) <= 2 * Limit[RuleOf(k)]

\* Guesses at a password are counted after they are checked (auth.py:76-85), so
\* concurrent ones pass the guard together; but in one window an account sees at
\* most its budget of failures and one more for every other thread of the pool.
GuessesBounded ==
    \A a \in Account :
        guesses[a] <= Limit["login_failures"] + Cardinality(Thread) - 1

\* A successful login forgives the failures of its account.
LoginClears(k) == RuleOf(k) = "login_failures" /\ guesses'[k[2]] = 0

\* A new key found the table full.
MakesRoom ==
    DOMAIN windows' \ DOMAIN windows # {} /\ Cardinality(DOMAIN windows') = MaxKeys

\* _maybe_sweep "[drops] windows that can no longer reject anything", and so do
\* consume and peek, whatever old reading of the clock they go by: a window that
\* disappears or is replaced has lasted its full length, unless the table was
\* full or its account has logged in; and fuller than full it never is.
WindowsLast ==
    [][/\ \A k \in DOMAIN windows :
             \/ k \in DOMAIN windows' /\ windows'[k].started = windows[k].started
             \/ clock - windows[k].started >= WindowSeconds[RuleOf(k)]
             \/ LoginClears(k) \/ MakesRoom
       /\ Cardinality(DOMAIN windows') <= MaxKeys]_vars
=============================================================================
