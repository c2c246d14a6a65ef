# Karya in TLA+

Karya is a multi-tenant attendance service: a FastAPI and SQLAlchemy backend on
PostgreSQL (`src/backend/app`) and a React client (`src/frontend/src`).  Staff
check in and out by sending a GPS reading and the token of a printed QR code;
the backend verifies the evidence and records an event.  This directory models
the parts of the program in which order matters: what happens when requests,
jobs and administrators meet in the database, when a transaction is lost half
way, when a decision rests on something read earlier.

TLC checks the models on small instances, TLAPS proves the theorems for every
value of the constants.

## 1. The system

### Concurrency and failure, in general

The backend runs `def` endpoints in a thread pool, in as many processes as are
deployed; all shared state but the rate limiter's lives in PostgreSQL.  A
request is one SQLAlchemy session and one transaction under READ COMMITTED:
each statement reads what is committed at its start, plus the writes of its own
transaction.  The handler commits once, at its end (`session.commit()`);
`get_db` (db/session.py:113-129) rolls back whatever fails before that.  A
session does not expire or refresh objects it has loaded
(`expire_on_commit=False`, no `populate_existing`), so an attribute of a loaded
row is as old as the statement that loaded it first.  `lock_timeout`
(5 s) and `statement_timeout` (15 s) abort a transaction that waits too long
(core/config.py:143-148, db/session.py:50-67).

### Components

| Component | State | Operations | Meets |
| --- | --- | --- | --- |
| Attendance lifecycle: services/attendance/service.py, results.py, api/v1/attendance.py | `attendance_events`, `audit_logs` | check-in, check-out; each closes a stale session of the user first | the sweep, user administration and itself, on the lock of the user's row; presence verification by a call; the location row by plain reads |
| Stale-session sweep: jobs/close_stale_sessions.py | none of its own | scan all open sessions, close each that is too old in a transaction of its own | the lifecycle, other runs of itself |
| Presence verification: services/presence | none | decide from a GPS reading and a scanned token; POST /presence/verify | the location row |
| Attendance location: services/tenant/service.py | `attendance_locations`, one row per tenant | create, update, regenerate the token | every attempt in flight |
| User administration: services/users/service.py, api/v1/users.py | `users`, `audit_logs` | create, update, change role, activate, deactivate, delete, change password; lists of users and of audit rows | the lifecycle (row lock), tokens (revocation), itself (last administrator, unique keys) |
| Authentication: services/auth, api/deps.py | `refresh_tokens` | login, refresh, logout; every request reads the user's row | deactivation, password change |
| Onboarding: services/onboarding/service.py | `tenants`, `users`, `email_verification_tokens` | sign up, verify, resend | mailer, deactivation |
| Attendance reads: services/attendance/queries.py | none | day, history, team day, hours | events being written |
| Rate limiter: core/rate_limit.py, api/limits.py | windows in the memory of a process, behind a lock | consume, peek, clear, sweep, evict | the threads of the pool |
| Frontend session: lib/auth/session.ts, lib/api/client.ts, stores/authStore.ts | access token in memory, refresh token in localStorage | login, bootstrap, refresh, logout | its own promises; the token rotation of the server |
| Frontend check-in flow: features/attendance/CheckInOutFlow.tsx, hooks | stage, position, submission | scan, locate, submit, retry | callbacks of the browser |
| Mailer, hashing, configuration, logging, middleware, schemas, migrations, pages | none that matters here | | |

### What is hard, and what makes each part correct

* **Attendance lifecycle.**  The state of a user is derived from the latest
  event, so two concurrent attempts may act on the same state, and an event
  stamped early by a transaction that waited would rank behind an older one.
  Correct: the events of a user alternate; timestamp order is commit order;
  event and audit row stand or fall together; the answer tells the state as
  committed, and only an answer that is lost leaves an event nobody was told of;
  nothing is left of a deleted user.
* **Sweep.**  Candidates are stale when their turn comes; the job may die,
  overlap with itself, or fail on one user.  Correct: closes nothing that is
  not due, closes everything that is, eventually.
* **Presence and location.**  Two statements may see different rows.  Correct:
  only a token that is current, and of the own tenant, verifies; other tenants
  cannot be told apart from nothing.
* **User administration.**  Check-then-act on a set of rows (the active
  administrators) with objects loaded before the lock; locks taken in more than
  one order.  E-mails and employee codes are unique only by their indexes; a
  PATCH is compared with a row loaded earlier; lists are read by offset while
  rows are added and removed.  Correct: a tenant keeps an active administrator;
  keys are unique; no change is undone by one of another field; nobody waits
  forever.
* **Authentication.**  Rotation reads a token without a lock; revocation works
  on the tokens that exist at that moment.  Correct: a token is exchanged once;
  no session outlives the deactivation of its user.
* **Onboarding.**  Links are consumed by one UPDATE, but issued by
  check-then-insert; the mail leaves before the commit.  Correct: one link, one
  activation; a superseded link is dead.
* **Reads.**  Sessions cross midnight, weeks cross months; the range of a
  history moves between two of its pages.  Correct: every event is shown once,
  every hour is counted once, no day is passed over.
* **Rate limiter.**  Window edges, clocks read before the lock, eviction.
  Correct: at most the limit within a window, twice the limit across an edge;
  no window is forgotten early.
* **Frontend.**  Answers that arrive after a logout; refreshes that race, in
  one tab and between tabs.  Correct: who did nothing stays signed in unless
  there was a reason; no token is left behind alive; every waiting call wakes.

`PROJECT.json` lists the single hazards, each at its line.

## 2. Plan

Each component has a module, its TLC instances live in a module `MC...` and its
proofs in `...Proofs`.  The order was that of importance:

1. `PresenceRules`, `Attendance`, `AttendanceLedger`, `AttendanceProofs`: the
   core, modelled, checked, and its safety and refinement proved.
2. `UserAdmin`: roles, status and deletion with row locks taken one by one,
   key-share locks of foreign keys, objects loaded before the lock.
3. `Sessions`: login, refresh, logout, deactivation and password change over
   `refresh_tokens`.
4. `Onboarding`: sign-up, verification and resend, with the mail as an effect
   that a rollback does not undo.
5. `RateLimiter`: threads that read the clock before the lock.
6. `AttendanceReads`: days, pages and hours against reference definitions, and
   the requests that read them.
7. `ClientSession`: the promises of refresh, bootstrap, login and logout in the
   tabs of a browser, against a server that rotates tokens as `Sessions` does.
8. `UserProfiles`: creation, PATCH and deletion over unique keys, audit rows,
   and lists.

All of these are modelled and checked, and every safety property that a run
checks is proved (section 5); what stays with TLC is liveness (section 6).  Two
modules were planned and not written: `CheckInOutFlow` and two
copies of POST /presence/verify side by side (section 7).

## 3. The modules

### PresenceRules

Operators without state: `VerifyGps` (gps.py:77-142) applies its checks in
order; `ResolveQr` (service.py:116-136) judges a token from the rows its SELECT
found; `PresenceReason` (service.py:168-214) combines the two; and
`ToClientReason` hides the existence of other tenants.  Places are points of a
line and distances differences: the code only compares the distance with a
radius.  A token is a pair of tenant and generation.

### Attendance

One process per HTTP attempt (`Request`) and per running job (`Sweeper`); `pc`
is the next statement of its transaction.

| State | In the code |
| --- | --- |
| `events[u]`, `audit[u]` | committed `attendance_events` and attendance rows of `audit_logs`, in commit order |
| `pending[p]`, `logged[p]` | rows that p has flushed or added and not committed |
| `users[u]`, `locations[t]` | the rows that the transactions read |
| `lock[u]` | the row lock of SELECT ... FOR UPDATE |
| `req[p]`, `qrReason[p]`, `outcome[p]` | arguments, local variables and result of `record_attendance` |
| `todo[s]` | the rest of the list `candidates` of `run()` |
| `clock` | the wall clock |

| Action | In the code |
| --- | --- |
| `Begin` | get_current_user, deps.py:56-97, the first statement of the transaction |
| `LockUser`, `UserMissing` | _lock_user and the two callers' test of its result |
| `AutoClose`, `NothingToClose`, `SkipUser` | close_stale_session_if_needed, for an attempt or a sweep |
| `RefuseWrongState` | service.py:356-378 |
| `ScanQr`, `RefusePresence`, `RecordEvent` | verify_presence and what follows, service.py:380-465 |
| `Commit`, `Abort` | session.commit() and the answer, or the rollback of a failure, a timeout, a connection lost before the commit |
| `CommitUnanswered` | the commit takes effect and its acknowledgement or the HTTP answer is lost, api/v1/attendance.py:74-75 |
| `Scan`, `NextCandidate`, `EndSweep`, `Crash` | the job |
| `SetUserStatus`, `DeleteUser`, `CreateLocation`, `UpdateLocation`, `RegenerateQr` | administrators, each one step |
| `Tick` | time passes |

Statements that no other transaction can tell apart are one step: reading the
latest event, the longest shift and the time of day (the events cannot change
under the lock, and one location row is read), or the last read of
verify_presence with the insert that follows.  The two SELECTs of
verify_presence are two steps, since a token may be regenerated between them.
Operations of administrators are one step each because they hold the lock of
the one row that attendance cares about, or change a single row.

### AttendanceLedger

What the lifecycle promises, without transactions, locks or time: per user a
ledger in which every check-in is closed before the next, by the user or
automatically.  `Attendance` implements it (`ImplementsLedger`) under the
mapping that drops everything but the committed events and the existence of
the users.

### AttendanceProofs, and the other modules of proofs

Theorems about `Attendance`, `AttendanceReads`, `UserAdmin`, `UserProfiles`,
`RateLimiter`, `Sessions`, `Onboarding` and `ClientSession` are in `...Proofs`.
The second half of `AttendanceProofs` is about what the history leads to:
automatic closures, the refinement of `AttendanceLedger`, what attempts are told,
and the audit trail.  See section 5.

### UserAdmin

Here the row locks are the subject.  One process per operation of an
administrator (`Op`, used again and again), with the users of one tenant
numbered in the order of their ids.

| State | In the code |
| --- | --- |
| `rows[u]` | committed `users` rows: role and status, or not yet created, or deleted for good |
| `owner[u]` | who has the row FOR UPDATE |
| `pc[o]`, `req[o]` | the next statement of o; kind, actor, target and new value |
| `seen[o]` | the target's attributes in the session of o |
| `queue[o]` | rows that the SELECT ... FOR UPDATE has in its snapshot and has not visited yet |
| `admins[o]` | the list `active_admins` |

| Action | In the code |
| --- | --- |
| `Authenticate` | get_current_user and require_roles, api/deps.py; the checks that actor and target differ |
| `Load`, `NotFound` | get_user |
| `Insert` | create_user up to its audit row |
| `StartLocking`, `LockNextRow` | _lock_admins_and_target, users/service.py:219-253; the one lock of delete_user (:567) and of an e-mail change |
| `Refuse`, `Write` | what the functions decide after it |
| `Commit` | session.commit() in api/v1/users.py; first the INSERT of the audit row, whose foreign key needs the actor's row |
| `GiveUp`, `Abort` | lock_timeout, deadlock detection, a broken foreign key; any other failure |

What the model takes from PostgreSQL and SQLAlchemy: a FOR UPDATE statement
fixes the rows it visits by its snapshot, waits for each, evaluates its WHERE
clause again on the newest version, and keeps the lock of a row that no longer
qualifies; the check of a foreign key takes FOR KEY SHARE, which waits for FOR
UPDATE only; a query that meets an object of its session returns it unchanged
unless it is told to populate existing objects.

### Sessions

The refresh tokens of one account; accounts share nothing here.

| State | In the code |
| --- | --- |
| `status`, `password` | the user's row |
| `token[t]`, `parent[t]` | the committed row of t (live, revoked, gone); which token t replaced |
| `owner` | the lock of the user's row, FOR UPDATE or that of an UPDATE without key columns |
| `pc[o]`, `req[o]`, `seen[o]` | next statement, request, and `users.status` in the session of o |
| `todo[o]`, `marked[o]` | tokens to update and tokens updated, which are locked |
| `inserted[o]` | the replacement; it shares the user's row |

| Action | In the code |
| --- | --- |
| `Start`, `FindToken`, `TokenRefused` | api/v1/auth.py, find_by_raw_token, is_usable |
| `ReadUser`, `UserRefused` | authenticate_user, refresh, get_current_user with the check of the current password, get_user |
| `LockUser`, `LockedForNothing` | _lock_admins_and_target as far as this user is concerned; SELECT ... FOR UPDATE of delete_user; UPDATE users of a password change |
| `ListTokens`, `UpdateToken` | revoke_all_for_user, revoke; the cascade of a deletion |
| `Insert` | issue_refresh_token |
| `Commit`, `Abort`, `GiveUp` | as in `UserAdmin` |

The order of the statements of a flush is that of SQLAlchemy's unit of work:
parents before children, UPDATEs before INSERTs of one table, rows by primary
key.  So a password change sends SELECT tokens, UPDATE users, UPDATE tokens,
and a refresh UPDATE of its token, INSERT of the replacement.  Expiry is the
choice of `TokenRefused` to refuse a refresh at any time.

### Onboarding

The organisation of one slug and its first administrator.

| State | In the code |
| --- | --- |
| `tenants`, `status` | committed `tenants` rows with the slug; the administrator's status |
| `link[l]` | the committed `email_verification_tokens` row of l |
| `mailed` | links that the mail server may deliver; a rollback takes none back |
| `activations[l]` | committed verifications with l, which `audit_logs` counts |
| `known[o]`, `supersedes[l]` | links that were there when a request began, and when that of l did; not in the code, for `SupersededIsDead` |
| `pc[o]`, `req[o]`, `seen[o]` | next statement, request, `users.status` in the session of o |
| `todo[o]`, `marked[o]` | rows that an UPDATE has still to visit; rows it has written and locks |
| `issued[o]` | the link of o, in the session until the commit |

| Action | In the code |
| --- | --- |
| `FindSlug`, `SlugTaken`, `InsertTenant` | create_tenant_with_admin up to the mail |
| `FindAccount`, `NoAccount`, `StartConsuming`, `Consume`, `AddLink` | resend_verification_email up to the mail |
| `SendMail`, `MailFails` | send_email |
| `Claim`, `ClaimRefused`, `ReadUser`, `Activate` | verify_email and the flush of issue_token_pair |
| `Commit`, `Abort` | the routes and get_db |
| `SetUserStatus` | set_user_status by another administrator, one step |

Expiry is the choice of `ClaimRefused` to refuse a link at any time.  The
UPDATE of a resend is the only statement that locks more than one row; it
visits them in their physical order, and since a row that is not consumed has
never been moved, that order is one for all transactions.

### UserProfiles

The users of one tenant again, this time with the columns that identify them.
One process per request that writes (`Op`), and readers who leaf through a list.

| State | In the code |
| --- | --- |
| `rows[u]` | the committed `users` row: e-mail, employee code, name |
| `trail[u]` | the committed `audit_logs` rows about u, with their `created_at` and `changes` |
| `clock` | now() of a transaction: transactions are numbered as they begin |
| `pc[o]`, `req[o]`, `seen[o]` | next statement, request, the target as the session has loaded it |
| `entered[o]` | keys that o has entered into their unique index |
| `walk[r]` | page, total and items a reader has seen so far; `first` and `upset` are histories |

| Action | In the code |
| --- | --- |
| `BeginCreate`, `BeginUpdate`, `BeginOwnUpdate`, `BeginDelete` | the routes up to the end of get_current_user |
| `Load`, `NotFound`, `NothingApplied` | get_user, FOR UPDATE in a deletion; the comparison of update_user_profile |
| `Write`, `Enter`, `Conflict` | session.flush(): the row and its lock, then its keys one by one; IntegrityError and the rollback of the route |
| `Commit` | the audit row, whose foreign key needs the actor's row, and session.commit() |
| `Abort` | lock_timeout, deadlock detection, a lost connection |
| `Visit`, `Find`, `Count`, `Fetch` | GET /users and GET /users/{id}/audit: a count and the page, for audit rows behind get_user |

What the model takes from PostgreSQL: an entry of a unique index that another
transaction has added or is about to remove makes the inserter wait for its end;
indexes are filled in the order of their creation, employee code first; an
UPDATE that changes a column of a unique index locks its row against the key
shares of foreign keys, and so do FOR UPDATE and DELETE; any other UPDATE does
not.  From SQLAlchemy: an UPDATE
names the columns that were set, not the whole row, and a row that is in the
session is not read again by a plain SELECT.  Administrators are not deleted
(`UserAdmin` has what that takes), and roles do not change here.

### RateLimiter

The table of one process.  Methods of the limiter read the clock, then wait for
its lock; from there to the end they are one step, and their reading is one of
the times since the thread's previous step, at most `MaxDelay` ago.

| State | In the code |
| --- | --- |
| `windows` | `_windows`, a partial function from keys to start and count |
| `lastSweep` | `_last_sweep` |
| `pc[t]`, `req[t]` | what thread t serves, and how far |
| `recent`, `guesses` | histories: the last events admitted for a key, each with its tick and its number within it; failed passwords of an account |

| Action | In the code |
| --- | --- |
| `Arrive`, `Enforce` | the dependency of a route, consume with expiry, sweep and eviction |
| `Guard` | guard_login_failures: peek before the password check |
| `RecordFailure`, `Fail`, `ClearFailures` | what login does after it, api/v1/auth.py:76-101 |
| `Tick` | time passes |

The sweep is not an action of its own but part of each call of consume that finds
it due, as in the code.

### AttendanceReads

The first half are the algorithms as operators: `BuildSessions`, `BuildDay`,
`GetHistory`, `SessionHours`, `TeamHours` and the calendar, over sequences of
events.  The second half are the requests, statement by statement, while events
are recorded, hours pass and users are deactivated or deleted.  An answer is
read as soon as it is there (`AnswersAreRead`), except that between two pages of
a history anything may happen: what comes later does not change an answer.  Days
have two hours and weeks two days in the instance; the code only compares and
divides.

| State | In the code |
| --- | --- |
| `events[u]`, `status[u]`, `clock` | what other transactions have committed, and the time |
| `pc[r]`, `req[r]`, `now[r]`, `roster[r]` | a request, its parameters, its reading of the clock and the users it has read |
| `shown[r]` | the answer; the answers of all pages for a history |
| `before[r]` | history: the events when the first page was asked for |

| Action | In the code |
| --- | --- |
| `Begin`, `FindTenantUser` | get_current_user, find_tenant_user |
| `ReadDay`, `ReadPage`, `NextPage` | /me, /me/history and their counterparts for a user; the client's next page |
| `ReadRoster`, `ReadTeamEvents` | get_team_day and get_team_hours: two statements |
| `Record`, `SetStatus`, `Tick` | the world outside; that timestamps grow and types alternate is proved in `AttendanceProofs` |

### ClientSession

The tabs of one browser, which share localStorage and nothing else.  JavaScript
runs to its next `await` without interruption: one action is one turn of the
event loop.  The server is a part of the module: it exchanges a live token once,
as `Sessions` shows for exchanges that do not overlap.

| State | In the code |
| --- | --- |
| `stored` | localStorage, tokenStorage.ts |
| `store[t]` | authStore of the tab: status, user, access token |
| `main[t]`, `mine[t]` | the session function that runs, and its local `tokens` |
| `wire[t]` | the request to /auth that this function, or `inFlightRefresh`, waits for, with the answer once the server has given it |
| `call[t]` | requests of the page, and me(), each sent once and after a refresh once more |
| `owner`, `live`, `fresh` | whose tokens there are, which refresh tokens are live, which access tokens are accepted |
| `left` | history: good tokens that the browser has dropped without revoking them, at a sign-in over them or after a wrong password |
| `disturbed` | history: something happened by which a session may end |

| Action | In the code |
| --- | --- |
| `Open`, `Bootstrapped`, `BootstrapFails` | bootstrapSession between its awaits |
| `Login`, `LoginUnanswered`, `MeSucceeds` | login, establishSessionFromTokens |
| `Logout`, `LogoutEnds`, `PasswordChanged` | logout, by a click or after a change of password (useChangePassword.ts) |
| `StartCall`, `CallSucceeds`, `CallFails` | apiFetch |
| `JoinRefresh`, `StartRefresh`, `RefreshSucceeds`, `RefreshFails`, `SessionExpires` | refreshOnce, performRefresh, and what apiFetch does when they are over |
| `Close` | the page is left or loaded again |
| `Exchange`, `Revoke`, `Expire`, `Deactivate`, `ChangePassword` | the server: api/v1/auth.py:120-171, the life of an access token, set_user_status, POST /users/me/password |

A 401 has two causes (`Unauthorized`): an access token that is not good any longer,
and a current password that is wrong, for which POST /users/me/password answers
the same to a good token (api/v1/users.py:170-174).  apiFetch does not tell them
apart.

## 4. The runs

Each run is an instance of the `MC` module of its component.  Attempts run once
each, so the number of inserts, and with it the clock, is bounded; the other
bounds of `Attendance` are `MaxTime` (where `Tick` stops), `MaxFaults`
(transactions or answers lost) and `MaxQrVersion` (regenerations).  The `TypeOK`
of a module says what its variables hold; `IInv` includes that of `Attendance`,
the others can be added to the run of their module as they stand.

| Run | Instance | Checks |
| --- | --- | --- |
| `attendance_safety` | 1 user, 2 attempts, 1 sweep, longest shifts 1 and 3, readings inside and outside, time 4, 1 fault | history: `EventsAlternate`, `StoredOrderIsCommitOrder`, `AutoCloseIsDue`, `NoOrphanEvents`; audit and answers: `AuditTellsTheEvents`, `SuccessesAreTheEvents`, `AnswersTellTheState`; refinement: `ImplementsLedger` |
| `attendance_tokens` | 2 tenants, 1 user, 2 attempts with any token, 2 generations | `OwnTokenOnly`, `ReplacedTokenNeverWorks` |
| `attendance_liveness` | 1 user, 2 attempts, 1 sweep, a shift shorter than the default, 1 fault | the inductive invariant `IInv`; `EveryAttemptEnds`, `StaleSessionsAreClosed` under `FairSpec` |
| `attendance_reads` | 1 user, 2 tenants, 1 reader, 3 days of 2 hours, weeks of 2 days, a month that begins in mid-week, 3 events, pages of 1 and 2 days | algorithms: `NoEventIsLost`, `PagesShowEveryDay`, `HoursAreWorked`; requests: `HistoryHasNoGap`, `LiveStateOnceRecorded` |
| `rate_limiter` | 2 threads, 1 client, 1 account, login and sign-up, a table of 2 windows, time 7, delay 1 | `AtMostTwiceTheLimit`, `GuessesBounded`, `WindowsLast` |
| `onboarding` | 3 requests at once, 3 links | `RedeemedOnce`, `SupersededIsDead`, `NobodyIsStranded`, `NoCircle` |
| `user_admin_all` | 2 users, 2 operations of every kind | `LastAdminLostOnlyToStaleTarget`, `AdministratorsAreNotDeleted`, `CircleNeedsAuditRow`; `EveryOperationEnds` under `FairSpec` |
| `user_profiles` | 3 users, 2 of them administrators, 2 creations, changes or deletions at once and 3 in all, 1 reader of the users or of the audit rows of one, pages of 2 items | `KeysAreUnique`, `TrailTellsTheRow`, `CircleNeedsNewKey`, `PagesSkipNothing` |
| `sessions_safety` | one account, 2 operations of every kind, 4 tokens | `ExchangesOverlap`, `ExchangedIsRevoked`, `DeactivationRevokesAll`, `CircleNeedsRotation` |
| `client_session` | 2 tabs with 2 calls and 1, one of them a change of password, 1 user, 3 token pairs, 1 fault | `NoSessionIsForgotten`, `WaitersHaveARefresh`, `SessionsEndForAReason` |
| `last_admin` | 2 users, 2 operations on roles and status | finding: the tenant loses its last active administrator, against users/service.py:11 |
| `exchanged_twice` | 3 tokens | finding: one token is exchanged twice, against auth/service.py:141-142 |

The runs of `UserAdmin` do not check for deadlock in TLC's sense: once a tenant
has lost its last administrator nobody can start an operation any more.  A
circle of waiting operations is no such deadlock either, since each of them may
give up; `CircleNeedsAuditRow` speaks of circles directly.

**The last administrator.**  The trace of `last_admin`: two administrators A and
B, B inactive.  A asks to demote B and loads B, inactive.  Before A's locking
statement another request of A activates B, and B demotes A.  A's statement then
locks B, but the object of B in A's session is still the inactive one;
`_require_another_active_admin` takes B for no active administrator and returns
without looking at the list.  `user_admin_all` shows that this is the only way:
the tenant loses its last administrator only to an operation whose target was
changed by others between being loaded and being locked.  With
`populate_existing` on the locking SELECT there would be no such operation.

**What locks do for sessions.**  A token that is being inserted shares the
user's row.  FOR UPDATE waits for such shares: when a deactivation has its
lock, no token is in flight, its list is complete, and none is added before it
commits (`DeactivationRevokesAll`).  A transaction that has read ACTIVE before
may insert after it.  A password change has neither side of
this: it lists first, and its UPDATE ignores shares (section 8).  A
refresh takes its locks in the opposite order, token then user, so it can wait
in a circle with a deactivation or a deletion, and nothing else can
(`CircleNeedsRotation`).  Two refreshes exchange a token twice only while they
overlap: never more often than there are operations at once
(`ExchangesOverlap`), and a replay after the commit is refused.

**What a resend promises.**  Its UPDATE waits for every link that it can see,
so when it commits all links that existed before it began are dead, also one
whose redemption was rolled back meanwhile (`SupersededIsDead`).  It does not
see the link of another resend that is under way, nor does a resend or a
redemption know whether INACTIVE means "not verified yet" or "deactivated"
(section 8).
A failed mail takes everything with it, so that there is always a link in the
mail as long as the address is not verified (`NobodyIsStranded`).

**What the indexes do for profiles.**  Nothing in the code compares an e-mail
with those of other users; two requests that write one e-mail meet in the index,
the second waits for the first, and gets the conflict or the key
(`KeysAreUnique`).  A PATCH may compare with an old row, and its audit row may
then tell an old `from`; but since its UPDATE names single columns, it never
takes back what another PATCH has done to a different one (`TrailTellsTheRow`).
Requests that exchange keys wait for each other until the database ends one;
creations, deletions and changes of names never do by themselves
(`CircleNeedsNewKey`).  Whoever leafs
through a list may see an item twice, when something is added before it, but
misses none that was there at the start and still is (`PagesSkipNothing`), but in
three cases: an item moves (a name or an employee code changes), one is added
between the count and the page, or a user who stands before the next page is
deleted, so that the first of that page moves up to those already read
(section 8).

**What the limiter bounds.**  A thread that was held up between clock and lock
may start a window in the past, or judge a newer window by an older time; the
budgets hold nevertheless for every span that is shorter than the window by the
delay (`AtMostTwiceTheLimit`).  Guesses of a password are counted after they are
checked, so each other thread adds one to the budget (`GuessesBounded`).  No
window is lost before its time except to a full table or a successful login
(`WindowsLast`).

**What reads agree on.**  `HoursAreWorked` compares the clipped sums with a count
of the hours in which the user was checked in.  It excepts two cases that the
code does not cover (section 8): a session open since last month with no event
in this one, and the week's hours when the week began in the month before.
`HistoryHasNoGap` holds because the range only ever moves towards the present: a
page may repeat days, never pass one over.

**What an answer is worth.**  An attempt that is told of a success has its
event.  The reverse has one exception: a commit whose acknowledgement or answer
is lost leaves an event of which nobody was told, and `SuccessesAreTheEvents`
counts it to the attempt that would have been told.  Made again at once, the
attempt meets that event and is refused as ALREADY_CHECKED_IN or NOT_CHECKED_IN;
made again in any state, it leaves the events alternating.  No rolled back or
refused attempt leaves a verified event.

**What a client may lose.**  Within one tab the single flight does what it is
for: however the 401s of the calls fall, the session goes on.  A session may end
(`SessionsEndForAReason`)

* after a lost request or answer, also that of a sign-in, and after a revocation:
  a deactivation, or a change of password;
* after another tab has presented, replaced or removed the same token;
* after a session was ended while it was being refreshed, begun or logged out of,
  or in one tab while it was relied on in another (`CutShort`);
* after a late call of a session that has ended has started a refresh with the
  token of the next one (`AfterTheEnd`);
* by a wrong current password: the form sends it, the server answers 401 twice,
  and the client takes that for a dead session (section 8).

The first four set `disturbed`.  Before any of them, every refresh token that the
server would exchange is the stored one or on its way (`NoSessionIsForgotten`),
except those in `left`: the one that was stored when somebody signed in over it,
which the page that verifies an e-mail permits to whoever is signed in
(session.ts:130-139), and the one that was refreshed for a wrong password.  The
browser drops both without a word to the server; the model shows that there is no
third kind.

**Why the bounds are enough.**  The only coupling between users is the lock
table, which has one entry per user, and the rows of their tenant; one user
shows every race.  A race needs two transactions; a third attempt or second
sweep adds repetitions, and overlapping sweeps are covered by the proof of
`IInv`.  With two attempts, a sweep and time 4 the following all happen: an
in-band closure followed by the check-in it makes room for, a closure followed
by a refusal, a closure by the sweep while an attempt waits, a longest shift
changed under an open session, a deletion while an attempt waits.  The time
bound is more than the shortest shift plus the inserts before it.  In
`UserAdmin` and `Sessions` an operation is free to start again, so any number of
operations run, two at a time; two transactions suffice for a stale read and for
a circle.  With four tokens one token can have more replacements than there are
operations, so `ExchangesOverlap` says something; `MaxTokens` is the bound on
tokens ever issued.  In `Onboarding` three links allow two live ones and two
resends that visit both, which is what a circle would take; `MaxLinks` is the
bound on links ever made.  In `UserProfiles` three requests (`MaxRequests`), two
at a time, are a lost update with its witness, or an exchange of keys; with two
items per page three users are a full page and one that is not, so that an
insertion, a deletion or a change of a name before the end moves somebody to
another page.  In `RateLimiter` time 7 (`MaxTime`) is more than the longest
window, the interval of the sweep and the delay (`MaxDelay`, the longest wait
for the lock) together need, and three keys compete for two places.  In
`AttendanceReads` three events (`MaxEvents`) are a session and a ragged edge on
either side of any cut, three days (`MaxTime`) hold a month's begin in mid-week
and a range that moves by more than a page.  In `ClientSession` three token
pairs (`MaxTokens`) are a login and two rotations, one for each tab; one fault
(`MaxFaults`) is a lost answer whose token is presented again.

**Fairness.**  `FairSpec` asks that a transaction that can take its next step
takes it (the backend and PostgreSQL run), that a waiter of a row lock that is
free again and again is served (strong fairness: PostgreSQL queues the waiters
of a row), that the platform runs the job again and again
(close_stale_sessions.py:10-16), and that time passes.  Nothing is asked of
users, administrators or faults; the number of faults is finite.  In
`UserAdmin` a transaction takes its next step or, when it waits, is ended by
lock_timeout: weak fairness of the disjunction.

**Mutants.**  Beside the definitions that can break there are variants named
for what is wrong in them (`LockUserWithoutWaiting`, `InsertAtStart`, ...).
They take no part in any specification; substituting one for its original must
make TLC report the property it is listed with in `PROJECT.json`.

## 5. What is proved

All theorems hold for every value of the constants.  Assumptions are the named
ASSUMEs of the module that declares the constants.  They say that bounds are
numbers, that `Nobody`, `NoToken`, `NoEvent` and the like are not values they
stand beside, and that no process is two kinds of process; that the threads of
`RateLimiter` and the operations of `Sessions` are finitely many, since the
properties count them; and that me() is not one of the calls of a page
(`CallsAssumption`).  The calendar of `AttendanceReads` may have days and weeks of
any length and months that begin anywhere, as long as day 0 begins one
(`CalendarAssumption`); a page has an item or more, and so has the default range
(`PagingAssumption`).  TLC evaluates them in the runs.

| Module | Theorem | Property |
| --- | --- | --- |
| `AttendanceProofs` | `InductiveInvariant`, `TypeCorrect` | `IInv`, `TypeOK` |
| | `Alternation`, `StoredOrder`, `NoOrphans` | `EventsAlternate`, `StoredOrderIsCommitOrder`, `NoOrphanEvents` |
| | `TrueAnswers` | `AnswersTellTheState` |
| | `OwnTokens`, `ReplacedTokensAreVoid` | `OwnTokenOnly`, `ReplacedTokenNeverWorks` |
| | `ShiftsAreNotCutShort`, `LedgerIsImplemented` | `AutoCloseIsDue`, `ImplementsLedger` |
| | `SuccessesMatchEvents`, `TrailTellsTheEvents` | `SuccessesAreTheEvents`, `AuditTellsTheEvents` |
| `AttendanceReadsProofs` | `TypeCorrect` | `TypeOK` |
| | `NothingIsLost`, `EveryDayIsShown`, `HoursAreHoursWorked` | `NoEventIsLost`, `PagesShowEveryDay`, `HoursAreWorked` |
| | `NoDayIsPassedOver`, `StateIsToldOnceRecorded` | `HistoryHasNoGap`, `LiveStateOnceRecorded` |
| `UserAdminProofs` | `OnlyStaleTargetsCost`, `NoAdministratorIsDeleted` | `LastAdminLostOnlyToStaleTarget`, `AdministratorsAreNotDeleted` |
| | `OrderedLocksNeverCircle` | `CircleNeedsAuditRow` |
| `UserProfilesProofs` | `UniqueKeys`, `AuditTellsTheFields` | `KeysAreUnique`, `TrailTellsTheRow` |
| | `OnlyNewKeysCircle`, `PagesMissNothing` | `CircleNeedsNewKey`, `PagesSkipNothing` |
| `RateLimiterProofs` | `LimitsLast` | `WindowsLast` |
| | `GuessesAreBounded`, `NeverThreeBudgets` | `GuessesBounded`, `AtMostTwiceTheLimit` |
| `SessionsProofs` | `ExchangedTokens`, `DeactivationIsComplete` | `ExchangedIsRevoked`, `DeactivationRevokesAll` |
| | `OnlyRotationsCircle`, `ReplaysAreRefused` | `CircleNeedsRotation`, `ExchangesOverlap` |
| `OnboardingProofs` | `LinksAreRedeemedOnce`, `SupersededLinksAreDead`, `NoAdministratorIsStranded` | `RedeemedOnce`, `SupersededIsDead`, `NobodyIsStranded` |
| | `RequestsNeverCircle` | `NoCircle` |
| `ClientSessionProofs` | `WaitersAreWoken`, `TheBrowserHoldsTheSession`, `NoSessionEndsByItself` | `WaitersHaveARefresh`, `NoSessionIsForgotten`, `SessionsEndForAReason` |

Hardly any of these is inductive by itself; each module states its invariant
first, as named parts, then one lemma per action, then the theorems.

**Attendance.**  Alternation is kept by a commit because the *view* of the
committing transaction, the committed events followed by its own, alternates;
that stays true between its steps because nobody else appends to the events of
its user; and that because whoever appends holds the lock.  So `IInv` has the
lock discipline (`LockInv`), the absence of rows outside it (`PendingInv`),
soundness of the committed events *and* of every view (`HistoryInv`), the fact
that a state which was checked stays as checked (`EligibleInv`), and that
deletion leaves no events (`DeletedInv`).  Answers are true because the outcome
that an attempt about to commit holds was read off its own view (`AnswerInv`),
which nobody else changes and the commit publishes.

For tokens, `TokenInv` says that whoever has been vouched for by a scan, or was
granted a success, presented a token of the own tenant that had been printed by
then; tokens of a location are numbered, and the number only grows.  So an
attempt whose token is behind the location's when it begins stays `Void`: no scan
of it can succeed, and nothing else vouches for it.

**Ledger.**  `LInv` adds to that: a transaction has inserted a closure, another
event, or both in this order (`InsertsInv`); the closures in committed events and
in views were due when they were read (`DueInv`), by a limit that the tenant's
settings allow (`SettingsInv`).  Each commit then writes one entry of the ledger or
a closure with the next check-in, and since the view alternates, the
guard of that step of the ledger holds; `DeleteUser` is `Delete`; everything else
leaves the ledger alone.

Successes and audit rows are proved with the same view.  `ToldInv`: the verified
events that a transaction has pending are exactly what it will tell when it
commits, whether or not the answer arrives, none for one that is refused.
`TrailInv`: the audit rows that a user will have after the commit tell the
events that the user will have.  A row that is about an event is written in the
step that inserts it, every other row is about no event, and the lock keeps
others from writing in between.

**Attendance reads.**  Three of the five are about what a loop makes of a history
of any length.  The library's induction theorems take an operator, so the module
derives an induction of its own from facts that take none: a nonempty set of
numbers has a least element (`LeastOfNaturals`, from the well-foundedness of
strict inclusion of finite sets), hence a set of histories that holds the empty
one, and with each history every longer one, holds them all (`EveryHistory`).
The folds of the community modules are recursive functions on sets of indices,
and are unrolled in the same way: there is a function that satisfies the
recursion (`FoldExists`), and it takes the steps of the loop one by one
(`FoldTrace`).  Then

* `NoEventIsLost`: after each event the sessions built so far, flattened, with
  the open event at their end, are the events read so far.
* `PagesShowEveryDay`: the pages concatenated are the dates of the range; the
  events of a day and those of the days before it are the events up to its end,
  because a history is ordered by its timestamps.
* `HoursAreWorked`: for each window, the hours accounted for by the sessions so
  far, and those of the session left open, are the hours up to now in which the
  last event before them was a check-in (`Settled`, `Accounted`, and for every
  history `IHours`).  The three windows are then instances of one lemma.  The two
  exceptions are where it fails: a window that begins before the events are loaded
  from, and a session that is open since then with no event loaded that tells of it.

The other two are about requests.  `ILive`: nothing recorded lies in the future, and
the answer about one day is that day of the events as they stand when it is read;
so if it is today's, and has any event, its last event is the last of all.  That is
the state told; the next attempt may first close a stale session
(attendance/service.py:352) and is then judged by another.
`IClock`: no reading is ahead of the clock.  `IHistory`: the page that is asked
for next begins no later than where the days shown so far end, since the range
only moves towards the present, and the page before it was a full one; what has
been shown has no gap, and holds the events that were there at the start, because
events are only ever added.

**UserAdmin.**  The rows that a locking statement has visited are locked and have
lower ids than those it has still to visit (`OrderInv`).  Take a circle of
operations of which none is about to write its audit row, and the greatest row
that one of them waits for: its holder waits for a greater one.  An administrator
who was counted and is not the target stays locked, and so an active
administrator, until the commit (`AdminsInv`): a commit that takes the last one
away must have gone without the count, because its target looked like no active
administrator when it was loaded.  A deletion loads its target with the lock
(`TargetInv`), and therefore knows its role.

**UserProfiles.**  A key that a writer has entered is one that no committed row
but its own has (`EnteredIsFree`) and that no other writer has entered
(`EnteredIsExclusive`); commits only publish what was entered.  Beside it a writer,
or a deletion that has its lock, is alone with its row, and what a deletion has
seen of it is what is there (`HeldInv`); nobody else asks for a user who is being
created (`CreationInv`), and before the creation nothing was recorded about her.
So a commit changes a field and tells of it in one step, and a deletion tells what
the row was (`TrailInv` says that rows are sequences of audit entries).  A field
that no row about the user names, like the name of one who was never renamed, is
not spoken of.

Take a circle without a PATCH of a key.  Nobody in it waits to write an audit row:
whoever acts on others is an administrator, whose row nobody deletes, and a change
of her name does not keep the foreign key from it.  So a writer who has entered
all keys waits for nobody, and neither does who waits for the row of such a writer
belong to the circle.  The rest are creations: the code is entered before the
e-mail (`OrderInv`), so each of them waits with nothing entered, and for nobody.

For the lists, what a reader has not yet seen of the items that were there at the
start, and still are, has a place on the page that comes next or behind it
(`ReadInv`): insertions push items back, a page takes exactly the places it is
counted for, and a deletion at or behind the next page moves nobody to a place
before it (`ReadingSkipsTheDeleted`).  The audit rows of a user go on growing
(`KnownStays`, `ListsGrow`), and a reader of them stops at the user's deletion.

**RateLimiter.**  No reading of the clock lies in the future, and no rule lasts
longer than the hour the sweep grants (`RulesAssumption`): so whatever is swept
or found expired has lasted, by whichever old clock.  The size of the table is a
fact about finite sets: a key is added only below the bound or after one was
dropped.

Guesses: the window counts them until it is full; from then on nobody new passes
the guard, and each guess that is recorded uses up one of the threads that had
passed it before (`GuessInv`).  Two budgets: the events remembered of a key are
those of the present window, at most its count, and older ones (`BudgetInv`).
The older ones are of one budget at most and none was admitted later than
`MaxDelay` after the window began; when the window has lasted, and a next one
begins, the span has forgotten them.

**Sessions.**  Whoever ends the sessions of a user has the row from before the
list to the commit, nobody shares it then (`LockInv`), and so the live tokens are
among those on the list (`EndingInv`).  An exchanged token is revoked because the
refresh that inserts a replacement has written the old token before
(`RotationInv`), and no step brings a token to life that was committed.

Tokens are updated in one order (`WaitInv`).  Of the tokens that a circle waits
for take the greatest: whoever has it waits for no greater one, so it is a
refresh that waits for the user's row; and whoever has that row and waits at all
is a deactivation or a deletion that waits for a token.
The refreshes that have found a token in order, and those that have replaced it,
are together never more than the operations (`OverlapInv`): once one has
committed, nobody finds the token in order any more.

**Onboarding.**  Rows that are written are locked, and issued links differ
(`Exclusive`).  A resend that has visited all rows has consumed every link it
knew, or somebody else has (`KnownInv`).  What a request has consumed and not
committed is live for all others (`MarkedInv`), and what it has issued is in the
mail before it commits (`IssuedInv`): so a commit that takes the last live link
either puts one in its place or verifies the address.

An UPDATE visits the links in one order (`ScanInv`), a verification has its one
link before the user's row, and whoever writes that row waits for nobody: so
among any requests one does not wait for the others.

**ClientSession.**  A tab whose calls wait has a refresh under way: it is
started by the first of them and wakes them all in the turn in which it ends
(`WaitersInv`).  As long as nothing interferes, at most one request is under way
in the whole browser; it carries the stored token, which is live until it is
answered, and what it was issued is live until it is stored (`OneRequest`,
`NothingForgotten`, which leaves out the tokens in `left`).  `SoundSession` says
that a session which lasts or begins rests on a stored token, and that a request
which is sent again carries a good access token: hence no refresh of it can be
refused, and a second 401 can only be about a password.  Where a step shares the
token with another tab, the model records the interference, and the proof shows
that these are all the steps that need to.

**Circles** need a greatest element of a set of numbers, or that a finite set is
not emptied by always taking one more.  As for the loops of `AttendanceReads`, the
lemmas derive it from the library's facts about finite sets and about minimal
elements of well-founded relations, which take no operator.

## 6. Only model-checked

* Liveness: `StaleSessionsAreClosed`, `EveryAttemptEnds`, `EveryOperationEnds`.
  Liveness, ENABLED and hence fairness are out of this prover's reach.

Every other property of a passing run is a theorem.

## 7. What is not modelled

* Two clocks.  The age of a session is the application's clock minus a
  timestamp of the database; the model has one clock that never goes back and
  gives each insert a time of its own.
* The order in which several row locks are taken, and key-share locks of
  foreign keys: the attendance transactions take one lock.  They are the
  subject of `UserAdmin`.
* How components slow each other down: rate limits in front of the attendance
  endpoints (`RateLimiter` has those of login and sign-up), the size of the
  connection pool, HTTP.
* POST /presence/verify, which takes the decision of `PresenceRules` outside of
  an attempt and stores an audit row; renaming a tenant, and the audit rows of
  its location.
* Of the limiter, `reset()`, which only tests call, and `rate_limit_enabled`;
  of reads, the rounding of hours, and `include_inactive`, which no route passes;
  of lists, their filters.
* The check-in flow of the client (features/attendance/CheckInOutFlow.tsx):
  stages and callbacks of one component, whose effect on the server is one more
  attempt, and `Attendance` has any number of those in any order.  The page that
  verifies an e-mail: one call, and a link is redeemed once however often it is
  presented (`RedeemedOnce`).
* Of the client's session, browsers without localStorage, `setUser`, and the
  query cache that is cleared when a session ends.
* The other components marked `not_modelled` in `PROJECT.json`: they keep no
  state that a property could be about.

## 8. Disagreements met

Two are findings that runs show: `last_admin` and `exchanged_twice`.  The others
were met while modelling; each was seen in a trace of the module named, or read
off its source.  Where a comment or a test says otherwise it is quoted.

**Attendance**

* "A refused attempt is committed too: it wrote an audit row and nothing else"
  (api/v1/attendance.py:59-60): it may have closed a stale session before it was
  refused (service.py:352 comes before the returns of :372 and :411), and that
  closure is committed with it.
* "attendance recording all consult users.status on every request, so the
  effect is immediate" (users/service.py:470-471): an attempt that was
  authenticated before a deactivation waits for the user's row, does not look at
  the status again (attendance/service.py:148-153) and is recorded after it.
* The state of GET /attendance/me is "Derived live from the events, never
  stored" (schemas/attendance.py:205), but from those of the day that was asked
  for (:211-215): with a session open since before midnight it is
  NOT_CHECKED_IN while the next check-in is refused as ALREADY_CHECKED_IN.
  `LiveStateOnceRecorded` says when it can be relied on.
* "Hours worked today / this (UTC, Monday-start) week" (queries.py:388): the
  events are loaded from the start of the month (:420-426), so on its first days
  the hours of a week that began in the month before are missing.  Likewise
  month_hours is 0 (:402) for a session that is open since last month.

**Users and tokens**

* "every transaction acquires them in the same order and none can deadlock
  against another" (users/service.py:228-230): delete_user locks its target
  alone and then, by the foreign key of its audit row, shares the actor's row.
  With `FALSE` on the right of `CircleNeedsAuditRow` TLC shows the circle.
* "an unexpired refresh token must not outlive the access it represents"
  (users/service.py:491-492): a login or refresh that read ACTIVE before a
  deactivation commits a live token after it.  The token is refused while the
  account is inactive, and works again after a reactivation.
* "Every existing session is ended" by a change of password
  (users/service.py:625-626): the tokens are listed (refresh_tokens.py:123-128)
  before the transaction holds any lock of the user, and its UPDATE does not
  conflict with the foreign key of a token being inserted.  A login with the old
  password whose token is committed between the list and the commit survives.
* "The savepoint keeps that failure from poisoning the caller's transaction"
  (users/service.py:295): begin_nested() flushes what is pending before it sends
  SAVEPOINT, so the violation comes before the savepoint.  The routes roll
  everything back anyway.
* "newest first" (users/service.py:679): rows are sorted by created_at, which is
  the begin of a transaction, not its commit; and "before/after values"
  (api/v1/users.py:556) may tell a "before" that another request had replaced.

* "Which keeps pagination stable" (users/service.py:197-198): the list is read by
  offset (:209-210), and delete_user (:593) moves every later row up by one.  A
  reader who has the first page when somebody on it is deleted is not shown the
  first user of the second, who is still there.  Without the third exception of
  `PagesSkipNothing` TLC shows it.

**Onboarding**

* "Any previously issued, still-valid link for this account stops working the
  moment a fresh one is requested" (onboarding/service.py:218-219): two resends
  whose UPDATEs both come before either commit do not see each other's link, and
  both links are live.
* An account that was verified and then deactivated is activated by an
  administrator ("Reactivate" is a route of TENANT_ADMIN, README.md:412, 1233 of
  the backend): but a resend takes INACTIVE for "never verified"
  (onboarding/service.py:232) and a live link activates whoever it belongs to
  (:187).

**Rate limiter**

* "the limiter logs and evicts the windows closest to expiry"
  (rate_limit.py:127-128, 247): those that began first go (:251), whatever their
  length.  A window of an hour is dropped while one of a minute, begun later and
  over sooner, stays.

**Client**

* "trigger exactly one /auth/refresh call" (client.ts:40-43) is true of one tab:
  two tabs that meet a 401 together present the same token, and one of them may
  be signed out.
* "That is a genuinely dead session, not a transient race" (client.ts:173), of a
  retried request that is refused again: POST /users/me/password answers a wrong
  current password with 401 (api/v1/users.py:170-174).  One mistyped password makes
  the client refresh, ask again, and sign the user out of a session that is alive;
  the form has a message for this case (ChangePasswordForm.tsx:39-46), but the page
  it would be shown on is left for the login.  The token of the refresh is dropped,
  not revoked.  Without `PasswordRefused` in `SessionsEndForAReason` TLC shows it.
* "Revoke the current refresh session and clear local state" (session.ts:142) is
  done by logout, but establishSessionFromTokens (:130-139) puts the new tokens
  over those of a session that is still signed in: the link of a verification
  mail opens for everyone (router.tsx:71-81).  The old refresh token stays live
  until it expires.
* "Revoke the current refresh session" (session.ts:142): a refresh that is under
  way at a logout has presented the token that the logout revokes, stores its
  replacement afterwards (:45), and that one stays alive; the next load of the
  page is signed in again.
* In the same way, if somebody else signs in while a refresh of the previous
  session is still under way, performRefresh puts the old user's tokens next to
  the new user's name (session.ts:45-52): "so the next person to sign in on a
  shared device never sees" the previous user's data (:20-22) does not hold then.

Four more sentences are not quite what the code does and are of no consequence
for the properties: "attendance_events is never edited or deleted"
(attendance/service.py:21-22), while delete_user deletes a user's events;
"Lock order across the transaction is always user → QR challenge"
(service.py:143), a lock that no longer exists; "Not wired to
an endpoint yet" (auth/refresh_tokens.py:119), of a function that two endpoints
reach; and a check-in whose user has
vanished is refused with ALREADY_CHECKED_IN and the state NOT_CHECKED_IN
(service.py:342-350).
