---------------------------- MODULE ClientSession ----------------------------
(***************************************************************************)
(* The session of the web client: lib/auth/session.ts, tokenStorage.ts,    *)
(* lib/api/client.ts and stores/authStore.ts, in the tabs of one browser,  *)
(* which share localStorage and nothing else.                              *)
(*                                                                         *)
(* JavaScript runs to its next await without interruption, and what waits  *)
(* for a promise resumes in the turn that settles it: one action is one    *)
(* turn of the event loop.  The server answers a refresh as its module     *)
(* Sessions allows when refreshes do not overlap there; a request and its  *)
(* answer may be lost.                                                     *)
(***************************************************************************)
EXTENDS Integers, FiniteSets

CONSTANTS
    Tab,        \* tabs of one browser
    User,       \* the people who use it
    Call,       \* requests that a page may have under way
    CallsOf,    \* those of a tab: a function from Tab
    PasswordCall, \* those that are POST /users/me/password
    MaxTokens,  \* bound of the model: token pairs that the server issues
    MaxFaults,  \* bound of the model: lost requests or answers, revocations
    Nobody,     \* authStore.user = null
    NoToken,    \* no token
    NoRequest   \* nothing is under way

ASSUME BoundsAssumption == MaxTokens \in Nat \ {0} /\ MaxFaults \in Nat

ASSUME CallsAssumption ==
    CallsOf \in [Tab -> SUBSET Call] /\ PasswordCall \subseteq Call /\ "me" \notin Call

VARIABLES
    owner,      \* owner[n]: the user of token pair n, Nobody before it is issued
    live,       \* refresh tokens that the server would exchange
    fresh,      \* access tokens that the server accepts
    stored,     \* localStorage["karya.refresh_token"]
    store,      \* store[t]: authStore of tab t
    main,       \* main[t]: the session function that runs in t
    mine,       \* mine[t]: `tokens' of that function
    wire,       \* wire[t][s]: the request to /auth of slot s that t waits for
    call,       \* call[t][c]: an apiFetch with a bearer token
    left,       \* history: good tokens that a sign-in or a wrong password dropped
    disturbed,  \* history: a fault, another tab or an overlap interfered
    faults      \* history: how many faults there were

server == <<owner, live, fresh>>
vars == <<owner, live, fresh, stored, store, main, mine, wire, call, left, disturbed, faults>>

Token == 1..MaxTokens

Status == {"loading", "authenticated", "unauthenticated"}

\* "refresh" is inFlightRefresh of client.ts, "main" the request of main[t].
Slot == {"main", "refresh"}

\* The calls of the pages, and authApi.me().
Fetch == Call \cup {"me"}

Request == [token : Token, answer : {"none", "refused", "ok"}, issued : Token \cup {NoToken}]

ASSUME ValuesAssumption == NoToken \notin Token /\ NoRequest \notin Request /\ Nobody \notin User

AtRest == [at |-> "none", token |-> NoToken]

Wait == [at |-> "waiting", token |-> NoToken]

SignedOut == [status |-> "unauthenticated", user |-> Nobody, access |-> NoToken]

InFlight(t, s) == wire[t][s] # NoRequest

TypeOK ==
    /\ owner \in [Token -> User \cup {Nobody}]
    /\ live \cup fresh \subseteq {n \in Token : owner[n] # Nobody}
    /\ stored \in Token \cup {NoToken}
    /\ store \in [Tab -> [status : Status, user : User \cup {Nobody},
                          access : Token \cup {NoToken}]]
    /\ \A t \in Tab : (store[t].status = "authenticated") <=> (store[t].user # Nobody)
    /\ main \in [Tab -> {"closed", "idle", "bootstrap", "login", "logout"}]
    /\ mine \in [Tab -> Token \cup {NoToken}]
    /\ \A t \in Tab, s \in Slot :
          InFlight(t, s) => wire[t][s] \in Request
    /\ call \in [Tab -> [Fetch -> [at : {"none", "sent", "waiting", "resent", "changed"},
                                   token : Token \cup {NoToken}]]]
    /\ left \subseteq Token
    /\ faults \in 0..MaxFaults
    /\ disturbed \in BOOLEAN

Init ==
    /\ owner = [n \in Token |-> Nobody] /\ live = {} /\ fresh = {}
    /\ stored = NoToken
    /\ store = [t \in Tab |-> [SignedOut EXCEPT !.status = "loading"]]
    /\ main = [t \in Tab |-> "closed"]
    /\ mine = [t \in Tab |-> NoToken]
    /\ wire = [t \in Tab |-> [s \in Slot |-> NoRequest]]
    /\ call = [t \in Tab |-> [c \in Fetch |-> AtRest]]
    /\ left = {} /\ disturbed = FALSE /\ faults = 0

-----------------------------------------------------------------------------
(* The parts of an action.                                                 *)

Post(token) == [token |-> token, answer |-> "none", issued |-> NoToken]

Others(t) == Tab \ {t}

\* Another tab waits for the exchange of the same token.
Contended(t, token) ==
    \E o \in Others(t), s \in Slot : InFlight(o, s) /\ wire[o][s].token = token

\* Another tab is signed in, or about to be, on the token that t removes or replaces.
Shared(t) == \E o \in Others(t) : store[o].status = "authenticated"
                                  \/ main[o] \in {"bootstrap", "login"}

\* A call of a session that t has ended is still under way.
AfterTheEnd(t) == main[t] = "idle" /\ store[t].status = "unauthenticated"

\* endSession()
EndSession(t) ==
    /\ stored' = NoToken
    /\ store' = [store EXCEPT ![t] = SignedOut]

\* The session of t ends while it is refreshed, or while another tab relies on it.
CutShort(t) == InFlight(t, "refresh") \/ Shared(t)

\* History: the step is one of those that a session may end by, now or later.
Disturb(condition) == disturbed' = (disturbed \/ condition)

Fault == faults < MaxFaults /\ faults' = faults + 1

\* A request that the server lets in.
Accepted(t, c) == call[t][c].at \in {"sent", "resent"} /\ call[t][c].token \in fresh

\* The server issues a token pair to u.
Issue(n, u) ==
    /\ owner[n] = Nobody /\ \A m \in Token : m < n => owner[m] # Nobody
    /\ owner' = [owner EXCEPT ![n] = u]
    /\ fresh' = fresh \cup {n}

-----------------------------------------------------------------------------
(* Pages are loaded and closed.                                            *)

\* bootstrapSession, up to its first await.
Open(t) ==
    /\ main[t] = "closed"
    /\ IF stored = NoToken
       THEN /\ store' = [store EXCEPT ![t] = SignedOut]
            /\ main' = [main EXCEPT ![t] = "idle"]
            /\ UNCHANGED <<wire, disturbed>>
       ELSE /\ main' = [main EXCEPT ![t] = "bootstrap"]
            /\ wire' = [wire EXCEPT ![t]["main"] = Post(stored)]
            /\ Disturb(Contended(t, stored))
            /\ UNCHANGED store
    /\ UNCHANGED <<server, stored, mine, call, left, faults>>

\* The page is left or loaded again: its memory is gone, and with it what
\* it was waiting for.
Close(t) ==
    /\ main[t] # "closed"
    /\ main' = [main EXCEPT ![t] = "closed"]
    /\ mine' = [mine EXCEPT ![t] = NoToken]
    /\ store' = [store EXCEPT ![t] = [SignedOut EXCEPT !.status = "loading"]]
    /\ wire' = [wire EXCEPT ![t] = [s \in Slot |-> NoRequest]]
    /\ call' = [call EXCEPT ![t] = [c \in Fetch |-> AtRest]]
    /\ Disturb(\E s \in Slot : InFlight(t, s))
    /\ UNCHANGED <<server, stored, left, faults>>

-----------------------------------------------------------------------------
(* The server.                                                             *)

\* POST /auth/refresh
Exchange(t, s) ==
    /\ InFlight(t, s) /\ wire[t][s].answer = "none"
    /\ s = "main" => main[t] = "bootstrap"
    /\ LET old == wire[t][s].token
       IN  \/ /\ old \in live
              /\ \E n \in Token :
                    /\ Issue(n, owner[old])
                    /\ live' = (live \ {old}) \cup {n}
                    /\ wire' = [wire EXCEPT ![t][s].answer = "ok", ![t][s].issued = n]
           \/ /\ old \notin live
              /\ wire' = [wire EXCEPT ![t][s].answer = "refused"]
              /\ UNCHANGED server
    /\ UNCHANGED <<stored, store, main, mine, call, left, disturbed, faults>>

\* POST /auth/logout
Revoke(t) ==
    /\ InFlight(t, "main") /\ wire[t]["main"].answer = "none" /\ main[t] = "logout"
    /\ live' = live \ {wire[t]["main"].token}
    /\ wire' = [wire EXCEPT ![t]["main"].answer = "ok"]
    /\ UNCHANGED <<owner, fresh, stored, store, main, mine, call, left, disturbed, faults>>

\* An access token lasts 15 minutes, far longer than DEFAULT_TIMEOUT_MS: none
\* expires on its way to the page, or on the retry that follows at once.  That
\* one expires which nobody holds makes no difference.
Expire(n) ==
    /\ n \in fresh
    /\ \E t \in Tab : store[t].access = n \/ \E c \in Call : call[t][c].token = n
    /\ \A t \in Tab :
          /\ \A c \in Fetch :
                (c = "me" \/ call[t][c].at = "resent") => call[t][c].token # n
          /\ \A s \in Slot : InFlight(t, s) => wire[t][s].issued # n
    /\ fresh' = fresh \ {n}
    /\ UNCHANGED <<owner, live, stored, store, main, mine, wire, call, left, disturbed, faults>>

\* An administrator deactivates u: neither kind of token is good any longer.
Deactivate(u) ==
    /\ Fault /\ Disturb(TRUE)
    /\ \E n \in live : owner[n] = u
    /\ live' = {n \in live : owner[n] # u} /\ fresh' = {n \in fresh : owner[n] # u}
    /\ UNCHANGED <<owner, stored, store, main, mine, wire, call, left>>

\* POST /users/me/password with the right current password: the server ends
\* every session of the user, whose access tokens stay good until they expire.
ChangePassword(t, c) ==
    /\ c \in PasswordCall /\ Accepted(t, c)
    /\ Disturb(TRUE)
    /\ live' = {n \in live : owner[n] # owner[call[t][c].token]}
    /\ call' = [call EXCEPT ![t][c].at = "changed"]
    /\ UNCHANGED <<owner, fresh, stored, store, main, mine, wire, left, faults>>

-----------------------------------------------------------------------------
(* apiFetch with a bearer token.                                           *)

Settle(calls, done) == [c \in Fetch |-> IF c \in done THEN AtRest ELSE calls[c]]

Waiting(t) == {c \in Fetch : call[t][c].at = "waiting"}

\* The calls in `done' have failed; if me() is among them, so has the function
\* that waits for it.  bootstrapSession then ends the session, login throws.
FailCalls(t, done) ==
    /\ call' = [call EXCEPT ![t] = Settle(@, done)]
    /\ main' = IF "me" \in done THEN [main EXCEPT ![t] = "idle"] ELSE main
    /\ mine' = IF "me" \in done THEN [mine EXCEPT ![t] = NoToken] ELSE mine

StartCall(t, c) ==
    /\ c \in CallsOf[t]
    /\ store[t].status = "authenticated" /\ main[t] \in {"idle", "logout"}
    /\ call[t][c] = AtRest
    /\ call' = [call EXCEPT ![t][c] = [at |-> "sent", token |-> store[t].access]]
    /\ UNCHANGED <<server, stored, store, main, mine, wire, left, disturbed, faults>>

\* A 401: the token is not good any longer, or the current password is wrong,
\* for which POST /users/me/password answers the same.  (That a password which
\* was refused at first is accepted when it is sent again is the model's.)
Unauthorized(t, c, at) ==
    call[t][c].at = at /\ (call[t][c].token \notin fresh \/ c \in PasswordCall)

\* The answer is good, or an error other than a 401.
CallSucceeds(t, c) ==
    /\ Accepted(t, c)
    /\ call' = [call EXCEPT ![t][c] = AtRest]
    /\ UNCHANGED <<server, stored, store, main, mine, wire, left, disturbed, faults>>

\* A variant for the mutants: a refresh that has ended is still waited for.
JoinRefreshBlindly(t, c) ==
    /\ Unauthorized(t, c, "sent") /\ stored # NoToken
    /\ call' = [call EXCEPT ![t][c] = Wait]
    /\ UNCHANGED <<server, stored, store, main, mine, wire, left, disturbed, faults>>

\* refreshOnce: the refresh that is under way is this call's too.
JoinRefresh(t, c) ==
    /\ Unauthorized(t, c, "sent") /\ InFlight(t, "refresh")
    /\ call' = [call EXCEPT ![t][c] = Wait]
    /\ UNCHANGED <<server, stored, store, main, mine, wire, left, disturbed, faults>>

\* A variant for the mutants: the tab remembers its own refresh token.
StartRefreshFromMemory(t, c) ==
    /\ Unauthorized(t, c, "sent") /\ ~InFlight(t, "refresh") /\ store[t].access # NoToken
    /\ call' = [call EXCEPT ![t][c] = Wait]
    /\ wire' = [wire EXCEPT ![t]["refresh"] = Post(store[t].access)]
    /\ Disturb(Contended(t, stored) \/ main[t] = "logout" \/ AfterTheEnd(t))
    /\ UNCHANGED <<server, stored, store, main, mine, left, faults>>

\* refreshOnce and performRefresh, up to its await.
StartRefresh(t, c) ==
    /\ Unauthorized(t, c, "sent") /\ ~InFlight(t, "refresh") /\ stored # NoToken
    /\ call' = [call EXCEPT ![t][c] = Wait]
    /\ wire' = [wire EXCEPT ![t]["refresh"] = Post(stored)]
    /\ Disturb(Contended(t, stored) \/ main[t] = "logout" \/ AfterTheEnd(t))
    /\ UNCHANGED <<server, stored, store, main, mine, left, faults>>

\* performRefresh has no token to present, or the retried request is refused
\* as well: the session is over.  A wrong current password is refused both times,
\* and the token that was just issued for it is dropped without being revoked.
SessionExpires(t, c) ==
    /\ \/ Unauthorized(t, c, "sent") /\ ~InFlight(t, "refresh") /\ stored = NoToken
       \/ Unauthorized(t, c, "resent")
    /\ EndSession(t)
    /\ FailCalls(t, {c})
    /\ left' = IF c \in PasswordCall THEN left \cup (live \cap {stored}) ELSE left
    /\ Disturb(CutShort(t) \/ main[t] \in {"login", "logout"})
    /\ UNCHANGED <<server, wire, faults>>

\* A timeout or a network error; the password may be changed by then.
CallFails(t, c) ==
    /\ Fault
    /\ call[t][c].at \in {"sent", "resent", "changed"}
    /\ FailCalls(t, {c})
    /\ Disturb(TRUE)
    /\ IF c = "me" /\ main[t] = "bootstrap" THEN EndSession(t) ELSE UNCHANGED <<stored, store>>
    /\ UNCHANGED <<server, wire, left>>

\* The rest of performRefresh; the calls that waited are sent again.
RefreshSucceeds(t) ==
    /\ InFlight(t, "refresh") /\ wire[t]["refresh"].answer = "ok"
    /\ LET n == wire[t]["refresh"].issued
       IN  /\ stored' = n
           /\ store' = IF store[t].user = Nobody THEN store
                       ELSE [store EXCEPT ![t].access = n]
    /\ call' = [call EXCEPT ![t] =
                   [c \in Fetch |-> IF c \in Waiting(t)
                                    THEN [at |-> "resent", token |-> store'[t].access]
                                    ELSE @[c]]]
    /\ wire' = [wire EXCEPT ![t]["refresh"] = NoRequest]
    /\ UNCHANGED <<server, main, mine, left, disturbed, faults>>

\* Refused, or lost before or after the exchange: each waiting call ends the
\* session, if any still waits.
RefreshFails(t) ==
    /\ InFlight(t, "refresh")
    /\ \/ wire[t]["refresh"].answer = "refused" /\ UNCHANGED faults
          /\ Disturb(Shared(t))
       \/ Fault /\ Disturb(TRUE)
    /\ wire' = [wire EXCEPT ![t]["refresh"] = NoRequest]
    /\ IF Waiting(t) = {} THEN UNCHANGED <<stored, store>> ELSE EndSession(t)
    /\ FailCalls(t, Waiting(t))
    /\ UNCHANGED <<server, left>>

-----------------------------------------------------------------------------
(* The session functions.                                                  *)

\* Tokens have arrived: save, setAccessToken, then me().
Establish(t, n) ==
    /\ stored' = n
    /\ store' = [store EXCEPT ![t].access = n]
    /\ mine' = [mine EXCEPT ![t] = n]
    /\ call' = [call EXCEPT ![t]["me"] = [at |-> "sent", token |-> n]]

Bootstrapped(t) ==
    /\ main[t] = "bootstrap" /\ InFlight(t, "main") /\ wire[t]["main"].answer = "ok"
    /\ Establish(t, wire[t]["main"].issued)
    /\ wire' = [wire EXCEPT ![t]["main"] = NoRequest]
    /\ UNCHANGED <<server, main, left, disturbed, faults>>

BootstrapFails(t) ==
    /\ main[t] = "bootstrap" /\ InFlight(t, "main")
    /\ \/ wire[t]["main"].answer = "refused" /\ UNCHANGED faults
          /\ Disturb(CutShort(t))
       \/ Fault /\ Disturb(TRUE)
    /\ EndSession(t)
    /\ main' = [main EXCEPT ![t] = "idle"]
    /\ wire' = [wire EXCEPT ![t]["main"] = NoRequest]
    /\ UNCHANGED <<server, mine, call, left>>

\* login, whose form is shown to nobody who is signed in, and
\* establishSessionFromTokens, on a page of its own that is shown to everyone:
\* there is no request under way on it, and a session that is stored is replaced
\* without being revoked.  Nobody knows the new tokens before they arrive, so
\* that they are issued in the same step; a request that is refused changes
\* nothing.
Login(t, u) ==
    /\ main[t] = "idle"
    /\ \/ store[t].status = "unauthenticated"
       \/ \A c \in Fetch : call[t][c] = AtRest
    /\ \E n \in Token :
          /\ Issue(n, u) /\ live' = live \cup {n}
          /\ Establish(t, n)
    /\ main' = [main EXCEPT ![t] = "login"]
    /\ left' = left \cup (live \cap {stored})
    /\ Disturb(Shared(t))
    /\ UNCHANGED <<wire, faults>>

\* The tokens are issued, and the answer is lost.
LoginUnanswered(t, u) ==
    /\ Fault /\ Disturb(TRUE)
    /\ main[t] = "idle" /\ store[t].status = "unauthenticated"
    /\ \E n \in Token : Issue(n, u) /\ live' = live \cup {n}
    /\ UNCHANGED <<stored, store, main, mine, wire, call, left>>

\* me() has answered: setSession with the user and the function's own tokens.
MeSucceeds(t) ==
    /\ Accepted(t, "me")
    /\ store' = [store EXCEPT ![t] = [status |-> "authenticated",
                                      user |-> owner[call[t]["me"].token],
                                      access |-> mine[t]]]
    /\ call' = [call EXCEPT ![t]["me"] = AtRest]
    /\ main' = [main EXCEPT ![t] = "idle"]
    /\ mine' = [mine EXCEPT ![t] = NoToken]
    /\ UNCHANGED <<server, stored, wire, left, disturbed, faults>>

\* A variant for the mutants: the server is not told.
LogoutLocally(t) ==
    /\ main[t] = "idle" /\ store[t].status = "authenticated"
    /\ EndSession(t)
    /\ Disturb(CutShort(t))
    /\ UNCHANGED <<server, main, mine, wire, call, left, faults>>

\* logout, up to its await.
BeginLogout(t) ==
    /\ main[t] = "idle"
    /\ IF stored = NoToken
       THEN /\ EndSession(t)
            /\ Disturb(CutShort(t))
            /\ UNCHANGED <<main, wire>>
       ELSE /\ main' = [main EXCEPT ![t] = "logout"]
            /\ wire' = [wire EXCEPT ![t]["main"] = Post(stored)]
            /\ Disturb(Contended(t, stored) \/ InFlight(t, "refresh"))
            /\ UNCHANGED <<stored, store>>
    /\ UNCHANGED <<server, mine, left, faults>>

Logout(t) ==
    /\ store[t].status = "authenticated"
    /\ BeginLogout(t)
    /\ UNCHANGED call

\* useChangePassword signs out when the answer is there.  (Bound of the model:
\* one session function at a time runs in a tab.)
PasswordChanged(t, c) ==
    /\ call[t][c].at = "changed"
    /\ BeginLogout(t)
    /\ call' = [call EXCEPT ![t][c] = AtRest]

\* Whatever the answer, or without one.
LogoutEnds(t) ==
    /\ main[t] = "logout"
    /\ \/ wire[t]["main"].answer = "ok" /\ UNCHANGED faults
          /\ Disturb(CutShort(t))
       \/ Fault /\ Disturb(TRUE)
    /\ EndSession(t)
    /\ main' = [main EXCEPT ![t] = "idle"]
    /\ wire' = [wire EXCEPT ![t]["main"] = NoRequest]
    /\ UNCHANGED <<server, mine, call, left>>

Next ==
    \/ \E t \in Tab :
          \/ Open(t) \/ Close(t)
          \/ \E s \in Slot : Exchange(t, s)
          \/ Revoke(t)
          \/ \E c \in Call :
                \/ StartCall(t, c) \/ CallSucceeds(t, c)
                \/ ChangePassword(t, c) \/ PasswordChanged(t, c)
          \/ \E c \in Fetch :
                \/ JoinRefresh(t, c) \/ StartRefresh(t, c)
                \/ SessionExpires(t, c) \/ CallFails(t, c)
          \/ RefreshSucceeds(t) \/ RefreshFails(t)
          \/ Bootstrapped(t) \/ BootstrapFails(t)
          \/ \E u \in User : Login(t, u) \/ LoginUnanswered(t, u)
          \/ MeSucceeds(t) \/ Logout(t) \/ LogoutEnds(t)
    \/ \E n \in Token : Expire(n)
    \/ \E u \in User : Deactivate(u)

Spec == Init /\ [][Next]_vars

-----------------------------------------------------------------------------
(* Properties.                                                             *)

\* POST /users/me/password has been refused again, with a token that is good.
PasswordRefused(t) ==
    \E c \in PasswordCall :
        call[t][c].at = "resent" /\ call[t][c].token \in fresh /\ call'[t][c] = AtRest

\* A session that somebody has begun, or comes back to, ends by itself only if
\* there was a reason:
\*   - a lost request, or a revocation: a deactivation, a change of password;
\*   - another tab that used, replaced or removed the same token;
\*   - a session that ended while it was being refreshed, begun or logged out of;
\*   - a late call of an earlier session that refreshes the next one's token;
\*   - a wrong current password: its 401 is taken for that of a dead session
\*     (client.ts:170-174), though the form is ready to show it
\*     (ChangePasswordForm.tsx:39-46).
\* Late 401s of the same session, calls that pile up behind one refresh and
\* rotations between a request and its retry are none: "five components hitting
\* a stale access token at once must trigger exactly one" (client.ts:40-43).
SessionsEndForAReason ==
    [][\A t \in Tab :
          /\ store[t].status = "authenticated" \/ main[t] = "bootstrap"
          /\ store'[t].status = "unauthenticated"
          => main[t] = "logout" \/ disturbed \/ faults' # faults \/ PasswordRefused(t)]_vars

\* "Revoke the current refresh session" (session.ts:142): until one of the first
\* four of these reasons, the server exchanges no refresh token but the one that
\* the browser holds, or is about to receive, and those in `left', which the
\* browser dropped without a word to the server: the stored one when somebody
\* signs in over it (session.ts:130-139), and the one that was refreshed for a
\* wrong current password.  No other is forgotten while it is still good.
NoSessionIsForgotten ==
    ~disturbed =>
        \A n \in live \ left :
            \/ n = stored
            \/ \E t \in Tab, s \in Slot : InFlight(t, s) /\ wire[t][s].issued = n

\* "Must resolve with a fresh access token or reject" (client.ts:24): whoever waits
\* for a refresh is woken by it; no call waits for one that has ended.
WaitersHaveARefresh ==
    \A t \in Tab : Waiting(t) # {} => InFlight(t, "refresh")
=============================================================================
