------------------------------ MODULE Sessions ------------------------------
(***************************************************************************)
(* The refresh tokens of one account: login, refresh and logout            *)
(* (services/auth, api/v1/auth), and the operations of users/service.py    *)
(* that end sessions.                                                      *)
(*                                                                         *)
(* An operation is one transaction under READ COMMITTED.  A refresh reads  *)
(* its token and the user without a lock; revoke() marks the object, and   *)
(* the flush of issue_refresh_token sends UPDATE refresh_tokens, by the id *)
(* alone, and then the INSERT of the replacement.  The foreign key of that *)
(* row shares the user's row, which waits for FOR UPDATE but not for the   *)
(* UPDATE of a password.  Deactivation locks the user FOR UPDATE first, a  *)
(* password change lists the tokens first.                                 *)
(***************************************************************************)
EXTENDS Naturals, FiniteSets

CONSTANTS
  Op,         \* the operations that may run at once
  MaxTokens,  \* bound: tokens are the numbers up to it, in the order of issue
  Password,   \* passwords the account may have
  Nobody,     \* the holder of a free lock
  NoToken,    \* no token
  NoRequest   \* the work of an idle operation

Token == 1 .. MaxTokens

ASSUME OpAssumption == IsFiniteSet(Op)
ASSUME MaxTokensAssumption == MaxTokens \in Nat \ {0}
ASSUME NobodyAssumption == Nobody \notin Op
ASSUME NoTokenAssumption == NoToken \notin Token

VARIABLES
  status,    \* users.status, or DELETED
  password,  \* users.password_hash
  token,     \* token[t]: the committed row of t
  parent,    \* parent[t]: the token that t replaced; a login has none
  owner,     \* who holds the lock of the user's row
  pc,        \* pc[o]: the next statement of o
  req,       \* req[o]: what o was asked to do
  seen,      \* seen[o]: users.status as o has read it
  todo,      \* todo[o]: tokens that o has still to update or delete
  marked,    \* marked[o]: tokens that o has updated or deleted, and locks
  inserted   \* inserted[o]: the token that o has inserted

account == <<status, password, token, parent>>
locals == <<pc, req, seen, todo, marked, inserted>>
vars == <<account, owner, locals>>

-----------------------------------------------------------------------------
(* The values *)

Status == {"ACTIVE", "INACTIVE", "DELETED"}
TokenState == {"none", "live", "revoked", "gone"}
PC == {"idle", "find", "user", "locking", "listing", "updating", "inserting",
       "committing"}

Request ==
       [kind : {"LOGIN", "PASSWORD"}, password : Password]
  \cup [kind : {"REFRESH", "LOGOUT"}, token : Token]
  \cup [kind : {"DEACTIVATE", "ACTIVATE", "DELETE"}]

ASSUME NoRequestAssumption == NoRequest \notin Request

Kind(o) == req[o].kind
Issues(o) == pc[o] # "idle" /\ Kind(o) \in {"LOGIN", "REFRESH"}

Live == {t \in Token : token[t] = "live"}
Children(t) == {c \in Token : parent[c] = t}

\* Mutant: a password change locks the user like the others.
ForUpdateAlways(o) == Kind(o) \in {"DEACTIVATE", "ACTIVATE", "DELETE", "PASSWORD"}

\* SELECT ... FOR UPDATE, as against UPDATE users SET password_hash.
ForUpdate(o) == Kind(o) \in {"DEACTIVATE", "ACTIVATE", "DELETE"}

Locker == {owner} \ {Nobody}

\* The transactions whose foreign key shares the user's row.
Sharers == {o \in Op : inserted[o] # NoToken}

Init ==
  /\ status = "ACTIVE"
  /\ password \in Password
  /\ token = [t \in Token |-> "none"]
  /\ parent = [t \in Token |-> NoToken]
  /\ owner = Nobody
  /\ pc = [o \in Op |-> "idle"]
  /\ req = [o \in Op |-> NoRequest]
  /\ seen = [o \in Op |-> "ACTIVE"]
  /\ todo = [o \in Op |-> {}]
  /\ marked = [o \in Op |-> {}]
  /\ inserted = [o \in Op |-> NoToken]

-----------------------------------------------------------------------------
(* The beginning and the end of a transaction *)

\* A request: a token is one that the client was given.
Start(o) ==
  /\ pc[o] = "idle"
  /\ \E request \in Request :
       /\ request.kind \in {"REFRESH", "LOGOUT"} => token[request.token] # "none"
       /\ request.kind \in {"LOGIN", "REFRESH"} =>    \* the bound MaxTokens
            Cardinality({p \in Op : Issues(p)})
              < Cardinality({t \in Token : token[t] = "none"})
       /\ req' = [req EXCEPT ![o] = request]
       /\ pc' = [pc EXCEPT ![o] =
            CASE request.kind \in {"REFRESH", "LOGOUT"} -> "find"
              [] request.kind = "DELETE" -> "locking"
              [] OTHER -> "user"]
  /\ UNCHANGED <<account, owner, seen, todo, marked, inserted>>

\* The transaction is over.
End(o) ==
  /\ owner' = IF owner = o THEN Nobody ELSE owner
  /\ pc' = [pc EXCEPT ![o] = "idle"]
  /\ req' = [req EXCEPT ![o] = NoRequest]
  /\ seen' = [seen EXCEPT ![o] = "ACTIVE"]
  /\ todo' = [todo EXCEPT ![o] = {}]
  /\ marked' = [marked EXCEPT ![o] = {}]
  /\ inserted' = [inserted EXCEPT ![o] = NoToken]

\* A failure, a lost connection: get_db rolls back.
Abort(o) ==
  /\ pc[o] # "idle"
  /\ End(o)
  /\ UNCHANGED account

-----------------------------------------------------------------------------
(* Reads *)

\* Mutant: a token is usable as long as it is known.
IsUsableWhenKnown(o) == token[req[o].token] \in {"live", "revoked"}

\* is_usable; a logout asks whether there is anything to revoke.
IsUsable(o) == token[req[o].token] = "live"

\* find_by_raw_token
FindToken(o) ==
  /\ pc[o] = "find"
  /\ IsUsable(o)
  /\ IF Kind(o) = "REFRESH"
     THEN pc' = [pc EXCEPT ![o] = "user"] /\ UNCHANGED todo
     ELSE /\ pc' = [pc EXCEPT ![o] = "updating"]
          /\ todo' = [todo EXCEPT ![o] = {req[o].token}]
  /\ UNCHANGED <<account, owner, req, seen, marked, inserted>>

\* 401; a token may have expired.  A logout succeeds without a change.
TokenRefused(o) ==
  /\ pc[o] = "find"
  /\ ~IsUsable(o) \/ Kind(o) = "REFRESH"
  /\ End(o)
  /\ UNCHANGED account

\* What the operations ask of the user's row, as they read it: deactivation
\* and activation only that it exists.
UserQualifies(o) ==
  /\ status # "DELETED"
  /\ Kind(o) \in {"LOGIN", "REFRESH", "PASSWORD"} => status = "ACTIVE"
  /\ Kind(o) \in {"LOGIN", "PASSWORD"} => req[o].password = password

\* authenticate_user; session.get in refresh; get_current_user with the check
\* of the current password; get_user.
ReadUser(o) ==
  /\ pc[o] = "user"
  /\ UserQualifies(o)
  /\ seen' = [seen EXCEPT ![o] = status]
  /\ CASE Kind(o) = "LOGIN" -> pc' = [pc EXCEPT ![o] = "inserting"] /\ UNCHANGED todo
       [] Kind(o) = "REFRESH" ->
            /\ pc' = [pc EXCEPT ![o] = "updating"]
            /\ todo' = [todo EXCEPT ![o] = {req[o].token}]
       [] Kind(o) = "PASSWORD" -> pc' = [pc EXCEPT ![o] = "listing"] /\ UNCHANGED todo
       [] OTHER -> pc' = [pc EXCEPT ![o] = "locking"] /\ UNCHANGED todo
  /\ UNCHANGED <<account, owner, req, marked, inserted>>

\* 401, 404 or 400
UserRefused(o) ==
  /\ pc[o] = "user"
  /\ ~UserQualifies(o)
  /\ End(o)
  /\ UNCHANGED account

\* The SELECT of revoke_all_for_user; the rows that a deletion cascades to.
ListTokens(o) ==
  /\ pc[o] = "listing"
  /\ todo' = [todo EXCEPT ![o] =
       IF Kind(o) = "DELETE" THEN {t \in Token : token[t] \in {"live", "revoked"}}
       ELSE Live]
  /\ pc' = [pc EXCEPT ![o] = IF Kind(o) = "PASSWORD" THEN "locking" ELSE "updating"]
  /\ UNCHANGED <<account, owner, req, seen, marked, inserted>>

-----------------------------------------------------------------------------
(* Writes and locks *)

\* SELECT ... FOR UPDATE waits for every other lock of the row, the UPDATE of
\* a password not for those of foreign keys.
UserIsFree(o) == Locker = {} /\ (ForUpdate(o) => Sharers = {})

\* The loaded object has the status that is asked for.
NothingToDo(o) ==
  \/ Kind(o) = "DEACTIVATE" /\ seen[o] = "INACTIVE"
  \/ Kind(o) = "ACTIVATE" /\ seen[o] = "ACTIVE"

\* Mutant: deactivation and deletion list the tokens before they have the lock.
LockUserLast(o) ==
  /\ pc[o] = "locking"
  /\ status # "DELETED"
  /\ ~NothingToDo(o)
  /\ Kind(o) \in {"ACTIVATE", "PASSWORD"} => UserIsFree(o)
  /\ owner' = IF Kind(o) \in {"ACTIVATE", "PASSWORD"} THEN o ELSE owner
  /\ pc' = [pc EXCEPT ![o] =
       CASE Kind(o) = "ACTIVATE" -> "committing"
         [] Kind(o) = "PASSWORD" -> "updating"
         [] OTHER -> "listing"]
  /\ UNCHANGED <<account, req, seen, todo, marked, inserted>>

LockUser(o) ==
  /\ pc[o] = "locking"
  /\ status # "DELETED"
  /\ ~NothingToDo(o)
  /\ UserIsFree(o)
  /\ owner' = o
  /\ pc' = [pc EXCEPT ![o] =
       CASE Kind(o) = "ACTIVATE" -> "committing"
         [] Kind(o) = "PASSWORD" -> "updating"
         [] OTHER -> "listing"]
  /\ UNCHANGED <<account, req, seen, todo, marked, inserted>>

\* The user is gone, or nothing is to do once the lock is there.
LockedForNothing(o) ==
  /\ pc[o] = "locking"
  /\ status = "DELETED" \/ (NothingToDo(o) /\ UserIsFree(o))
  /\ End(o)
  /\ UNCHANGED account

\* The rows are visited in the order of their keys: the next one, if one is left.
NextToken(o) == {t \in todo[o] : \A u \in todo[o] : t <= u}
TokenHolders(t) == {o \in Op : t \in marked[o]}

\* UPDATE refresh_tokens SET revoked_at, by the id; or the cascaded DELETE.
UpdateToken(o) ==
  /\ pc[o] = "updating"
  /\ \E t \in NextToken(o) :
       /\ TokenHolders(t) = {}
       /\ token[t] # "gone"
       /\ marked' = [marked EXCEPT ![o] = @ \cup {t}]
       /\ todo' = [todo EXCEPT ![o] = @ \ {t}]
  /\ UNCHANGED <<account, owner, pc, req, seen, inserted>>

\* secrets.token_urlsafe: a token that nobody else has.
IsNew(t) == token[t] = "none" /\ \A o \in Op : inserted[o] # t

\* They are numbered in the order of issue.
NewToken == {t \in Token : IsNew(t) /\ \A u \in Token : IsNew(u) => t <= u}

ReadyToInsert(o) ==
  \/ pc[o] = "inserting"
  \/ pc[o] = "updating" /\ todo[o] = {} /\ Kind(o) = "REFRESH"

\* issue_refresh_token; the lock of a password change is no obstacle.
Insert(o) ==
  /\ ReadyToInsert(o)
  /\ status # "DELETED"
  /\ \A p \in Locker : ~ForUpdate(p)
  /\ \E t \in NewToken : inserted' = [inserted EXCEPT ![o] = t]
  /\ pc' = [pc EXCEPT ![o] = "committing"]
  /\ UNCHANGED <<account, owner, req, seen, todo, marked>>

-----------------------------------------------------------------------------
(* The commit *)

ReadyToCommit(o) ==
  \/ pc[o] = "committing"
  \/ pc[o] = "updating" /\ todo[o] = {} /\ Kind(o) # "REFRESH"

StatusAfter(o) ==
  CASE Kind(o) = "DEACTIVATE" -> "INACTIVE"
    [] Kind(o) = "ACTIVATE" -> "ACTIVE"
    [] Kind(o) = "DELETE" -> "DELETED"
    [] OTHER -> status

\* Mutant: a refresh issues a replacement and leaves its own token alone.
TokenAfterKeepingOld(o, t) ==
  CASE t = inserted[o] -> "live"
    [] t \in marked[o] /\ Kind(o) = "DELETE" -> "gone"
    [] t \in marked[o] /\ Kind(o) # "REFRESH" -> "revoked"
    [] OTHER -> token[t]

TokenAfter(o, t) ==
  CASE t = inserted[o] -> "live"
    [] t \in marked[o] -> IF Kind(o) = "DELETE" THEN "gone" ELSE "revoked"
    [] OTHER -> token[t]

Commit(o) ==
  /\ ReadyToCommit(o)
  /\ token' = [t \in Token |-> TokenAfter(o, t)]
  /\ parent' = IF Kind(o) = "REFRESH"
               THEN [parent EXCEPT ![inserted[o]] = req[o].token] ELSE parent
  /\ status' = StatusAfter(o)
  /\ IF Kind(o) = "PASSWORD" THEN password' \in Password \ {req[o].password}
                             ELSE UNCHANGED password
  /\ End(o)

-----------------------------------------------------------------------------
(* Waiting *)

\* The transactions that o waits for.
Blockers(o) ==
  CASE pc[o] = "locking" ->
         Locker \cup (IF ForUpdate(o) THEN Sharers ELSE {})
    [] pc[o] = "updating" /\ todo[o] # {} -> UNION {TokenHolders(t) : t \in NextToken(o)}
    [] pc[o] # "idle" /\ ReadyToInsert(o) -> {p \in Locker : ForUpdate(p)}
    [] OTHER -> {}

\* Its row is gone: an UPDATE of no row, a violated foreign key.
RowIsGone(o) ==
  \/ pc[o] = "updating" /\ \E t \in NextToken(o) : token[t] = "gone"
  \/ pc[o] # "idle" /\ ReadyToInsert(o) /\ status = "DELETED"

\* lock_timeout, a deadlock that PostgreSQL finds, a row that is gone.
GiveUp(o) ==
  /\ Blockers(o) # {} \/ RowIsGone(o)
  /\ End(o)
  /\ UNCHANGED account

-----------------------------------------------------------------------------
(* The specification *)

Run(o) ==
  \/ FindToken(o) \/ TokenRefused(o) \/ ReadUser(o) \/ UserRefused(o)
  \/ ListTokens(o) \/ LockUser(o) \/ LockedForNothing(o) \/ UpdateToken(o)
  \/ Insert(o) \/ Commit(o) \/ GiveUp(o)

Next == \E o \in Op : Start(o) \/ Run(o) \/ Abort(o)

Spec == Init /\ [][Next]_vars

-----------------------------------------------------------------------------
(* Properties *)

TypeOK ==
  /\ status \in Status
  /\ password \in Password
  /\ token \in [Token -> TokenState]
  /\ parent \in [Token -> Token \cup {NoToken}]
  /\ owner \in Op \cup {Nobody}
  /\ pc \in [Op -> PC]
  /\ req \in [Op -> Request \cup {NoRequest}]
  /\ seen \in [Op -> Status]
  /\ todo \in [Op -> SUBSET Token]
  /\ marked \in [Op -> SUBSET Token]
  /\ inserted \in [Op -> Token \cup {NoToken}]

\* "it can never be exchanged twice" (auth/service.py:141-142).
NeverExchangedTwice == \A t \in Token : Cardinality(Children(t)) <= 1

\* A token is exchanged no more often than requests were under way together: a
\* replay after the rotation is refused (auth/service.py:150-153).
ExchangesOverlap == \A t \in Token : Cardinality(Children(t)) <= Cardinality(Op)

\* A token that has been exchanged is of no use any more, whatever else was
\* done to it at the same time (auth/service.py:163).
ExchangedIsRevoked ==
  \A t \in Token : Children(t) # {} => token[t] \in {"revoked", "gone"}

\* When a deactivation commits, every token that is committed is revoked: no
\* issue can slip in between the list and the commit, because it shares the
\* user's row (users/service.py:479-496).
DeactivationRevokesAll ==
  [][status = "ACTIVE" /\ status' = "INACTIVE" => Live' = {}]_vars

\* A circle of waiting operations needs a refresh that holds its token and
\* waits for the user (auth/service.py:163-164) and somebody who does it the
\* other way round (users/service.py:479, 491).
Circle(S) == S # {} /\ \A o \in S : Blockers(o) \cap S # {}
CircleNeedsRotation ==
  \A S \in SUBSET Op : Circle(S) =>
    \E o, p \in S : /\ Kind(o) = "REFRESH" /\ ReadyToInsert(o)
                    /\ Kind(p) \in {"DEACTIVATE", "DELETE"} /\ pc[p] = "updating"
=============================================================================
