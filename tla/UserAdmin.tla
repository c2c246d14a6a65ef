----------------------------- MODULE UserAdmin -----------------------------
(***************************************************************************)
(* Administration of the users of one tenant (services/users, api/v1/users)*)
(* and the rule that the tenant keeps an active administrator.             *)
(*                                                                         *)
(* An operation is one transaction under READ COMMITTED.  It authenticates *)
(* its actor, loads its target, locks rows, decides and commits.  What the *)
(* session has loaded it keeps: the SELECT ... FOR UPDATE of               *)
(* _lock_admins_and_target returns the objects already in the session      *)
(* with the attributes they were loaded with, so seen[o] stays what it was *)
(* before the wait, while the WHERE clause is evaluated on the newest row. *)
(*                                                                         *)
(* The locking statement visits the rows of its snapshot in the order of   *)
(* their ids, waits for each and keeps the lock even when the row no       *)
(* longer matches.  The audit row that every change writes at its commit   *)
(* refers to the actor, and the foreign key makes that INSERT wait while   *)
(* another transaction has the actor's row FOR UPDATE.                     *)
(*                                                                         *)
(* An EMAIL operation changes the e-mail address, a column of a unique     *)
(* index, and so locks like FOR UPDATE; changes of a name do not and are   *)
(* left out, as are operations refused for a duplicate (they lock nothing).*)
(***************************************************************************)
EXTENDS Naturals, FiniteSets

CONSTANTS
  Kind,       \* the kinds of operation that are asked for
  UserCount,  \* ids are the numbers up to UserCount, in the order of the ids
  Op,         \* the operations that may run at once
  Nobody,     \* holder of a free row lock
  NoRow,      \* a user not created yet; a target not loaded yet
  Deleted,    \* a user whose row is gone: no id is used twice
  NoRequest   \* the work of an idle operation

ASSUME UserCountAssumption == UserCount \in Nat \ {0}
ASSUME NobodyAssumption == Nobody \notin Op

User == 1 .. UserCount

VARIABLES
  rows,    \* rows[u]: the committed row of u, or NoRow, or Deleted
  owner,   \* owner[u]: the operation that has the row of u FOR UPDATE
  pc,      \* pc[o]: the next statement of o
  req,     \* req[o]: what o was asked to do, by whom
  seen,    \* seen[o]: the target as the session of o has loaded it
  queue,   \* queue[o]: rows that the locking statement has still to visit
  admins   \* admins[o]: what _lock_admins_and_target returns to o

locals == <<pc, req, seen, queue, admins>>
vars == <<rows, owner, locals>>

-----------------------------------------------------------------------------
(* The values *)

Role == {"TENANT_ADMIN", "STAFF"}    \* MANAGER is like STAFF here
Status == {"ACTIVE", "INACTIVE"}
Row == [role : Role, status : Status]

ASSUME NoRowAssumption == {NoRow, Deleted} \cap Row = {} /\ NoRow # Deleted

ASSUME KindAssumption == Kind \subseteq {"CREATE", "EMAIL", "ROLE", "STATUS", "DELETE"}
Request == [kind : Kind, actor : User, target : User, value : Role \cup Status]
ASSUME NoRequestAssumption == NoRequest \notin Request

PC == {"idle", "authenticated", "loaded", "locking", "committing"}

Present(u) == rows[u] \in Row
IsActiveAdmin(row) == row = [role |-> "TENANT_ADMIN", status |-> "ACTIVE"]
ActiveAdmins == {u \in User : IsActiveAdmin(rows[u])}

Target(o) == req[o].target
Actor(o) == req[o].actor

\* The first administrator has verified the address; further users have been
\* created since, or not.
Init ==
  /\ rows \in [User -> Row \cup {NoRow}]
  /\ IsActiveAdmin(rows[1])
  /\ owner = [u \in User |-> Nobody]
  /\ pc = [o \in Op |-> "idle"]
  /\ req = [o \in Op |-> NoRequest]
  /\ seen = [o \in Op |-> NoRow]
  /\ queue = [o \in Op |-> {}]
  /\ admins = [o \in Op |-> {}]

-----------------------------------------------------------------------------
(* The end of a transaction *)

\* The transaction is over and its session is closed.
End(o) ==
  /\ owner' = [u \in User |-> IF owner[u] = o THEN Nobody ELSE owner[u]]
  /\ pc' = [pc EXCEPT ![o] = "idle"]
  /\ req' = [req EXCEPT ![o] = NoRequest]
  /\ seen' = [seen EXCEPT ![o] = NoRow]
  /\ queue' = [queue EXCEPT ![o] = {}]
  /\ admins' = [admins EXCEPT ![o] = {}]

\* An exception, a lost connection: everything is rolled back.
Abort(o) ==
  /\ pc[o] # "idle"
  /\ End(o)
  /\ UNCHANGED rows

-----------------------------------------------------------------------------
(* From the request to the locking statement *)

\* uuid4: the id of a new user belongs to nobody, and to no other new user.
FreshId(u) ==
  /\ rows[u] = NoRow
  /\ \A o \in Op : req[o] # NoRequest => Target(o) # u

\* require_roles(TENANT_ADMIN), and that nobody changes their own role,
\* deactivates or deletes themselves.
MayAsk(request) ==
  /\ IsActiveAdmin(rows[request.actor])
  /\ request.actor = request.target =>
       \/ request.kind = "EMAIL"
       \/ request.kind = "STATUS" /\ request.value = "ACTIVE"

\* The session loads the actor's row and keeps it.
Authenticate(o) ==
  /\ pc[o] = "idle"
  /\ \E request \in Request :
       /\ MayAsk(request)
       /\ IF request.kind = "CREATE" THEN FreshId(request.target)
                                     ELSE rows[request.target] # NoRow
       /\ request.value \in CASE request.kind \in {"CREATE", "ROLE"} -> Role
                              [] request.kind = "STATUS" -> Status
                              [] OTHER -> {"STAFF"}    \* not used
       /\ req' = [req EXCEPT ![o] = request]
       /\ seen' = [seen EXCEPT ![o] =
            IF request.actor = request.target THEN rows[request.actor] ELSE NoRow]
  /\ pc' = [pc EXCEPT ![o] = "authenticated"]
  /\ UNCHANGED <<rows, owner, queue, admins>>

\* get_user: the target is loaded without a lock, unless it is the actor, whom
\* the session has loaded already.
Load(o) ==
  /\ pc[o] = "authenticated"
  /\ req[o].kind \in {"EMAIL", "ROLE", "STATUS"}
  /\ Present(Target(o))
  /\ seen' = [seen EXCEPT ![o] = IF @ = NoRow THEN rows[Target(o)] ELSE @]
  /\ pc' = [pc EXCEPT ![o] = "loaded"]
  /\ UNCHANGED <<rows, owner, req, queue, admins>>

\* UserNotFoundError
NotFound(o) ==
  /\ pc[o] = "authenticated"
  /\ req[o].kind # "CREATE"
  /\ ~Present(Target(o))
  /\ End(o)
  /\ UNCHANGED rows

\* create_user: the INSERT, of a row that nobody else can see yet.
Insert(o) ==
  /\ pc[o] = "authenticated"
  /\ req[o].kind = "CREATE"
  /\ pc' = [pc EXCEPT ![o] = "committing"]
  /\ UNCHANGED <<rows, owner, req, seen, queue, admins>>

\* The WHERE clause of the statement with which o locks rows: the target, and
\* the active administrators too where the last-admin rule is at stake.
Matches(o, u) ==
  /\ Present(u)
  /\ \/ u = Target(o)
     \/ req[o].kind \in {"ROLE", "STATUS"} /\ IsActiveAdmin(rows[u])

\* The statement takes its snapshot.  delete_user starts here, an EMAIL change
\* locks its target by its UPDATE.
StartLocking(o) ==
  /\ \/ pc[o] = "loaded"
     \/ pc[o] = "authenticated" /\ req[o].kind = "DELETE" /\ Present(Target(o))
  /\ queue' = [queue EXCEPT ![o] = {u \in User : Matches(o, u)}]
  /\ pc' = [pc EXCEPT ![o] = "locking"]
  /\ UNCHANGED <<rows, owner, req, seen, admins>>

\* The next row that the statement visits.
NextRow(o) == CHOOSE u \in queue[o] : \A v \in queue[o] : u <= v

\* The target as the session knows it once u has been visited.
SeenAfter(o, u) ==
  IF u = Target(o) /\ seen[o] = NoRow /\ Present(u) THEN rows[u] ELSE seen[o]

\* The attributes of a returned object: the target's are those it was loaded
\* with.
Attributes(o, u) == IF u = Target(o) THEN SeenAfter(o, u) ELSE rows[u]

\* Mutant: whoever was an administrator before the wait is counted.
LockTrustingSnapshot(o, u) ==
  /\ pc[o] = "locking"
  /\ u \in queue[o]
  /\ owner[u] = Nobody
  /\ owner' = [owner EXCEPT ![u] = IF Present(u) THEN o ELSE Nobody]
  /\ queue' = [queue EXCEPT ![o] = @ \ {u}]
  /\ seen' = [seen EXCEPT ![o] = SeenAfter(o, u)]
  /\ admins' = [admins EXCEPT ![o] = @ \cup {u}]
  /\ UNCHANGED <<rows, pc, req>>

\* o has waited for the row of u and locks it.
Lock(o, u) ==
  /\ pc[o] = "locking"
  /\ u \in queue[o]
  /\ owner[u] = Nobody
  /\ owner' = [owner EXCEPT ![u] = IF Present(u) THEN o ELSE Nobody]
  /\ queue' = [queue EXCEPT ![o] = @ \ {u}]
  /\ seen' = [seen EXCEPT ![o] = SeenAfter(o, u)]
  /\ admins' = [admins EXCEPT ![o] =
       IF Matches(o, u) /\ IsActiveAdmin(Attributes(o, u)) THEN @ \cup {u} ELSE @]
  /\ UNCHANGED <<rows, pc, req>>

\* Mutant: rows are locked in any order.
LockAnyRow(o) == \E u \in queue[o] : Lock(o, u)

LockNextRow(o) == queue[o] # {} /\ Lock(o, NextRow(o))

-----------------------------------------------------------------------------
(* The decision and the commit *)

\* The statement is through.
Locked(o) == pc[o] = "locking" /\ queue[o] = {}

\* The operation asks for what the loaded object already has.
NothingToDo(o) ==
  \/ req[o].kind = "ROLE" /\ seen[o].role = req[o].value
  \/ req[o].kind = "STATUS" /\ seen[o].status = req[o].value

\* _require_another_active_admin, asked when an administrator may be lost.
IsLastAdmin(o) ==
  /\ req[o].kind \in {"ROLE", "STATUS"}
  /\ req[o].value \in {"STAFF", "INACTIVE"}
  /\ IsActiveAdmin(seen[o])
  /\ admins[o] \ {Target(o)} = {}

\* Mutant: an administrator can be deleted.
MayDeleteAnyone(o) == TRUE

\* delete_user: administrators are not deleted.
MayDelete(o) == req[o].kind = "DELETE" => seen[o].role # "TENANT_ADMIN"

\* The call returns unchanged or raises: nothing is written.  It raises as
\* well when the row it has loaded is gone and its UPDATE finds no row.
Refuse(o) ==
  /\ Locked(o)
  /\ \/ ~Present(Target(o))
     \/ Present(Target(o)) /\ (NothingToDo(o) \/ IsLastAdmin(o) \/ ~MayDelete(o))
  /\ End(o)
  /\ UNCHANGED rows

Write(o) ==
  /\ Locked(o)
  /\ Present(Target(o))
  /\ ~NothingToDo(o)
  /\ ~IsLastAdmin(o)
  /\ MayDelete(o)
  /\ pc' = [pc EXCEPT ![o] = "committing"]
  /\ admins' = [admins EXCEPT ![o] = {}]    \* of no use any more
  /\ UNCHANGED <<rows, owner, req, seen, queue>>

\* The target's row after the operation.
NewRow(o) ==
  CASE req[o].kind = "CREATE" -> [role |-> req[o].value, status |-> "ACTIVE"]
    [] req[o].kind = "EMAIL" -> rows[Target(o)]
    [] req[o].kind = "ROLE" -> [rows[Target(o)] EXCEPT !.role = req[o].value]
    [] req[o].kind = "STATUS" -> [rows[Target(o)] EXCEPT !.status = req[o].value]
    [] req[o].kind = "DELETE" -> Deleted

\* session.commit(), which flushes the audit row first: its foreign key waits
\* for the actor's row, and fails if the actor has been deleted (see Abort).
Commit(o) ==
  /\ pc[o] = "committing"
  /\ Present(Actor(o))
  /\ owner[Actor(o)] \in {Nobody, o}
  /\ rows' = [rows EXCEPT ![Target(o)] = NewRow(o)]
  /\ End(o)

\* The operation that o waits for, if any.
Blocker(o) ==
  CASE pc[o] = "locking" /\ queue[o] # {} -> owner[NextRow(o)]
    [] pc[o] = "committing" /\ owner[Actor(o)] # o -> owner[Actor(o)]
    [] OTHER -> Nobody

\* Mutant: neither lock_timeout nor the database ends a wait.
GiveUpForTheActorOnly(o) ==
  /\ pc[o] = "committing" /\ ~Present(Actor(o))
  /\ End(o)
  /\ UNCHANGED rows

\* lock_timeout, or PostgreSQL finds a deadlock; or the audit row has lost its
\* actor.
GiveUp(o) ==
  /\ \/ Blocker(o) # Nobody
     \/ pc[o] = "committing" /\ ~Present(Actor(o))
  /\ End(o)
  /\ UNCHANGED rows

-----------------------------------------------------------------------------
(* The specification *)

\* The steps of an operation once it has started.
Run(o) ==
  \/ Load(o) \/ NotFound(o) \/ Insert(o) \/ StartLocking(o) \/ LockNextRow(o)
  \/ Refuse(o) \/ Write(o) \/ Commit(o) \/ GiveUp(o)

Next == \E o \in Op : Authenticate(o) \/ Run(o) \/ Abort(o)

Spec == Init /\ [][Next]_vars

\* A transaction runs on, and one that is stuck is timed out.
FairSpec == Spec /\ \A o \in Op : WF_vars(Run(o))

-----------------------------------------------------------------------------
(* Properties *)

TypeOK ==
  /\ rows \in [User -> Row \cup {NoRow, Deleted}]
  /\ owner \in [User -> Op \cup {Nobody}]
  /\ pc \in [Op -> PC]
  /\ req \in [Op -> Request \cup {NoRequest}]
  /\ seen \in [Op -> Row \cup {NoRow}]
  /\ queue \in [Op -> SUBSET User]
  /\ admins \in [Op -> SUBSET User]

\* "A tenant never loses its last active TENANT_ADMIN" (users/service.py:11).
LastAdminKept == ActiveAdmins # {}

\* A tenant loses its last active administrator only to an operation whose
\* target has changed between being loaded and being locked: with fresh
\* attributes the lock and the count are enough (users/service.py:224-232).
LastAdminLostOnlyToStaleTarget ==
  [][ActiveAdmins # {} /\ ActiveAdmins' = {} =>
       \E o \in Op : /\ pc[o] = "committing"
                     /\ pc'[o] = "idle"
                     /\ seen[o] # rows[Target(o)]]_vars

\* Whoever is deleted is no administrator at that moment, although the role is
\* read before others may have changed it (users/service.py:562, 574).
AdministratorsAreNotDeleted ==
  [][\A u \in User : Present(u) /\ ~Present(u)' => rows[u].role # "TENANT_ADMIN"]_vars

\* A circle of operations, each waiting for another one of it.
Circle(S) == S # {} /\ \A o \in S : Blocker(o) \in S

\* The locking statements alone never wait in a circle (users/service.py:228):
\* it takes an audit row whose actor is locked by somebody else.
CircleNeedsAuditRow ==
  \A S \in SUBSET Op : Circle(S) => \E o \in S : pc[o] = "committing"

\* Every operation ends, by a timeout if need be: lock_timeout is there to
\* fail fast (core/config.py:144-147).
EveryOperationEnds == \A o \in Op : pc[o] # "idle" ~> pc[o] = "idle"
=============================================================================
