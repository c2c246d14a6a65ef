---------------------------- MODULE UserProfiles ----------------------------
(***************************************************************************)
(* Profiles of the users of one tenant (services/users, api/v1/users):     *)
(* creation, PATCH and deletion with their unique e-mails and codes, the   *)
(* audit rows they leave, and the lists that are read page by page.        *)
(*                                                                         *)
(* A request is one transaction under READ COMMITTED.  The session keeps   *)
(* what it has loaded, compares with that, and updates the columns that    *)
(* differ.  An INSERT or UPDATE locks its row, then enters its keys into   *)
(* the unique indexes in the order of their creation; where another        *)
(* transaction adds or removes the same key it waits for its end.  The     *)
(* audit row refers to its actor and waits while the actor's row is locked *)
(* or has a key changed.  Roles and status are the subject of UserAdmin; a *)
(* request that names no user of the tenant, or an administrator to        *)
(* delete, ends at once, without effect.                                   *)
(***************************************************************************)
EXTENDS Integers, FiniteSets, Sequences

CONSTANTS
    UserCount,    \* users are the numbers up to UserCount
    Admin,        \* those who administrate: TENANT_ADMIN
    Profile,      \* profiles that users are created with
    Change,       \* what a PATCH may ask for: functions on sets of fields
    Op,           \* the requests that may write at once
    Reader,       \* those who leaf through lists
    List,         \* the lists: 0 is that of the users, u that of the audit rows about u
    PageSize,     \* page_size
    MaxRequests,  \* bound of the model: requests that write
    NoRow,        \* a user who is not created yet, or deleted
    NoRequest,    \* the work of an idle Op
    NoWalk        \* the work of an idle Reader

User == 1..UserCount

Field == {"email", "code", "name"}

ASSUME ProfileAssumption ==
    /\ UserCount \in Nat \ {0} /\ PageSize \in Nat \ {0} /\ MaxRequests \in Nat
    /\ Admin \subseteq User /\ List \subseteq {0} \cup User
    /\ Profile \subseteq [Field -> Nat]
    /\ \A change \in Change : /\ DOMAIN change \subseteq Field /\ DOMAIN change # {}
                               /\ \A f \in DOMAIN change : change[f] \in Nat
    /\ NoRow \notin [Field -> Nat]

VARIABLES
    rows,     \* rows[u]: the committed row of u
    trail,    \* trail[u]: the committed audit rows about u, in the order of commit
    clock,    \* transactions that have begun
    pc,       \* pc[o]: where the transaction of o is
    req,      \* req[o]: what it is asked to do, and since when
    seen,     \* seen[o]: the target as its session has loaded it
    entered,  \* entered[o]: the keys that it has entered into their index
    walk      \* walk[r]: the pages that r has asked for

locals == <<pc, req, seen, entered>>
vars == <<rows, trail, clock, locals, walk>>

Present == {u \in User : rows[u] # NoRow}

TypeOK ==
    /\ \A u \in User : rows[u] = NoRow \/ DOMAIN rows[u] = Field
    /\ \A u \in User : \A i \in DOMAIN trail[u] :
          /\ trail[u][i].began \in 1..clock
          /\ DOMAIN trail[u][i].to = DOMAIN trail[u][i].from
          /\ DOMAIN trail[u][i].to \in SUBSET Field \ {{}}
    /\ clock \in 0..MaxRequests
    /\ pc \in [Op -> {"idle", "begun", "loaded", "writing"}]
    /\ \A o \in Op : pc[o] = "idle" <=> req[o] = NoRequest
    /\ entered \in [Op -> SUBSET {"code", "email"}]

Init ==
    /\ rows \in [User -> Profile \cup {NoRow}]
    /\ Admin \subseteq Present
    /\ \A u, v \in Present : u # v => /\ rows[u].email # rows[v].email
                                      /\ rows[u].code # rows[v].code
    /\ trail = [u \in User |-> <<>>]
    /\ clock = 0
    /\ pc = [o \in Op |-> "idle"]
    /\ req = [o \in Op |-> NoRequest]
    /\ seen = [o \in Op |-> NoRow]
    /\ entered = [o \in Op |-> {}]
    /\ walk = [r \in Reader |-> NoWalk]

-----------------------------------------------------------------------------
(* Requests that write.                                                    *)

Target(o) == req[o].target

\* `applied': the fields whose loaded value is not the one that is asked for.
Applied(o) ==
    {f \in DOMAIN req[o].to : req[o].kind = "PATCH" => seen[o][f] # req[o].to[f]}

\* The transaction is over.
End(o) ==
    /\ pc' = [pc EXCEPT ![o] = "idle"]
    /\ req' = [req EXCEPT ![o] = NoRequest]
    /\ seen' = [seen EXCEPT ![o] = NoRow]
    /\ entered' = [entered EXCEPT ![o] = {}]

\* get_current_user loads the actor; created_at of the audit row will be now().
Begin(o, request) ==
    /\ pc[o] = "idle" /\ clock < MaxRequests
    /\ clock' = clock + 1
    /\ req' = [req EXCEPT ![o] = request]
    /\ seen' = [seen EXCEPT ![o] =
                   IF request.actor = request.target THEN rows[request.actor] ELSE NoRow]
    /\ pc' = [pc EXCEPT ![o] = "begun"]
    /\ UNCHANGED <<rows, trail, entered, walk>>

Asked(kind, actor, target, to) ==
    [kind |-> kind, actor |-> actor, target |-> target, to |-> to, began |-> clock + 1]

\* POST /users, with an id that nobody has or had.
BeginCreate(o) ==
    \E a \in Admin, profile \in Profile, u \in User \ Present :
        /\ trail[u] = <<>>
        /\ \A p \in Op : pc[p] # "idle" => Target(p) # u
        /\ Begin(o, Asked("CREATE", a, u, profile))

\* PATCH /users/{user_id}
BeginUpdate(o) ==
    \E a \in Admin, u \in Present, change \in Change :
        Begin(o, Asked("PATCH", a, u, change))

\* PATCH /users/me, which takes a name only.
BeginOwnUpdate(o) ==
    \E u \in Present, change \in Change :
        /\ DOMAIN change = {"name"}
        /\ Begin(o, Asked("PATCH", u, u, change))

\* DELETE /users/{user_id}
BeginDelete(o) ==
    \E a \in Admin, u \in Present \ Admin :
        Begin(o, Asked("DELETE", a, u, [f \in {} |-> 0]))

\* Those who have an uncommitted version of the row of u, or have locked it.
Writers(u) ==
    {p \in Op : /\ \/ pc[p] = "writing"
                   \/ pc[p] = "loaded" /\ req[p].kind = "DELETE"
                /\ Target(p) = u}

\* get_user, where the actor has been loaded already; a deletion loads the row
\* FOR UPDATE.
Load(o) ==
    /\ pc[o] = "begun" /\ Target(o) \in Present
    /\ \/ req[o].kind = "PATCH"
       \/ req[o].kind = "DELETE" /\ Writers(Target(o)) = {}
    /\ seen' = [seen EXCEPT ![o] = IF @ = NoRow THEN rows[Target(o)] ELSE @]
    /\ pc' = [pc EXCEPT ![o] = "loaded"]
    /\ UNCHANGED <<rows, trail, clock, req, entered, walk>>

\* UserNotFoundError of get_user and of delete_user; an UPDATE that finds no row
\* any more fails as well.
NotFound(o) ==
    /\ \/ pc[o] = "begun" /\ req[o].kind # "CREATE"
       \/ pc[o] = "loaded" /\ Applied(o) # {}
    /\ Target(o) \notin Present
    /\ End(o)
    /\ UNCHANGED <<rows, trail, clock, walk>>

\* "Nothing changed, so there is nothing worth auditing."
NothingApplied(o) ==
    /\ pc[o] = "loaded" /\ req[o].kind = "PATCH" /\ Applied(o) = {}
    /\ End(o)
    /\ UNCHANGED <<rows, trail, clock, walk>>

\* flush: the INSERT, the UPDATE once it has the lock of its row, or the DELETE.
Write(o) ==
    /\ \/ pc[o] = "begun" /\ req[o].kind = "CREATE"
       \/ /\ pc[o] = "loaded" /\ Applied(o) # {}
          /\ Target(o) \in Present /\ Writers(Target(o)) = {}
       \/ pc[o] = "loaded" /\ req[o].kind = "DELETE"
    /\ pc' = [pc EXCEPT ![o] = "writing"]
    /\ UNCHANGED <<rows, trail, clock, req, seen, entered, walk>>

\* The keys that o has still to enter, and the first of them.
Keys(o) == (Applied(o) \cap {"code", "email"}) \ entered[o]

NextKey(o) == IF "code" \in Keys(o) THEN "code" ELSE "email"

\* p has entered this key or has a version of its row without it.
Touches(p, key, value) ==
    /\ pc[p] = "writing"
    /\ \/ key \in entered[p] /\ req[p].to[key] = value
       \/ req[p].kind = "PATCH" /\ key \in Applied(p) /\ rows[Target(p)][key] = value
       \/ req[p].kind = "DELETE" /\ rows[Target(p)][key] = value

\* The others that o waits for to enter its next key.
Rivals(o) ==
    {p \in Op \ {o} : Touches(p, NextKey(o), req[o].to[NextKey(o)])}

Taken(o) ==
    \E u \in Present \ {Target(o)} : rows[u][NextKey(o)] = req[o].to[NextKey(o)]

\* Mutant: a SELECT that asks for the key instead of the constraint.
EnterUnlessSeen(o) ==
    /\ pc[o] = "writing" /\ Keys(o) # {}
    /\ ~Taken(o)
    /\ entered' = [entered EXCEPT ![o] = @ \cup {NextKey(o)}]
    /\ UNCHANGED <<rows, trail, clock, pc, req, seen, walk>>

Enter(o) ==
    /\ pc[o] = "writing" /\ Keys(o) # {}
    /\ Rivals(o) = {} /\ ~Taken(o)
    /\ entered' = [entered EXCEPT ![o] = @ \cup {NextKey(o)}]
    /\ UNCHANGED <<rows, trail, clock, pc, req, seen, walk>>

\* IntegrityError, and the rollback of the route: 409.
Conflict(o) ==
    /\ pc[o] = "writing" /\ Keys(o) # {}
    /\ Rivals(o) = {} /\ Taken(o)
    /\ End(o)
    /\ UNCHANGED <<rows, trail, clock, walk>>

\* Mutant: every writer has its row as if a key had changed.
ActorLockedByAnyone(o) == Writers(req[o].actor) \ {o}

\* Those whose lock or change of a key keeps the audit row from its actor.
ActorLockedBy(o) ==
    {p \in Writers(req[o].actor) \ {o} :
        \/ req[p].kind = "DELETE"
        \/ \E f \in Applied(p) \cap {"code", "email"} : rows[Target(p)][f] # req[p].to[f]}

\* Mutant: every column is written as the session has it.
WholeObject(o) ==
    [f \in Field |-> IF f \in DOMAIN req[o].to THEN req[o].to[f] ELSE seen[o][f]]

\* The columns that the statement names have new values.
NewRow(o) ==
    [f \in Field |-> IF f \in Applied(o) THEN req[o].to[f] ELSE rows[Target(o)][f]]

\* What the audit row tells: the changes of a PATCH, the keys of a new user, or
\* "the only copy of that identity left".
Told(o) ==
    CASE req[o].kind = "CREATE" -> Applied(o) \ {"name"}
      [] req[o].kind = "PATCH" -> Applied(o)
      [] req[o].kind = "DELETE" -> Field

\* The audit row, with the values that were loaded.
Audit(o) ==
    [began |-> req[o].began,
     from |-> [f \in Told(o) |-> IF req[o].kind = "PATCH" THEN seen[o][f] ELSE 0],
     to |-> [f \in Told(o) |->
                IF req[o].kind = "DELETE" THEN seen[o][f] ELSE req[o].to[f]]]

Items(list) == IF list = 0 THEN Present ELSE DOMAIN trail[list]

\* By name and employee code; audit rows by created_at, latest first.
Before(list, x, y) ==
    IF list = 0
    THEN \/ rows[x].name < rows[y].name
         \/ rows[x].name = rows[y].name /\ rows[x].code < rows[y].code
    ELSE trail[list][x].began > trail[list][y].began

Place(list, x) == Cardinality({y \in Items(list) : Before(list, y, x)})

\* What this commit does to those who leaf through a list just now: an item may
\* change its place, appear between a count and its page, or leave the pages that
\* have been read, so that the others move up.
Upset(o, w) ==
    IF w = NoWalk THEN NoWalk
    ELSE [w EXCEPT !.upset =
             \/ @
             \/ w.list = 0 /\ req[o].kind = "PATCH" /\ Applied(o) \cap {"name", "code"} # {}
             \/ w.list = 0 /\ req[o].kind = "CREATE" /\ w.at = "counted"
             \/ /\ w.list = 0 /\ req[o].kind = "DELETE"
                /\ Place(0, Target(o)) < (w.page - 1) * PageSize
             \/ w.list = Target(o) /\ w.at = "counted"]

Commit(o) ==
    /\ pc[o] = "writing" /\ Keys(o) = {}
    /\ ActorLockedBy(o) = {}
    /\ rows' = [rows EXCEPT ![Target(o)] =
                   IF req[o].kind = "DELETE" THEN NoRow ELSE NewRow(o)]
    /\ trail' = [trail EXCEPT ![Target(o)] = Append(@, Audit(o))]
    /\ walk' = [r \in Reader |-> Upset(o, walk[r])]
    /\ End(o)
    /\ UNCHANGED clock

\* Those that o waits for.
Blockers(o) ==
    CASE pc[o] = "begun" /\ req[o].kind = "DELETE" -> Writers(Target(o))
      [] pc[o] = "loaded" /\ Applied(o) # {} -> Writers(Target(o))
      [] pc[o] = "writing" /\ Keys(o) # {} -> Rivals(o)
      [] pc[o] = "writing" /\ Keys(o) = {} -> ActorLockedBy(o)
      [] OTHER -> {}

\* lock_timeout, a deadlock that PostgreSQL resolves, or a lost connection.
Abort(o) ==
    /\ pc[o] # "idle"
    /\ End(o)
    /\ UNCHANGED <<rows, trail, clock, walk>>

-----------------------------------------------------------------------------
(* Lists: GET /users, and GET /users/{user_id}/audit.                      *)

\* Mutant: pages are counted from nought.
PageFromNought(list, page) ==
    {x \in Items(list) : Place(list, x) \in (page * PageSize)..((page + 1) * PageSize - 1)}

\* offset and limit
Page(list, page) ==
    {x \in Items(list) : Place(list, x) \in ((page - 1) * PageSize)..(page * PageSize - 1)}

\* _pagination
TotalPages(total) == (total + PageSize - 1) \div PageSize

\* A reader comes to the first page, for the first time or again.
Visit(r) ==
    /\ walk[r] # NoWalk => walk[r].at = "done"
    /\ \E list \in List \cap ({0} \cup Present) :
          walk' = [walk EXCEPT ![r] =
              [list |-> list, at |-> "asked", page |-> 1, total |-> 0, shown |-> {},
               first |-> Items(list), upset |-> FALSE]]
    /\ UNCHANGED <<rows, trail, clock, locals>>

\* get_user, for audit rows: without the user there is nothing more to read.
Find(r) ==
    /\ walk[r] # NoWalk /\ walk[r].at = "asked" /\ walk[r].list # 0
    /\ walk' = [walk EXCEPT ![r] =
                   IF @.list \in Present THEN [@ EXCEPT !.at = "found"] ELSE NoWalk]
    /\ UNCHANGED <<rows, trail, clock, locals>>

\* SELECT count(*)
Count(r) ==
    /\ walk[r] # NoWalk /\ walk[r].at = IF walk[r].list = 0 THEN "asked" ELSE "found"
    /\ walk' = [walk EXCEPT ![r].at = "counted",
                            ![r].total = Cardinality(Items(walk[r].list))]
    /\ UNCHANGED <<rows, trail, clock, locals>>

\* The page itself; the reader asks for the next one while there is one.
Fetch(r) ==
    /\ walk[r] # NoWalk /\ walk[r].at = "counted"
    /\ LET w == walk[r]
           more == w.page < TotalPages(w.total)
       IN  walk' = [walk EXCEPT ![r] =
               [w EXCEPT !.shown = @ \cup Page(w.list, w.page),
                         !.at = IF more THEN "asked" ELSE "done",
                         !.page = IF more THEN @ + 1 ELSE @]]
    /\ UNCHANGED <<rows, trail, clock, locals>>

-----------------------------------------------------------------------------
(* The specification.                                                      *)

Next ==
    \/ \E o \in Op :
          \/ BeginCreate(o) \/ BeginUpdate(o) \/ BeginOwnUpdate(o) \/ BeginDelete(o)
          \/ Load(o) \/ NotFound(o) \/ NothingApplied(o) \/ Write(o)
          \/ Enter(o) \/ Conflict(o) \/ Commit(o) \/ Abort(o)
    \/ \E r \in Reader : Visit(r) \/ Find(r) \/ Count(r) \/ Fetch(r)

Spec == Init /\ [][Next]_vars

-----------------------------------------------------------------------------
(* Properties.                                                             *)

\* "An email is unique within a tenant" (users/service.py:14), and so is an
\* employee code, whoever writes at the same time.
KeysAreUnique ==
    \A u, v \in Present :
        u # v => rows[u].email # rows[v].email /\ rows[u].code # rows[v].code

\* The audit rows about u while u is or was there, and what u is or was in the end.
Current(u) == IF u \in Present THEN DOMAIN trail[u] ELSE 1..(Len(trail[u]) - 1)
Latest(u) == IF u \in Present THEN rows[u] ELSE trail[u][Len(trail[u])].to

\* "Absent fields keep their current values" (users/service.py:371-372), even when
\* they were changed after the session has loaded them: the last audit row about a
\* field has its value, so that no change is undone by one of another field.  What
\* the last row keeps of a deleted user is what the rows before it tell.
TrailTellsTheRow ==
    \A u \in User, f \in Field : \A i \in Current(u) :
        /\ f \in DOMAIN trail[u][i].to
        /\ \A j \in Current(u) : j > i => f \notin DOMAIN trail[u][j].to
        => Latest(u)[f] = trail[u][i].to[f]

\* A circle of requests, each waiting for another one of it.
Circle(S) == S # {} /\ \A o \in S : Blockers(o) \cap S # {}

\* Creations, deletions and changes of names alone never wait in a circle, whoever is
\* whose administrator: it takes a PATCH that changes an e-mail or an employee code.
CircleNeedsNewKey ==
    \A S \in SUBSET Op : Circle(S) =>
        \E o \in S : req[o].kind = "PATCH" /\ Applied(o) \cap {"code", "email"} # {}

\* "Which keeps pagination stable" (users/service.py:197-198): whoever leafs through
\* a list to its end sees every item that was there at the beginning and still is,
\* although others are added between two pages and removed from the pages to come.
\* Excepted, and really possible, are three: a name or an employee code changes; an
\* item comes between the count and the page; a user who stands before the next page
\* is deleted, so that the first one of that page moves up to those already read.
PagesSkipNothing ==
    \A r \in Reader :
        walk[r] # NoWalk /\ walk[r].at = "done" /\ ~walk[r].upset
            => walk[r].first \cap Items(walk[r].list) \subseteq walk[r].shown
=============================================================================
