-------------------------- MODULE UserAdminProofs --------------------------
(***************************************************************************)
(* Proofs about UserAdmin for any number of users and operations: what the *)
(* row locks protect, and that the locking statements do not wait for each *)
(* other in a circle.                                                      *)
(***************************************************************************)
EXTENDS UserAdmin, FiniteSetTheorems, WellFoundedInduction, TLAPS

KindOf(o) == req[o].kind

\* Between two transactions nothing is loaded and nothing is left to visit.
IdleInv(o) ==
  pc[o] = "idle" =>
    req[o] = NoRequest /\ seen[o] = NoRow /\ queue[o] = {} /\ admins[o] = {}

\* What is asked for makes sense, a new user is the only one without a row, and
\* whoever deletes another user has not loaded that user ahead of the lock.
WorkInv(o) ==
  pc[o] # "idle" =>
    /\ req[o] \in Request
    /\ KindOf(o) = "ROLE" => req[o].value \in Role
    /\ KindOf(o) = "STATUS" => req[o].value \in Status
    /\ KindOf(o) = "CREATE" => req[o].value \in Role
    /\ KindOf(o) = "CREATE" => pc[o] \in {"authenticated", "committing"}
    /\ KindOf(o) = "DELETE" => pc[o] # "loaded"
    /\ KindOf(o) = "CREATE" <=> rows[Target(o)] = NoRow
    /\ KindOf(o) = "DELETE" /\ (pc[o] = "authenticated" \/ Target(o) \in queue[o]) =>
         seen[o] = NoRow

\* Rows are visited in the order of their ids.
OrderInv(o) ==
  /\ queue[o] # {} => pc[o] = "locking"
  /\ pc[o] = "locking" => \A u \in User : owner[u] = o => \A v \in queue[o] : u < v

Visited(o) ==
  \/ pc[o] = "locking" /\ Target(o) \notin queue[o]
  \/ pc[o] = "committing" /\ KindOf(o) # "CREATE"

\* A visited target that is still there is locked, and whoever deletes it knows
\* its row; what is about to be written has a row to be written to.
TargetInv(o) ==
  /\ Visited(o) /\ Present(Target(o)) =>
       owner[Target(o)] = o /\ (KindOf(o) = "DELETE" => seen[o] = rows[Target(o)])
  /\ pc[o] = "committing" /\ KindOf(o) # "CREATE" => Present(Target(o))
  /\ pc[o] = "committing" /\ KindOf(o) = "DELETE" => seen[o].role # "TENANT_ADMIN"

\* o takes an administrator away, for all that its session knows.
Demotes(o) ==
  /\ KindOf(o) \in {"ROLE", "STATUS"}
  /\ req[o].value \in {"STAFF", "INACTIVE"}
  /\ IsActiveAdmin(seen[o])

\* The other administrators that were counted are locked, and so remain.
AdminsInv(o) ==
  /\ \A u \in admins[o] : u # Target(o) =>
       pc[o] = "locking" /\ owner[u] = o /\ IsActiveAdmin(rows[u])
  /\ pc[o] = "committing" /\ Demotes(o) =>
       \E u \in User \ {Target(o)} : owner[u] = o /\ IsActiveAdmin(rows[u])

OwnInv(o) == IdleInv(o) /\ WorkInv(o) /\ OrderInv(o) /\ TargetInv(o) /\ AdminsInv(o)

\* The id of a new user is the target of nothing else.
FreshInv ==
  \A o, p \in Op :
    o # p /\ pc[o] # "idle" /\ pc[p] # "idle" /\ KindOf(o) = "CREATE" =>
      Target(o) # Target(p)

\* Only rows that are there are locked, and by transactions that go on to write.
OwnerInv ==
  \A u \in User : owner[u] # Nobody =>
    Present(u) /\ pc[owner[u]] \in {"locking", "committing"}

IInv == TypeOK /\ (\A o \in Op : OwnInv(o)) /\ FreshInv /\ OwnerInv

-----------------------------------------------------------------------------
(* Numbers *)

\* A set of numbers has a least element: of the sets 0 .. m with m in it one
\* includes no other.
LEMMA LeastOfNaturals ==
  ASSUME NEW S \in SUBSET Nat, S # {}
  PROVE  \E m \in S : \A n \in S : m <= n
<1> DEFINE Upto == {0 .. m : m \in S}
<1>1. \A m \in S : IsFiniteSet(0 .. m) /\ 0 .. m \in SUBSET Nat
  BY FS_Interval
<1>2. Upto \subseteq FiniteSubsetsOf(Nat) /\ Upto # {}
  BY <1>1 DEF FiniteSubsetsOf
<1>3. \E X \in Upto : \A Y \in Upto : <<Y, X>> \notin StrictSubsetOrdering(Nat)
  BY <1>2, FS_StrictSubsetOrderingWellFounded, WFMin
<1>4. PICK m \in S : \A n \in S : <<0 .. n, 0 .. m>> \notin StrictSubsetOrdering(Nat)
  BY <1>3
<1>5. ASSUME NEW n \in S, n < m PROVE FALSE
  <2>1. 0 .. n \subseteq 0 .. m /\ 0 .. n # 0 .. m /\ 0 .. m \subseteq Nat
    <3>1. m \in 0 .. m /\ m \notin 0 .. n
      BY <1>5
    <3> QED
      BY <1>5, <3>1
  <2> QED
    BY <1>4, <2>1 DEF StrictSubsetOrdering
<1> QED
  BY <1>5

\* A bounded one has a greatest.
LEMMA GreatestOfNaturals ==
  ASSUME NEW max \in Nat, NEW S \in SUBSET (0 .. max), S # {}
  PROVE  \E m \in S : \A n \in S : n <= m
<1> DEFINE T == {max - n : n \in S}
<1>1. T \in SUBSET Nat /\ T # {}
  <2>1. \A n \in S : max - n \in Nat
    OBVIOUS
  <2> QED
    BY <2>1
<1>2. PICK k \in T : \A n \in T : k <= n
  BY <1>1, LeastOfNaturals
<1>3. PICK m \in S : k = max - m
  BY <1>2
<1>4. \A n \in S : max - m <= max - n
  BY <1>2, <1>3
<1> QED
  BY <1>3, <1>4

-----------------------------------------------------------------------------
(* What one operation does to another *)

\* p keeps what it knows: o has changed no row that p has locked, and p's target
\* only if p has not visited it.
LEMMA BystanderKeeps ==
  ASSUME IInv, NEW p \in Op,
         pc'[p] = pc[p], req'[p] = req[p], seen'[p] = seen[p],
         queue'[p] = queue[p], admins'[p] = admins[p],
         \A u \in User : owner'[u] = p <=> owner[u] = p,
         \A u \in User : owner[u] = p => rows'[u] = rows[u],
         pc[p] # "idle" =>
           \/ rows'[Target(p)] = rows[Target(p)]
           \/ /\ Present(Target(p)) /\ owner[Target(p)] # p
              /\ rows'[Target(p)] # NoRow
  PROVE  OwnInv(p)'
<1>1. OwnInv(p) /\ TypeOK
  BY DEF IInv
<1>2. KindOf(p)' = KindOf(p) /\ Target(p)' = Target(p)
  BY DEF KindOf, Target
<1>3. pc[p] # "idle" => Target(p) \in User /\ (Present(Target(p)) => rows[Target(p)] # NoRow)
  BY <1>1, NoRowAssumption DEF OwnInv, WorkInv, Request, Target, Present
<1>4. IdleInv(p)' /\ OrderInv(p)'
  BY <1>1 DEF OwnInv, IdleInv, OrderInv
<1>5. WorkInv(p)'
  BY <1>1, <1>2, <1>3 DEF OwnInv, WorkInv
<1>6. TargetInv(p)'
  <2>1. Visited(p)' = Visited(p) /\ (Visited(p) => pc[p] # "idle")
    BY <1>2 DEF Visited
  <2>2. CASE pc[p] # "idle" /\ rows'[Target(p)] = rows[Target(p)]
    BY <1>1, <1>2, <1>3, <2>1, <2>2 DEF OwnInv, TargetInv, Present
  <2>3. CASE pc[p] # "idle" /\ Present(Target(p)) /\ owner[Target(p)] # p
    <3>1. ~Visited(p)
      BY <1>1, <2>3 DEF OwnInv, TargetInv
    <3> QED
      BY <1>1, <1>2, <2>1, <3>1 DEF OwnInv, TargetInv, Visited
  <2>4. CASE pc[p] = "idle"
    BY <1>2, <2>1, <2>4 DEF TargetInv, Visited
  <2> QED
    BY <2>2, <2>3, <2>4
<1>7. AdminsInv(p)'
  <2>1. Demotes(p)' = Demotes(p)
    BY <1>2 DEF Demotes
  <2>2. admins[p] \subseteq User
    BY <1>1 DEF TypeOK
  <2>3. \A u \in User : owner[u] = p /\ IsActiveAdmin(rows[u]) =>
                        owner'[u] = p /\ IsActiveAdmin(rows'[u])
    OBVIOUS
  <2> QED
    BY <1>1, <1>2, <2>1, <2>2, <2>3 DEF OwnInv, AdminsInv
<1> QED
  BY <1>4, <1>5, <1>6, <1>7 DEF OwnInv

\* After the end of an operation there is nothing left of it.
LEMMA EndForgets ==
  ASSUME IInv, NEW o \in Op, End(o)
  PROVE  /\ pc' \in [Op -> PC] /\ req' \in [Op -> Request \cup {NoRequest}]
         /\ seen' \in [Op -> Row \cup {NoRow}] /\ owner' \in [User -> Op \cup {Nobody}]
         /\ queue' \in [Op -> SUBSET User] /\ admins' \in [Op -> SUBSET User]
         /\ pc'[o] = "idle" /\ req'[o] = NoRequest /\ seen'[o] = NoRow
         /\ queue'[o] = {} /\ admins'[o] = {}
         /\ \A p \in Op : p # o =>
              /\ pc'[p] = pc[p] /\ req'[p] = req[p] /\ seen'[p] = seen[p]
              /\ queue'[p] = queue[p] /\ admins'[p] = admins[p]
         /\ \A u \in User : /\ owner'[u] = IF owner[u] = o THEN Nobody ELSE owner[u]
                            /\ owner'[u] # o
<1>1. TypeOK
  BY DEF IInv
<1>2. owner' \in [User -> Op \cup {Nobody}]
      /\ \A u \in User : /\ owner'[u] = IF owner[u] = o THEN Nobody ELSE owner[u]
                         /\ owner'[u] # o
  BY <1>1, NobodyAssumption DEF TypeOK, End
<1>3. pc' \in [Op -> PC] /\ req' \in [Op -> Request \cup {NoRequest}]
      /\ seen' \in [Op -> Row \cup {NoRow}]
  BY <1>1 DEF TypeOK, End, PC
<1>4. queue' \in [Op -> SUBSET User] /\ admins' \in [Op -> SUBSET User]
  BY <1>1 DEF TypeOK, End
<1>5. /\ pc'[o] = "idle" /\ req'[o] = NoRequest /\ seen'[o] = NoRow
      /\ queue'[o] = {} /\ admins'[o] = {}
      /\ \A p \in Op : p # o =>
           /\ pc'[p] = pc[p] /\ req'[p] = req[p] /\ seen'[p] = seen[p]
           /\ queue'[p] = queue[p] /\ admins'[p] = admins[p]
  BY <1>1 DEF TypeOK, End
<1> QED
  BY <1>2, <1>3, <1>4, <1>5

\* An operation ends, and its target's row may be another one: no row comes back,
\* and a row that others have locked stays what it is.
LEMMA EndKeepsIInv ==
  ASSUME IInv, NEW o \in Op, End(o),
         rows' \in [User -> Row \cup {NoRow, Deleted}],
         rows' = rows \/
           /\ pc[o] = "committing"
           /\ \A u \in User : u # Target(o) => rows'[u] = rows[u]
           /\ rows'[Target(o)] # NoRow
  PROVE  IInv'
<1> DEFINE t == Target(o)
<1>1. TypeOK /\ OwnInv(o) /\ OwnerInv /\ FreshInv
  BY DEF IInv
<1>2. TypeOK'
  BY EndForgets DEF TypeOK
<1>3. OwnInv(o)'
  BY EndForgets, NobodyAssumption
     DEF OwnInv, IdleInv, WorkInv, OrderInv, TargetInv, AdminsInv, Visited
<1>4. ASSUME NEW u \in User, NEW p \in Op, p # o, owner[u] = p PROVE rows'[u] = rows[u]
  <2>1. CASE rows' # rows
    <3>1. Present(u) /\ p # Nobody
      BY <1>1, <1>4, NobodyAssumption DEF OwnerInv
    <3>2. u # t
      BY <1>1, <1>4, <2>1, <3>1, NoRowAssumption
         DEF OwnInv, WorkInv, TargetInv, Visited, Present
    <3> QED
      BY <2>1, <3>2
  <2> QED
    BY <2>1
<1>5. ASSUME NEW p \in Op, p # o PROVE OwnInv(p)'
  <2>1. \A u \in User : owner'[u] = p <=> owner[u] = p
    BY <1>5, EndForgets, NobodyAssumption
  <2>2. ASSUME pc[p] # "idle"
        PROVE  \/ rows'[Target(p)] = rows[Target(p)]
               \/ /\ Present(Target(p)) /\ owner[Target(p)] # p
                  /\ rows'[Target(p)] # NoRow
    <3>1. OwnInv(p) /\ Target(p) \in User
      BY <2>2 DEF IInv, OwnInv, WorkInv, Request, Target
    <3>2. CASE rows' # rows /\ Target(p) = t
      <4>1. KindOf(o) # "CREATE"
        BY <1>1, <1>5, <2>2, <3>2 DEF FreshInv
      <4>2. Present(t) /\ owner[t] = o
        BY <1>1, <3>2, <4>1 DEF OwnInv, TargetInv, Visited
      <4> QED
        BY <1>5, <3>2, <4>2
    <3> QED
      BY <3>1, <3>2
  <2> QED
    BY <1>4, <1>5, <2>1, <2>2, EndForgets, BystanderKeeps
<1>6. FreshInv'
  BY <1>1, EndForgets DEF FreshInv, KindOf, Target
<1>7. OwnerInv'
  <2>1. SUFFICES ASSUME NEW u \in User, owner'[u] # Nobody
                 PROVE  Present(u)' /\ pc'[owner'[u]] \in {"locking", "committing"}
    BY DEF OwnerInv
  <2>2. owner'[u] = owner[u] /\ owner[u] # o /\ owner[u] \in Op
    BY <1>1, <2>1, EndForgets DEF TypeOK
  <2>3. rows'[u] = rows[u] /\ pc'[owner[u]] = pc[owner[u]]
    BY <1>4, <2>2, EndForgets
  <2> QED
    BY <1>1, <2>1, <2>2, <2>3 DEF OwnerInv, Present
<1> QED
  BY <1>2, <1>3, <1>5, <1>6, <1>7 DEF IInv

-----------------------------------------------------------------------------
(* The steps *)

\* A step of o that ends nothing and writes no row leaves the others alone.
LEMMA OthersKeep ==
  ASSUME IInv, NEW o \in Op, NEW p \in Op, p # o, rows' = rows,
         pc'[p] = pc[p], req'[p] = req[p], seen'[p] = seen[p],
         queue'[p] = queue[p], admins'[p] = admins[p],
         \A u \in User : owner'[u] = owner[u] \/ {owner[u], owner'[u]} = {Nobody, o}
  PROVE  OwnInv(p)'
<1>1. \A u \in User : owner'[u] = p <=> owner[u] = p
  BY NobodyAssumption
<1> QED
  BY <1>1, BystanderKeeps

LEMMA AuthenticateKeepsIInv ==
  ASSUME IInv, NEW o \in Op, Authenticate(o)
  PROVE  IInv'
<1>1. TypeOK /\ OwnInv(o) /\ OwnerInv /\ FreshInv
  BY DEF IInv
<1>2. PICK request \in Request :
        /\ MayAsk(request)
        /\ IF request.kind = "CREATE" THEN FreshId(request.target)
                                      ELSE rows[request.target] # NoRow
        /\ request.value \in CASE request.kind \in {"CREATE", "ROLE"} -> Role
                               [] request.kind = "STATUS" -> Status
                               [] OTHER -> {"STAFF"}
        /\ req' = [req EXCEPT ![o] = request]
        /\ seen' = [seen EXCEPT ![o] =
             IF request.actor = request.target THEN rows[request.actor] ELSE NoRow]
  BY DEF Authenticate
<1>3. /\ pc[o] = "idle" /\ pc' = [pc EXCEPT ![o] = "authenticated"]
      /\ UNCHANGED <<rows, owner, queue, admins>>
  BY DEF Authenticate
<1>4. /\ request.actor \in User /\ request.target \in User /\ request.kind \in Kind
      /\ IsActiveAdmin(rows[request.actor])
      /\ request.kind \in {"CREATE", "ROLE"} => request.value \in Role
      /\ request.kind = "STATUS" => request.value \in Status
      /\ request.kind \in {"CREATE", "DELETE"} => request.actor # request.target
  <2>1. /\ request.actor \in User /\ request.target \in User /\ request.kind \in Kind
        /\ IsActiveAdmin(rows[request.actor])
    BY <1>2 DEF Request, MayAsk
  <2>2. /\ request.kind \in {"CREATE", "ROLE"} => request.value \in Role
        /\ request.kind = "STATUS" => request.value \in Status
    BY <1>2
  <2>3. request.kind \in {"CREATE", "DELETE"} => request.actor # request.target
    BY <1>2 DEF MayAsk
  <2> QED
    BY <2>1, <2>2, <2>3
<1>5. rows[request.actor] \in Row
  BY <1>4 DEF IsActiveAdmin, Row, Role, Status
<1>6. TypeOK'
  <2>1. pc' \in [Op -> PC]
    BY <1>1, <1>3 DEF TypeOK, PC
  <2>2. req' \in [Op -> Request \cup {NoRequest}]
    BY <1>1, <1>2 DEF TypeOK
  <2>3. seen' \in [Op -> Row \cup {NoRow}]
    BY <1>1, <1>2, <1>5 DEF TypeOK
  <2> QED
    BY <1>1, <1>3, <2>1, <2>2, <2>3 DEF TypeOK
<1>7. /\ pc'[o] = "authenticated" /\ req'[o] = request
      /\ seen'[o] = IF request.actor = request.target THEN rows[request.actor] ELSE NoRow
      /\ queue'[o] = {} /\ admins'[o] = {}
      /\ \A p \in Op : p # o => pc'[p] = pc[p] /\ req'[p] = req[p] /\ seen'[p] = seen[p]
  BY <1>1, <1>2, <1>3 DEF TypeOK, OwnInv, IdleInv
<1>8. \A p \in Op : p # o => OwnInv(p)'
  BY <1>3, <1>7, OthersKeep
<1>9. KindOf(o)' = request.kind /\ Target(o)' = request.target
  BY <1>7 DEF KindOf, Target
<1>10. OwnInv(o)'
  <2>1. WorkInv(o)'
    <3>1. request.kind = "CREATE" <=> rows[request.target] = NoRow
      BY <1>2 DEF FreshId
    <3> QED
      BY <1>2, <1>3, <1>4, <1>7, <1>9, <3>1 DEF WorkInv
  <2>2. IdleInv(o)' /\ OrderInv(o)' /\ TargetInv(o)' /\ AdminsInv(o)'
    BY <1>7 DEF IdleInv, OrderInv, TargetInv, AdminsInv, Visited
  <2> QED
    BY <2>1, <2>2 DEF OwnInv
<1>11. FreshInv'
  <2>1. ASSUME NEW p \in Op, p # o, pc[p] # "idle"
        PROVE  KindOf(p)' = KindOf(p) /\ Target(p)' = Target(p)
    BY <1>7, <2>1 DEF KindOf, Target
  <2>2. ASSUME NEW p \in Op, p # o, pc[p] # "idle"
        PROVE  /\ KindOf(p) = "CREATE" => Target(p) # request.target
               /\ request.kind = "CREATE" => Target(p) # request.target
    <3>1. OwnInv(p) /\ req[p] # NoRequest
      BY <2>2, NoRequestAssumption DEF IInv, OwnInv, WorkInv
    <3>2. CASE request.kind = "CREATE"
      BY <1>2, <3>1, <3>2 DEF FreshId
    <3>3. CASE request.kind # "CREATE"
      BY <1>2, <2>2, <3>1, <3>3 DEF OwnInv, WorkInv
    <3> QED
      BY <3>2, <3>3
  <2> QED
    BY <1>1, <1>7, <1>9, <2>1, <2>2 DEF FreshInv
<1>12. OwnerInv'
  <2>1. \A u \in User : owner[u] # Nobody => owner[u] \in Op /\ owner[u] # o
    BY <1>1, <1>3 DEF TypeOK, OwnerInv
  <2> QED
    BY <1>1, <1>3, <1>7, <2>1 DEF OwnerInv, Present
<1> QED
  BY <1>6, <1>8, <1>10, <1>11, <1>12 DEF IInv

\* A step of o that changes only what o knows, and where it is.
LEMMA LocalStep ==
  ASSUME IInv, NEW o \in Op, pc[o] # "idle", UNCHANGED <<rows, req>>, TypeOK',
         \A p \in Op : p # o =>
           /\ pc'[p] = pc[p] /\ seen'[p] = seen[p]
           /\ queue'[p] = queue[p] /\ admins'[p] = admins[p],
         pc'[o] # "idle",
         \A u \in User :
           \/ owner'[u] = owner[u]
           \/ owner[u] = Nobody /\ owner'[u] = o /\ Present(u),
         (\E u \in User : owner'[u] = o) => pc'[o] \in {"locking", "committing"},
         OwnInv(o)'
  PROVE  IInv'
<1>1. \A p \in Op : OwnInv(p)'
  BY OthersKeep
<1>2. FreshInv'
  BY DEF IInv, FreshInv, KindOf, Target
<1>3. OwnerInv'
  <2>1. SUFFICES ASSUME NEW u \in User, owner'[u] # Nobody
                 PROVE  Present(u) /\ pc'[owner'[u]] \in {"locking", "committing"}
    BY DEF OwnerInv, Present
  <2>2. CASE owner'[u] = o
    <3>1. Present(u)
      BY <2>1, <2>2 DEF IInv, OwnerInv
    <3> QED
      BY <2>2, <3>1
  <2>3. CASE owner'[u] # o
    <3>1. owner'[u] = owner[u] /\ owner[u] \in Op
      BY <2>1, <2>3 DEF IInv, TypeOK
    <3> QED
      BY <2>1, <2>3, <3>1 DEF IInv, OwnerInv
  <2> QED
    BY <2>2, <2>3
<1> QED
  BY <1>1, <1>2, <1>3 DEF IInv

\* Before the locking statement an operation has no lock.
LEMMA NothingLockedYet ==
  ASSUME IInv, NEW o \in Op, pc[o] \in {"idle", "authenticated", "loaded"}
  PROVE  \A u \in User : owner[u] # o
BY NobodyAssumption DEF IInv, OwnerInv

LEMMA WorkingOn ==
  ASSUME IInv, NEW o \in Op, pc[o] # "idle"
  PROVE  /\ TypeOK /\ OwnInv(o) /\ Target(o) \in User /\ Actor(o) \in User
         /\ rows[Target(o)] \in Row \cup {NoRow, Deleted}
BY DEF IInv, OwnInv, WorkInv, Request, Target, Actor, TypeOK

LEMMA LoadKeepsIInv ==
  ASSUME IInv, NEW o \in Op, Load(o)
  PROVE  IInv'
<1>1. /\ pc[o] = "authenticated" /\ KindOf(o) \in {"EMAIL", "ROLE", "STATUS"}
      /\ UNCHANGED <<rows, owner, req, queue, admins>>
      /\ TypeOK /\ OwnInv(o) /\ rows[Target(o)] \in Row
  BY WorkingOn DEF Load, KindOf, Present
<1>2. /\ pc' \in [Op -> PC] /\ pc'[o] = "loaded" /\ seen' \in [Op -> Row \cup {NoRow}]
      /\ \A p \in Op : p # o => pc'[p] = pc[p] /\ seen'[p] = seen[p]
  BY <1>1 DEF TypeOK, Load, PC
<1>3. OwnInv(o)'
  <2>1. KindOf(o)' = KindOf(o) /\ Target(o)' = Target(o) /\ queue[o] = {}
    BY <1>1 DEF KindOf, Target, OwnInv, OrderInv
  <2>2. WorkInv(o)' /\ IdleInv(o)'
    BY <1>1, <1>2, <2>1 DEF OwnInv, WorkInv, IdleInv
  <2>3. OrderInv(o)' /\ TargetInv(o)' /\ AdminsInv(o)'
    BY <1>1, <1>2, <2>1 DEF OwnInv, OrderInv, TargetInv, AdminsInv, Visited
  <2> QED
    BY <2>2, <2>3 DEF OwnInv
<1>4. TypeOK'
  BY <1>1, <1>2 DEF TypeOK
<1> QED
  BY <1>1, <1>2, <1>3, <1>4, NothingLockedYet, LocalStep

LEMMA InsertKeepsIInv ==
  ASSUME IInv, NEW o \in Op, Insert(o)
  PROVE  IInv'
<1>1. /\ pc[o] = "authenticated" /\ KindOf(o) = "CREATE"
      /\ UNCHANGED <<rows, owner, req, seen, queue, admins>>
      /\ TypeOK /\ OwnInv(o)
  BY WorkingOn DEF Insert, KindOf
<1>2. /\ pc' \in [Op -> PC] /\ pc'[o] = "committing"
      /\ \A p \in Op : p # o => pc'[p] = pc[p]
  BY <1>1 DEF TypeOK, Insert, PC
<1>3. OwnInv(o)'
  <2>1. KindOf(o)' = KindOf(o) /\ Target(o)' = Target(o) /\ queue[o] = {}
    BY <1>1 DEF KindOf, Target, OwnInv, OrderInv
  <2>2. WorkInv(o)' /\ IdleInv(o)'
    BY <1>1, <1>2, <2>1 DEF OwnInv, WorkInv, IdleInv
  <2>3. OrderInv(o)' /\ TargetInv(o)' /\ AdminsInv(o)'
    BY <1>1, <1>2, <2>1 DEF OwnInv, OrderInv, TargetInv, AdminsInv, Visited, Demotes
  <2> QED
    BY <2>2, <2>3 DEF OwnInv
<1>4. TypeOK'
  BY <1>1, <1>2 DEF TypeOK
<1> QED
  BY <1>1, <1>2, <1>3, <1>4, NothingLockedYet, LocalStep

\* The target is visited later, if it is still there.
LEMMA StartLockingKeepsIInv ==
  ASSUME IInv, NEW o \in Op, StartLocking(o)
  PROVE  IInv'
<1>1. /\ \/ pc[o] = "loaded"
         \/ pc[o] = "authenticated" /\ KindOf(o) = "DELETE" /\ Present(Target(o))
      /\ UNCHANGED <<rows, owner, req, seen, admins>>
      /\ TypeOK /\ OwnInv(o) /\ Target(o) \in User
  BY WorkingOn DEF StartLocking, KindOf
<1>2. /\ pc' \in [Op -> PC] /\ pc'[o] = "locking" /\ queue' \in [Op -> SUBSET User]
      /\ queue'[o] = {u \in User : Matches(o, u)}
      /\ \A p \in Op : p # o => pc'[p] = pc[p] /\ queue'[p] = queue[p]
  BY <1>1 DEF TypeOK, StartLocking, PC
<1>3. \A u \in User : owner[u] # o
  BY <1>1, NothingLockedYet
<1>4. OwnInv(o)'
  <2>1. KindOf(o)' = KindOf(o) /\ Target(o)' = Target(o)
    BY <1>1 DEF KindOf, Target
  <2>2. WorkInv(o)' /\ IdleInv(o)'
    BY <1>1, <1>2, <2>1 DEF OwnInv, WorkInv, IdleInv
  <2>3. OrderInv(o)' /\ AdminsInv(o)'
    BY <1>1, <1>2, <1>3, <2>1 DEF OwnInv, OrderInv, AdminsInv
  <2>4. Present(Target(o)) => Target(o) \in queue'[o]
    BY <1>1, <1>2 DEF Matches
  <2>5. TargetInv(o)'
    BY <1>1, <1>2, <2>1, <2>4 DEF TargetInv, Visited, Present
  <2> QED
    BY <2>2, <2>3, <2>5 DEF OwnInv
<1>5. TypeOK'
  BY <1>1, <1>2 DEF TypeOK
<1> QED
  BY <1>1, <1>2, <1>3, <1>4, <1>5, LocalStep

\* The row that is visited next is the first of those left.
LEMMA NextRowIsFirst ==
  ASSUME IInv, NEW o \in Op, queue[o] # {}
  PROVE  /\ NextRow(o) \in queue[o] /\ NextRow(o) \in User
         /\ \A v \in queue[o] : NextRow(o) <= v
<1>1. queue[o] \in SUBSET User /\ User \in SUBSET Nat
  BY UserCountAssumption DEF IInv, TypeOK, User
<1>2. \E u \in queue[o] : \A v \in queue[o] : u <= v
  BY <1>1, LeastOfNaturals
<1> QED
  BY <1>1, <1>2 DEF NextRow

\* A row that is there is locked, and is what the session has of it, unless it
\* has loaded it earlier; the lock follows those on smaller ids.
LEMMA LockNextRowKeepsIInv ==
  ASSUME IInv, NEW o \in Op, LockNextRow(o)
  PROVE  IInv'
<1> DEFINE u == NextRow(o)
<1>1. /\ pc[o] = "locking" /\ u \in queue[o] /\ u \in User /\ owner[u] = Nobody
      /\ \A v \in queue[o] : u <= v
      /\ UNCHANGED <<rows, pc, req>>
      /\ TypeOK /\ OwnInv(o) /\ Target(o) \in User
  BY NextRowIsFirst, WorkingOn DEF LockNextRow, Lock
<1>2. /\ owner' = [owner EXCEPT ![u] = IF Present(u) THEN o ELSE Nobody]
      /\ queue' = [queue EXCEPT ![o] = @ \ {u}]
      /\ seen' = [seen EXCEPT ![o] = SeenAfter(o, u)]
      /\ admins' = [admins EXCEPT ![o] =
           IF Matches(o, u) /\ IsActiveAdmin(Attributes(o, u)) THEN @ \cup {u} ELSE @]
  BY DEF LockNextRow, Lock
<1> HIDE DEF u
<1>3. /\ owner' \in [User -> Op \cup {Nobody}]
      /\ owner'[u] = IF Present(u) THEN o ELSE Nobody
      /\ \A v \in User : v # u => owner'[v] = owner[v]
  BY <1>1, <1>2 DEF TypeOK
<1>4. /\ queue' \in [Op -> SUBSET User] /\ queue'[o] = queue[o] \ {u}
      /\ \A p \in Op : p # o => queue'[p] = queue[p]
  BY <1>1, <1>2 DEF TypeOK
<1>5. /\ seen' \in [Op -> Row \cup {NoRow}] /\ seen'[o] = SeenAfter(o, u)
      /\ \A p \in Op : p # o => seen'[p] = seen[p]
  <2>1. SeenAfter(o, u) \in Row \cup {NoRow}
    BY <1>1 DEF SeenAfter, Present, TypeOK
  <2> QED
    BY <1>1, <1>2, <2>1 DEF TypeOK
<1>6. /\ admins' \in [Op -> SUBSET User]
      /\ admins'[o] \subseteq admins[o] \cup {u}
      /\ u \in admins'[o] => u \in admins[o] \/ (Matches(o, u) /\ IsActiveAdmin(Attributes(o, u)))
      /\ \A p \in Op : p # o => admins'[p] = admins[p]
  BY <1>1, <1>2 DEF TypeOK
<1>7. KindOf(o)' = KindOf(o) /\ Target(o)' = Target(o)
  BY <1>1 DEF KindOf, Target
<1>8. WorkInv(o)' /\ IdleInv(o)'
  <2>1. Target(o) \in queue'[o] => seen'[o] = seen[o] /\ Target(o) \in queue[o]
    BY <1>4, <1>5 DEF SeenAfter
  <2> QED
    BY <1>1, <1>7, <2>1 DEF OwnInv, WorkInv, IdleInv
<1>9. OrderInv(o)'
  <2>1. ASSUME NEW w \in User, owner'[w] = o, NEW v \in queue'[o] PROVE w < v
    <3>1. v \in queue[o] /\ v # u /\ v \in Nat /\ u \in Nat /\ u <= v
      BY <1>1, <1>4, UserCountAssumption DEF TypeOK, User
    <3>2. CASE w = u
      BY <3>1, <3>2
    <3>3. CASE w # u
      BY <1>1, <1>3, <2>1, <3>1, <3>3 DEF OwnInv, OrderInv
    <3> QED
      BY <3>2, <3>3
  <2> QED
    BY <1>1, <2>1 DEF OrderInv
<1>10. TargetInv(o)'
  <2>1. CASE u = Target(o)
    <3>1. Present(u) => owner'[u] = o /\ (KindOf(o) = "DELETE" => seen'[o] = rows[u])
      <4>1. KindOf(o) = "DELETE" => seen[o] = NoRow
        BY <1>1, <2>1 DEF OwnInv, WorkInv
      <4> QED
        BY <1>3, <1>5, <2>1, <4>1 DEF SeenAfter
    <3> QED
      BY <1>1, <1>7, <2>1, <3>1 DEF TargetInv, Present
  <2>2. CASE u # Target(o)
    <3>1. Visited(o)' = Visited(o) /\ seen'[o] = seen[o] /\ owner'[Target(o)] = owner[Target(o)]
      BY <1>1, <1>3, <1>4, <1>5, <1>7, <2>2 DEF Visited, SeenAfter
    <3> QED
      BY <1>1, <1>7, <3>1 DEF OwnInv, TargetInv, Present
  <2> QED
    BY <2>1, <2>2
<1>11. AdminsInv(o)'
  <2>1. ASSUME NEW v \in admins'[o], v # Target(o)
        PROVE  owner'[v] = o /\ IsActiveAdmin(rows[v])
    <3>1. v \in User
      BY <1>6 DEF TypeOK
    <3>2. CASE v \in admins[o]
      <4>1. owner[v] = o /\ IsActiveAdmin(rows[v])
        BY <1>1, <2>1, <3>2 DEF OwnInv, AdminsInv
      <4> QED
        BY <1>1, <1>3, <3>1, <4>1, NobodyAssumption
    <3>3. CASE v \notin admins[o]
      <4>1. v = u /\ Present(u) /\ IsActiveAdmin(rows[u])
        BY <1>6, <2>1, <3>3 DEF Matches, Attributes
      <4> QED
        BY <1>3, <4>1
    <3> QED
      BY <3>2, <3>3
  <2> QED
    BY <1>1, <1>7, <2>1 DEF AdminsInv
<1>12. OwnInv(o)'
  BY <1>8, <1>9, <1>10, <1>11 DEF OwnInv
<1>13. TypeOK'
  BY <1>1, <1>3, <1>4, <1>5, <1>6 DEF TypeOK
<1>14. \A v \in User : \/ owner'[v] = owner[v]
                       \/ owner[v] = Nobody /\ owner'[v] = o /\ Present(v)
  BY <1>1, <1>3
<1> QED
  BY <1>1, <1>4, <1>5, <1>6, <1>12, <1>13, <1>14, LocalStep

\* Where an administrator is taken away, another one has been locked.
LEMMA WriteKeepsIInv ==
  ASSUME IInv, NEW o \in Op, Write(o)
  PROVE  IInv'
<1>1. /\ pc[o] = "locking" /\ queue[o] = {} /\ Present(Target(o)) /\ ~IsLastAdmin(o)
      /\ MayDelete(o)
      /\ UNCHANGED <<rows, owner, req, seen, queue>>
      /\ TypeOK /\ OwnInv(o) /\ Target(o) \in User
  BY WorkingOn DEF Write, Locked
<1>2. /\ pc' \in [Op -> PC] /\ pc'[o] = "committing"
      /\ admins' \in [Op -> SUBSET User] /\ admins'[o] = {}
      /\ \A p \in Op : p # o => pc'[p] = pc[p] /\ admins'[p] = admins[p]
  BY <1>1 DEF TypeOK, Write, PC
<1>3. KindOf(o)' = KindOf(o) /\ Target(o)' = Target(o) /\ Demotes(o)' = Demotes(o)
  BY <1>1 DEF KindOf, Target, Demotes
<1>4. WorkInv(o)' /\ IdleInv(o)' /\ OrderInv(o)'
  BY <1>1, <1>2, <1>3 DEF OwnInv, WorkInv, IdleInv, OrderInv
<1>5. TargetInv(o)'
  BY <1>1, <1>2, <1>3 DEF OwnInv, TargetInv, Visited, MayDelete, KindOf, Present
<1>6. AdminsInv(o)'
  <2>1. ASSUME Demotes(o)
        PROVE  \E u \in User \ {Target(o)} : owner[u] = o /\ IsActiveAdmin(rows[u])
    <3>1. PICK u \in admins[o] : u # Target(o)
      BY <1>1, <2>1 DEF IsLastAdmin, Demotes, KindOf
    <3>2. u \in User /\ owner[u] = o /\ IsActiveAdmin(rows[u])
      BY <1>1, <3>1 DEF OwnInv, AdminsInv, TypeOK
    <3> QED
      BY <3>1, <3>2
  <2> QED
    BY <1>1, <1>2, <1>3, <2>1 DEF AdminsInv
<1>7. TypeOK'
  BY <1>1, <1>2 DEF TypeOK
<1> QED
  BY <1>1, <1>2, <1>4, <1>5, <1>6, <1>7, LocalStep DEF OwnInv

\* What a commit makes of its target's row.
LEMMA CommitWritesOneRow ==
  ASSUME IInv, NEW o \in Op, Commit(o)
  PROVE  /\ rows' \in [User -> Row \cup {NoRow, Deleted}]
         /\ \A u \in User : u # Target(o) => rows'[u] = rows[u]
         /\ rows'[Target(o)] = NewRow(o)
         /\ NewRow(o) \in Row \cup {Deleted}
         /\ NewRow(o) = Deleted => KindOf(o) = "DELETE"
<1>1. /\ pc[o] = "committing" /\ TypeOK /\ OwnInv(o) /\ Target(o) \in User
      /\ rows' = [rows EXCEPT ![Target(o)] = NewRow(o)]
  BY WorkingOn DEF Commit
<1>2. KindOf(o) \in {"CREATE", "EMAIL", "ROLE", "STATUS", "DELETE"}
  BY <1>1, KindAssumption DEF OwnInv, WorkInv, Request, KindOf
<1>3. KindOf(o) # "CREATE" => rows[Target(o)] \in Row
  BY <1>1 DEF OwnInv, TargetInv, Present
<1>4. Deleted \notin Row
  BY NoRowAssumption
<1>5. /\ NewRow(o) \in Row \cup {Deleted}
      /\ NewRow(o) = Deleted => KindOf(o) = "DELETE"
  <2>1. CASE KindOf(o) = "CREATE"
    <3>1. NewRow(o) = [role |-> req[o].value, status |-> "ACTIVE"] /\ req[o].value \in Role
      BY <1>1, <2>1 DEF NewRow, KindOf, OwnInv, WorkInv
    <3>2. NewRow(o) \in Row
      BY <3>1 DEF Row, Status
    <3> QED
      BY <1>4, <3>2
  <2>2. CASE KindOf(o) = "EMAIL"
    <3>1. NewRow(o) = rows[Target(o)]
      BY <2>2 DEF NewRow, KindOf
    <3> QED
      BY <1>3, <1>4, <2>2, <3>1
  <2>3. CASE KindOf(o) = "ROLE"
    <3>1. NewRow(o) = [rows[Target(o)] EXCEPT !.role = req[o].value] /\ req[o].value \in Role
      BY <1>1, <2>3 DEF NewRow, KindOf, OwnInv, WorkInv
    <3>2. NewRow(o) \in Row
      BY <1>3, <2>3, <3>1 DEF Row
    <3> QED
      BY <1>4, <3>2
  <2>4. CASE KindOf(o) = "STATUS"
    <3>1. NewRow(o) = [rows[Target(o)] EXCEPT !.status = req[o].value] /\ req[o].value \in Status
      BY <1>1, <2>4 DEF NewRow, KindOf, OwnInv, WorkInv
    <3>2. NewRow(o) \in Row
      BY <1>3, <2>4, <3>1 DEF Row
    <3> QED
      BY <1>4, <3>2
  <2>5. CASE KindOf(o) = "DELETE"
    <3>1. NewRow(o) = Deleted
      BY <2>5 DEF NewRow, KindOf
    <3> QED
      BY <2>5, <3>1
  <2> QED
    BY <1>2, <2>1, <2>2, <2>3, <2>4, <2>5
<1> QED
  BY <1>1, <1>5 DEF TypeOK

LEMMA NextKeepsIInv == ASSUME IInv, [Next]_vars PROVE IInv'
<1>1. CASE UNCHANGED vars
  BY <1>1 DEF vars, locals, IInv, TypeOK, OwnInv, IdleInv, WorkInv, OrderInv, TargetInv,
              AdminsInv, FreshInv, OwnerInv, KindOf, Target, Present, Visited, Demotes
<1>2. ASSUME NEW o \in Op, Commit(o) PROVE IInv'
  <2>1. rows'[Target(o)] # NoRow /\ End(o) /\ pc[o] = "committing"
    BY <1>2, CommitWritesOneRow, NoRowAssumption DEF Commit
  <2> QED
    BY <1>2, <2>1, CommitWritesOneRow, EndKeepsIInv
<1>3. ASSUME NEW o \in Op, NotFound(o) \/ Refuse(o) \/ GiveUp(o) \/ Abort(o) PROVE IInv'
  <2>1. End(o) /\ rows' = rows /\ rows' \in [User -> Row \cup {NoRow, Deleted}]
    BY <1>3 DEF NotFound, Refuse, GiveUp, Abort, IInv, TypeOK
  <2> QED
    BY <2>1, EndKeepsIInv
<1>4. CASE Next
  BY <1>2, <1>3, <1>4, AuthenticateKeepsIInv, LoadKeepsIInv, InsertKeepsIInv,
     StartLockingKeepsIInv, LockNextRowKeepsIInv, WriteKeepsIInv DEF Next, Run
<1> QED
  BY <1>1, <1>4

LEMMA InitIInv == ASSUME Init PROVE IInv
<1>1. TypeOK
  BY DEF Init, TypeOK, PC
<1>2. \A o \in Op : OwnInv(o)
  BY NobodyAssumption
     DEF Init, OwnInv, IdleInv, WorkInv, OrderInv, TargetInv, AdminsInv, Visited
<1>3. FreshInv /\ OwnerInv
  BY DEF Init, FreshInv, OwnerInv
<1> QED
  BY <1>1, <1>2, <1>3 DEF IInv

\* Only commits write rows.
LEMMA WhoeverWritesCommits ==
  ASSUME IInv, [Next]_vars, rows' # rows
  PROVE  \E o \in Op : Commit(o) /\ pc[o] = "committing" /\ pc'[o] = "idle"
<1>1. PICK o \in Op : Commit(o)
  BY DEF Next, Run, vars, Authenticate, Load, NotFound, Insert, StartLocking, LockNextRow,
         Lock, Refuse, Write, GiveUp, Abort
<1>2. pc[o] = "committing" /\ pc'[o] = "idle"
  BY <1>1, EndForgets DEF Commit
<1> QED
  BY <1>1, <1>2

-----------------------------------------------------------------------------
(* Administrators *)

\* An operation that is not mistaken about its target keeps an administrator.
LEMMA FreshTargetKeepsAnAdmin ==
  ASSUME IInv, NEW o \in Op, Commit(o), seen[o] = rows[Target(o)], ActiveAdmins # {}
  PROVE  ActiveAdmins' # {}
<1> DEFINE t == Target(o)
<1>1. /\ pc[o] = "committing" /\ OwnInv(o) /\ TypeOK /\ t \in User
      /\ KindOf(o) \in {"CREATE", "EMAIL", "ROLE", "STATUS", "DELETE"}
  BY WorkingOn, KindAssumption DEF Commit, OwnInv, WorkInv, Request, KindOf
<1>2. \A u \in User \ {t} : rows'[u] = rows[u]
  BY CommitWritesOneRow
<1>3. SUFFICES ASSUME IsActiveAdmin(rows[t]), ~IsActiveAdmin(NewRow(o))
               PROVE  \E u \in User \ {t} : IsActiveAdmin(rows[u])
  BY <1>1, <1>2, CommitWritesOneRow DEF ActiveAdmins
<1>4. rows[t] \in Row /\ rows[t].role = "TENANT_ADMIN" /\ rows[t].status = "ACTIVE"
  BY <1>3 DEF IsActiveAdmin, Row, Role, Status
<1>5. Demotes(o)
  <2>1. KindOf(o) # "CREATE"
    BY <1>1, <1>4, NoRowAssumption DEF OwnInv, WorkInv
  <2>2. KindOf(o) # "EMAIL"
    BY <1>3 DEF NewRow, KindOf
  <2>3. KindOf(o) # "DELETE"
    BY <1>1, <1>4 DEF OwnInv, TargetInv
  <2>4. CASE KindOf(o) = "ROLE"
    <3>1. NewRow(o) = [rows[t] EXCEPT !.role = req[o].value] /\ req[o].value \in Role
      BY <1>1, <2>4 DEF NewRow, KindOf, OwnInv, WorkInv
    <3>2. req[o].value # "TENANT_ADMIN"
      BY <1>3, <1>4, <3>1 DEF Row
    <3> QED
      BY <1>3, <2>4, <3>1, <3>2 DEF Demotes, Role
  <2>5. CASE KindOf(o) = "STATUS"
    <3>1. NewRow(o) = [rows[t] EXCEPT !.status = req[o].value] /\ req[o].value \in Status
      BY <1>1, <2>5 DEF NewRow, KindOf, OwnInv, WorkInv
    <3>2. req[o].value # "ACTIVE"
      BY <1>3, <1>4, <3>1 DEF Row
    <3> QED
      BY <1>3, <2>5, <3>1, <3>2 DEF Demotes, Status
  <2> QED
    BY <1>1, <2>1, <2>2, <2>3, <2>4, <2>5
<1> QED
  BY <1>1, <1>5 DEF OwnInv, AdminsInv

\* A tenant loses its last active administrator only to an operation that decided
\* by attributes loaded before it had the lock: the locks and the count are
\* enough otherwise, however many operations run (users/service.py:224-232).
THEOREM OnlyStaleTargetsCost == Spec => LastAdminLostOnlyToStaleTarget
<1> DEFINE Lost == ActiveAdmins # {} /\ ActiveAdmins' = {} =>
                     \E o \in Op : /\ pc[o] = "committing"
                                   /\ pc'[o] = "idle"
                                   /\ seen[o] # rows[Target(o)]
<1>1. Init => IInv
  BY InitIInv
<1>2. IInv /\ [Next]_vars => IInv' /\ [Lost]_vars
  <2>1. ASSUME IInv, [Next]_vars, ActiveAdmins # {}, ActiveAdmins' = {}
        PROVE  \E o \in Op : /\ pc[o] = "committing" /\ pc'[o] = "idle"
                             /\ seen[o] # rows[Target(o)]
    <3>1. rows' # rows
      BY <2>1 DEF ActiveAdmins
    <3> QED
      BY <2>1, <3>1, WhoeverWritesCommits, FreshTargetKeepsAnAdmin
  <2> QED
    BY <2>1, NextKeepsIInv
<1>3. Spec => [][Lost]_vars
  BY <1>1, <1>2, PTL DEF Spec
<1> QED
  BY <1>3 DEF LastAdminLostOnlyToStaleTarget

\* Nobody is deleted who is an administrator at that moment: whoever deletes has
\* read the role under the lock (users/service.py:562, 574).
THEOREM NoAdministratorIsDeleted == Spec => AdministratorsAreNotDeleted
<1> DEFINE Kept == \A u \in User : Present(u) /\ ~Present(u)' => rows[u].role # "TENANT_ADMIN"
<1>1. Init => IInv
  BY InitIInv
<1>2. IInv /\ [Next]_vars => IInv' /\ [Kept]_vars
  <2>1. ASSUME IInv, [Next]_vars, NEW u \in User, Present(u), ~Present(u)'
        PROVE  rows[u].role # "TENANT_ADMIN"
    <3>1. PICK o \in Op : Commit(o) /\ pc[o] = "committing"
      BY <2>1, WhoeverWritesCommits DEF Present
    <3>2. u = Target(o) /\ NewRow(o) = Deleted
      BY <2>1, <3>1, CommitWritesOneRow DEF Present
    <3>3. KindOf(o) = "DELETE" /\ OwnInv(o)
      BY <2>1, <3>1, <3>2, CommitWritesOneRow DEF IInv
    <3> QED
      BY <2>1, <3>1, <3>2, <3>3 DEF OwnInv, TargetInv, Visited
  <2> QED
    BY <2>1, NextKeepsIInv
<1>3. Spec => [][Kept]_vars
  BY <1>1, <1>2, PTL DEF Spec
<1> QED
  BY <1>3 DEF AdministratorsAreNotDeleted

-----------------------------------------------------------------------------
(* Waiting *)

\* Of the rows that a circle of locking statements waits for take the greatest:
\* whoever has it waits for a greater one.
LEMMA LockingNeverCircles ==
  ASSUME IInv, NEW S \in SUBSET Op, Circle(S), \A o \in S : pc[o] # "committing"
  PROVE  FALSE
<1>1. ASSUME NEW o \in S
      PROVE  /\ pc[o] = "locking" /\ queue[o] # {}
             /\ owner[NextRow(o)] \in S
  BY <1>1, NobodyAssumption DEF Circle, Blocker
<1> DEFINE Awaited == {NextRow(o) : o \in S}
<1>2. UserCount \in Nat /\ Awaited \in SUBSET (0 .. UserCount) /\ Awaited # {}
  <2>1. \A o \in S : NextRow(o) \in 0 .. UserCount
    BY <1>1, NextRowIsFirst, UserCountAssumption DEF User
  <2> QED
    BY <2>1, UserCountAssumption DEF Circle
<1>3. PICK m \in Awaited : \A n \in Awaited : n <= m
  BY <1>2, GreatestOfNaturals
<1>4. PICK o \in S : m = NextRow(o)
  BY <1>3
<1> DEFINE b == owner[NextRow(o)]
<1>5. b \in S /\ b \in Op /\ queue[b] # {} /\ pc[b] = "locking" /\ owner[m] = b /\ m \in User
  BY <1>1, <1>4, NextRowIsFirst
<1>6. m < NextRow(b)
  BY <1>5, NextRowIsFirst DEF IInv, OwnInv, OrderInv
<1>7. NextRow(b) <= m /\ NextRow(b) \in Nat /\ m \in Nat
  BY <1>2, <1>3, <1>5
<1> QED
  BY <1>6, <1>7

\* The locking statements take rows in the order of ids, so they alone never
\* wait in a circle, whatever they lock (users/service.py:228).
THEOREM OrderedLocksNeverCircle == Spec => []CircleNeedsAuditRow
<1>1. Init => IInv
  BY InitIInv
<1>2. IInv /\ [Next]_vars => IInv'
  BY NextKeepsIInv
<1>3. IInv => CircleNeedsAuditRow
  BY LockingNeverCircles DEF CircleNeedsAuditRow
<1> QED
  BY <1>1, <1>2, <1>3, PTL DEF Spec
=============================================================================
