------------------------- MODULE UserProfilesProofs -------------------------
(***************************************************************************)
(* Proofs that e-mails and employee codes are unique, that the audit rows  *)
(* tell what the fields are, that only new keys make a circle and that no  *)
(* page skips anything, for any number of users, requests and readers.     *)
(***************************************************************************)
EXTENDS UserProfiles, FiniteSetTheorems, TLAPS

Key == {"code", "email"}

\* The variables that the argument is about are functions on users or requests.
ShapeInv ==
    /\ rows \in [User -> [Field -> Nat] \cup {NoRow}]
    /\ DOMAIN pc = Op /\ DOMAIN req = Op
    /\ DOMAIN seen = Op /\ DOMAIN entered = Op

\* A creation names every field; a deletion, which is never of an administrator, none.
AskedInv ==
    \A o \in Op : pc[o] # "idle" =>
        /\ Target(o) \in User
        /\ \A f \in DOMAIN req[o].to : f \in Field /\ req[o].to[f] \in Nat
        /\ \/ req[o].kind = "CREATE" /\ DOMAIN req[o].to = Field
           \/ req[o].kind = "PATCH"
           \/ /\ req[o].kind = "DELETE" /\ DOMAIN req[o].to = {}
              /\ Target(o) \notin Admin
              /\ pc[o] = "begun" => seen[o] = NoRow

\* A creation is about somebody whom there is not, and whom nobody else is about.
CreationInv ==
    \A o \in Op : pc[o] # "idle" /\ req[o].kind = "CREATE" =>
        /\ Target(o) \in User \ Present
        /\ \A p \in Op \ {o} : pc[p] # "idle" => Target(p) # Target(o)

\* o is a writer of its target.
Holds(o) ==
    \/ pc[o] = "writing"
    \/ pc[o] = "loaded" /\ req[o].kind = "DELETE"

\* A writer is alone with its row, which stays there, and as a deletion has seen it.
HeldInv ==
    \A o \in Op : Holds(o) =>
        /\ req[o].kind # "CREATE" => Target(o) \in Present
        /\ req[o].kind = "DELETE" => seen[o] = rows[Target(o)]
        /\ \A p \in Op \ {o} : Holds(p) => Target(p) # Target(o)

\* Only writers enter keys, and only those that their request applies.
EnteredInv ==
    \A o \in Op : \A f \in entered[o] :
        f \in Key /\ pc[o] = "writing" /\ f \in Applied(o)

\* No committed row but its own has a key that a writer has entered,
EnteredIsFree ==
    \A o \in Op : \A f \in entered[o] : \A u \in Present :
        u # Target(o) => rows[u][f] # req[o].to[f]

\* and no two writers have entered one key.
EnteredIsExclusive ==
    \A o, p \in Op : \A f \in Key :
        o # p /\ f \in entered[o] /\ f \in entered[p] => req[o].to[f] # req[p].to[f]

\* A key is entered when neither a committed row nor another writer has it, and
\* it is committed by those only who have entered it: what has been entered stays
\* free until then, because whoever could take it has to enter it first.
IInv ==
    /\ ShapeInv /\ AskedInv /\ CreationInv /\ HeldInv /\ EnteredInv
    /\ EnteredIsFree /\ EnteredIsExclusive /\ KeysAreUnique

-----------------------------------------------------------------------------

\* A request begins.
BeginAny(o) == BeginCreate(o) \/ BeginUpdate(o) \/ BeginOwnUpdate(o) \/ BeginDelete(o)

\* It is about a user that there is, or about nobody's user.
LEMMA BeginAsks ==
    ASSUME IInv, NEW o \in Op, BeginAny(o)
    PROVE  \E request :
              /\ Begin(o, request)
              /\ request.target \in User /\ request.began = clock + 1
              /\ \A f \in DOMAIN request.to : f \in Field /\ request.to[f] \in Nat
              /\ \/ /\ request.kind = "CREATE" /\ DOMAIN request.to = Field
                    /\ request.target \in User \ Present /\ trail[request.target] = <<>>
                    /\ \A p \in Op : pc[p] # "idle" => Target(p) # request.target
                    /\ request.actor \in Admin
                 \/ /\ request.kind = "PATCH" /\ request.target \in Present
                    /\ request.actor \in Admin \/ request.actor = request.target
                 \/ /\ request.kind = "DELETE" /\ request.target \in Present \ Admin
                    /\ request.actor \in Admin /\ DOMAIN request.to = {}
<1>1. \A u \in Present : u \in User
    BY DEF Present
<1>2. CASE BeginCreate(o)
    <2>1. PICK a \in Admin, profile \in Profile, u \in User \ Present :
             /\ trail[u] = <<>> /\ \A p \in Op : pc[p] # "idle" => Target(p) # u
             /\ Begin(o, Asked("CREATE", a, u, profile))
        BY <1>2 DEF BeginCreate
    <2>2. DOMAIN profile = Field /\ \A f \in Field : profile[f] \in Nat
        BY <2>1, ProfileAssumption
    <2> QED BY <2>1, <2>2 DEF Asked
<1>3. CASE BeginUpdate(o)
    BY <1>1, <1>3, ProfileAssumption DEF BeginUpdate, Asked
<1>4. CASE BeginOwnUpdate(o)
    BY <1>1, <1>4, ProfileAssumption DEF BeginOwnUpdate, Asked
<1>5. CASE BeginDelete(o)
    <2>1. PICK a \in Admin, u \in Present \ Admin :
             Begin(o, Asked("DELETE", a, u, [f \in {} |-> 0]))
        BY <1>5 DEF BeginDelete
    <2> QED BY <1>1, <2>1 DEF Asked
<1> QED BY <1>2, <1>3, <1>4, <1>5 DEF BeginAny

\* It has entered nothing yet, and locked nothing.
LEMMA BeginKeepsIInv ==
    ASSUME IInv, NEW o \in Op, BeginAny(o)
    PROVE  IInv'
<1> PICK request :
       /\ Begin(o, request)
       /\ request.target \in User
       /\ \A f \in DOMAIN request.to : f \in Field /\ request.to[f] \in Nat
       /\ \/ /\ request.kind = "CREATE" /\ DOMAIN request.to = Field
             /\ request.target \in User \ Present
             /\ \A p \in Op : pc[p] # "idle" => Target(p) # request.target
          \/ request.kind = "PATCH" /\ request.target \in Present
          \/ /\ request.kind = "DELETE" /\ request.target \in Present \ Admin
             /\ request.actor \in Admin /\ DOMAIN request.to = {}
    BY BeginAsks, ProfileAssumption
<1>1. /\ rows' = rows /\ entered' = entered /\ pc[o] = "idle"
      /\ pc' = [pc EXCEPT ![o] = "begun"]
      /\ req' = [req EXCEPT ![o] = request]
      /\ seen' = [seen EXCEPT ![o] =
                     IF request.actor = request.target THEN rows[request.actor] ELSE NoRow]
    BY DEF Begin
<1>2. entered[o] = {}
    BY <1>1 DEF IInv, EnteredInv
<1>3. ShapeInv'
    BY <1>1 DEF IInv, ShapeInv
<1>4. /\ req'[o] = request /\ pc'[o] = "begun"
      /\ request.kind = "DELETE" => seen'[o] = NoRow
      /\ \A p \in Op : p # o => /\ req'[p] = req[p] /\ pc'[p] = pc[p]
                                /\ seen'[p] = seen[p]
    BY <1>1 DEF IInv, ShapeInv
<1>5. AskedInv'
    BY <1>4 DEF IInv, AskedInv, Target
<1>6. CreationInv'
    BY <1>1, <1>4 DEF IInv, CreationInv, Target, Present
<1>7. HeldInv'
    BY <1>1, <1>4 DEF IInv, HeldInv, Holds, Target, Present
<1>8. EnteredInv'
    BY <1>1, <1>2, <1>4 DEF IInv, EnteredInv, Applied
<1>9. EnteredIsFree'
    BY <1>1, <1>2, <1>4 DEF IInv, EnteredIsFree, Target, Present
<1>10. EnteredIsExclusive'
    BY <1>1, <1>2, <1>4 DEF IInv, EnteredIsExclusive
<1>11. KeysAreUnique'
    BY <1>1 DEF IInv, KeysAreUnique, Present
<1> QED BY <1>3, <1>5, <1>6, <1>7, <1>8, <1>9, <1>10, <1>11 DEF IInv

\* Whoever comes to hold its target finds it there, and held by nobody.
LEMMA LoadKeepsHeld ==
    ASSUME IInv, NEW o \in Op, Load(o) \/ Write(o)
    PROVE  HeldInv'
<1>1. /\ rows' = rows /\ req' = req
      /\ \A p \in Op : p # o => pc'[p] = pc[p] /\ seen'[p] = seen[p]
    BY DEF Load, Write, IInv, ShapeInv
<1>2. ASSUME Holds(o)'
      PROVE  /\ pc[o] # "idle"
             /\ req[o].kind # "CREATE" => Target(o) \in Present
             /\ req[o].kind = "DELETE" => seen'[o] = rows[Target(o)]
             /\ \A p \in Op \ {o} : Holds(p) => Target(p) # Target(o)
    <2>1. CASE Load(o)
        <3>1. /\ pc[o] = "begun" /\ pc'[o] = "loaded" /\ Target(o) \in Present
              /\ seen'[o] = IF seen[o] = NoRow THEN rows[Target(o)] ELSE seen[o]
            BY <2>1 DEF Load, IInv, ShapeInv
        <3>2. req[o].kind = "DELETE"
            BY <1>1, <1>2, <3>1 DEF Holds
        <3>3. seen[o] = NoRow
            BY <3>1, <3>2 DEF IInv, AskedInv
        <3>4. Writers(Target(o)) = {}
            BY <2>1, <3>2 DEF Load
        <3>5. \A p \in Op : Holds(p) => Target(p) # Target(o)
            BY <3>4 DEF Writers, Holds
        <3> QED BY <3>1, <3>2, <3>3, <3>5
    <2>2. CASE Write(o) /\ pc[o] = "begun"
        <3>1. req[o].kind = "CREATE"
            BY <2>2 DEF Write
        <3> QED BY <2>2, <3>1 DEF IInv, CreationInv, Holds
    <2>3. CASE Write(o) /\ pc[o] = "loaded" /\ req[o].kind = "DELETE"
        <3>1. Holds(o) /\ seen' = seen
            BY <2>3 DEF Holds, Write
        <3> QED BY <2>3, <3>1 DEF IInv, HeldInv
    <2>4. CASE Write(o) /\ pc[o] = "loaded" /\ req[o].kind # "DELETE"
        <3>1. Target(o) \in Present /\ Writers(Target(o)) = {}
            BY <2>4 DEF Write
        <3>2. \A p \in Op : Holds(p) => Target(p) # Target(o)
            BY <3>1 DEF Writers, Holds
        <3> QED BY <2>4, <3>1, <3>2
    <2> QED BY <2>1, <2>2, <2>3, <2>4 DEF Write
<1>3. Present' = Present
    BY <1>1 DEF Present
<1> SUFFICES ASSUME NEW p \in Op, (Holds(p))'
             PROVE  /\ req[p].kind # "CREATE" => Target(p) \in Present
                    /\ req[p].kind = "DELETE" => seen'[p] = rows[Target(p)]
                    /\ \A q \in Op \ {p} : (Holds(q))' => Target(q) # Target(p)
    BY <1>1, <1>3 DEF HeldInv, Holds, Target
<1>4. CASE p = o
    BY <1>1, <1>2, <1>4 DEF Holds, Target
<1>5. CASE p # o
    <2>1. /\ req[p].kind # "CREATE" => Target(p) \in Present
          /\ req[p].kind = "DELETE" => seen[p] = rows[Target(p)]
          /\ \A q \in Op \ {p} : Holds(q) => Target(q) # Target(p)
        BY <1>1, <1>5 DEF IInv, HeldInv, Holds
    <2>2. (Holds(o))' => Target(o) # Target(p)
        BY <1>1, <1>2, <1>5 DEF Holds
    <2> QED BY <1>1, <1>5, <2>1, <2>2 DEF Holds
<1> QED BY <1>4, <1>5

\* Nor has one entered anything that loads its target or writes its row.
LEMMA LoadKeepsIInv ==
    ASSUME IInv, NEW o \in Op, Load(o) \/ Write(o)
    PROVE  IInv'
<1>1. /\ rows' = rows /\ entered' = entered /\ req' = req
      /\ pc[o] \in {"begun", "loaded"} /\ pc'[o] # "begun"
      /\ \A p \in Op : p # o => pc'[p] = pc[p] /\ seen'[p] = seen[p]
      /\ DOMAIN pc' = Op /\ DOMAIN seen' = Op
    BY DEF Load, Write, IInv, ShapeInv
<1>2. entered[o] = {}
    BY <1>1 DEF IInv, EnteredInv
<1>3. ShapeInv'
    BY <1>1 DEF IInv, ShapeInv
<1>4. AskedInv' /\ CreationInv'
    BY <1>1 DEF IInv, AskedInv, CreationInv, Target, Present
<1>5. EnteredInv'
    BY <1>1, <1>2 DEF IInv, EnteredInv, Applied
<1>6. EnteredIsFree' /\ EnteredIsExclusive' /\ KeysAreUnique'
    BY <1>1 DEF IInv, EnteredIsFree, EnteredIsExclusive, KeysAreUnique, Target, Present
<1> QED BY <1>3, <1>4, <1>5, <1>6, LoadKeepsHeld DEF IInv

\* The next key is one that the request applies.
LEMMA NextKeyIsApplied ==
    ASSUME NEW o \in Op, Keys(o) # {}
    PROVE  NextKey(o) \in Key /\ NextKey(o) \in Applied(o)
BY DEF Keys, NextKey, Key

\* A key is entered when no committed row has it, and nobody else has entered it.
LEMMA EnterKeepsIInv ==
    ASSUME IInv, NEW o \in Op, Enter(o)
    PROVE  IInv'
<1> DEFINE k == NextKey(o)
<1>1. /\ rows' = rows /\ req' = req /\ pc' = pc /\ seen' = seen
      /\ pc[o] = "writing" /\ Rivals(o) = {} /\ ~Taken(o) /\ Keys(o) # {}
      /\ entered' = [entered EXCEPT ![o] = @ \cup {k}]
    BY DEF Enter
<1>2. k \in Key /\ k \in Applied(o)
    BY <1>1, NextKeyIsApplied
<1>3. \A u \in Present : u # Target(o) => rows[u][k] # req[o].to[k]
    BY <1>1 DEF Taken
<1>4. \A p \in Op : p # o /\ k \in entered[p] => req[p].to[k] # req[o].to[k]
    <2> SUFFICES ASSUME NEW p \in Op, p # o, k \in entered[p], req[p].to[k] = req[o].to[k]
                 PROVE  FALSE
        OBVIOUS
    <2>1. pc[p] = "writing" /\ k \in Applied(p)
        BY DEF IInv, EnteredInv
    <2>2. Touches(p, k, req[o].to[k])
        BY <2>1 DEF Touches
    <2> QED BY <1>1, <2>2 DEF Rivals
<1> HIDE DEF k
<1>5. entered'[o] = entered[o] \cup {k} /\ \A p \in Op : p # o => entered'[p] = entered[p]
    BY <1>1 DEF IInv, ShapeInv
<1>6. ShapeInv' /\ AskedInv' /\ CreationInv' /\ HeldInv' /\ KeysAreUnique'
    BY <1>1 DEF IInv, ShapeInv, AskedInv, CreationInv, HeldInv, Holds, KeysAreUnique,
                Target, Present
<1>7. EnteredInv'
    BY <1>1, <1>2, <1>5 DEF IInv, EnteredInv, Applied
<1>8. EnteredIsFree'
    BY <1>1, <1>3, <1>5 DEF IInv, EnteredIsFree, Target, Present
<1>9. EnteredIsExclusive'
    BY <1>1, <1>4, <1>5 DEF IInv, EnteredIsExclusive
<1> QED BY <1>6, <1>7, <1>8, <1>9 DEF IInv

\* What the end of a transaction leaves.
LEMMA EndForgets ==
    ASSUME IInv, NEW o \in Op, End(o)
    PROVE  /\ entered'[o] = {} /\ pc'[o] = "idle"
           /\ \A p \in Op : p # o => /\ entered'[p] = entered[p] /\ pc'[p] = pc[p]
                                     /\ req'[p] = req[p] /\ seen'[p] = seen[p]
           /\ DOMAIN pc' = Op /\ DOMAIN req' = Op
           /\ DOMAIN seen' = Op /\ DOMAIN entered' = Op
BY DEF End, IInv, ShapeInv

\* A transaction that ends without a commit gives its keys back.
LEMMA RollbackKeepsIInv ==
    ASSUME IInv, NEW o \in Op, End(o), rows' = rows
    PROVE  IInv'
<1>1. ShapeInv' /\ AskedInv' /\ KeysAreUnique'
    BY EndForgets DEF IInv, ShapeInv, AskedInv, KeysAreUnique, Target, Present
<1>2. CreationInv' /\ HeldInv'
    BY EndForgets DEF IInv, CreationInv, HeldInv, Holds, Target, Present
<1>3. EnteredInv'
    BY EndForgets DEF IInv, EnteredInv, Applied
<1>4. EnteredIsFree'
    BY EndForgets DEF IInv, EnteredIsFree, Target, Present
<1>5. EnteredIsExclusive'
    BY EndForgets DEF IInv, EnteredIsExclusive
<1> QED BY <1>1, <1>2, <1>3, <1>4, <1>5 DEF IInv

\* The committed row has the keys that were entered, and the old ones otherwise:
\* nobody else has either, nor has anybody entered them.
LEMMA NewKeys ==
    ASSUME IInv, NEW o \in Op, Commit(o), req[o].kind # "DELETE", NEW f \in Key
    PROVE  /\ \A u \in Present : u # Target(o) => rows[u][f] # NewRow(o)[f]
           /\ \A p \in Op : p # o /\ Target(p) # Target(o) /\ f \in entered[p] =>
                 NewRow(o)[f] # req[p].to[f]
<1>1. pc[o] = "writing" /\ Keys(o) = {}
    BY DEF Commit
<1>2. CASE f \in Applied(o)
    <2>1. f \in entered[o]
        BY <1>1, <1>2 DEF Keys, Key
    <2>2. NewRow(o)[f] = req[o].to[f]
        BY <1>2 DEF NewRow, Key, Field
    <2>3. \A u \in Present : u # Target(o) => rows[u][f] # req[o].to[f]
        BY <2>1 DEF IInv, EnteredIsFree
    <2>4. \A p \in Op : p # o /\ f \in entered[p] => req[o].to[f] # req[p].to[f]
        BY <2>1 DEF IInv, EnteredIsExclusive
    <2> QED BY <2>2, <2>3, <2>4
<1>3. CASE f \notin Applied(o)
    <2>1. NewRow(o)[f] = rows[Target(o)][f]
        BY <1>3 DEF NewRow, Key, Field
    <2>2. Target(o) \in Present
        <3>1. req[o].kind # "CREATE"
            BY <1>1, <1>3 DEF IInv, AskedInv, Applied, Key, Field
        <3> QED BY <1>1, <3>1 DEF IInv, HeldInv, Holds
    <2>3. \A u \in Present : u # Target(o) => rows[u][f] # rows[Target(o)][f]
        BY <2>2 DEF IInv, KeysAreUnique, Key
    <2>4. \A p \in Op : Target(p) # Target(o) /\ f \in entered[p] =>
              rows[Target(o)][f] # req[p].to[f]
        BY <2>2 DEF IInv, EnteredIsFree
    <2> QED BY <2>1, <2>3, <2>4
<1> QED BY <1>2, <1>3

\* It is a row.
LEMMA NewRowIsARow ==
    ASSUME IInv, NEW o \in Op, Commit(o), req[o].kind # "DELETE"
    PROVE  NewRow(o) \in [Field -> Nat] /\ NewRow(o) # NoRow
<1>1. /\ \A f \in Applied(o) : f \in DOMAIN req[o].to
      /\ \A f \in DOMAIN req[o].to : req[o].to[f] \in Nat
      /\ \/ DOMAIN req[o].to = Field /\ req[o].kind = "CREATE"
         \/ Target(o) \in Present
    BY DEF Commit, IInv, AskedInv, HeldInv, Holds, Applied
<1>2. \A f \in Field : NewRow(o)[f] \in Nat
    <2> SUFFICES ASSUME NEW f \in Field PROVE NewRow(o)[f] \in Nat
        OBVIOUS
    <2>1. CASE f \in Applied(o)
        BY <1>1, <2>1 DEF NewRow
    <2>2. CASE f \notin Applied(o)
        <3>1. Target(o) \in Present
            BY <1>1, <2>2 DEF Applied
        <3>2. rows[Target(o)] \in [Field -> Nat]
            BY <3>1 DEF Present, IInv, ShapeInv
        <3> QED BY <2>2, <3>2 DEF NewRow
    <2> QED BY <2>1, <2>2
<1>3. NewRow(o) \in [Field -> Nat]
    BY <1>2 DEF NewRow
<1> QED BY <1>3, ProfileAssumption

\* What has changed in rows.
LEMMA CommittedRow ==
    ASSUME IInv, NEW o \in Op, Commit(o)
    PROVE  /\ Target(o) \in User /\ req[o].kind \in {"CREATE", "PATCH", "DELETE"}
           /\ req[o].kind = "CREATE" <=> Target(o) \notin Present
           /\ IF req[o].kind = "DELETE"
              THEN rows'[Target(o)] = NoRow
              ELSE rows'[Target(o)] = NewRow(o) /\ NewRow(o) # NoRow
           /\ rows' \in [User -> [Field -> Nat] \cup {NoRow}]
           /\ \A u \in User : u # Target(o) => rows'[u] = rows[u]
<1>1. Target(o) \in User /\ req[o].kind \in {"CREATE", "PATCH", "DELETE"}
    BY DEF Commit, IInv, AskedInv
<1>2. req[o].kind = "CREATE" <=> Target(o) \notin Present
    BY DEF Commit, IInv, CreationInv, HeldInv, Holds
<1> DEFINE new == IF req[o].kind = "DELETE" THEN NoRow ELSE NewRow(o)
<1>3. rows' = [rows EXCEPT ![Target(o)] = new]
    BY DEF Commit
<1>4. /\ new \in [Field -> Nat] \cup {NoRow}
      /\ req[o].kind # "DELETE" => NewRow(o) # NoRow
    BY NewRowIsARow
<1>5. new = IF req[o].kind = "DELETE" THEN NoRow ELSE NewRow(o)
    OBVIOUS
<1> HIDE DEF new
<1>6. /\ rows' \in [User -> [Field -> Nat] \cup {NoRow}] /\ rows'[Target(o)] = new
      /\ \A u \in User : u # Target(o) => rows'[u] = rows[u]
    BY <1>1, <1>3, <1>4 DEF IInv, ShapeInv
<1> QED BY <1>1, <1>2, <1>4, <1>5, <1>6

\* So the commit keeps everything.
LEMMA CommitKeepsIInv ==
    ASSUME IInv, NEW o \in Op, Commit(o)
    PROVE  IInv'
<1> DEFINE t == Target(o)
           new == NewRow(o)
<1>1. End(o) /\ pc[o] = "writing"
    BY DEF Commit
<1>2. /\ t \in User /\ \A u \in User : u # t => rows'[u] = rows[u]
      /\ t \in Present' => req[o].kind # "DELETE" /\ rows'[t] = new
    BY CommittedRow DEF Present
<1>3. t \in Present' =>
         /\ \A f \in Key, u \in Present : u # t => rows[u][f] # new[f]
         /\ \A f \in Key, p \in Op : p # o /\ Target(p) # t /\ f \in entered[p] =>
               new[f] # req[p].to[f]
    BY <1>2, NewKeys
<1> HIDE DEF new
<1>4. \A u \in User : u # t => (u \in Present' <=> u \in Present)
    BY <1>2 DEF Present
<1>5. \A u \in Present' : u \in User
    BY DEF Present
<1>6. KeysAreUnique'
    <2> SUFFICES ASSUME NEW u \in Present', NEW v \in Present', u # v, NEW f \in Key
                 PROVE  rows'[u][f] # rows'[v][f]
        BY DEF KeysAreUnique, Key
    <2>0. u \in User /\ v \in User
        BY <1>5
    <2>1. CASE u # t /\ v # t
        BY <2>0, <2>1, <1>2, <1>4 DEF IInv, KeysAreUnique, Key
    <2>2. CASE u = t
        BY <2>0, <2>2, <1>2, <1>3, <1>4
    <2>3. CASE v = t
        BY <2>0, <2>3, <1>2, <1>3, <1>4
    <2> QED BY <2>1, <2>2, <2>3
<1>7. /\ entered'[o] = {} /\ pc'[o] = "idle"
      /\ \A p \in Op : p # o => /\ entered'[p] = entered[p] /\ pc'[p] = pc[p]
                                /\ req'[p] = req[p] /\ seen'[p] = seen[p]
                                /\ (Target(p))' = Target(p)
    BY <1>1, EndForgets DEF Target
<1>8. ShapeInv'
    BY <1>1, EndForgets, CommittedRow DEF ShapeInv
<1>9. AskedInv'
    BY <1>7 DEF IInv, AskedInv
<1>10. CreationInv'
    <2> SUFFICES ASSUME NEW p \in Op, pc'[p] # "idle", req'[p].kind = "CREATE"
                 PROVE  /\ (Target(p))' \in User \ Present'
                        /\ \A q \in Op \ {p} : pc'[q] # "idle" => (Target(q))' # (Target(p))'
        BY DEF CreationInv
    <2>1. /\ p # o /\ Target(p) \in User \ Present /\ (Target(p))' = Target(p)
          /\ \A q \in Op \ {p} : pc[q] # "idle" => Target(q) # Target(p)
        BY <1>7 DEF IInv, CreationInv
    <2>2. Target(p) # t
        BY <1>1, <2>1
    <2> QED BY <1>4, <1>7, <2>1, <2>2
<1>11. HeldInv'
    <2>1. ASSUME NEW p \in Op, (Holds(p))'
          PROVE  /\ p # o /\ Holds(p) /\ Target(p) # t /\ Target(p) \in User
                 /\ (Target(p))' = Target(p) /\ req'[p] = req[p] /\ seen'[p] = seen[p]
        <3>1. p # o
            BY <1>7, <2>1 DEF Holds
        <3>2. Holds(p) /\ Holds(o)
            BY <1>1, <1>7, <2>1, <3>1 DEF Holds
        <3>3. Target(p) # t
            BY <3>1, <3>2 DEF IInv, HeldInv
        <3>4. Target(p) \in User
            BY <3>2 DEF IInv, AskedInv, Holds
        <3> QED BY <1>7, <3>1, <3>2, <3>3, <3>4
    <2> QED BY <1>2, <1>4, <2>1 DEF IInv, HeldInv
<1>12. EnteredInv'
    BY <1>7 DEF IInv, EnteredInv, Applied
<1>13. EnteredIsFree'
    <2> SUFFICES ASSUME NEW p \in Op, NEW f \in entered'[p], NEW u \in Present',
                        u # (Target(p))'
                 PROVE  rows'[u][f] # req'[p].to[f]
        BY DEF EnteredIsFree
    <2>1. p # o /\ f \in entered[p] /\ req'[p] = req[p] /\ u # Target(p)
        BY <1>7
    <2>2. f \in Key
        BY <2>1 DEF IInv, EnteredInv
    <2>3. CASE u = t
        BY <2>1, <2>2, <2>3, <1>2, <1>3
    <2>4. CASE u # t
        BY <2>1, <2>4, <1>2, <1>4, <1>5 DEF IInv, EnteredIsFree
    <2> QED BY <2>3, <2>4
<1>14. EnteredIsExclusive'
    BY <1>7 DEF IInv, EnteredIsExclusive
<1> QED BY <1>6, <1>8, <1>9, <1>10, <1>11, <1>12, <1>13, <1>14 DEF IInv

-----------------------------------------------------------------------------

LEMMA InitIInv == ASSUME Init PROVE IInv
<1>1. ShapeInv
    <2>1. rows \in [User -> [Field -> Nat] \cup {NoRow}]
        <3>1. Profile \cup {NoRow} \subseteq [Field -> Nat] \cup {NoRow}
            BY ProfileAssumption
        <3> QED BY <3>1 DEF Init
    <2> QED BY <2>1 DEF Init, ShapeInv
<1>2. AskedInv /\ CreationInv /\ HeldInv
    BY DEF Init, AskedInv, CreationInv, HeldInv, Holds
<1>3. EnteredInv /\ EnteredIsFree /\ EnteredIsExclusive
    BY DEF Init, EnteredInv, EnteredIsFree, EnteredIsExclusive
<1>4. KeysAreUnique
    BY DEF Init, KeysAreUnique
<1> QED BY <1>1, <1>2, <1>3, <1>4 DEF IInv

LEMMA ReaderKeepsIInv ==
    ASSUME IInv, UNCHANGED <<rows, locals>>
    PROVE  IInv'
BY DEF locals, IInv, ShapeInv, AskedInv, CreationInv, HeldInv, Holds, EnteredInv, EnteredIsFree, EnteredIsExclusive,
       KeysAreUnique, Target, Present, Applied

LEMMA ReadersWriteNothing ==
    ASSUME NEW r \in Reader, Visit(r) \/ Find(r) \/ Count(r) \/ Fetch(r)
    PROVE  UNCHANGED <<rows, trail, clock, locals>>
<1>1. CASE Find(r)
    BY <1>1 DEF Find
<1> QED BY <1>1 DEF Visit, Count, Fetch

LEMMA NextKeepsIInv == ASSUME IInv, [Next]_vars PROVE IInv'
<1>1. ASSUME NEW o \in Op, BeginAny(o)
      PROVE  IInv'
    BY <1>1, BeginKeepsIInv
<1>2. ASSUME NEW o \in Op, Load(o) \/ Write(o) PROVE IInv'
    BY <1>2, LoadKeepsIInv
<1>3. ASSUME NEW o \in Op, NotFound(o) \/ NothingApplied(o) \/ Conflict(o) \/ Abort(o)
      PROVE  IInv'
    <2>1. End(o) /\ rows' = rows
        BY <1>3 DEF NotFound, NothingApplied, Conflict, Abort
    <2> QED BY <2>1, RollbackKeepsIInv
<1>4. ASSUME NEW o \in Op, Enter(o) PROVE IInv'
    BY <1>4, EnterKeepsIInv
<1>5. ASSUME NEW o \in Op, Commit(o) PROVE IInv'
    BY <1>5, CommitKeepsIInv
<1>6. ASSUME NEW r \in Reader, Visit(r) \/ Find(r) \/ Count(r) \/ Fetch(r) PROVE IInv'
    <2>1. UNCHANGED <<rows, locals>>
        BY <1>6, ReadersWriteNothing
    <2> QED BY <2>1, ReaderKeepsIInv
<1>7. CASE UNCHANGED vars
    BY <1>7, ReaderKeepsIInv DEF vars
<1> QED BY <1>1, <1>2, <1>3, <1>4, <1>5, <1>6, <1>7 DEF Next, BeginAny

\* Two requests that write one e-mail or employee code at the same time meet in
\* the unique index (models/user.py:50-53): whatever interleaves, in whatever
\* order the keys are entered, no two users of a tenant ever share one.
THEOREM UniqueKeys == Spec => []KeysAreUnique
<1>1. Init => IInv
    BY InitIInv
<1>2. IInv /\ [Next]_vars => IInv'
    BY NextKeepsIInv
<1>3. IInv => KeysAreUnique
    BY DEF IInv
<1> QED BY <1>1, <1>2, <1>3, PTL DEF Spec

-----------------------------------------------------------------------------
(* What the audit rows tell.                                               *)

\* A creation is about somebody whom there are no audit rows about.
TrailInv ==
    /\ DOMAIN trail = User
    /\ \A u \in User : \E S : trail[u] \in Seq(S)
    /\ \A o \in Op : pc[o] # "idle" /\ req[o].kind = "CREATE" => trail[Target(o)] = <<>>

TInv == IInv /\ TrailInv /\ TrailTellsTheRow

\* A sequence that has got one more element.
LEMMA AppendedSeq ==
    ASSUME NEW S, NEW s \in Seq(S), NEW e
    PROVE  /\ Append(s, e) \in Seq(S \cup {e})
           /\ Len(s) \in Nat /\ DOMAIN s = 1..Len(s)
           /\ DOMAIN Append(s, e) = 1..(Len(s) + 1)
           /\ \A i \in 1..Len(s) : Append(s, e)[i] = s[i]
           /\ Append(s, e)[Len(s) + 1] = e
<1>1. s \in Seq(S \cup {e})
    OBVIOUS
<1> QED BY <1>1

\* Steps that do not commit.
LEMMA OthersKeepTheTrail ==
    ASSUME TInv, UNCHANGED <<rows, trail>>,
           \A p \in Op : pc'[p] # "idle" =>
               \/ pc[p] # "idle" /\ req'[p] = req[p]
               \/ req'[p].kind = "CREATE" => trail[req'[p].target] = <<>>
    PROVE  TrailInv' /\ TrailTellsTheRow'
<1>1. TrailInv'
    BY DEF TInv, TrailInv, Target
<1>2. TrailTellsTheRow'
    BY DEF TInv, TrailTellsTheRow, Current, Latest, Present
<1> QED BY <1>1, <1>2

\* What has changed in trail.
LEMMA CommittedAudit ==
    ASSUME TInv, NEW o \in Op, Commit(o)
    PROVE  /\ trail'[Target(o)] = Append(trail[Target(o)], Audit(o))
           /\ \A u \in User : u # Target(o) => trail'[u] = trail[u]
           /\ DOMAIN trail' = User
<1>1. Target(o) \in User
    BY CommittedRow DEF TInv
<1>2. trail' = [trail EXCEPT ![Target(o)] = Append(@, Audit(o))]
    BY DEF Commit
<1> QED BY <1>1, <1>2 DEF TInv, TrailInv

\* The audit row names what the UPDATE names; other fields keep their values,
\* and their last audit rows.  A deletion records the row that it has locked.
LEMMA CommitKeepsTheTrail ==
    ASSUME TInv, NEW o \in Op, Commit(o)
    PROVE  TrailInv' /\ TrailTellsTheRow'
<1> DEFINE t == Target(o)
           new == NewRow(o)
           audit == Audit(o)
<1>1. End(o) /\ pc[o] = "writing"
    BY DEF Commit
<1>2. /\ t \in User /\ req[o].kind \in {"CREATE", "PATCH", "DELETE"}
      /\ req[o].kind # "CREATE" <=> t \in Present
      /\ req[o].kind # "DELETE" => rows'[t] = new
      /\ req[o].kind # "DELETE" <=> t \in Present'
      /\ \A u \in User : u # t => rows'[u] = rows[u]
    BY CommittedRow DEF TInv, Present
<1>3. /\ trail'[t] = Append(trail[t], audit) /\ DOMAIN trail' = User
      /\ \A u \in User : u # t => trail'[u] = trail[u]
    BY CommittedAudit
<1>4. req[o].kind # "DELETE" =>
         /\ DOMAIN audit.to = Told(o)
         /\ \A f \in Told(o) : audit.to[f] = new[f]
         /\ \A f \in Field \ Told(o) : req[o].kind = "PATCH" => new[f] = rows[t][f]
    <2> SUFFICES ASSUME req[o].kind # "DELETE"
                 PROVE  /\ DOMAIN audit.to = Told(o)
                        /\ \A f \in Told(o) : audit.to[f] = new[f]
                        /\ \A f \in Field \ Told(o) :
                              req[o].kind = "PATCH" => new[f] = rows[t][f]
        OBVIOUS
    <2>1. \A f \in Told(o) : f \in Field /\ f \in Applied(o)
        BY <1>1, <1>2 DEF Told, Applied, TInv, IInv, AskedInv
    <2>2. req[o].kind = "PATCH" => Told(o) = Applied(o)
        BY DEF Told
    <2>3. \A f \in Field : new[f] = IF f \in Applied(o) THEN req[o].to[f] ELSE rows[t][f]
        BY DEF NewRow
    <2>4. audit.to = [f \in Told(o) |-> req[o].to[f]]
        BY DEF Audit
    <2> HIDE DEF new, audit, t
    <2> QED BY <2>1, <2>2, <2>3, <2>4
<1>5. req[o].kind = "DELETE" =>
         /\ DOMAIN audit.to = Field
         /\ \A f \in Field : audit.to[f] = rows[t][f]
    <2> SUFFICES ASSUME req[o].kind = "DELETE"
                 PROVE  DOMAIN audit.to = Field /\ \A f \in Field : audit.to[f] = rows[t][f]
        OBVIOUS
    <2>1. seen[o] = rows[t]
        BY <1>1 DEF TInv, IInv, HeldInv, Holds
    <2>2. Told(o) = Field
        BY DEF Told
    <2>3. audit.to = [f \in Field |-> seen[o][f]]
        BY <2>2 DEF Audit
    <2> HIDE DEF audit
    <2> QED BY <2>1, <2>3
<1> HIDE DEF new, audit
<1>6. pc'[o] = "idle" /\ \A p \in Op : p # o => /\ pc'[p] = pc[p] /\ req'[p] = req[p]
                                                  /\ (Target(p))' = Target(p)
    BY <1>1, EndForgets DEF TInv, Target
<1>7. \A u \in User : u # t => (u \in Present' <=> u \in Present)
    BY <1>2 DEF Present
<1>8. PICK S : trail[t] \in Seq(S)
    BY <1>2 DEF TInv, TrailInv
<1> DEFINE n == Len(trail[t])
<1>9. /\ trail'[t] \in Seq(S \cup {audit}) /\ n \in Nat /\ DOMAIN trail[t] = 1..n
      /\ DOMAIN trail'[t] = 1..(n + 1) /\ Len(trail'[t]) = n + 1
      /\ \A i \in 1..n : trail'[t][i] = trail[t][i]
      /\ trail'[t][n + 1] = audit
    BY <1>3, <1>8, AppendedSeq
<1>10. TrailInv'
    <2>1. \A u \in User : \E X : trail'[u] \in Seq(X)
        BY <1>3, <1>9 DEF TInv, TrailInv
    <2>2. ASSUME NEW p \in Op, pc'[p] # "idle", req'[p].kind = "CREATE"
          PROVE  trail'[(Target(p))'] = <<>>
        <3>1. /\ p # o /\ pc[p] # "idle" /\ req[p].kind = "CREATE"
              /\ (Target(p))' = Target(p)
            BY <1>6, <2>2
        <3>2. Target(p) \in User /\ Target(p) # t
            BY <1>1, <3>1 DEF TInv, IInv, CreationInv
        <3> QED BY <1>3, <3>1, <3>2 DEF TInv, TrailInv
    <2> QED BY <1>3, <2>1, <2>2 DEF TrailInv
<1> HIDE DEF n
<1>11. TrailTellsTheRow'
    <2> SUFFICES ASSUME NEW u \in User, NEW f \in Field, NEW i \in Current(u)',
                        f \in DOMAIN trail'[u][i].to,
                        \A j \in Current(u)' : j > i => f \notin DOMAIN trail'[u][j].to
                 PROVE  Latest(u)'[f] = trail'[u][i].to[f]
        BY DEF TrailTellsTheRow
    <2>1. CASE u # t
        <3>1. Current(u)' = Current(u) /\ Latest(u)' = Latest(u) /\ trail'[u] = trail[u]
            BY <1>2, <1>3, <1>7, <2>1 DEF Current, Latest
        <3> QED BY <3>1 DEF TInv, TrailTellsTheRow
    <2>2. CASE u = t /\ req[o].kind # "DELETE"
        <3>1. Current(u)' = 1..(n + 1) /\ Latest(u)' = new
            BY <1>2, <1>9, <2>2 DEF Current, Latest
        <3>2. /\ n \in Nat /\ \A j \in 1..n : trail'[u][j] = trail[u][j]
              /\ DOMAIN trail'[u][n + 1].to = Told(o)
              /\ f \in Told(o) => trail'[u][n + 1].to[f] = new[f]
            BY <1>4, <1>9, <2>2
        <3>3. CASE f \in Told(o)
            <4>1. i = n + 1
                BY <3>1, <3>2, <3>3
            <4> QED BY <3>1, <3>2, <3>3, <4>1
        <3>4. CASE f \notin Told(o)
            <4>1. i \in 1..n /\ trail'[u][i] = trail[u][i]
                BY <3>1, <3>2, <3>4
            <4>2. req[o].kind = "PATCH" /\ t \in Present
                <5>1. req[o].kind = "CREATE" => DOMAIN trail[t] = {}
                    BY <1>1 DEF TInv, TrailInv
                <5> QED BY <1>2, <1>9, <2>2, <4>1, <5>1
            <4>3. Current(u) = 1..n /\ Latest(u) = rows[u]
                BY <1>9, <2>2, <4>2 DEF Current, Latest
            <4>4. /\ f \in DOMAIN trail[u][i].to
                  /\ \A j \in 1..n : j > i => f \notin DOMAIN trail[u][j].to
                BY <3>1, <3>2, <4>1
            <4>5. rows[u][f] = trail[u][i].to[f]
                <5>1. /\ i \in Current(u)
                      /\ \A j \in Current(u) : j > i => f \notin DOMAIN trail[u][j].to
                    BY <4>1, <4>3, <4>4
                <5>2. Latest(u)[f] = trail[u][i].to[f]
                    BY <4>4, <5>1 DEF TInv, TrailTellsTheRow
                <5> QED BY <4>3, <5>2
            <4> QED BY <1>4, <2>2, <3>1, <3>4, <4>1, <4>2, <4>5
        <3> QED BY <3>3, <3>4
    <2>3. CASE u = t /\ req[o].kind = "DELETE"
        <3>1. Current(u)' = 1..n /\ Latest(u)' = audit.to
            BY <1>2, <1>9, <2>3 DEF Current, Latest
        <3>2. Current(u) = 1..n /\ Latest(u) = rows[u]
            BY <1>2, <1>9, <2>3 DEF Current, Latest
        <3>3. \A j \in 1..n : trail'[u][j] = trail[u][j]
            BY <1>9, <2>3
        <3>4. rows[u][f] = trail[u][i].to[f]
            <4>1. /\ i \in Current(u) /\ f \in DOMAIN trail[u][i].to
                  /\ \A j \in Current(u) : j > i => f \notin DOMAIN trail[u][j].to
                BY <3>1, <3>2, <3>3
            <4>2. Latest(u)[f] = trail[u][i].to[f]
                BY <4>1 DEF TInv, TrailTellsTheRow
            <4> QED BY <3>2, <4>2
        <3> QED BY <1>5, <2>3, <3>1, <3>3, <3>4
    <2> QED BY <2>1, <2>2, <2>3
<1> QED BY <1>10, <1>11

LEMMA NextKeepsTInv == ASSUME TInv, [Next]_vars PROVE TInv'
<1>1. IInv'
    BY NextKeepsIInv DEF TInv
<1>2. ASSUME NEW o \in Op, BeginAny(o)
      PROVE  TrailInv' /\ TrailTellsTheRow'
    <2>1. PICK request : /\ Begin(o, request)
                         /\ request.kind = "CREATE" => trail[request.target] = <<>>
        BY <1>2, BeginAsks DEF TInv
    <2>2. /\ UNCHANGED <<rows, trail>> /\ req'[o] = request
          /\ \A p \in Op : p # o => pc'[p] = pc[p] /\ req'[p] = req[p]
        BY <2>1 DEF Begin, TInv, IInv, ShapeInv
    <2> QED BY <2>1, <2>2, OthersKeepTheTrail
<1>3. ASSUME NEW o \in Op, Load(o) \/ Write(o) \/ Enter(o)
      PROVE  TrailInv' /\ TrailTellsTheRow'
    <2>1. UNCHANGED <<rows, trail, req>>
        BY <1>3 DEF Load, Write, Enter
    <2>2. \A p \in Op : pc'[p] # "idle" => pc[p] # "idle"
        BY <1>3 DEF Load, Write, Enter, TInv, IInv, ShapeInv
    <2> QED BY <2>1, <2>2, OthersKeepTheTrail
<1>4. ASSUME NEW o \in Op, NotFound(o) \/ NothingApplied(o) \/ Conflict(o) \/ Abort(o)
      PROVE  TrailInv' /\ TrailTellsTheRow'
    <2>1. End(o) /\ UNCHANGED <<rows, trail>>
        BY <1>4 DEF NotFound, NothingApplied, Conflict, Abort
    <2>2. \A p \in Op : pc'[p] # "idle" => pc[p] # "idle" /\ req'[p] = req[p]
        BY <2>1, EndForgets DEF TInv
    <2> QED BY <2>1, <2>2, OthersKeepTheTrail
<1>5. ASSUME NEW o \in Op, Commit(o)
      PROVE  TrailInv' /\ TrailTellsTheRow'
    BY <1>5, CommitKeepsTheTrail
<1>6. ASSUME \/ UNCHANGED vars
             \/ \E r \in Reader : Visit(r) \/ Find(r) \/ Count(r) \/ Fetch(r)
      PROVE  TrailInv' /\ TrailTellsTheRow'
    <2>1. UNCHANGED <<rows, trail, locals>>
        BY <1>6, ReadersWriteNothing DEF vars
    <2>2. \A p \in Op : pc'[p] # "idle" => pc[p] # "idle" /\ req'[p] = req[p]
        BY <2>1 DEF locals
    <2> QED BY <2>1, <2>2, OthersKeepTheTrail
<1> QED BY <1>1, <1>2, <1>3, <1>4, <1>5, <1>6 DEF Next, BeginAny, TInv

LEMMA InitTInv == ASSUME Init PROVE TInv
<1>1. TrailInv
    <2>1. <<>> \in Seq({})
        OBVIOUS
    <2> QED BY <2>1 DEF Init, TrailInv
<1>2. TrailTellsTheRow
    <2>1. ASSUME NEW u \in User PROVE Current(u) = {}
        <3>1. trail[u] = <<>>
            BY DEF Init
        <3>2. DOMAIN <<>> = {} /\ Len(<<>>) = 0 /\ 1..(0 - 1) = {}
            OBVIOUS
        <3> QED BY <3>1, <3>2 DEF Current
    <2> QED BY <2>1 DEF TrailTellsTheRow
<1> QED BY <1>1, <1>2, InitIInv DEF TInv

\* "Absent fields keep their current values" (users/service.py:371-372), also those
\* that another request has changed since this one loaded the row: every field
\* has the value that the last audit row about it tells.
THEOREM AuditTellsTheFields == Spec => []TrailTellsTheRow
<1>1. Init => TInv
    BY InitTInv
<1>2. TInv /\ [Next]_vars => TInv'
    BY NextKeepsTInv
<1>3. TInv => TrailTellsTheRow
    BY DEF TInv
<1> QED BY <1>1, <1>2, <1>3, PTL DEF Spec
-----------------------------------------------------------------------------
(* Waiting.                                                                *)

\* Who acts on another user is an administrator, whom nobody deletes; and the code is
\* entered before the e-mail.
OrderInv ==
    /\ Admin \subseteq Present
    /\ \A o \in Op :
          /\ pc[o] # "idle" => \/ req[o].actor \in Admin
                               \/ req[o].kind = "PATCH" /\ req[o].actor = Target(o)
          /\ "email" \in entered[o] /\ "code" \in Applied(o) => "code" \in entered[o]

\* No administrator is deleted, and o begins nothing.
LEMMA OthersKeepOrder ==
    ASSUME TInv, OrderInv, Admin \subseteq Present',
           \A o \in Op : /\ pc'[o] # "idle" => pc[o] # "idle" /\ req'[o] = req[o]
                         /\ \/ entered'[o] = {}
                            \/ /\ entered'[o] = entered[o]
                               /\ req'[o] = req[o] /\ seen'[o] = seen[o]
    PROVE  OrderInv'
BY DEF OrderInv, Applied, Target

LEMMA NextKeepsOrder == ASSUME TInv, TInv', [Next]_vars, OrderInv PROVE OrderInv'
<1>1. ASSUME NEW o \in Op, BeginAny(o)
      PROVE  OrderInv'
    <2>1. PICK request :
             /\ Begin(o, request)
             /\ \/ request.actor \in Admin
                \/ request.kind = "PATCH" /\ request.actor = request.target
        BY <1>1, BeginAsks DEF TInv
    <2>2. /\ rows' = rows /\ pc[o] = "idle" /\ req'[o] = request /\ entered' = entered
          /\ \A p \in Op : p # o => pc'[p] = pc[p] /\ req'[p] = req[p] /\ seen'[p] = seen[p]
        BY <2>1 DEF Begin, TInv, IInv, ShapeInv
    <2>3. entered[o] = {}
        BY <2>2 DEF TInv, IInv, EnteredInv
    <2>4. ASSUME NEW p \in Op
          PROVE  /\ pc'[p] # "idle" => \/ req'[p].actor \in Admin
                                       \/ /\ req'[p].kind = "PATCH"
                                          /\ req'[p].actor = req'[p].target
                 /\ "email" \in entered'[p] /\ "code" \in Applied(p)' => "code" \in entered'[p]
        <3>1. CASE p = o
            <4>1. req'[p] = request /\ entered'[p] = {}
                BY <2>2, <2>3, <3>1
            <4>2. \/ req'[p].actor \in Admin
                  \/ req'[p].kind = "PATCH" /\ req'[p].actor = req'[p].target
                BY <2>1, <4>1
            <4> QED BY <4>1, <4>2
        <3>2. CASE p # o
            <4>1. /\ req'[p] = req[p] /\ pc'[p] = pc[p] /\ entered'[p] = entered[p]
                  /\ Applied(p)' = Applied(p)
                BY <2>2, <3>2 DEF Applied
            <4> QED BY <4>1 DEF OrderInv, Target
        <3> QED BY <3>1, <3>2
    <2> QED BY <2>2, <2>4 DEF OrderInv, Present, Target
<1>2. ASSUME NEW o \in Op, Load(o) \/ Write(o)
      PROVE  OrderInv'
    <2>1. /\ rows' = rows /\ req' = req /\ entered' = entered /\ pc[o] \in {"begun", "loaded"}
          /\ \A p \in Op : p # o => pc'[p] = pc[p] /\ seen'[p] = seen[p]
        BY <1>2 DEF Load, Write, TInv, IInv, ShapeInv
    <2>2. entered[o] = {}
        BY <2>1 DEF TInv, IInv, EnteredInv
    <2> QED BY <2>1, <2>2, OthersKeepOrder DEF Present, OrderInv
<1>3. ASSUME NEW o \in Op, Enter(o)
      PROVE  OrderInv'
    <2>1. /\ rows' = rows /\ req' = req /\ pc' = pc /\ seen' = seen /\ Keys(o) # {}
          /\ entered'[o] = entered[o] \cup {NextKey(o)}
          /\ \A p \in Op : p # o => entered'[p] = entered[p]
        BY <1>3 DEF Enter, TInv, IInv, ShapeInv
    <2>2. NextKey(o) = "email" => "code" \notin Applied(o) \ entered[o]
        BY DEF NextKey, Keys
    <2>3. "email" \in entered'[o] /\ "code" \in Applied(o) => "code" \in entered'[o]
        BY <2>1, <2>2 DEF OrderInv
    <2> QED BY <2>1, <2>3 DEF OrderInv, Applied, Present, Target
<1>4. ASSUME NEW o \in Op,
             NotFound(o) \/ NothingApplied(o) \/ Conflict(o) \/ Commit(o) \/ Abort(o)
      PROVE  OrderInv'
    <2>1. End(o)
        BY <1>4 DEF NotFound, NothingApplied, Conflict, Commit, Abort
    <2>2. Admin \subseteq Present'
        <3>1. CASE Commit(o)
            <4>1. req[o].kind = "DELETE" => Target(o) \notin Admin
                BY <3>1 DEF Commit, TInv, IInv, AskedInv
            <4>2. /\ \A u \in User : u # Target(o) => rows'[u] = rows[u]
                  /\ req[o].kind # "DELETE" => rows'[Target(o)] # NoRow
                BY <3>1, CommittedRow DEF TInv
            <4> QED BY <4>1, <4>2 DEF Present, OrderInv
        <3>2. CASE ~Commit(o)
            BY <1>4, <3>2 DEF NotFound, NothingApplied, Conflict, Abort, Present, OrderInv
        <3> QED BY <3>1, <3>2
    <2> QED BY <2>1, <2>2, EndForgets, OthersKeepOrder DEF TInv
<1>5. ASSUME \/ UNCHANGED vars
             \/ \E r \in Reader : Visit(r) \/ Find(r) \/ Count(r) \/ Fetch(r)
      PROVE  OrderInv'
    <2>1. UNCHANGED <<rows, locals>>
        BY <1>5, ReadersWriteNothing DEF vars
    <2> QED BY <2>1, OthersKeepOrder DEF locals, Present, OrderInv
<1> QED BY <1>1, <1>2, <1>3, <1>4, <1>5 DEF Next, BeginAny

\* An administrator's row is only written by a PATCH, and that of one who changes the
\* own name by nobody else: so what keeps an audit row from its actor is a change of keys.
LEMMA ActorsAreNotDeleted ==
    ASSUME TInv, OrderInv, NEW o \in Op, pc[o] = "writing", NEW p \in ActorLockedBy(o)
    PROVE  pc[p] = "writing" /\ req[p].kind = "PATCH" /\ Applied(p) \cap Key # {}
<1>1. /\ p \in Op \ {o} /\ Holds(p) /\ Holds(o) /\ Target(p) = req[o].actor
      /\ req[p].kind = "DELETE" \/ Applied(p) \cap Key # {}
    BY DEF ActorLockedBy, Writers, Holds, Key
<1>2. req[o].actor \in Admin
    <2>1. Target(p) # Target(o)
        BY <1>1 DEF TInv, IInv, HeldInv
    <2> QED BY <1>1, <2>1 DEF OrderInv
<1>3. pc[p] # "idle" /\ Target(p) \in Admin /\ Target(p) \in Present
    BY <1>1, <1>2 DEF OrderInv, Holds
<1>4. req[p].kind = "PATCH"
    BY <1>1, <1>3 DEF TInv, IInv, AskedInv, CreationInv
<1> QED BY <1>1, <1>4 DEF Holds

\* Without a PATCH that changes a key the circle consists of creations: a deletion that
\* writes waits for nobody, nobody waits for the rows of users that are only being
\* created, and the creations enter their keys in one order.
LEMMA CreationsNeverCircle ==
    ASSUME TInv, OrderInv, NEW S \in SUBSET Op, Circle(S),
           \A o \in S : ~(req[o].kind = "PATCH" /\ Applied(o) \cap Key # {})
    PROVE  FALSE
<1>1. \A o \in S : \E p \in S : p \in Blockers(o)
    BY DEF Circle
<1>2. ASSUME NEW o \in S, pc[o] # "idle"
      PROVE  /\ req[o].kind = "PATCH" => Applied(o) \cap Key = {}
             /\ req[o].kind = "DELETE" => Applied(o) = {}
             /\ req[o].kind = "CREATE" => Key \subseteq Applied(o)
             /\ req[o].kind \in {"CREATE", "PATCH", "DELETE"}
    BY <1>2 DEF Applied, Key, Field, TInv, IInv, AskedInv
<1>3. ASSUME NEW o \in S, pc[o] = "writing", Keys(o) = {} PROVE FALSE
    <2>1. Blockers(o) = ActorLockedBy(o)
        BY <1>3 DEF Blockers
    <2>2. PICK p \in S : p \in ActorLockedBy(o)
        BY <1>1, <2>1
    <2> QED BY <1>3, <2>2, ActorsAreNotDeleted
<1>4. ASSUME NEW o \in S, pc[o] = "loaded", req[o].kind = "DELETE" PROVE FALSE
    <2>1. Applied(o) = {}
        BY <1>2, <1>4
    <2>2. Blockers(o) = {}
        BY <1>4, <2>1 DEF Blockers
    <2> QED BY <1>1, <2>2
<1>5. ASSUME NEW o \in S, pc[o] # "idle", req[o].kind # "CREATE", NEW p \in S,
             p \in Writers(Target(o)), p # o
      PROVE  FALSE
    <2>1. /\ Target(p) = Target(o) /\ pc[p] # "idle"
          /\ \/ pc[p] = "writing"
             \/ pc[p] = "loaded" /\ req[p].kind = "DELETE"
        BY <1>5 DEF Writers
    <2>2. req[p].kind # "CREATE"
        BY <1>5, <2>1 DEF TInv, IInv, CreationInv
    <2>3. Keys(p) = {}
        BY <1>2, <2>1, <2>2 DEF Keys, Key
    <2> QED BY <1>3, <1>4, <2>1, <2>3
<1>6. ASSUME NEW o \in S
      PROVE  pc[o] = "writing" /\ Keys(o) # {}
    <2>1. CASE pc[o] = "begun" /\ req[o].kind = "DELETE"
        <3>1. Blockers(o) = Writers(Target(o)) /\ o \notin Writers(Target(o))
            BY <2>1 DEF Blockers, Writers
        <3> QED BY <1>1, <1>5, <2>1, <3>1
    <2>2. CASE pc[o] = "loaded" /\ Applied(o) # {}
        <3>1. req[o].kind # "DELETE"
            BY <1>4, <2>2
        <3>2. CASE req[o].kind = "PATCH"
            <4>1. Blockers(o) = Writers(Target(o)) /\ o \notin Writers(Target(o))
                BY <2>2, <3>2 DEF Blockers, Writers
            <4> QED BY <1>1, <1>5, <2>2, <3>2, <4>1
        <3>3. CASE req[o].kind = "CREATE"
            <4>1. Blockers(o) = Writers(Target(o))
                BY <2>2, <3>3 DEF Blockers
            <4>2. PICK p \in S : p \in Writers(Target(o))
                BY <1>1, <4>1
            <4>3. p # o /\ pc[p] # "idle" /\ Target(p) = Target(o)
                BY <2>2, <3>3, <4>2 DEF Writers
            <4> QED BY <2>2, <3>3, <4>3 DEF TInv, IInv, CreationInv
        <3> QED BY <1>2, <2>2, <3>1, <3>2, <3>3
    <2> QED BY <1>1, <1>3, <2>1, <2>2 DEF Blockers
<1>7. ASSUME NEW o \in S
      PROVE  Key \subseteq Applied(o) /\ \E p \in S : NextKey(o) \in entered[p]
    <2>1. /\ pc[o] = "writing" /\ Keys(o) # {} /\ Key \subseteq Applied(o)
        BY <1>2, <1>6 DEF Keys, Key
    <2>2. Blockers(o) = Rivals(o)
        BY <2>1 DEF Blockers
    <2>3. PICK p \in S : p \in Rivals(o)
        BY <1>1, <2>2
    <2>4. pc[p] = "writing" /\ Keys(p) # {} /\ Key \subseteq Applied(p)
        BY <1>2, <1>6 DEF Keys, Key
    <2>5. req[p].kind = "CREATE"
        BY <1>2, <2>4 DEF Key
    <2>6. NextKey(o) \in entered[p]
        BY <2>3, <2>5 DEF Rivals, Touches
    <2> QED BY <2>1, <2>6
<1>8. ASSUME NEW o \in S PROVE "email" \notin entered[o]
    BY <1>6, <1>7, <1>8 DEF OrderInv, Keys, Key
<1>9. \A o \in S : NextKey(o) = "code"
    BY <1>7, <1>8 DEF NextKey
<1>10. PICK o \in S : "code" \in entered[o]
    BY <1>7, <1>9 DEF Circle
<1> QED BY <1>7, <1>9, <1>10 DEF NextKey, Keys

\* Creations, deletions and changes of names never wait in a circle, however many, and
\* whoever acts on whom: it takes a PATCH that changes an e-mail or an employee code.
THEOREM OnlyNewKeysCircle == Spec => []CircleNeedsNewKey
<1>1. Init => TInv /\ OrderInv
    BY InitTInv DEF Init, OrderInv
<1>2. TInv /\ OrderInv /\ [Next]_vars => (TInv /\ OrderInv)'
    BY NextKeepsTInv, NextKeepsOrder
<1>3. TInv /\ OrderInv => CircleNeedsNewKey
    BY CreationsNeverCircle DEF CircleNeedsNewKey, Key
<1> QED BY <1>1, <1>2, <1>3, PTL DEF Spec
-----------------------------------------------------------------------------
(* Pages.                                                                  *)

Walk ==
    [list : {0} \cup User, at : {"asked", "found", "counted", "done"}, page : Nat \ {0},
     total : Nat, shown : SUBSET Nat, first : SUBSET Nat, upset : BOOLEAN]

\* The items that are on a list, or were: nobody is created who is known already.
Known(list) ==
    IF list = 0 THEN {u \in User : u \in Present \/ trail[u] # <<>>} ELSE Items(list)

\* What a reader of list has not seen of the first items that are left comes on the
\* page that it asks for, or later.
ReadInv(r, list) ==
    /\ walk[r].first \subseteq Known(list)
    /\ walk[r].at # "done" =>
          \A x \in (walk[r].first \cap Items(list)) \ walk[r].shown :
              Place(list, x) >= (walk[r].page - 1) * PageSize
    /\ walk[r].at = "counted" => walk[r].total >= Cardinality(Items(list))
    /\ walk[r].at = "done" => walk[r].first \cap Items(list) \subseteq walk[r].shown

\* Times are numbers.
BeganInv ==
    /\ clock \in Nat
    /\ \A o \in Op : pc[o] # "idle" => req[o].began \in Nat
    /\ \A u \in User : \A i \in DOMAIN trail[u] : trail[u][i].began \in Nat

WalkInv ==
    /\ walk \in [Reader -> Walk \cup {NoWalk}]
    /\ \A r \in Reader, list \in {0} \cup User :
          walk[r] # NoWalk /\ walk[r].list = list /\ ~walk[r].upset => ReadInv(r, list)

WInv == TInv /\ BeganInv /\ WalkInv

-----------------------------------------------------------------------------
(* Places.                                                                 *)

LEMMA UserFinite == IsFiniteSet(User) /\ User \in SUBSET Nat
BY FS_Interval, ProfileAssumption DEF User

\* A list is finite, and nobody comes before itself.
LEMMA ListShape ==
    ASSUME TInv, BeganInv, NEW list \in {0} \cup User
    PROVE  /\ IsFiniteSet(Items(list)) /\ Items(list) \in SUBSET Nat
           /\ \A x \in Items(list) : ~Before(list, x, x)
<1>1. CASE list = 0
    <2>1. Items(list) = Present /\ Present \in SUBSET User
        BY <1>1 DEF Items, Present
    <2>2. \A x \in Present : rows[x].name \in Nat /\ rows[x].code \in Nat
        BY DEF Present, TInv, IInv, ShapeInv, Field
    <2>3. IsFiniteSet(Items(list)) /\ Items(list) \in SUBSET Nat
        BY <2>1, UserFinite, FS_Subset
    <2>4. \A x \in Items(list) : ~Before(list, x, x)
        BY <1>1, <2>1, <2>2 DEF Before
    <2> QED BY <2>3, <2>4
<1>2. CASE list # 0
    <2>1. list \in User /\ Items(list) = DOMAIN trail[list]
        BY <1>2 DEF Items
    <2>2. PICK S : trail[list] \in Seq(S)
        BY <2>1 DEF TInv, TrailInv
    <2>3. Len(trail[list]) \in Nat /\ DOMAIN trail[list] = 1..Len(trail[list])
        BY <2>2
    <2>4. \A x \in Items(list) : ~Before(list, x, x)
        BY <1>2, <2>1 DEF Before, BeganInv
    <2> QED BY <2>1, <2>3, <2>4, FS_Interval
<1> QED BY <1>1, <1>2

\* The places of a list are numbers below its length.
LEMMA PlacesFit ==
    ASSUME TInv, BeganInv, NEW list \in {0} \cup User, NEW x \in Items(list)
    PROVE  /\ Cardinality(Items(list)) \in Nat /\ Place(list, x) \in Nat
           /\ Place(list, x) < Cardinality(Items(list))
<1> DEFINE ahead == {y \in Items(list) : Before(list, y, x)}
<1>1. IsFiniteSet(Items(list)) /\ ahead \in SUBSET Items(list) /\ x \notin ahead
    BY ListShape
<1> HIDE DEF ahead
<1>2. /\ IsFiniteSet(ahead) /\ Cardinality(ahead) <= Cardinality(Items(list))
      /\ Cardinality(ahead) # Cardinality(Items(list))
    BY <1>1, FS_Subset
<1>3. Cardinality(Items(list)) \in Nat /\ Cardinality(ahead) \in Nat
    BY <1>1, <1>2, FS_CardinalityType
<1>4. Place(list, x) = Cardinality(ahead)
    BY DEF Place, ahead
<1> QED BY <1>2, <1>3, <1>4

\* An item comes no earlier than another one did if all are before it that were before
\* that one.
LEMMA PlacesGrow ==
    ASSUME TInv, BeganInv, TInv', BeganInv', NEW list \in {0} \cup User,
           NEW z \in Items(list), NEW x \in Items(list)',
           \A y \in Items(list) : Before(list, y, z) =>
               y \in Items(list)' /\ Before(list, y, x)'
    PROVE  Place(list, z) \in Nat /\ Place(list, x)' \in Nat /\ Place(list, z) <= Place(list, x)'
<1> DEFINE ahead == {y \in Items(list) : Before(list, y, z)}
           later == {y \in Items(list)' : Before(list, y, x)'}
<1>1. IsFiniteSet(Items(list)') /\ later \in SUBSET Items(list)' /\ ahead \in SUBSET later
    <2>1. IsFiniteSet(Items(list))'
        BY ListShape, PTL
    <2> QED BY <2>1
<1> HIDE DEF ahead, later
<1>2. IsFiniteSet(later)
    BY <1>1, FS_Subset
<1>3. Cardinality(ahead) <= Cardinality(later) /\ IsFiniteSet(ahead)
    BY <1>1, <1>2, FS_Subset
<1>4. Cardinality(ahead) \in Nat /\ Cardinality(later) \in Nat
    BY <1>2, <1>3, FS_CardinalityType
<1>5. Place(list, z) = Cardinality(ahead) /\ Place(list, x)' = Cardinality(later)
    BY DEF Place, ahead, later
<1> QED BY <1>3, <1>4, <1>5

-----------------------------------------------------------------------------
(* What a commit does to a list.                                           *)

\* What was known stays so, and what has been removed does not come back.
LEMMA KnownStays ==
    ASSUME TInv, NEW o \in Op, Commit(o), NEW list \in {0} \cup User
    PROVE  /\ Known(list) \subseteq Known(list)'
           /\ Known(list) \cap Items(list)' \subseteq Items(list)
<1> DEFINE t == Target(o)
<1>1. PICK S : trail[t] \in Seq(S)
    BY CommittedRow DEF TInv, TrailInv
<1>2. /\ trail'[t] # <<>> /\ DOMAIN trail[t] \subseteq DOMAIN trail'[t]
    <2> DEFINE audit == Audit(o)
               n == Len(trail[t])
    <2>1. trail'[t] = Append(trail[t], audit)
        BY CommittedAudit
    <2>2. n \in Nat /\ DOMAIN trail[t] = 1..n /\ DOMAIN trail'[t] = 1..(n + 1)
        BY <1>1, <2>1, AppendedSeq
    <2>3. 1 \in DOMAIN trail'[t] /\ DOMAIN trail[t] \subseteq DOMAIN trail'[t]
        BY <2>2
    <2>4. 1 \notin DOMAIN <<>>
        OBVIOUS
    <2> QED BY <2>3, <2>4
<1>3. CASE list = 0
    <2>1. ASSUME NEW u \in User, u \in Present \/ trail[u] # <<>>
          PROVE  /\ u \in Present' \/ trail'[u] # <<>>
                 /\ u \in Present' => u \in Present
        <3>1. CASE u = t
            <4>1. req[o].kind # "CREATE"
                BY <2>1, <3>1, CommittedRow DEF Commit, TInv, TrailInv
            <4> QED BY <1>2, <3>1, <4>1, CommittedRow DEF TInv
        <3>2. CASE u # t
            BY <2>1, <3>2, CommittedRow, CommittedAudit DEF TInv, Present
        <3> QED BY <3>1, <3>2
    <2>2. Present' \subseteq User
        BY DEF Present
    <2> QED BY <1>3, <2>1, <2>2 DEF Known, Items
<1>4. CASE list # 0
    <2>1. Known(list) = DOMAIN trail[list] /\ Known(list)' = DOMAIN trail'[list]
          /\ Items(list) = DOMAIN trail[list]
        BY <1>4 DEF Known, Items
    <2>2. list # t => trail'[list] = trail[list]
        BY <1>4, CommittedAudit
    <2> QED BY <1>2, <2>1, <2>2
<1> QED BY <1>3, <1>4

\* Items are added to a list at most, unless its order is written anew or a user is
\* deleted; and only a creation and an audit row add one.
LEMMA ListsGrow ==
    ASSUME TInv, NEW o \in Op, Commit(o), NEW list \in {0} \cup User,
           ~ (list = 0 /\ req[o].kind = "PATCH" /\ Applied(o) \cap {"name", "code"} # {}),
           ~ (list = 0 /\ req[o].kind = "DELETE")
    PROVE  /\ Items(list) \subseteq Items(list)'
           /\ \A x, y \in Items(list) : Before(list, y, x)' <=> Before(list, y, x)
           /\ list # Target(o) /\ ~ (list = 0 /\ req[o].kind = "CREATE") =>
                 Items(list)' = Items(list)
<1> DEFINE t == Target(o)
<1>1. CASE list = 0
    <2>1. Items(list) = Present /\ Items(list)' = Present'
        BY <1>1 DEF Items
    <2>2. /\ t \in User /\ rows'[t] = NewRow(o) /\ NewRow(o) # NoRow
          /\ req[o].kind = "CREATE" <=> t \notin Present
          /\ req[o].kind \in {"CREATE", "PATCH"}
          /\ \A u \in User : u # t => rows'[u] = rows[u]
        BY <1>1, CommittedRow DEF TInv
    <2>3. Present' = Present \cup {t}
        BY <2>2 DEF Present
    <2>4. \A x \in Present : rows'[x].name = rows[x].name /\ rows'[x].code = rows[x].code
        <3> SUFFICES ASSUME NEW x \in Present
                     PROVE  rows'[x].name = rows[x].name /\ rows'[x].code = rows[x].code
            OBVIOUS
        <3>1. CASE x # t
            BY <2>2, <3>1 DEF Present
        <3>2. CASE x = t
            <4>1. "name" \notin Applied(o) /\ "code" \notin Applied(o) /\ rows'[x] = NewRow(o)
                BY <1>1, <2>2, <3>2
            <4>2. \A f \in Field \ Applied(o) : NewRow(o)[f] = rows[x][f]
                BY <3>2 DEF NewRow
            <4> QED BY <4>1, <4>2 DEF Field
        <3> QED BY <3>1, <3>2
    <2> QED BY <1>1, <2>1, <2>2, <2>3, <2>4 DEF Before
<1>2. CASE list # 0
    <2>1. list \in User /\ Items(list) = DOMAIN trail[list] /\ Items(list)' = DOMAIN trail'[list]
        BY <1>2 DEF Items
    <2>2. CASE list # t
        <3>1. trail'[list] = trail[list]
            BY <2>1, <2>2, CommittedAudit
        <3> QED BY <1>2, <2>1, <2>2, <3>1 DEF Before
    <2>3. CASE list = t
        <3>1. PICK S : trail[list] \in Seq(S)
            BY <2>1 DEF TInv, TrailInv
        <3>2. trail'[list] = Append(trail[list], Audit(o))
            BY <2>3, CommittedAudit
        <3> DEFINE audit == Audit(o)
                   n == Len(trail[list])
        <3>3. /\ n \in Nat /\ DOMAIN trail[list] = 1..n /\ DOMAIN trail'[list] = 1..(n + 1)
              /\ \A i \in 1..n : trail'[list][i] = trail[list][i]
            BY <3>1, <3>2, AppendedSeq
        <3> HIDE DEF n
        <3> QED BY <1>2, <2>1, <2>3, <3>3 DEF Before
    <2> QED BY <2>2, <2>3
<1> QED BY <1>1, <1>2

\* The list on which the places have grown.
LEMMA ReadingGoesOn ==
    ASSUME TInv, BeganInv, TInv', BeganInv',
           NEW r \in Reader, NEW list \in {0} \cup User, ReadInv(r, list),
           walk[r] \in Walk,
           walk'[r].at = walk[r].at, walk'[r].page = walk[r].page,
           walk'[r].total = walk[r].total, walk'[r].shown = walk[r].shown,
           walk'[r].first = walk[r].first,
           Known(list) \subseteq Known(list)',
           Known(list) \cap Items(list)' \subseteq Items(list),
           Items(list) \subseteq Items(list)',
           \A x, y \in Items(list) : Before(list, y, x)' <=> Before(list, y, x),
           walk[r].at = "counted" => Items(list)' = Items(list)
    PROVE  ReadInv(r, list)'
<1>1. /\ walk[r].first \subseteq Known(list)'
      /\ walk[r].first \cap Items(list)' \subseteq walk[r].first \cap Items(list)
      /\ walk[r].at = "counted" => walk[r].total >= Cardinality(Items(list)')
    BY DEF ReadInv
<1>2. walk[r].at = "done" => walk[r].first \cap Items(list)' \subseteq walk[r].shown
    BY <1>1 DEF ReadInv
<1>3. ASSUME walk[r].at # "done", NEW x \in (walk[r].first \cap Items(list)') \ walk[r].shown
      PROVE  Place(list, x)' >= (walk[r].page - 1) * PageSize
    <2>1. x \in Items(list) /\ Place(list, x) >= (walk[r].page - 1) * PageSize
        BY <1>1, <1>3 DEF ReadInv
    <2>2. Place(list, x) \in Nat /\ Place(list, x)' \in Nat /\ Place(list, x) <= Place(list, x)'
        BY <1>3, <2>1, PlacesGrow
    <2>3. (walk[r].page - 1) * PageSize \in Int
        BY ProfileAssumption DEF Walk
    <2> QED BY <2>1, <2>2, <2>3
<1> QED BY <1>1, <1>2, <1>3 DEF ReadInv

\* The list of the users from which one has been removed that was still to come: those
\* behind it move up one place each, and no place before its own.
LEMMA ReadingSkipsTheDeleted ==
    ASSUME WInv, TInv', BeganInv', NEW o \in Op, Commit(o), req[o].kind = "DELETE",
           NEW r \in Reader, ReadInv(r, 0), walk[r] \in Walk,
           walk'[r].at = walk[r].at, walk'[r].page = walk[r].page,
           walk'[r].total = walk[r].total, walk'[r].shown = walk[r].shown,
           walk'[r].first = walk[r].first,
           ~ Place(0, Target(o)) < (walk[r].page - 1) * PageSize
    PROVE  ReadInv(r, 0)'
<1> DEFINE t == Target(o)
           b == (walk[r].page - 1) * PageSize
<1>1. /\ t \in Present /\ rows'[t] = NoRow
      /\ \A u \in User : u # t => rows'[u] = rows[u]
    BY CommittedRow DEF WInv, TInv
<1>2. /\ Items(0) = Present /\ Items(0)' = Present'
      /\ \A x : x \in Present' <=> x \in Present /\ x # t
    BY <1>1 DEF Items, Present
<1>3. \A x \in Present' : rows'[x] = rows[x]
    BY <1>1, <1>2 DEF Present
<1>4. \A x \in Present : rows[x].name \in Nat /\ rows[x].code \in Nat
    BY DEF Present, WInv, TInv, IInv, ShapeInv, Field
<1>5. b \in Int /\ Place(0, t) \in Nat /\ Place(0, t) >= b
    <2>1. Place(0, t) \in Nat
        BY <1>1, <1>2, PlacesFit DEF WInv
    <2>2. b \in Int
        BY ProfileAssumption DEF Walk
    <2> QED BY <2>1, <2>2
<1> HIDE DEF b
<1>6. ASSUME NEW x \in Present', Place(0, x) >= b
      PROVE  Place(0, x)' >= b
    <2>1. CASE Before(0, t, x)
        <3>1. \A y \in Items(0) : Before(0, y, t) => y \in Items(0)' /\ Before(0, y, x)'
            <4> SUFFICES ASSUME NEW y \in Present, Before(0, y, t)
                         PROVE  y \in Present' /\ Before(0, y, x)'
                BY <1>2
            <4>1. y # t
                BY <1>1, <1>4 DEF Before
            <4>2. Before(0, y, x)
                BY <1>1, <1>2, <1>4, <1>6, <2>1 DEF Before
            <4> QED BY <1>2, <1>3, <1>6, <4>1, <4>2 DEF Before
        <3>2. Place(0, x)' \in Nat /\ Place(0, t) <= Place(0, x)'
            BY <1>1, <1>2, <1>6, <3>1, PlacesGrow DEF WInv
        <3> QED BY <1>5, <3>2
    <2>2. CASE ~Before(0, t, x)
        <3>1. \A y \in Items(0) : Before(0, y, x) => y \in Items(0)' /\ Before(0, y, x)'
            BY <1>2, <1>3, <1>6, <2>2 DEF Before
        <3>2. /\ Place(0, x) \in Nat /\ Place(0, x)' \in Nat
              /\ Place(0, x) <= Place(0, x)'
            BY <1>2, <1>6, <3>1, PlacesGrow DEF WInv
        <3> QED BY <1>5, <1>6, <3>2
    <2> QED BY <2>1, <2>2
<1>7. Known(0) \subseteq Known(0)'
    BY KnownStays DEF WInv
<1>8. walk[r].at = "counted" => walk[r].total >= Cardinality(Items(0)')
    <2>1. IsFiniteSet(Present) /\ Present' \subseteq Present
        BY <1>2, ListShape DEF WInv
    <2>2. /\ Cardinality(Present') <= Cardinality(Present)
          /\ Cardinality(Present') \in Nat /\ Cardinality(Present) \in Nat
        BY <2>1, FS_Subset, FS_CardinalityType
    <2>3. walk[r].total \in Nat
        BY DEF Walk
    <2> QED BY <1>2, <2>2, <2>3 DEF ReadInv
<1> QED BY <1>2, <1>6, <1>7, <1>8 DEF ReadInv, b

\* Whoever reads and is not upset finds what is still to come where it was, or later.
LEMMA CommitKeepsReading ==
    ASSUME WInv, TInv', BeganInv', NEW o \in Op, Commit(o), NEW r \in Reader,
           NEW list \in {0} \cup User,
           walk'[r] # NoWalk, walk'[r].list = list, ~walk'[r].upset
    PROVE  ReadInv(r, list)'
<1> DEFINE w == walk[r]
           v == walk'[r]
<1>1. v = Upset(o, w) /\ w \in Walk \cup {NoWalk}
    BY DEF Commit, WInv, WalkInv
<1>2. w # NoWalk /\ w \in Walk
    BY <1>1 DEF Upset
<1> DEFINE moved == w.list = 0 /\ req[o].kind = "PATCH" /\ Applied(o) \cap {"name", "code"} # {}
           before == /\ w.list = 0 /\ req[o].kind = "DELETE"
                     /\ Place(0, Target(o)) < (w.page - 1) * PageSize
<1>3. v = [w EXCEPT !.upset =
              \/ @
              \/ moved
              \/ w.list = 0 /\ req[o].kind = "CREATE" /\ w.at = "counted"
              \/ before
              \/ w.list = Target(o) /\ w.at = "counted"]
    BY <1>1, <1>2 DEF Upset
<1> HIDE DEF moved, before
<1>4. /\ v.list = w.list /\ v.at = w.at /\ v.page = w.page /\ v.total = w.total
      /\ v.shown = w.shown /\ v.first = w.first
    BY <1>2, <1>3 DEF Walk
<1>5. /\ ~w.upset /\ ~moved /\ ~before
      /\ w.at = "counted" => w.list # Target(o) /\ ~ (w.list = 0 /\ req[o].kind = "CREATE")
    BY <1>2, <1>3 DEF Walk
<1>6. w.list = list /\ ReadInv(r, list)
    BY <1>2, <1>4, <1>5 DEF WInv, WalkInv
<1>7. CASE list = 0 /\ req[o].kind = "DELETE"
    <2>1. ~ Place(0, Target(o)) < (w.page - 1) * PageSize
        BY <1>5, <1>6, <1>7 DEF before
    <2> QED BY <1>2, <1>4, <1>6, <1>7, <2>1, ReadingSkipsTheDeleted
<1>8. CASE ~ (list = 0 /\ req[o].kind = "DELETE")
    <2>1. /\ Items(list) \subseteq Items(list)'
          /\ \A x, y \in Items(list) : Before(list, y, x)' <=> Before(list, y, x)
          /\ w.at = "counted" => Items(list)' = Items(list)
        BY <1>5, <1>6, <1>8, ListsGrow DEF WInv, moved
    <2>2. /\ Known(list) \subseteq Known(list)'
          /\ Known(list) \cap Items(list)' \subseteq Items(list)
        BY KnownStays DEF WInv
    <2> QED BY <1>2, <1>4, <1>6, <2>1, <2>2, ReadingGoesOn DEF WInv
<1> QED BY <1>7, <1>8

LEMMA CommitKeepsWalks ==
    ASSUME WInv, TInv', BeganInv', NEW o \in Op, Commit(o)
    PROVE  WalkInv'
<1>1. ASSUME NEW r \in Reader PROVE walk'[r] \in Walk \cup {NoWalk}
    <2>1. walk'[r] = Upset(o, walk[r]) /\ walk[r] \in Walk \cup {NoWalk}
        BY DEF Commit, WInv, WalkInv
    <2>2. CASE walk[r] = NoWalk
        BY <2>1, <2>2 DEF Upset
    <2>3. CASE walk[r] # NoWalk
        <3> DEFINE upset ==
               \/ walk[r].upset
               \/ walk[r].list = 0 /\ req[o].kind = "PATCH" /\ Applied(o) \cap {"name", "code"} # {}
               \/ walk[r].list = 0 /\ req[o].kind = "CREATE" /\ walk[r].at = "counted"
               \/ /\ walk[r].list = 0 /\ req[o].kind = "DELETE"
                  /\ Place(0, Target(o)) < (walk[r].page - 1) * PageSize
               \/ walk[r].list = Target(o) /\ walk[r].at = "counted"
        <3>1. upset \in BOOLEAN
            OBVIOUS
        <3>2. walk'[r] = [walk[r] EXCEPT !.upset = upset]
            BY <2>1, <2>3 DEF Upset
        <3> HIDE DEF upset
        <3> QED BY <2>1, <2>3, <3>1, <3>2 DEF Walk
    <2> QED BY <2>2, <2>3
<1>2. walk' \in [Reader -> Walk \cup {NoWalk}]
    BY <1>1 DEF Commit
<1> QED BY <1>2, CommitKeepsReading DEF WalkInv

-----------------------------------------------------------------------------
(* What a reader does.                                                     *)

\* Nothing is committed: the lists stay.
LEMMA ListsStay ==
    ASSUME UNCHANGED <<rows, trail>>, NEW list
    PROVE  /\ Items(list)' = Items(list) /\ \A x : Place(list, x)' = Place(list, x)
           /\ Known(list)' = Known(list)
BY DEF Items, Place, Before, Present, Known

\* There are pages enough for all items.
LEMMA PagesSuffice ==
    ASSUME NEW page \in Nat, NEW total \in Nat, ~ page < TotalPages(total)
    PROVE  total <= page * PageSize
<1> DEFINE d == (total + PageSize - 1) \div PageSize
<1>1. PageSize \in Nat \ {0}
    BY ProfileAssumption
<1>2. d \in Nat /\ d * PageSize <= total + PageSize - 1 /\ total + PageSize - 1 < (d + 1) * PageSize
    BY <1>1
<1>3. d <= page
    BY <1>2 DEF TotalPages
<1> HIDE DEF d
<1>4. d * PageSize <= page * PageSize
    BY <1>1, <1>2, <1>3
<1> QED BY <1>1, <1>2, <1>4

\* What is on the page is shown; what is not comes later, and after the last page nothing
\* is left.
LEMMA FetchKeepsReading ==
    ASSUME WInv, NEW r \in Reader, Fetch(r), NEW list \in {0} \cup User,
           walk[r].list = list, ~walk'[r].upset
    PROVE  ReadInv(r, list)'
<1> DEFINE w == walk[r]
           v == walk'[r]
           more == w.page < TotalPages(w.total)
<1>1. /\ w \in Walk /\ w # NoWalk /\ w.at = "counted"
      /\ walk' = [walk EXCEPT ![r] =
            [w EXCEPT !.shown = @ \cup Page(w.list, w.page),
                      !.at = IF more THEN "asked" ELSE "done",
                      !.page = IF more THEN @ + 1 ELSE @]]
      /\ DOMAIN walk = Reader
    BY DEF Fetch, WInv, WalkInv
<1>2. /\ v.shown = w.shown \cup Page(list, w.page) /\ v.first = w.first /\ v.upset = w.upset
      /\ more => v.at = "asked" /\ v.page = w.page + 1
      /\ ~more => v.at = "done"
    BY <1>1 DEF Walk
<1>3. ReadInv(r, list)
    BY <1>1, <1>2 DEF WInv, WalkInv
<1>4. /\ w.page \in Nat \ {0} /\ w.total \in Nat /\ PageSize \in Nat \ {0}
      /\ w.first \subseteq Known(list) /\ w.total >= Cardinality(Items(list))
    BY <1>1, <1>3, ProfileAssumption DEF ReadInv, Walk
<1>5. ASSUME NEW x \in Items(list)
      PROVE  Place(list, x) \in Nat /\ Place(list, x) < w.total
    BY <1>4, PlacesFit DEF WInv
<1>6. w.page * PageSize \in Nat /\ (w.page - 1) * PageSize \in Nat
    BY <1>4
<1>7. ASSUME NEW x \in (w.first \cap Items(list)) \ v.shown
      PROVE  Place(list, x) >= w.page * PageSize
    <2>1. x \in Items(list) /\ Place(list, x) >= (w.page - 1) * PageSize
        BY <1>1, <1>2, <1>3, <1>4, <1>7 DEF ReadInv
    <2>2. Place(list, x) \notin ((w.page - 1) * PageSize)..(w.page * PageSize - 1)
        BY <1>2, <1>7, <2>1 DEF Page
    <2> QED BY <1>5, <1>6, <2>1, <2>2
<1>8. CASE more
    <2>1. v.page - 1 = w.page
        BY <1>2, <1>4, <1>8
    <2> QED BY <1>2, <1>4, <1>7, <1>8, <2>1, ListsStay DEF ReadInv, Fetch
<1>9. CASE ~more
    <2>1. w.total <= w.page * PageSize
        BY <1>4, <1>9, PagesSuffice
    <2>2. v.first \cap Items(list) \subseteq v.shown
        BY <1>2, <1>4, <1>5, <1>6, <1>7, <2>1
    <2> QED BY <1>2, <1>4, <1>9, <2>2, ListsStay DEF ReadInv, Fetch
<1> QED BY <1>8, <1>9

LEMMA ReaderKeepsWalks ==
    ASSUME WInv, NEW r \in Reader, Visit(r) \/ Find(r) \/ Count(r) \/ Fetch(r)
    PROVE  WalkInv'
<1>1. /\ UNCHANGED <<rows, trail>> /\ walk \in [Reader -> Walk \cup {NoWalk}]
      /\ \A q \in Reader : q # r => walk'[q] = walk[q]
    <2>1. CASE Find(r)
        BY <2>1 DEF Find, WInv, WalkInv
    <2> QED BY <2>1 DEF Visit, Count, Fetch, WInv, WalkInv
<1>2. ASSUME NEW q \in Reader, q # r, NEW list \in {0} \cup User,
             walk'[q] # NoWalk, walk'[q].list = list, ~walk'[q].upset
      PROVE  ReadInv(q, list)'
    <2>1. walk'[q] = walk[q] /\ ReadInv(q, list)
        BY <1>1, <1>2 DEF WInv, WalkInv
    <2> QED BY <1>1, <2>1, ListsStay DEF ReadInv
<1>3. CASE Visit(r)
    <2>1. PICK list \in {0} \cup Present :
              walk' = [walk EXCEPT ![r] =
                  [list |-> list, at |-> "asked", page |-> 1, total |-> 0, shown |-> {},
                   first |-> Items(list), upset |-> FALSE]]
        BY <1>3 DEF Visit
    <2>2. list \in {0} \cup User /\ Items(list) \in SUBSET Nat
        BY ListShape DEF Present, WInv
    <2>3. walk' \in [Reader -> Walk \cup {NoWalk}]
        BY <1>1, <2>1, <2>2 DEF Walk
    <2>4. ReadInv(r, list)'
        <3>1. \A x \in Items(list) : Place(list, x) \in Nat
            BY <2>2, PlacesFit DEF WInv
        <3>2. (1 - 1) * PageSize = 0
            BY ProfileAssumption
        <3>3. /\ walk'[r].at = "asked" /\ walk'[r].page = 1 /\ walk'[r].first = Items(list)
            BY <1>1, <2>1
        <3>4. Items(list) \subseteq Known(list)
            BY DEF Items, Known, Present
        <3> QED BY <1>1, <3>1, <3>2, <3>3, <3>4, ListsStay DEF ReadInv
    <2>5. walk'[r].list = list
        BY <1>1, <2>1
    <2> QED BY <1>2, <2>3, <2>4, <2>5 DEF WalkInv
<1>4. CASE Count(r)
    <2>1. PICK list \in {0} \cup User : walk[r].list = list
        BY <1>1, <1>4 DEF Count, Walk
    <2>2. /\ walk[r] \in Walk /\ walk[r] # NoWalk /\ walk[r].at \in {"asked", "found"}
          /\ walk' = [walk EXCEPT ![r] =
                [[walk[r] EXCEPT !.at = "counted"] EXCEPT !.total = Cardinality(Items(list))]]
        BY <1>1, <1>4, <2>1 DEF Count
    <2>3. Cardinality(Items(list)) \in Nat
        BY <2>1, ListShape, FS_CardinalityType DEF WInv
    <2>4. walk' \in [Reader -> Walk \cup {NoWalk}]
        BY <1>1, <2>2, <2>3 DEF Walk
    <2>5. /\ walk'[r].list = list /\ walk'[r].at = "counted" /\ walk'[r].page = walk[r].page
          /\ walk'[r].total = Cardinality(Items(list)) /\ walk'[r].shown = walk[r].shown
          /\ walk'[r].first = walk[r].first /\ walk'[r].upset = walk[r].upset
        BY <1>1, <2>1, <2>2 DEF Walk
    <2>6. ~walk'[r].upset => ReadInv(r, list)'
        <3>1. ~walk[r].upset => ReadInv(r, list)
            BY <2>1, <2>2 DEF WInv, WalkInv
        <3> QED BY <1>1, <2>2, <2>3, <2>5, <3>1, ListsStay DEF ReadInv
    <2> QED BY <1>2, <2>4, <2>5, <2>6 DEF WalkInv
<1>5. CASE Fetch(r)
    <2>1. PICK list \in {0} \cup User : walk[r].list = list
        BY <1>1, <1>5 DEF Fetch, Walk
    <2> DEFINE more == walk[r].page < TotalPages(walk[r].total)
    <2>2. /\ walk[r] \in Walk
          /\ walk' = [walk EXCEPT ![r] =
                [walk[r] EXCEPT !.shown = @ \cup Page(walk[r].list, walk[r].page),
                                !.at = IF more THEN "asked" ELSE "done",
                                !.page = IF more THEN @ + 1 ELSE @]]
        BY <1>1, <1>5 DEF Fetch
    <2>3. Page(walk[r].list, walk[r].page) \in SUBSET Nat
        BY <2>1, ListShape DEF Page, WInv
    <2> HIDE DEF more
    <2>4. walk' \in [Reader -> Walk \cup {NoWalk}] /\ walk'[r].list = list
        <3> DEFINE shown == walk[r].shown \cup Page(walk[r].list, walk[r].page)
                   at == IF more THEN "asked" ELSE "done"
                   page == IF more THEN walk[r].page + 1 ELSE walk[r].page
                   w == [walk[r] EXCEPT !.shown = shown, !.at = at, !.page = page]
        <3>1. shown \in SUBSET Nat /\ at \in {"asked", "done"} /\ page \in Nat \ {0}
            BY <2>2, <2>3 DEF Walk
        <3>2. walk' = [walk EXCEPT ![r] = w]
            BY <2>2
        <3> HIDE DEF shown, at, page
        <3>3. w \in Walk /\ w.list = walk[r].list
            BY <2>2, <3>1 DEF Walk
        <3> HIDE DEF w
        <3> QED BY <1>1, <2>1, <3>2, <3>3
    <2> QED BY <1>2, <1>5, <2>1, <2>4, FetchKeepsReading DEF WalkInv
<1>6. CASE Find(r)
    <2>1. PICK list \in {0} \cup User : walk[r].list = list
        BY <1>1, <1>6 DEF Find, Walk
    <2>2. /\ walk[r] \in Walk /\ walk[r] # NoWalk /\ walk[r].at = "asked"
          /\ \/ walk' = [walk EXCEPT ![r] = [walk[r] EXCEPT !.at = "found"]]
             \/ walk' = [walk EXCEPT ![r] = NoWalk]
        BY <1>1, <1>6 DEF Find
    <2>3. CASE walk' = [walk EXCEPT ![r] = NoWalk]
        BY <1>1, <1>2, <2>3 DEF WalkInv
    <2>4. CASE walk' = [walk EXCEPT ![r] = [walk[r] EXCEPT !.at = "found"]]
        <3>1. walk' \in [Reader -> Walk \cup {NoWalk}]
            BY <1>1, <2>2, <2>4 DEF Walk
        <3>2. /\ walk'[r].list = list /\ walk'[r].at = "found" /\ walk'[r].page = walk[r].page
              /\ walk'[r].shown = walk[r].shown /\ walk'[r].first = walk[r].first
              /\ walk'[r].upset = walk[r].upset
            BY <1>1, <2>1, <2>2, <2>4 DEF Walk
        <3>3. ~walk'[r].upset => ReadInv(r, list)'
            <4>1. ~walk[r].upset => ReadInv(r, list)
                BY <2>1, <2>2 DEF WInv, WalkInv
            <4> QED BY <1>1, <2>2, <3>2, <4>1, ListsStay DEF ReadInv
        <3> QED BY <1>2, <3>1, <3>2, <3>3 DEF WalkInv
    <2> QED BY <2>2, <2>3, <2>4
<1> QED BY <1>3, <1>4, <1>5, <1>6

-----------------------------------------------------------------------------

\* A step of a request that commits nothing keeps the readers where they are.
LEMMA RequestsKeepWalks ==
    ASSUME WInv, UNCHANGED <<rows, trail, walk>>
    PROVE  WalkInv'
BY ListsStay DEF WInv, WalkInv, ReadInv

LEMMA NextKeepsBegan ==
    ASSUME TInv, BeganInv, [Next]_vars
    PROVE  BeganInv'
<1>1. ASSUME NEW o \in Op, BeginAny(o)
      PROVE  BeganInv'
    <2>1. PICK request : Begin(o, request) /\ request.began = clock + 1
        BY <1>1, BeginAsks DEF TInv
    <2>2. /\ trail' = trail /\ clock' = clock + 1 /\ req'[o] = request
          /\ \A p \in Op : p # o => pc'[p] = pc[p] /\ req'[p] = req[p]
        BY <2>1 DEF Begin, TInv, IInv, ShapeInv
    <2> QED BY <2>1, <2>2 DEF BeganInv
<1>2. ASSUME NEW o \in Op, Load(o) \/ Write(o) \/ Enter(o)
      PROVE  BeganInv'
    <2>1. UNCHANGED <<trail, clock, req>> /\ \A p \in Op : pc'[p] # "idle" => pc[p] # "idle"
        BY <1>2 DEF Load, Write, Enter, TInv, IInv, ShapeInv
    <2> QED BY <2>1 DEF BeganInv
<1>3. ASSUME NEW o \in Op, End(o), UNCHANGED <<trail, clock>>
      PROVE  BeganInv'
    <2>1. \A p \in Op : pc'[p] # "idle" => pc[p] # "idle" /\ req'[p] = req[p]
        BY <1>3, EndForgets DEF TInv
    <2> QED BY <1>3, <2>1 DEF BeganInv
<1>4. ASSUME NEW o \in Op, Commit(o)
      PROVE  BeganInv'
    <2> DEFINE t == Target(o)
               audit == Audit(o)
    <2>1. /\ clock' = clock
          /\ \A p \in Op : pc'[p] # "idle" => pc[p] # "idle" /\ req'[p] = req[p]
        BY <1>4, EndForgets DEF Commit, TInv
    <2>2. audit.began \in Nat
        BY <1>4 DEF Audit, Commit, BeganInv
    <2>3. /\ t \in User /\ trail'[t] = Append(trail[t], audit)
          /\ \A u \in User : u # t => trail'[u] = trail[u]
        BY <1>4, CommittedRow, CommittedAudit DEF TInv
    <2> HIDE DEF audit
    <2>4. PICK S : trail[t] \in Seq(S)
        BY <2>3 DEF TInv, TrailInv
    <2> DEFINE n == Len(trail[t])
    <2>5. /\ n \in Nat /\ DOMAIN trail[t] = 1..n /\ DOMAIN trail'[t] = 1..(n + 1)
          /\ \A i \in 1..n : trail'[t][i] = trail[t][i]
          /\ trail'[t][n + 1] = audit
        BY <2>3, <2>4, AppendedSeq
    <2> HIDE DEF n
    <2>6. \A i \in DOMAIN trail'[t] : trail'[t][i].began \in Nat
        BY <2>2, <2>3, <2>5 DEF BeganInv
    <2> QED BY <2>1, <2>3, <2>6 DEF BeganInv
<1>5. ASSUME \/ UNCHANGED vars
             \/ \E r \in Reader : Visit(r) \/ Find(r) \/ Count(r) \/ Fetch(r)
      PROVE  BeganInv'
    <2>1. UNCHANGED <<trail, clock, locals>>
        BY <1>5, ReadersWriteNothing DEF vars
    <2> QED BY <2>1 DEF BeganInv, locals
<1>6. ASSUME NEW o \in Op, NotFound(o) \/ NothingApplied(o) \/ Conflict(o) \/ Abort(o)
      PROVE  BeganInv'
    BY <1>3, <1>6 DEF NotFound, NothingApplied, Conflict, Abort
<1> QED BY <1>1, <1>2, <1>4, <1>5, <1>6 DEF Next, BeginAny

LEMMA NextKeepsWInv == ASSUME WInv, [Next]_vars PROVE WInv'
<1>1. TInv' /\ BeganInv'
    BY NextKeepsTInv, NextKeepsBegan DEF WInv
<1>2. ASSUME NEW o \in Op, Commit(o) PROVE WalkInv'
    BY <1>1, <1>2, CommitKeepsWalks
<1>3. ASSUME NEW r \in Reader, Visit(r) \/ Find(r) \/ Count(r) \/ Fetch(r) PROVE WalkInv'
    BY <1>3, ReaderKeepsWalks
<1>4. ASSUME \/ UNCHANGED vars
             \/ \E o \in Op : \/ BeginAny(o) \/ Load(o) \/ NotFound(o) \/ NothingApplied(o)
                              \/ Write(o) \/ Enter(o) \/ Conflict(o) \/ Abort(o)
      PROVE  WalkInv'
    <2>1. UNCHANGED <<rows, trail, walk>>
        BY <1>4 DEF BeginAny, BeginCreate, BeginUpdate, BeginOwnUpdate, BeginDelete, Begin,
                    Load, NotFound, NothingApplied, Write, Enter, Conflict, Abort, vars
    <2> QED BY <2>1, RequestsKeepWalks
<1> QED BY <1>1, <1>2, <1>3, <1>4 DEF Next, BeginAny, WInv

\* "Which keeps pagination stable" (users/service.py:197-198): whoever leafs through a list
\* of any length to its end misses none of the items that were there at the beginning and
\* still are, whatever is added between two pages or removed from those to come.  It does
\* not hold, and is not claimed, when a name or an employee code changes, when an item
\* comes between a count and its page, or when a user who stands before the next page is
\* deleted.
THEOREM PagesMissNothing == Spec => []PagesSkipNothing
<1>1. Init => WInv
    <2> SUFFICES ASSUME Init PROVE WInv
        OBVIOUS
    <2>1. \A u \in User : DOMAIN trail[u] = {}
        BY DEF Init
    <2> QED BY <2>1, InitTInv DEF Init, WInv, BeganInv, WalkInv
<1>2. WInv /\ [Next]_vars => WInv'
    BY NextKeepsWInv
<1>3. WInv => PagesSkipNothing
    <2> SUFFICES ASSUME WInv, NEW r \in Reader, walk[r] # NoWalk, walk[r].at = "done",
                        ~walk[r].upset
                 PROVE  walk[r].first \cap Items(walk[r].list) \subseteq walk[r].shown
        BY DEF PagesSkipNothing
    <2>1. PICK list \in {0} \cup User : walk[r].list = list
        BY DEF WInv, WalkInv, Walk
    <2> QED BY <2>1 DEF WInv, WalkInv, ReadInv
<1> QED BY <1>1, <1>2, <1>3, PTL DEF Spec
=============================================================================
