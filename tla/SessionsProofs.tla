--------------------------- MODULE SessionsProofs ---------------------------
(***************************************************************************)
(* Proofs about Sessions for any number of operations, tokens and          *)
(* passwords: what has been exchanged stays revoked and is not exchanged   *)
(* again, a deactivation leaves no live token, and what a circle of        *)
(* waiting operations needs.                                               *)
(***************************************************************************)
EXTENDS Sessions, FiniteSetTheorems, WellFoundedInduction, TLAPS

\* The statements that an operation of each kind goes through.
Course(kind) ==
  CASE kind = "LOGIN" -> {"user", "inserting", "committing"}
    [] kind = "REFRESH" -> {"find", "user", "updating", "committing"}
    [] kind = "LOGOUT" -> {"find", "updating"}
    [] kind = "PASSWORD" -> {"user", "listing", "locking", "updating"}
    [] kind = "ACTIVATE" -> {"user", "locking", "committing"}
    [] kind = "DEACTIVATE" -> {"user", "locking", "listing", "updating"}
    [] kind = "DELETE" -> {"locking", "listing", "updating"}

Ends(o) == Kind(o) \in {"DEACTIVATE", "DELETE"}

\* Between two transactions nothing is held.
IdleInv(o) ==
  pc[o] = "idle" => owner # o /\ todo[o] = {} /\ marked[o] = {} /\ inserted[o] = NoToken

CourseInv(o) ==
  /\ pc[o] # "idle" => req[o] \in Request /\ pc[o] \in Course(Kind(o))
  /\ inserted[o] # NoToken <=> Issues(o) /\ pc[o] = "committing"

\* An operation works on tokens that are committed, and a new one is not.
CommittedInv(o) ==
  /\ \A t \in todo[o] \cup marked[o] : token[t] # "none"
  /\ pc[o] # "idle" /\ Kind(o) = "REFRESH" => token[req[o].token] # "none"
  /\ inserted[o] # NoToken => token[inserted[o]] = "none"

\* A refresh revokes its token before it inserts the replacement.
RotationInv(o) ==
  pc[o] # "idle" /\ Kind(o) = "REFRESH" =>
    /\ pc[o] = "updating" => req[o].token \in todo[o] \cup marked[o]
    /\ pc[o] = "committing" => req[o].token \in marked[o]

\* Whoever ends sessions has the user's row from the list to the commit, and no
\* token comes to life meanwhile that is not on the list.
EndingInv(o) ==
  pc[o] # "idle" /\ Ends(o) =>
    /\ pc[o] \in {"listing", "updating"} => owner = o
    /\ pc[o] = "updating" => Live \subseteq todo[o] \cup marked[o]

OwnInv(o) ==
  IdleInv(o) /\ CourseInv(o) /\ CommittedInv(o) /\ RotationInv(o) /\ EndingInv(o)

\* FOR UPDATE excludes the foreign keys that share the row.
LockInv == \A o \in Op : owner = o /\ ForUpdate(o) => Sharers = {}

InsertedOnce ==
  \A o, p \in Op : o # p /\ inserted[o] # NoToken => inserted[o] # inserted[p]

IInv ==
  /\ TypeOK /\ \A o \in Op : OwnInv(o)
  /\ LockInv /\ InsertedOnce /\ ExchangedIsRevoked

-----------------------------------------------------------------------------
(* What one operation does to another *)

\* The committed tokens are the same, and p does nothing.
LEMMA BystanderKeeps ==
  ASSUME IInv, NEW p \in Op, token' = token,
         pc'[p] = pc[p], req'[p] = req[p], todo'[p] = todo[p],
         marked'[p] = marked[p], inserted'[p] = inserted[p],
         owner' = p <=> owner = p
  PROVE  OwnInv(p)'
<1>1. OwnInv(p)
  BY DEF IInv
<1>2. Live' = Live /\ Kind(p)' = Kind(p)
  BY DEF Live, Kind
<1>3. IdleInv(p)' /\ CourseInv(p)'
  BY <1>1, <1>2 DEF OwnInv, IdleInv, CourseInv, Issues
<1>4. CommittedInv(p)' /\ RotationInv(p)' /\ EndingInv(p)'
  BY <1>1, <1>2 DEF OwnInv, CommittedInv, RotationInv, EndingInv, Ends
<1> QED
  BY <1>3, <1>4 DEF OwnInv

\* After the end of an operation there is nothing left of it.
LEMMA EndForgets ==
  ASSUME IInv, NEW o \in Op, End(o)
  PROVE  /\ pc'[o] = "idle" /\ todo'[o] = {} /\ marked'[o] = {}
         /\ inserted'[o] = NoToken /\ owner' # o
         /\ \A p \in Op : p # o =>
              /\ pc'[p] = pc[p] /\ req'[p] = req[p] /\ todo'[p] = todo[p]
              /\ marked'[p] = marked[p] /\ inserted'[p] = inserted[p]
              /\ owner' = p <=> owner = p
         /\ owner' = owner \/ owner' = Nobody
         /\ pc' \in [Op -> PC] /\ req' \in [Op -> Request \cup {NoRequest}]
         /\ seen' \in [Op -> Status] /\ owner' \in Op \cup {Nobody}
         /\ todo' \in [Op -> SUBSET Token] /\ marked' \in [Op -> SUBSET Token]
         /\ inserted' \in [Op -> Token \cup {NoToken}]
<1>1. TypeOK
  BY DEF IInv
<1>2. pc' \in [Op -> PC] /\ pc'[o] = "idle" /\ \A p \in Op : p # o => pc'[p] = pc[p]
  BY <1>1 DEF TypeOK, End, PC
<1>3. /\ req' \in [Op -> Request \cup {NoRequest}]
      /\ \A p \in Op : p # o => req'[p] = req[p]
  BY <1>1 DEF TypeOK, End
<1>4. /\ todo' \in [Op -> SUBSET Token] /\ todo'[o] = {}
      /\ marked' \in [Op -> SUBSET Token] /\ marked'[o] = {}
      /\ \A p \in Op : p # o => todo'[p] = todo[p] /\ marked'[p] = marked[p]
  BY <1>1 DEF TypeOK, End
<1>5. /\ inserted' \in [Op -> Token \cup {NoToken}] /\ inserted'[o] = NoToken
      /\ \A p \in Op : p # o => inserted'[p] = inserted[p]
  BY <1>1 DEF TypeOK, End
<1>6. seen' \in [Op -> Status]
  BY <1>1 DEF TypeOK, End, Status
<1>7. /\ owner' = IF owner = o THEN Nobody ELSE owner
      /\ owner \in Op \cup {Nobody} /\ Nobody \notin Op
  BY <1>1, NobodyAssumption DEF TypeOK, End
<1> QED
  BY <1>2, <1>3, <1>4, <1>5, <1>6, <1>7

\* Locks that are given back keep nobody from anything, and an idle operation
\* has none.
LEMMA EndKeepsTheRest ==
  ASSUME IInv, NEW o \in Op, End(o)
  PROVE  /\ LockInv' /\ InsertedOnce' /\ Sharers' \subseteq Sharers
         /\ IdleInv(o)' /\ CourseInv(o)' /\ CommittedInv(o)'
         /\ RotationInv(o)' /\ EndingInv(o)'
<1>1. Sharers' \subseteq Sharers
  BY EndForgets DEF Sharers
<1>2. \A p \in Op : owner' = p => p # o /\ owner = p /\ ForUpdate(p)' = ForUpdate(p)
  BY EndForgets DEF ForUpdate, Kind
<1>3. LockInv'
  BY <1>1, <1>2 DEF IInv, LockInv
<1>4. InsertedOnce'
  BY EndForgets DEF IInv, InsertedOnce
<1>5. IdleInv(o)' /\ CourseInv(o)' /\ CommittedInv(o)' /\ RotationInv(o)' /\ EndingInv(o)'
  BY EndForgets DEF IdleInv, CourseInv, CommittedInv, RotationInv, EndingInv, Issues
<1> QED
  BY <1>1, <1>3, <1>4, <1>5

\* An operation that ends without a commit.
LEMMA RollbackKeepsIInv ==
  ASSUME IInv, NEW o \in Op, End(o), UNCHANGED account
  PROVE  IInv'
<1>1. token' = token /\ parent' = parent /\ status' = status /\ password' = password
  BY DEF account
<1>2. TypeOK'
  BY <1>1, EndForgets DEF IInv, TypeOK
<1>3. \A p \in Op : OwnInv(p)'
  <2>1. ASSUME NEW p \in Op, p # o PROVE OwnInv(p)'
    BY <1>1, <2>1, EndForgets, BystanderKeeps
  <2>2. OwnInv(o)'
    BY EndKeepsTheRest DEF OwnInv
  <2> QED
    BY <2>1, <2>2
<1>4. ExchangedIsRevoked'
  BY <1>1 DEF IInv, ExchangedIsRevoked, Children
<1> QED
  BY <1>2, <1>3, <1>4, EndKeepsTheRest DEF IInv

-----------------------------------------------------------------------------
(* The steps of one operation *)

\* A step that commits, locks and inserts nothing.
LEMMA PlainStepKeepsIInv ==
  ASSUME IInv, NEW o \in Op, UNCHANGED <<account, owner, inserted>>,
         TypeOK', OwnInv(o)', pc[o] # "idle" => req'[o] = req[o],
         \A p \in Op : p # o =>
           /\ pc'[p] = pc[p] /\ req'[p] = req[p]
           /\ todo'[p] = todo[p] /\ marked'[p] = marked[p]
  PROVE  IInv'
<1>1. /\ token' = token /\ parent' = parent /\ owner' = owner /\ inserted' = inserted
  BY DEF account
<1>2. \A p \in Op : OwnInv(p)'
  <2>1. ASSUME NEW p \in Op, p # o PROVE OwnInv(p)'
    BY <1>1, <2>1, BystanderKeeps
  <2> QED
    BY <2>1
<1>3. LockInv'
  <2> SUFFICES ASSUME NEW p \in Op, owner = p, ForUpdate(p)' PROVE Sharers' = {}
    BY <1>1 DEF LockInv
  <2>1. pc[p] # "idle"
    BY DEF IInv, OwnInv, IdleInv
  <2>2. ForUpdate(p)
    BY <2>1 DEF ForUpdate, Kind
  <2> QED
    BY <1>1, <2>2 DEF IInv, LockInv, Sharers
<1>4. InsertedOnce' /\ ExchangedIsRevoked'
  BY <1>1 DEF IInv, InsertedOnce, ExchangedIsRevoked, Children
<1> QED
  BY <1>2, <1>3, <1>4 DEF IInv

LEMMA RequestTypes ==
  ASSUME NEW request \in Request
  PROVE  /\ request.kind \in {"LOGIN", "REFRESH", "LOGOUT", "PASSWORD", "ACTIVATE",
                              "DEACTIVATE", "DELETE"}
         /\ request.kind \in {"REFRESH", "LOGOUT"} => request.token \in Token
         /\ request # NoRequest
BY NoRequestAssumption DEF Request

LEMMA StartKeepsIInv == ASSUME IInv, NEW o \in Op, Start(o) PROVE IInv'
<1> PICK request \in Request :
      /\ pc[o] = "idle"
      /\ request.kind \in {"REFRESH", "LOGOUT"} => token[request.token] # "none"
      /\ req' = [req EXCEPT ![o] = request]
      /\ pc' = [pc EXCEPT ![o] =
           CASE request.kind \in {"REFRESH", "LOGOUT"} -> "find"
             [] request.kind = "DELETE" -> "locking"
             [] OTHER -> "user"]
  BY DEF Start
<1>1. UNCHANGED <<account, owner, seen, todo, marked, inserted>>
  BY DEF Start
<1>2. token' = token /\ parent' = parent /\ status' = status /\ password' = password
  BY <1>1 DEF account
<1>3. TypeOK
  BY DEF IInv
<1>4. /\ pc' \in [Op -> PC]
      /\ pc'[o] = CASE request.kind \in {"REFRESH", "LOGOUT"} -> "find"
                    [] request.kind = "DELETE" -> "locking"
                    [] OTHER -> "user"
      /\ \A p \in Op : p # o => pc'[p] = pc[p]
  BY <1>3 DEF TypeOK, PC
<1>5. /\ req' \in [Op -> Request \cup {NoRequest}] /\ req'[o] = request
      /\ \A p \in Op : p # o => req'[p] = req[p]
  BY <1>3 DEF TypeOK
<1>6. TypeOK'
  BY <1>1, <1>2, <1>3, <1>4, <1>5 DEF TypeOK
<1>7. pc'[o] \in {"find", "locking", "user"} /\ pc'[o] \in Course(request.kind)
  BY <1>4, RequestTypes DEF Course
<1>8. todo[o] = {} /\ marked[o] = {} /\ inserted[o] = NoToken
  BY DEF IInv, OwnInv, IdleInv
<1>9. IdleInv(o)' /\ CourseInv(o)' /\ RotationInv(o)' /\ EndingInv(o)'
  BY <1>1, <1>5, <1>7, <1>8 DEF IdleInv, CourseInv, RotationInv, EndingInv, Kind, Issues
<1>10. CommittedInv(o)'
  BY <1>1, <1>2, <1>5, <1>8 DEF CommittedInv, Kind
<1> QED
  BY <1>1, <1>4, <1>5, <1>6, <1>9, <1>10, PlainStepKeepsIInv DEF OwnInv

\* What is known of an operation that is under way.
LEMMA UnderWay ==
  ASSUME IInv, NEW o \in Op, pc[o] # "idle"
  PROVE  /\ req[o] \in Request /\ pc[o] \in Course(Kind(o))
         /\ Kind(o) \in {"LOGIN", "REFRESH", "LOGOUT", "PASSWORD", "ACTIVATE",
                         "DEACTIVATE", "DELETE"}
         /\ Kind(o) \in {"REFRESH", "LOGOUT"} => req[o].token \in Token
         /\ inserted[o] # NoToken <=> Kind(o) \in {"LOGIN", "REFRESH"} /\ pc[o] = "committing"
<1>1. req[o] \in Request /\ pc[o] \in Course(Kind(o))
  BY DEF IInv, OwnInv, CourseInv
<1>2. inserted[o] # NoToken <=> Kind(o) \in {"LOGIN", "REFRESH"} /\ pc[o] = "committing"
  BY DEF IInv, OwnInv, CourseInv, Issues
<1> QED
  BY <1>1, <1>2, RequestTypes DEF Kind

LEMMA FindTokenKeepsIInv == ASSUME IInv, NEW o \in Op, FindToken(o) PROVE IInv'
<1>1. /\ pc[o] = "find" /\ token[req[o].token] = "live"
      /\ UNCHANGED <<account, owner, req, seen, marked, inserted>>
  BY DEF FindToken, IsUsable
<1>2. token' = token /\ parent' = parent /\ status' = status /\ password' = password
  BY <1>1 DEF account
<1>3. TypeOK
  BY DEF IInv
<1>4. Kind(o) \in {"REFRESH", "LOGOUT"} /\ req[o].token \in Token
  BY <1>1, UnderWay DEF Course
<1>5. /\ pc' \in [Op -> PC] /\ todo' \in [Op -> SUBSET Token]
      /\ \A p \in Op : p # o => pc'[p] = pc[p] /\ todo'[p] = todo[p]
      /\ \/ Kind(o) = "REFRESH" /\ pc'[o] = "user" /\ todo'[o] = todo[o]
         \/ Kind(o) = "LOGOUT" /\ pc'[o] = "updating" /\ todo'[o] = {req[o].token}
  <2>1. CASE Kind(o) = "REFRESH"
    BY <1>3, <2>1 DEF FindToken, TypeOK, PC
  <2>2. CASE Kind(o) = "LOGOUT"
    BY <1>3, <1>4, <2>2 DEF FindToken, TypeOK, PC
  <2> QED
    BY <1>4, <2>1, <2>2
<1>6. TypeOK'
  BY <1>1, <1>2, <1>3, <1>5 DEF TypeOK
<1>7. OwnInv(o)
  BY DEF IInv
<1>8. IdleInv(o)' /\ CourseInv(o)' /\ RotationInv(o)' /\ EndingInv(o)'
  BY <1>1, <1>5, <1>7
     DEF OwnInv, IdleInv, CourseInv, RotationInv, EndingInv, Ends, Kind, Issues, Course
<1>9. CommittedInv(o)'
  BY <1>1, <1>2, <1>5, <1>7 DEF OwnInv, CommittedInv, Kind
<1> QED
  BY <1>1, <1>5, <1>6, <1>8, <1>9, PlainStepKeepsIInv DEF OwnInv

LEMMA ReadUserKeepsIInv == ASSUME IInv, NEW o \in Op, ReadUser(o) PROVE IInv'
<1>1. /\ pc[o] = "user" /\ seen' = [seen EXCEPT ![o] = status]
      /\ UNCHANGED <<account, owner, req, marked, inserted>>
  BY DEF ReadUser
<1>2. token' = token /\ parent' = parent /\ status' = status /\ password' = password
  BY <1>1 DEF account
<1>3. TypeOK
  BY DEF IInv
<1>4. /\ Kind(o) \in {"LOGIN", "REFRESH", "PASSWORD", "ACTIVATE", "DEACTIVATE"}
      /\ Kind(o) = "REFRESH" => req[o].token \in Token
  BY <1>1, UnderWay DEF Course
<1>5. /\ pc' \in [Op -> PC] /\ todo' \in [Op -> SUBSET Token]
      /\ \A p \in Op : p # o => pc'[p] = pc[p] /\ todo'[p] = todo[p]
      /\ \/ Kind(o) = "REFRESH" /\ pc'[o] = "updating" /\ todo'[o] = {req[o].token}
         \/ Kind(o) = "LOGIN" /\ pc'[o] = "inserting" /\ todo'[o] = todo[o]
         \/ Kind(o) = "PASSWORD" /\ pc'[o] = "listing" /\ todo'[o] = todo[o]
         \/ Kind(o) \in {"ACTIVATE", "DEACTIVATE"} /\ pc'[o] = "locking" /\ todo'[o] = todo[o]
  <2>1. CASE Kind(o) = "REFRESH"
    BY <1>3, <1>4, <2>1 DEF ReadUser, TypeOK, PC
  <2>2. CASE Kind(o) = "LOGIN"
    BY <1>3, <2>2 DEF ReadUser, TypeOK, PC
  <2>3. CASE Kind(o) = "PASSWORD"
    BY <1>3, <2>3 DEF ReadUser, TypeOK, PC
  <2>4. CASE Kind(o) \in {"ACTIVATE", "DEACTIVATE"}
    BY <1>3, <2>4 DEF ReadUser, TypeOK, PC
  <2> QED
    BY <1>4, <2>1, <2>2, <2>3, <2>4
<1>6. TypeOK'
  BY <1>1, <1>2, <1>3, <1>5 DEF TypeOK
<1>7. OwnInv(o)
  BY DEF IInv
<1>8. IdleInv(o)' /\ CourseInv(o)' /\ RotationInv(o)' /\ EndingInv(o)'
  BY <1>1, <1>5, <1>7
     DEF OwnInv, IdleInv, CourseInv, RotationInv, EndingInv, Ends, Kind, Issues, Course
<1>9. CommittedInv(o)'
  BY <1>1, <1>2, <1>5, <1>7 DEF OwnInv, CommittedInv, Kind
<1> QED
  BY <1>1, <1>5, <1>6, <1>8, <1>9, PlainStepKeepsIInv DEF OwnInv

\* The list is complete: whatever lives is on it.
LEMMA ListTokensKeepsIInv == ASSUME IInv, NEW o \in Op, ListTokens(o) PROVE IInv'
<1>1. /\ pc[o] = "listing"
      /\ UNCHANGED <<account, owner, req, seen, marked, inserted>>
  BY DEF ListTokens
<1>2. token' = token /\ parent' = parent /\ status' = status /\ password' = password
  BY <1>1 DEF account
<1>3. TypeOK
  BY DEF IInv
<1>4. Kind(o) \in {"PASSWORD", "DEACTIVATE", "DELETE"}
  BY <1>1, UnderWay DEF Course
<1>5. /\ pc' \in [Op -> PC] /\ todo' \in [Op -> SUBSET Token]
      /\ \A p \in Op : p # o => pc'[p] = pc[p] /\ todo'[p] = todo[p]
      /\ Live \subseteq todo'[o] /\ \A t \in todo'[o] : token[t] # "none"
      /\ pc'[o] = IF Kind(o) = "PASSWORD" THEN "locking" ELSE "updating"
  BY <1>3 DEF ListTokens, TypeOK, PC, Live
<1>6. TypeOK'
  BY <1>1, <1>2, <1>3, <1>5 DEF TypeOK
<1>7. OwnInv(o) /\ Live' = Live
  BY <1>2 DEF IInv, Live
<1>8. IdleInv(o)' /\ CourseInv(o)' /\ RotationInv(o)' /\ EndingInv(o)'
  BY <1>1, <1>4, <1>5, <1>7
     DEF OwnInv, IdleInv, CourseInv, RotationInv, EndingInv, Ends, Kind, Issues, Course
<1>9. CommittedInv(o)'
  BY <1>1, <1>2, <1>5, <1>7 DEF OwnInv, CommittedInv, Kind
<1> QED
  BY <1>1, <1>5, <1>6, <1>8, <1>9, PlainStepKeepsIInv DEF OwnInv

LEMMA UpdateTokenKeepsIInv == ASSUME IInv, NEW o \in Op, UpdateToken(o) PROVE IInv'
<1> PICK t \in todo[o] : /\ pc[o] = "updating"
                         /\ marked' = [marked EXCEPT ![o] = @ \cup {t}]
                         /\ todo' = [todo EXCEPT ![o] = @ \ {t}]
  BY DEF UpdateToken, NextToken
<1>1. UNCHANGED <<account, owner, pc, req, seen, inserted>>
  BY DEF UpdateToken
<1>2. token' = token /\ parent' = parent /\ status' = status /\ password' = password
  BY <1>1 DEF account
<1>3. TypeOK
  BY DEF IInv
<1>4. /\ todo' \in [Op -> SUBSET Token] /\ marked' \in [Op -> SUBSET Token]
      /\ todo'[o] = todo[o] \ {t} /\ marked'[o] = marked[o] \cup {t}
      /\ \A p \in Op : p # o => todo'[p] = todo[p] /\ marked'[p] = marked[p]
  BY <1>3 DEF TypeOK
<1>5. todo'[o] \cup marked'[o] = todo[o] \cup marked[o]
  BY <1>4
<1>6. TypeOK'
  BY <1>1, <1>2, <1>3, <1>4 DEF TypeOK
<1>7. OwnInv(o) /\ Live' = Live
  BY <1>2 DEF IInv, Live
<1>8. IdleInv(o)' /\ CourseInv(o)' /\ RotationInv(o)' /\ EndingInv(o)'
  BY <1>1, <1>5, <1>7
     DEF OwnInv, IdleInv, CourseInv, RotationInv, EndingInv, Ends, Kind, Issues
<1>9. CommittedInv(o)'
  BY <1>1, <1>2, <1>5, <1>7 DEF OwnInv, CommittedInv, Kind
<1> QED
  BY <1>1, <1>4, <1>6, <1>8, <1>9, PlainStepKeepsIInv DEF OwnInv

\* FOR UPDATE is granted when nobody shares the row.
LEMMA LockUserKeepsIInv == ASSUME IInv, NEW o \in Op, LockUser(o) PROVE IInv'
<1>1. /\ pc[o] = "locking" /\ owner' = o
      /\ Locker = {} /\ (ForUpdate(o) => Sharers = {})
      /\ UNCHANGED <<account, req, seen, todo, marked, inserted>>
  BY DEF LockUser, UserIsFree
<1>2. token' = token /\ parent' = parent /\ status' = status /\ password' = password
  BY <1>1 DEF account
<1>3. TypeOK /\ owner = Nobody /\ Nobody \notin Op
  BY <1>1, NobodyAssumption DEF IInv, Locker
<1>4. Kind(o) \in {"PASSWORD", "ACTIVATE", "DEACTIVATE", "DELETE"}
  BY <1>1, UnderWay DEF Course
<1>5. /\ pc' \in [Op -> PC] /\ \A p \in Op : p # o => pc'[p] = pc[p]
      /\ pc'[o] = CASE Kind(o) = "ACTIVATE" -> "committing"
                    [] Kind(o) = "PASSWORD" -> "updating"
                    [] OTHER -> "listing"
  BY <1>3 DEF LockUser, TypeOK, PC
<1>6. TypeOK'
  BY <1>1, <1>2, <1>3, <1>5 DEF TypeOK
<1>7. OwnInv(o)
  BY DEF IInv
<1>8. IdleInv(o)' /\ CourseInv(o)' /\ RotationInv(o)' /\ EndingInv(o)'
  BY <1>1, <1>4, <1>5, <1>7
     DEF OwnInv, IdleInv, CourseInv, RotationInv, EndingInv, Ends, Kind, Issues, Course
<1>9. CommittedInv(o)'
  BY <1>1, <1>2, <1>7 DEF OwnInv, CommittedInv, Kind
<1>10. ASSUME NEW p \in Op, p # o PROVE OwnInv(p)'
  BY <1>1, <1>2, <1>3, <1>5, <1>10, BystanderKeeps
<1>11. LockInv' /\ InsertedOnce' /\ ExchangedIsRevoked'
  BY <1>1, <1>2
     DEF IInv, LockInv, InsertedOnce, ExchangedIsRevoked, Children, Sharers, ForUpdate, Kind
<1> QED
  BY <1>6, <1>8, <1>9, <1>10, <1>11 DEF IInv, OwnInv

\* Nobody inserts while the row is locked FOR UPDATE.
LEMMA InsertKeepsIInv == ASSUME IInv, NEW o \in Op, Insert(o) PROVE IInv'
<1> PICK t \in NewToken : inserted' = [inserted EXCEPT ![o] = t]
  BY DEF Insert
<1>1. /\ ReadyToInsert(o) /\ \A p \in Locker : ~ForUpdate(p)
      /\ pc' = [pc EXCEPT ![o] = "committing"]
      /\ UNCHANGED <<account, owner, req, seen, todo, marked>>
  BY DEF Insert
<1>2. token' = token /\ parent' = parent /\ status' = status /\ password' = password
  BY <1>1 DEF account
<1>3. TypeOK /\ Nobody \notin Op /\ NoToken \notin Token
  BY NobodyAssumption, NoTokenAssumption DEF IInv
<1>4. t \in Token /\ token[t] = "none" /\ \A p \in Op : inserted[p] # t
  BY DEF NewToken, IsNew
<1>5. pc[o] # "idle" /\ Kind(o) \in {"LOGIN", "REFRESH"}
  BY <1>1, UnderWay DEF ReadyToInsert, Course
<1>6. /\ pc' \in [Op -> PC] /\ pc'[o] = "committing"
      /\ inserted' \in [Op -> Token \cup {NoToken}] /\ inserted'[o] = t
      /\ \A p \in Op : p # o => pc'[p] = pc[p] /\ inserted'[p] = inserted[p]
  BY <1>1, <1>3, <1>4 DEF TypeOK, PC
<1>7. TypeOK'
  BY <1>1, <1>2, <1>3, <1>6 DEF TypeOK
<1>8. OwnInv(o)
  BY DEF IInv
<1>9. IdleInv(o)' /\ CourseInv(o)' /\ EndingInv(o)'
  BY <1>1, <1>3, <1>4, <1>5, <1>6, <1>8
     DEF OwnInv, IdleInv, CourseInv, EndingInv, Ends, Kind, Issues, Course
<1>10. RotationInv(o)'
  <2>1. Kind(o) = "REFRESH" => pc[o] = "updating" /\ todo[o] = {}
    BY <1>1, UnderWay DEF ReadyToInsert, Course
  <2> QED
    BY <1>1, <1>6, <1>8, <2>1 DEF OwnInv, RotationInv, Kind
<1>11. CommittedInv(o)'
  BY <1>1, <1>2, <1>4, <1>5, <1>6, <1>8 DEF OwnInv, CommittedInv, Kind
<1>12. ASSUME NEW p \in Op, p # o PROVE OwnInv(p)'
  BY <1>1, <1>2, <1>6, <1>12, BystanderKeeps
<1>13. LockInv'
  BY <1>1, <1>3 DEF LockInv, Locker, ForUpdate, Kind
<1>14. InsertedOnce' /\ ExchangedIsRevoked'
  BY <1>2, <1>4, <1>6 DEF IInv, InsertedOnce, ExchangedIsRevoked, Children
<1> QED
  BY <1>7, <1>9, <1>10, <1>11, <1>12, <1>13, <1>14 DEF IInv, OwnInv

-----------------------------------------------------------------------------
(* The commit *)

\* It brings one token to life at most, which was not there before; what was
\* revoked or deleted stays so.
LEMMA CommittedTokens ==
  ASSUME IInv, NEW o \in Op, Commit(o)
  PROVE  /\ pc[o] # "idle" /\ inserted[o] \in Token \cup {NoToken}
         /\ \A t \in Token : /\ t = inserted[o] => token[t] = "none" /\ token'[t] = "live"
                             /\ t # inserted[o] /\ t \in marked[o] =>
                                  token'[t] \in {"revoked", "gone"}
                             /\ t # inserted[o] /\ t \notin marked[o] => token'[t] = token[t]
                             /\ token[t] # "none" => t # inserted[o] /\ token'[t] # "none"
                             /\ token[t] \in {"revoked", "gone"} =>
                                  token'[t] \in {"revoked", "gone"}
         /\ token' \in [Token -> TokenState]
<1>1. pc[o] # "idle" /\ token' = [t \in Token |-> TokenAfter(o, t)]
  BY DEF Commit, ReadyToCommit
<1>2. inserted[o] \in Token \cup {NoToken} /\ token \in [Token -> TokenState]
  BY DEF IInv, TypeOK
<1>3. \A t \in Token : t = inserted[o] => token[t] = "none"
  BY NoTokenAssumption DEF IInv, OwnInv, CommittedInv
<1>4. \A t \in Token : token'[t] = TokenAfter(o, t)
  BY <1>1
<1>5. \A t \in Token : /\ t = inserted[o] => token'[t] = "live"
                       /\ t # inserted[o] /\ t \in marked[o] => token'[t] \in {"revoked", "gone"}
                       /\ t # inserted[o] /\ t \notin marked[o] => token'[t] = token[t]
  <2> TAKE t \in Token
  <2>1. t = inserted[o] => t \notin marked[o]
    BY <1>3 DEF IInv, OwnInv, CommittedInv
  <2> QED
    BY <1>4, <2>1 DEF TokenAfter
<1>6. \A t \in Token : token'[t] \in TokenState
  BY <1>2, <1>5 DEF TokenState
<1> QED
  BY <1>1, <1>2, <1>3, <1>5, <1>6 DEF TokenState

\* While sessions are being ended no commit of somebody else brings a token to life.
LEMMA NoneComesToLife ==
  ASSUME IInv, NEW o \in Op, Commit(o), NEW p \in Op, owner = p, Ends(p)
  PROVE  Live' \subseteq Live
<1>1. inserted[o] = NoToken
  BY DEF IInv, LockInv, Sharers, ForUpdate, Ends
<1> QED
  BY <1>1, CommittedTokens, NoTokenAssumption DEF Live

LEMMA CommitKeepsIInv == ASSUME IInv, NEW o \in Op, Commit(o) PROVE IInv'
<1>1. End(o) /\ pc[o] # "idle"
  BY CommittedTokens DEF Commit
<1>2. TypeOK /\ NoToken \notin Token
  BY NoTokenAssumption DEF IInv
<1>3. Kind(o) = "REFRESH" =>
        /\ pc[o] = "committing" /\ inserted[o] \in Token /\ req[o].token \in Token
        /\ req[o].token \in marked[o] /\ req[o].token # inserted[o]
  <2> SUFFICES ASSUME Kind(o) = "REFRESH"
               PROVE  /\ pc[o] = "committing" /\ inserted[o] \in Token /\ req[o].token \in Token
                      /\ req[o].token \in marked[o] /\ req[o].token # inserted[o]
    OBVIOUS
  <2>1. pc[o] = "committing"
    BY DEF Commit, ReadyToCommit
  <2>2. inserted[o] \in Token /\ req[o].token \in Token
    BY <1>1, <1>2, <2>1, UnderWay DEF TypeOK
  <2>3. req[o].token \in marked[o] /\ token[req[o].token] # "none"
    BY <1>1, <2>1 DEF IInv, OwnInv, RotationInv, CommittedInv
  <2> QED
    BY <2>1, <2>2, <2>3, CommittedTokens
<1>4. /\ parent' \in [Token -> Token \cup {NoToken}]
      /\ \A c \in Token : \/ parent'[c] = parent[c]
                          \/ Kind(o) = "REFRESH" /\ parent'[c] = req[o].token
  BY <1>2, <1>3 DEF Commit, TypeOK
<1>5. TypeOK'
  <2>1. status' \in Status
    BY <1>2 DEF Commit, StatusAfter, Status, TypeOK
  <2>2. password' \in Password
    BY <1>2 DEF Commit, TypeOK
  <2> QED
    BY <1>1, <1>4, <2>1, <2>2, CommittedTokens, EndForgets DEF TypeOK
<1>6. ExchangedIsRevoked'
  <2> SUFFICES ASSUME NEW t \in Token, NEW c \in Token, parent'[c] = t
               PROVE  token'[t] \in {"revoked", "gone"}
    BY DEF ExchangedIsRevoked, Children
  <2>1. CASE parent[c] = t
    BY <2>1, CommittedTokens DEF IInv, ExchangedIsRevoked, Children
  <2>2. CASE Kind(o) = "REFRESH" /\ t = req[o].token
    BY <1>3, <2>2, CommittedTokens
  <2> QED
    BY <1>4, <2>1, <2>2
<1>7. ASSUME NEW p \in Op, p # o PROVE OwnInv(p)'
  <2>1. /\ pc'[p] = pc[p] /\ req'[p] = req[p] /\ todo'[p] = todo[p]
        /\ marked'[p] = marked[p] /\ inserted'[p] = inserted[p]
        /\ owner' = p <=> owner = p
    BY <1>1, <1>7, EndForgets
  <2>2. OwnInv(p)
    BY DEF IInv
  <2>3. IdleInv(p)' /\ CourseInv(p)' /\ RotationInv(p)'
    BY <2>1, <2>2 DEF OwnInv, IdleInv, CourseInv, RotationInv, Kind, Issues
  <2>4. CommittedInv(p)'
    <3>1. /\ \A t \in todo[p] \cup marked[p] : t \in Token
          /\ inserted[p] \in Token \cup {NoToken}
      BY <1>2 DEF TypeOK
    <3>2. \A t \in todo[p] \cup marked[p] : token'[t] # "none"
      BY <2>2, <3>1, CommittedTokens DEF OwnInv, CommittedInv
    <3>3. pc[p] # "idle" /\ Kind(p) = "REFRESH" => token'[req[p].token] # "none"
      BY <2>2, UnderWay, CommittedTokens DEF OwnInv, CommittedInv
    <3>4. inserted[p] # NoToken => token'[inserted[p]] = "none"
      <4> SUFFICES ASSUME inserted[p] # NoToken PROVE token'[inserted[p]] = "none"
        OBVIOUS
      <4>1. inserted[p] \in Token /\ token[inserted[p]] = "none" /\ inserted[p] # inserted[o]
        BY <1>7, <2>2, <3>1 DEF OwnInv, CommittedInv, IInv, InsertedOnce
      <4>2. inserted[p] \notin marked[o]
        BY <4>1 DEF IInv, OwnInv, CommittedInv
      <4> QED
        BY <4>1, <4>2, CommittedTokens
    <3> QED
      BY <2>1, <3>2, <3>3, <3>4 DEF CommittedInv, Kind
  <2>5. EndingInv(p)'
    <3>1. pc[p] \in {"listing", "updating"} /\ Ends(p) => Live' \subseteq Live
      BY <2>2, NoneComesToLife DEF OwnInv, EndingInv
    <3> QED
      BY <2>1, <2>2, <3>1 DEF OwnInv, EndingInv, Ends, Kind
  <2> QED
    BY <2>3, <2>4, <2>5 DEF OwnInv
<1>8. OwnInv(o)'
  BY <1>1, EndKeepsTheRest DEF OwnInv
<1> QED
  BY <1>1, <1>5, <1>6, <1>7, <1>8, EndKeepsTheRest DEF IInv

\* Everything that lives is on the list and has been revoked.
LEMMA DeactivationLeavesNone ==
  ASSUME IInv, NEW o \in Op, Commit(o), status = "ACTIVE", status' = "INACTIVE"
  PROVE  Live' = {}
<1>1. Kind(o) = "DEACTIVATE"
  BY DEF Commit, StatusAfter
<1>2. pc[o] = "updating" /\ todo[o] = {}
  BY <1>1, CommittedTokens, UnderWay DEF Commit, ReadyToCommit, Course
<1>3. Live \subseteq marked[o] /\ inserted[o] = NoToken
  BY <1>1, <1>2, UnderWay DEF IInv, OwnInv, EndingInv, Ends
<1> QED
  BY <1>3, CommittedTokens, NoTokenAssumption DEF Live

-----------------------------------------------------------------------------

LEMMA NextKeepsIInv == ASSUME IInv, [Next]_vars PROVE IInv'
<1>1. CASE UNCHANGED vars
  <2>1. /\ token' = token /\ parent' = parent /\ status' = status /\ password' = password
        /\ owner' = owner /\ pc' = pc /\ req' = req /\ seen' = seen /\ todo' = todo
        /\ marked' = marked /\ inserted' = inserted
    BY <1>1 DEF vars, account, locals
  <2>2. TypeOK' /\ ExchangedIsRevoked'
    BY <2>1 DEF IInv, TypeOK, ExchangedIsRevoked, Children
  <2>3. \A p \in Op : OwnInv(p)'
    BY <2>1, BystanderKeeps
  <2>4. LockInv' /\ InsertedOnce'
    BY <2>1 DEF IInv, LockInv, InsertedOnce, Sharers, ForUpdate, Kind
  <2> QED
    BY <2>2, <2>3, <2>4 DEF IInv
<1>2. ASSUME NEW o \in Op,
             \/ TokenRefused(o) \/ UserRefused(o) \/ LockedForNothing(o)
             \/ GiveUp(o) \/ Abort(o)
      PROVE  IInv'
  <2>1. End(o) /\ UNCHANGED account
    BY <1>2 DEF TokenRefused, UserRefused, LockedForNothing, GiveUp, Abort
  <2> QED
    BY <2>1, RollbackKeepsIInv
<1>3. CASE Next
  BY <1>2, <1>3, StartKeepsIInv, FindTokenKeepsIInv, ReadUserKeepsIInv, ListTokensKeepsIInv,
     UpdateTokenKeepsIInv, LockUserKeepsIInv, InsertKeepsIInv, CommitKeepsIInv DEF Next, Run
<1> QED
  BY <1>1, <1>3

LEMMA InitIInv == ASSUME Init PROVE IInv
<1>1. TypeOK
  BY DEF Init, TypeOK, Status, TokenState, PC
<1>2. \A o \in Op : OwnInv(o)
  BY NobodyAssumption
     DEF Init, OwnInv, IdleInv, CourseInv, CommittedInv, RotationInv, EndingInv, Issues
<1>3. LockInv /\ InsertedOnce /\ ExchangedIsRevoked
  BY NobodyAssumption, NoTokenAssumption
     DEF Init, LockInv, InsertedOnce, ExchangedIsRevoked, Children
<1> QED
  BY <1>1, <1>2, <1>3 DEF IInv

\* A refresh token that was exchanged is of no use afterwards
\* (auth/service.py:163), whatever logout, password change, deactivation or
\* deletion did to it at the same time.
THEOREM ExchangedTokens == Spec => []ExchangedIsRevoked
<1>1. Init => IInv
  BY InitIInv
<1>2. IInv /\ [Next]_vars => IInv'
  BY NextKeepsIInv
<1>3. IInv => ExchangedIsRevoked
  BY DEF IInv
<1> QED
  BY <1>1, <1>2, <1>3, PTL DEF Spec

\* A deactivation revokes every session there is (users/service.py:479-496): the
\* lock of the user's row keeps refreshes and logins from slipping in between
\* its list of tokens and its commit.
THEOREM DeactivationIsComplete == Spec => DeactivationRevokesAll
<1> DEFINE Complete == status = "ACTIVE" /\ status' = "INACTIVE" => Live' = {}
<1>1. Init => IInv
  BY InitIInv
<1>2. IInv /\ [Next]_vars => IInv' /\ [Complete]_vars
  <2>1. ASSUME IInv, Next PROVE Complete
    <3>1. PICK o \in Op : Start(o) \/ Run(o) \/ Abort(o)
      BY <2>1 DEF Next
    <3>2. CASE Commit(o)
      BY <2>1, <3>2, DeactivationLeavesNone
    <3>3. CASE ~Commit(o)
      <4>1. status' = status
        BY <3>1, <3>3
           DEF Run, Start, Abort, FindToken, TokenRefused, ReadUser, UserRefused, ListTokens,
               LockUser, LockedForNothing, UpdateToken, Insert, GiveUp, account
      <4> QED
        BY <4>1
    <3> QED
      BY <3>2, <3>3
  <2> QED
    BY <2>1, NextKeepsIInv
<1>3. Spec => [][Complete]_vars
  BY <1>1, <1>2, PTL DEF Spec
<1> QED
  BY <1>3 DEF DeactivationRevokesAll
-----------------------------------------------------------------------------
(* Waiting *)

\* Tokens are updated in one order and not before the UPDATE; and whoever has the
\* user's row is past the wait for it.
WaitInv(o) ==
  /\ marked[o] # {} => pc[o] \in {"updating", "committing"}
  /\ pc[o] = "updating" => \A l \in marked[o], m \in todo[o] : l < m
  /\ owner = o => \/ pc[o] = "listing" /\ Ends(o)
                  \/ pc[o] = "updating" /\ Kind(o) \in {"PASSWORD", "DEACTIVATE", "DELETE"}
                  \/ pc[o] = "committing"

\* p does nothing, and nobody gives it the user's row.
LEMMA WaitStays ==
  ASSUME NEW p \in Op, WaitInv(p), pc'[p] = pc[p], req'[p] = req[p], todo'[p] = todo[p],
         marked'[p] = marked[p], owner' = p => owner = p
  PROVE  WaitInv(p)'
BY DEF WaitInv, Ends, Kind

\* A step of o that is no commit and no rollback.
LEMMA StatementsWait ==
  ASSUME IInv, NEW o \in Op, \A p \in Op : WaitInv(p),
         \/ FindToken(o) \/ ReadUser(o) \/ ListTokens(o) \/ LockUser(o)
         \/ UpdateToken(o) \/ Insert(o)
  PROVE  \A p \in Op : WaitInv(p)'
<1>1. TypeOK /\ WaitInv(o)
  BY DEF IInv
<1>2. pc[o] # "idle"
  BY DEF FindToken, ReadUser, ListTokens, LockUser, UpdateToken, Insert, ReadyToInsert
<1>3. /\ pc[o] \in Course(Kind(o))
      /\ Kind(o) \in {"LOGIN", "REFRESH", "LOGOUT", "PASSWORD", "ACTIVATE", "DEACTIVATE",
                      "DELETE"}
  BY <1>2, UnderWay
<1>4. req' = req /\ Kind(o)' = Kind(o)
  BY DEF FindToken, ReadUser, ListTokens, LockUser, UpdateToken, Insert, Kind
<1>5. owner' = owner \/ owner' = o
  BY DEF FindToken, ReadUser, ListTokens, LockUser, UpdateToken, Insert
<1>6. \A p \in Op : p # o =>
        pc'[p] = pc[p] /\ todo'[p] = todo[p] /\ marked'[p] = marked[p]
  <2>1. \A p \in Op : p # o => pc'[p] = pc[p]
    BY <1>1, Zenon DEF FindToken, ReadUser, ListTokens, LockUser, UpdateToken, Insert, TypeOK
  <2>2. \A p \in Op : p # o => todo'[p] = todo[p] /\ marked'[p] = marked[p]
    BY <1>1, Zenon DEF FindToken, ReadUser, ListTokens, LockUser, UpdateToken, Insert, TypeOK
  <2> QED
    BY <2>1, <2>2
<1>7. ASSUME NEW p \in Op, p # o PROVE WaitInv(p)'
  BY <1>4, <1>5, <1>6, <1>7, WaitStays
<1>8. WaitInv(o)'
  <2>1. CASE FindToken(o)
    <3>1. marked' = marked /\ marked[o] = {} /\ owner' = owner /\ owner # o
      BY <1>1, <2>1 DEF FindToken, WaitInv
    <3> QED
      BY <3>1 DEF WaitInv
  <2>2. CASE ReadUser(o)
    <3>1. marked' = marked /\ marked[o] = {} /\ owner' = owner /\ owner # o
      BY <1>1, <2>2 DEF ReadUser, WaitInv
    <3> QED
      BY <3>1 DEF WaitInv
  <2>3. CASE ListTokens(o)
    <3>1. /\ marked' = marked /\ marked[o] = {} /\ owner' = owner
          /\ pc'[o] = IF Kind(o) = "PASSWORD" THEN "locking" ELSE "updating"
      BY <1>1, <2>3 DEF ListTokens, WaitInv, TypeOK
    <3>2. owner = o => Kind(o) \in {"DEACTIVATE", "DELETE"}
      BY <1>1, <2>3 DEF ListTokens, WaitInv, Ends
    <3> QED
      BY <1>4, <3>1, <3>2 DEF WaitInv
  <2>4. CASE LockUser(o)
    <3>1. marked' = marked /\ marked[o] = {}
      BY <1>1, <2>4 DEF LockUser, WaitInv
    <3>2. Kind(o) \in {"PASSWORD", "ACTIVATE", "DEACTIVATE", "DELETE"}
      BY <1>3, <2>4 DEF LockUser, Course
    <3>3. pc'[o] = CASE Kind(o) = "ACTIVATE" -> "committing"
                     [] Kind(o) = "PASSWORD" -> "updating"
                     [] OTHER -> "listing"
      BY <1>1, <2>4 DEF LockUser, TypeOK
    <3>4. \/ pc'[o] = "committing"
          \/ pc'[o] = "updating" /\ Kind(o) = "PASSWORD"
          \/ pc'[o] = "listing" /\ Kind(o) \in {"DEACTIVATE", "DELETE"}
      BY <3>2, <3>3
    <3> QED
      BY <1>4, <3>1, <3>4 DEF WaitInv, Ends
  <2>5. CASE UpdateToken(o)
    <3>1. PICK l \in NextToken(o) :
            marked'[o] = marked[o] \cup {l} /\ todo'[o] = todo[o] \ {l}
      BY <1>1, <2>5 DEF UpdateToken, TypeOK
    <3>2. todo[o] \in SUBSET Nat /\ l \in todo[o] /\ \A m \in todo[o] : l <= m
      BY <1>1, <3>1, MaxTokensAssumption DEF NextToken, TypeOK, Token
    <3>3. /\ pc' = pc /\ pc[o] = "updating" /\ owner' = owner
          /\ \A k \in marked[o], m \in todo[o] : k < m
      BY <1>1, <2>5 DEF UpdateToken, WaitInv
    <3>4. \A m \in todo'[o] : m \in Nat /\ m \in todo[o] /\ l < m
      BY <3>1, <3>2
    <3>5. \A k \in marked'[o], m \in todo'[o] : k < m
      BY <3>1, <3>3, <3>4
    <3> QED
      BY <1>1, <1>4, <3>3, <3>5 DEF WaitInv
  <2>6. CASE Insert(o)
    <3>1. pc'[o] = "committing"
      BY <1>1, <2>6 DEF Insert, TypeOK
    <3> QED
      BY <3>1 DEF WaitInv
  <2> QED
    BY <2>1, <2>2, <2>3, <2>4, <2>5, <2>6
<1> QED
  BY <1>7, <1>8

LEMMA NextKeepsWaitInv ==
  ASSUME IInv, [Next]_vars, \A p \in Op : WaitInv(p)
  PROVE  \A p \in Op : WaitInv(p)'
<1>1. CASE UNCHANGED vars
  BY <1>1, WaitStays DEF vars, account, locals
<1>2. ASSUME NEW o \in Op, Start(o) PROVE \A p \in Op : WaitInv(p)'
  <2>1. /\ \A p \in Op : p # o => pc'[p] = pc[p] /\ req'[p] = req[p]
        /\ todo' = todo /\ marked' = marked /\ owner' = owner
    BY <1>2 DEF Start, IInv, TypeOK
  <2>2. marked[o] = {} /\ owner # o /\ todo[o] = {}
    BY <1>2 DEF Start, IInv, OwnInv, IdleInv
  <2>3. WaitInv(o)'
    BY <2>1, <2>2 DEF WaitInv
  <2> QED
    BY <2>1, <2>3, WaitStays
<1>3. ASSUME NEW o \in Op, End(o) PROVE \A p \in Op : WaitInv(p)'
  <2>1. marked'[o] = {} /\ owner' # o /\ todo'[o] = {}
    BY <1>3, EndForgets
  <2>2. WaitInv(o)'
    BY <2>1 DEF WaitInv
  <2>3. ASSUME NEW p \in Op, p # o PROVE WaitInv(p)'
    <3>1. /\ pc'[p] = pc[p] /\ req'[p] = req[p] /\ todo'[p] = todo[p]
          /\ marked'[p] = marked[p] /\ (owner' = p <=> owner = p)
      BY <1>3, <2>3, EndForgets
    <3> QED
      BY <3>1, WaitStays
  <2> QED
    BY <2>2, <2>3
<1>4. ASSUME NEW o \in Op,
             \/ TokenRefused(o) \/ UserRefused(o) \/ LockedForNothing(o) \/ Commit(o)
             \/ GiveUp(o) \/ Abort(o)
      PROVE  \A p \in Op : WaitInv(p)'
  BY <1>3, <1>4 DEF TokenRefused, UserRefused, LockedForNothing, Commit, GiveUp, Abort
<1>5. CASE Next
  BY <1>2, <1>4, <1>5, StatementsWait DEF Next, Run
<1> QED
  BY <1>1, <1>5

\* A bounded set of natural numbers has a greatest element.
LEMMA GreatestOfNaturals ==
  ASSUME NEW max \in Nat, NEW S \in SUBSET (0 .. max), S # {}
  PROVE  \E m \in S : \A n \in S : n <= m
<1> DEFINE From == {m .. max : m \in S}
<1>1. \A m \in S : IsFiniteSet(m .. max) /\ m .. max \in SUBSET Nat
  BY FS_Interval
<1>2. From \subseteq FiniteSubsetsOf(Nat) /\ From # {}
  BY <1>1 DEF FiniteSubsetsOf
<1>3. \E X \in From : \A Y \in From : <<Y, X>> \notin StrictSubsetOrdering(Nat)
  BY <1>2, FS_StrictSubsetOrderingWellFounded, WFMin
<1>4. PICK m \in S : \A n \in S : <<n .. max, m .. max>> \notin StrictSubsetOrdering(Nat)
  BY <1>3
<1>5. ASSUME NEW n \in S, m < n PROVE FALSE
  <2>1. m \in m .. max /\ m \notin n .. max /\ n .. max \subseteq m .. max /\ m .. max \subseteq Nat
    BY <1>5
  <2> QED
    BY <1>4, <2>1 DEF StrictSubsetOrdering
<1> QED
  BY <1>5

\* Of the tokens that a circle waits for take the greatest.  Whoever has it waits for
\* no greater one, so it is a refresh that waits for the user, and whoever has the
\* user for a token.
LEMMA CirclesRotate ==
  ASSUME IInv, \A o \in Op : WaitInv(o), NEW S \in SUBSET Op, Circle(S)
  PROVE  \E o, p \in S : /\ Kind(o) = "REFRESH" /\ ReadyToInsert(o)
                         /\ Kind(p) \in {"DEACTIVATE", "DELETE"} /\ pc[p] = "updating"
<1> DEFINE Updates(o) == pc[o] = "updating" /\ todo[o] # {}
           Inserts(o) == pc[o] # "idle" /\ ReadyToInsert(o)
<1>1. \A o \in S : Blockers(o) \cap S # {} /\ WaitInv(o) /\ OwnInv(o)
  BY DEF Circle, IInv
<1>2. ASSUME NEW o \in S PROVE pc[o] = "locking" \/ Updates(o) \/ Inserts(o)
  BY <1>1 DEF Blockers
<1>3. ASSUME NEW o \in S, owner = o
      PROVE  Updates(o) /\ Kind(o) \in {"PASSWORD", "DEACTIVATE", "DELETE"}
  BY <1>1, <1>2, <1>3 DEF WaitInv, ReadyToInsert
<1>4. ASSUME NEW o \in S, marked[o] # {} PROVE Updates(o) \/ Inserts(o)
  BY <1>1, <1>2, <1>4 DEF WaitInv
<1>5. ASSUME NEW o \in S, pc[o] = "locking" PROVE \E p \in S : Updates(p)
  <2>1. Blockers(o) \subseteq Locker \cup Sharers
    BY <1>5 DEF Blockers
  <2>2. PICK p \in S : p \in Locker \cup Sharers
    BY <1>1, <2>1
  <2>3. CASE p \in Sharers
    <3>1. pc[p] = "committing"
      BY <1>1, <2>3 DEF Sharers, OwnInv, CourseInv
    <3> QED
      BY <1>2, <3>1 DEF ReadyToInsert
  <2>4. CASE p \in Locker
    BY <1>3, <2>4 DEF Locker
  <2> QED
    BY <2>2, <2>3, <2>4
<1>6. ASSUME NEW o \in S, Inserts(o)
      PROVE  /\ \E p \in S : Updates(p) /\ Kind(p) \in {"DEACTIVATE", "DELETE"}
             /\ ~Updates(o)
  <2>1. pc[o] # "locking" /\ ~Updates(o)
    BY <1>6 DEF ReadyToInsert
  <2>2. Blockers(o) \subseteq {p \in Locker : ForUpdate(p)}
    BY <1>6, <2>1 DEF Blockers
  <2>3. PICK p \in S : p \in Locker /\ ForUpdate(p)
    BY <1>1, <2>2
  <2> QED
    BY <1>3, <2>1, <2>3 DEF Locker, ForUpdate
<1>7. ASSUME NEW o \in S, Updates(o)
      PROVE  \E l \in NextToken(o) : \E p \in S : l \in marked[p]
  <2>1. Blockers(o) = UNION {TokenHolders(t) : t \in NextToken(o)}
    <3>1. pc[o] = "updating" /\ todo[o] # {} /\ ~ReadyToInsert(o)
      BY <1>7 DEF ReadyToInsert
    <3> QED
      BY <3>1, Zenon DEF Blockers
  <2>2. PICK l \in NextToken(o), p \in S : p \in TokenHolders(l)
    BY <1>1, <2>1
  <2> QED
    BY <2>2 DEF TokenHolders
<1>8. PICK o \in S : Updates(o)
  BY <1>2, <1>5, <1>6 DEF Circle
<1> HIDE DEF Updates
<1> DEFINE Awaited == {l \in Token : \E p \in S : Updates(p) /\ l \in NextToken(p)}
<1>9. MaxTokens \in Nat /\ Awaited \in SUBSET (0 .. MaxTokens) /\ Awaited # {}
  <2>1. \A p \in Op : NextToken(p) \subseteq Token
    BY DEF NextToken, IInv, TypeOK
  <2>2. Token \subseteq 0 .. MaxTokens
    BY MaxTokensAssumption DEF Token
  <2> QED
    BY <1>7, <1>8, <2>1, <2>2, MaxTokensAssumption
<1>10. PICK l \in Awaited : \A m \in Awaited : m <= l
  <2> HIDE DEF Awaited
  <2> QED
    BY <1>9, GreatestOfNaturals
<1>11. PICK p \in S : Updates(p) /\ l \in NextToken(p)
  BY <1>10
<1>12. PICK k \in NextToken(p), q \in S : k \in marked[q]
  BY <1>7, <1>11
<1>13. k = l
  BY <1>11, <1>12, MaxTokensAssumption DEF NextToken, IInv, TypeOK, Token
<1>14. ~Updates(q)
  <2> SUFFICES ASSUME Updates(q) PROVE FALSE
    OBVIOUS
  <2>1. PICK m \in NextToken(q) : TRUE
    BY <1>7
  <2>2. m \in Awaited /\ m \in todo[q]
    BY <2>1 DEF NextToken, IInv, TypeOK
  <2>3. l < m
    BY <1>1, <1>12, <1>13, <2>2 DEF WaitInv, Updates
  <2> QED
    BY <1>9, <1>10, <2>2, <2>3
<1>15. Inserts(q)
  BY <1>4, <1>12, <1>14
<1>16. Kind(q) = "REFRESH" /\ ReadyToInsert(q)
  BY <1>1, <1>12, <1>15 DEF WaitInv, ReadyToInsert
<1> QED
  BY <1>6, <1>15, <1>16 DEF Updates

\* Operations wait for each other in a circle only around a refresh that has revoked
\* its token and a deactivation or deletion that has locked the user
\* (auth/service.py:163-164, users/service.py:479, 491).
THEOREM OnlyRotationsCircle == Spec => []CircleNeedsRotation
<1> DEFINE Inv == IInv /\ \A o \in Op : WaitInv(o)
<1>1. Init => Inv
  BY InitIInv, NobodyAssumption DEF Init, WaitInv
<1>2. Inv /\ [Next]_vars => Inv'
  BY NextKeepsIInv, NextKeepsWaitInv
<1>3. Inv => CircleNeedsRotation
  BY CirclesRotate DEF CircleNeedsRotation
<1> QED
  BY <1>1, <1>2, <1>3, PTL DEF Spec
-----------------------------------------------------------------------------
(* Exchanges of one token *)

\* The refreshes that have found t in order.
Exchanging(t) ==
  {o \in Op : /\ pc[o] \in {"user", "updating", "committing"}
              /\ Kind(o) = "REFRESH" /\ req[o].token = t}

\* Each of them may yet replace t, and nobody else may once t is replaced.
OverlapInv ==
  \A t \in Token :
    Cardinality(Children(t)) + Cardinality(Exchanging(t)) <= Cardinality(Op)

LEMMA FiniteOverlap ==
  /\ Cardinality(Op) \in Nat
  /\ \A t \in Token : /\ IsFiniteSet(Children(t)) /\ Cardinality(Children(t)) \in Nat
                      /\ IsFiniteSet(Exchanging(t)) /\ Cardinality(Exchanging(t)) \in Nat
                      /\ Cardinality(Exchanging(t)) <= Cardinality(Op)
<1>1. ASSUME NEW t \in Token
      PROVE  /\ IsFiniteSet(Children(t)) /\ IsFiniteSet(Exchanging(t))
             /\ Cardinality(Exchanging(t)) <= Cardinality(Op)
  <2>1. IsFiniteSet(1 .. MaxTokens)
    BY MaxTokensAssumption, FS_Interval
  <2>2. Children(t) \in SUBSET (1 .. MaxTokens) /\ Exchanging(t) \in SUBSET Op
    BY DEF Children, Exchanging, Token
  <2> QED
    BY <2>1, <2>2, OpAssumption, FS_Subset
<1> QED
  BY <1>1, OpAssumption, FS_CardinalityType

\* No token is replaced, and no refresh finds one in order.
LEMMA FewerOverlap ==
  ASSUME OverlapInv, NEW t \in Token,
         Children(t)' \subseteq Children(t), Exchanging(t)' \subseteq Exchanging(t)
  PROVE  Cardinality(Children(t))' + Cardinality(Exchanging(t))' <= Cardinality(Op)
<1>1. /\ Cardinality(Children(t))' <= Cardinality(Children(t)) /\ Cardinality(Children(t))' \in Nat
      /\ Cardinality(Exchanging(t))' <= Cardinality(Exchanging(t))
      /\ Cardinality(Exchanging(t))' \in Nat
  <2>1. IsFiniteSet(Children(t)) /\ IsFiniteSet(Exchanging(t))
    BY FiniteOverlap
  <2>2. Children(t)' \in SUBSET Children(t) /\ Exchanging(t)' \in SUBSET Exchanging(t)
    OBVIOUS
  <2> QED
    BY <2>1, <2>2, FS_Subset, FS_CardinalityType
<1> QED
  BY <1>1, FiniteOverlap DEF OverlapInv

LEMMA NextKeepsOverlapInv ==
  ASSUME IInv, IInv', [Next]_vars, OverlapInv
  PROVE  OverlapInv'
<1> SUFFICES ASSUME NEW t \in Token
             PROVE  Cardinality(Children(t))' + Cardinality(Exchanging(t))' <= Cardinality(Op)
  BY DEF OverlapInv
<1> USE DEF IInv
<1>1. CASE UNCHANGED vars
  <2>1. Children(t)' = Children(t) /\ Exchanging(t)' = Exchanging(t)
    BY <1>1 DEF vars, account, locals, Children, Exchanging, Kind
  <2> QED
    BY <2>1, FewerOverlap
<1>2. ASSUME NEW o \in Op, parent' = parent, o \notin Exchanging(t)',
             \A p \in Op : p # o => pc'[p] = pc[p] /\ req'[p] = req[p]
      PROVE  Cardinality(Children(t))' + Cardinality(Exchanging(t))' <= Cardinality(Op)
  <2>1. Children(t)' = Children(t) /\ Exchanging(t)' \subseteq Exchanging(t)
    BY <1>2 DEF Children, Exchanging, Kind
  <2> QED
    BY <2>1, FewerOverlap
<1>3. ASSUME NEW o \in Op, Start(o)
      PROVE  Cardinality(Children(t))' + Cardinality(Exchanging(t))' <= Cardinality(Op)
  <2>1. PICK request \in Request :
          /\ req' = [req EXCEPT ![o] = request]
          /\ pc' = [pc EXCEPT ![o] =
               CASE request.kind \in {"REFRESH", "LOGOUT"} -> "find"
                 [] request.kind = "DELETE" -> "locking"
                 [] OTHER -> "user"]
    BY <1>3 DEF Start
  <2>2. request.kind = "REFRESH" => pc'[o] = "find"
    BY <2>1 DEF TypeOK
  <2>3. parent' = parent /\ o \notin Exchanging(t)'
    BY <1>3, <2>1, <2>2 DEF Start, account, Exchanging, Kind, TypeOK
  <2>4. \A p \in Op : p # o => pc'[p] = pc[p] /\ req'[p] = req[p]
    BY <2>1 DEF TypeOK
  <2> QED
    BY <1>2, <2>3, <2>4
<1>4. ASSUME NEW o \in Op, End(o), UNCHANGED account
      PROVE  Cardinality(Children(t))' + Cardinality(Exchanging(t))' <= Cardinality(Op)
  <2>1. pc'[o] = "idle" /\ \A p \in Op : p # o => pc'[p] = pc[p] /\ req'[p] = req[p]
    BY <1>4, EndForgets
  <2> QED
    BY <1>2, <1>4, <2>1 DEF account, Exchanging
<1>5. ASSUME NEW o \in Op, FindToken(o)
      PROVE  Cardinality(Children(t))' + Cardinality(Exchanging(t))' <= Cardinality(Op)
  <2>1. CASE o \in Exchanging(t)'
    <3>1. token[t] = "live" /\ parent' = parent
      BY <1>5, <2>1 DEF FindToken, IsUsable, Exchanging, account
    <3>2. Children(t)' = {}
      BY <3>1 DEF ExchangedIsRevoked, Children
    <3>3. Cardinality(Children(t)') = 0
      BY <3>2, FS_EmptySet
    <3>4. Exchanging(t)' \in SUBSET Op
      BY DEF Exchanging
    <3>5. Cardinality(Exchanging(t)') <= Cardinality(Op) /\ Cardinality(Exchanging(t)') \in Nat
      BY <3>4, OpAssumption, FS_Subset, FS_CardinalityType
    <3> QED
      BY <3>3, <3>5
  <2>2. CASE o \notin Exchanging(t)'
    <3>1. parent' = parent /\ \A p \in Op : p # o => pc'[p] = pc[p] /\ req'[p] = req[p]
      BY <1>5 DEF FindToken, account, TypeOK
    <3> QED
      BY <1>2, <2>2, <3>1
  <2> QED
    BY <2>1, <2>2
<1>6. ASSUME NEW o \in Op,
             ReadUser(o) \/ ListTokens(o) \/ LockUser(o) \/ UpdateToken(o) \/ Insert(o)
      PROVE  Cardinality(Children(t))' + Cardinality(Exchanging(t))' <= Cardinality(Op)
  <2>1. Children(t)' = Children(t)
    BY <1>6 DEF ReadUser, ListTokens, LockUser, UpdateToken, Insert, account, Children
  <2>2. Exchanging(t)' \subseteq Exchanging(t)
    <3>1. req' = req /\ \A p \in Op : p # o => pc'[p] = pc[p]
      BY <1>6, Zenon DEF ReadUser, ListTokens, LockUser, UpdateToken, Insert, TypeOK
    <3>2. Kind(o) = "REFRESH" => pc[o] \in {"user", "updating", "committing"}
      <4>1. pc[o] # "idle" /\ pc[o] # "find"
        BY <1>6 DEF ReadUser, ListTokens, LockUser, UpdateToken, Insert, ReadyToInsert
      <4> QED
        BY <4>1, UnderWay DEF Course
    <3> QED
      BY <3>1, <3>2 DEF Exchanging, Kind
  <2> QED
    BY <2>1, <2>2, FewerOverlap
<1>7. ASSUME NEW o \in Op, Commit(o)
      PROVE  Cardinality(Children(t))' + Cardinality(Exchanging(t))' <= Cardinality(Op)
  <2>1. /\ pc[o] # "idle" /\ pc'[o] = "idle"
        /\ \A p \in Op : p # o => pc'[p] = pc[p] /\ req'[p] = req[p]
    <3>1. pc[o] # "idle" /\ End(o)
      BY <1>7, CommittedTokens DEF Commit
    <3> QED
      BY <3>1, EndForgets
  <2>2. Exchanging(t)' \subseteq Exchanging(t) \ {o}
    BY <2>1 DEF Exchanging, Kind
  <2>3. CASE o \in Exchanging(t)
    <3>1. parent' = [parent EXCEPT ![inserted[o]] = req[o].token]
      BY <1>7, <2>3 DEF Commit, Exchanging
    <3>2. Children(t)' \subseteq Children(t) \cup {inserted[o]}
      BY <3>1 DEF Children, TypeOK
    <3>3. /\ Cardinality(Exchanging(t) \ {o}) = Cardinality(Exchanging(t)) - 1
          /\ IsFiniteSet(Exchanging(t) \ {o})
      BY <2>3, FiniteOverlap, FS_RemoveElement
    <3>4. /\ Cardinality(Children(t) \cup {inserted[o]}) <= Cardinality(Children(t)) + 1
          /\ IsFiniteSet(Children(t) \cup {inserted[o]})
      BY FiniteOverlap, FS_AddElement
    <3>5. /\ Cardinality(Exchanging(t)') <= Cardinality(Exchanging(t) \ {o})
          /\ Cardinality(Exchanging(t)') \in Nat
      BY <2>2, <3>3, FS_Subset, FS_CardinalityType
    <3>6. /\ Cardinality(Children(t)') <= Cardinality(Children(t) \cup {inserted[o]})
          /\ Cardinality(Children(t)') \in Nat
      BY <3>2, <3>4, FS_Subset, FS_CardinalityType
    <3>7. Cardinality(Children(t) \cup {inserted[o]}) \in Nat
      BY <3>4, FS_CardinalityType
    <3> QED
      BY <3>3, <3>4, <3>5, <3>6, <3>7, FiniteOverlap DEF OverlapInv
  <2>4. CASE o \notin Exchanging(t)
    <3>1. Children(t)' \subseteq Children(t)
      <4>1. CASE Kind(o) # "REFRESH"
        BY <1>7, <4>1 DEF Commit, Children
      <4>2. CASE Kind(o) = "REFRESH"
        <5>1. pc[o] = "committing"
          BY <1>7, <4>2 DEF Commit, ReadyToCommit
        <5>2. req[o].token # t
          BY <2>4, <4>2, <5>1 DEF Exchanging
        <5>3. parent' = [parent EXCEPT ![inserted[o]] = req[o].token]
          BY <1>7, <4>2 DEF Commit
        <5> QED
          BY <5>2, <5>3 DEF Children, TypeOK
      <4> QED
        BY <4>1, <4>2
    <3> QED
      BY <2>2, <3>1, FewerOverlap
  <2> QED
    BY <2>3, <2>4
<1>8. ASSUME NEW o \in Op, \/ TokenRefused(o) \/ UserRefused(o) \/ LockedForNothing(o)
                           \/ GiveUp(o) \/ Abort(o)
      PROVE  Cardinality(Children(t))' + Cardinality(Exchanging(t))' <= Cardinality(Op)
  <2>1. End(o) /\ UNCHANGED account
    BY <1>8 DEF TokenRefused, UserRefused, LockedForNothing, GiveUp, Abort
  <2> QED
    BY <1>4, <2>1
<1>9. CASE Next
  BY <1>3, <1>5, <1>6, <1>7, <1>8, <1>9 DEF Next, Run
<1> QED
  BY <1>1, <1>9

\* However often a client repeats a refresh, its token is exchanged no more often than
\* requests were under way together: the first rotation stops all later ones
\* (auth/service.py:150-153).
THEOREM ReplaysAreRefused == Spec => []ExchangesOverlap
<1>1. Init => IInv /\ OverlapInv
  <2> SUFFICES ASSUME Init, NEW t \in Token
               PROVE  Cardinality(Children(t)) + Cardinality(Exchanging(t)) <= Cardinality(Op)
    BY InitIInv DEF OverlapInv
  <2>1. Children(t) = {}
    BY NoTokenAssumption DEF Init, Children
  <2> QED
    BY <2>1, FiniteOverlap, FS_EmptySet
<1>2. IInv /\ OverlapInv /\ [Next]_vars => (IInv /\ OverlapInv)'
  BY NextKeepsIInv, NextKeepsOverlapInv
<1>3. OverlapInv => ExchangesOverlap
  BY FiniteOverlap DEF OverlapInv, ExchangesOverlap
<1> QED
  BY <1>1, <1>2, <1>3, PTL DEF Spec
=============================================================================
