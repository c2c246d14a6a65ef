-------------------------- MODULE OnboardingProofs --------------------------
(***************************************************************************)
(* Proofs about Onboarding for any number of requests and links: a link is *)
(* redeemed once, a superseded one is dead, an administrator who is not    *)
(* verified has a live link in the mail, and no requests wait in a circle. *)
(***************************************************************************)
EXTENDS Onboarding, FiniteSetTheorems, WellFoundedInduction, TLAPS

\* The statements that a request of each kind goes through.
Course(kind) ==
  CASE kind = "SIGNUP" -> {"slug", "inserting", "mailing", "committing"}
    [] kind = "RESEND" -> {"account", "update", "consuming", "mailing", "committing"}
    [] kind = "VERIFY" -> {"claiming", "user", "activating", "committing"}

\* Between two requests nothing is held.
IdleInv(o) ==
  pc[o] = "idle" => todo[o] = {} /\ marked[o] = {} /\ issued[o] = NoLink

CourseInv(o) ==
  pc[o] # "idle" => req[o] \in Request /\ pc[o] \in Course(Kind(o))

\* Sign-ups and resends issue a link; it is mailed before it is committed.
IssuedInv(o) ==
  /\ issued[o] # NoLink <=> /\ pc[o] \in {"mailing", "committing"}
                            /\ Kind(o) # "VERIFY"
  /\ issued[o] # NoLink => /\ link[issued[o]] = "none"
                           /\ pc[o] = "committing" => issued[o] \in mailed

\* What a request has consumed is live until it commits.
MarkedInv(o) ==
  /\ \A l \in marked[o] : link[l] = "live"
  /\ \A l \in todo[o] : link[l] # "none"
  /\ pc[o] # "idle" /\ Kind(o) = "SIGNUP" => marked[o] = {}
  /\ pc[o] # "idle" /\ Kind(o) # "RESEND" => todo[o] = {}
  /\ pc[o] \in {"user", "activating", "committing"} /\ Kind(o) = "VERIFY" =>
       req[o].link \in marked[o]

\* A resend consumes whatever was there when it began, or somebody else has.
KnownInv(o) ==
  /\ \A l \in known[o] : link[l] # "none"
  /\ pc[o] \in {"consuming", "mailing", "committing"} /\ Kind(o) = "RESEND" =>
       \A l \in known[o] : link[l] = "consumed" \/ l \in todo[o] \cup marked[o]
  /\ pc[o] \in {"mailing", "committing"} => todo[o] = {}

OwnInv(o) ==
  IdleInv(o) /\ CourseInv(o) /\ IssuedInv(o) /\ MarkedInv(o) /\ KnownInv(o)

\* Row locks, and links that are drawn at random.
Exclusive ==
  \A o, p \in Op : o # p =>
    /\ marked[o] \cap marked[p] = {}
    /\ issued[o] # NoLink => issued[o] # issued[p]

\* A redeemed link is consumed; a link that is not committed supersedes none.
HistoryInv ==
  \A l \in Link :
    /\ activations[l] \in {0, 1}
    /\ activations[l] # 0 => link[l] = "consumed"
    /\ link[l] = "none" => supersedes[l] = {}

IInv ==
  /\ TypeOK /\ \A o \in Op : OwnInv(o)
  /\ Exclusive /\ HistoryInv /\ SupersededIsDead /\ NobodyIsStranded

-----------------------------------------------------------------------------
(* What one request does to another *)

\* No link is committed, and p does nothing.
LEMMA BystanderKeeps ==
  ASSUME IInv, NEW p \in Op, link' = link, mailed \subseteq mailed',
         pc'[p] = pc[p], req'[p] = req[p], known'[p] = known[p],
         todo'[p] = todo[p], marked'[p] = marked[p], issued'[p] = issued[p]
  PROVE  OwnInv(p)'
<1>1. OwnInv(p) /\ Kind(p)' = Kind(p)
  BY DEF IInv, Kind
<1>2. IdleInv(p)' /\ CourseInv(p)' /\ IssuedInv(p)'
  BY <1>1 DEF OwnInv, IdleInv, CourseInv, IssuedInv
<1>3. MarkedInv(p)' /\ KnownInv(p)'
  BY <1>1 DEF OwnInv, MarkedInv, KnownInv
<1> QED
  BY <1>2, <1>3 DEF OwnInv

\* A step of o that commits nothing: what is left to show is about o.
LEMMA PlainStepKeepsIInv ==
  ASSUME IInv, NEW o \in Op, UNCHANGED committed, mailed \subseteq mailed',
         TypeOK', OwnInv(o)', Exclusive',
         \A p \in Op : p # o =>
           /\ pc'[p] = pc[p] /\ req'[p] = req[p] /\ known'[p] = known[p]
           /\ todo'[p] = todo[p] /\ marked'[p] = marked[p] /\ issued'[p] = issued[p]
  PROVE  IInv'
<1>1. /\ link' = link /\ tenants' = tenants /\ activations' = activations
      /\ supersedes' = supersedes
  BY DEF committed
<1>2. \A p \in Op : OwnInv(p)'
  <2>1. ASSUME NEW p \in Op, p # o PROVE OwnInv(p)'
    BY <1>1, <2>1, BystanderKeeps
  <2> QED
    BY <2>1
<1>3. HistoryInv' /\ SupersededIsDead'
  BY <1>1 DEF IInv, HistoryInv, SupersededIsDead
<1>4. NobodyIsStranded'
  BY <1>1 DEF IInv, NobodyIsStranded, Live, Verified
<1> QED
  BY <1>2, <1>3, <1>4 DEF IInv

\* After the end of a request there is nothing left of it.
LEMMA EndForgets ==
  ASSUME IInv, NEW o \in Op, End(o)
  PROVE  /\ \A p \in Op : p # o =>
              /\ pc'[p] = pc[p] /\ req'[p] = req[p] /\ known'[p] = known[p]
              /\ todo'[p] = todo[p] /\ marked'[p] = marked[p] /\ issued'[p] = issued[p]
         /\ pc' \in [Op -> PC] /\ req' \in [Op -> Request \cup {NoRequest}]
         /\ seen' \in [Op -> Status] /\ known' \in [Op -> SUBSET Link]
         /\ todo' \in [Op -> SUBSET Link] /\ marked' \in [Op -> SUBSET Link]
         /\ issued' \in [Op -> Link \cup {NoLink}]
         /\ OwnInv(o)' /\ Exclusive'
<1>1. TypeOK
  BY DEF IInv
<1>2. pc' \in [Op -> PC] /\ pc'[o] = "idle" /\ \A p \in Op : p # o => pc'[p] = pc[p]
  BY <1>1 DEF TypeOK, End, PC
<1>3. /\ req' \in [Op -> Request \cup {NoRequest}]
      /\ \A p \in Op : p # o => req'[p] = req[p]
  BY <1>1 DEF TypeOK, End
<1>4. /\ todo' \in [Op -> SUBSET Link] /\ todo'[o] = {}
      /\ marked' \in [Op -> SUBSET Link] /\ marked'[o] = {}
      /\ known' \in [Op -> SUBSET Link] /\ known'[o] = {}
      /\ \A p \in Op : p # o => /\ todo'[p] = todo[p] /\ marked'[p] = marked[p]
                                /\ known'[p] = known[p]
  BY <1>1 DEF TypeOK, End
<1>5. /\ issued' \in [Op -> Link \cup {NoLink}] /\ issued'[o] = NoLink
      /\ \A p \in Op : p # o => issued'[p] = issued[p]
  BY <1>1 DEF TypeOK, End
<1>6. seen' \in [Op -> Status]
  BY <1>1 DEF TypeOK, End, Status
<1>7. OwnInv(o)'
  BY <1>2, <1>4, <1>5 DEF OwnInv, IdleInv, CourseInv, IssuedInv, MarkedInv, KnownInv
<1>8. Exclusive'
  BY <1>4, <1>5 DEF IInv, Exclusive
<1> QED
  BY <1>2, <1>3, <1>4, <1>5, <1>6, <1>7, <1>8

\* A request that ends without a commit; its mail may have been sent.
LEMMA RollbackKeepsIInv ==
  ASSUME IInv, NEW o \in Op, End(o), UNCHANGED committed,
         mailed \subseteq mailed', mailed' \subseteq Link
  PROVE  IInv'
<1>1. TypeOK'
  BY EndForgets DEF IInv, TypeOK, committed
<1> QED
  BY <1>1, EndForgets, PlainStepKeepsIInv

-----------------------------------------------------------------------------
(* The steps of one request *)

LEMMA RequestTypes ==
  ASSUME NEW request \in Request
  PROVE  /\ request.kind \in {"SIGNUP", "RESEND", "VERIFY"}
         /\ request.kind = "VERIFY" => request.link \in Link
BY DEF Request

\* What is known of a request that is under way.
LEMMA UnderWay ==
  ASSUME IInv, NEW o \in Op, pc[o] # "idle"
  PROVE  /\ req[o] \in Request /\ pc[o] \in Course(Kind(o))
         /\ Kind(o) \in {"SIGNUP", "RESEND", "VERIFY"}
         /\ Kind(o) = "VERIFY" => req[o].link \in Link
<1>1. req[o] \in Request /\ pc[o] \in Course(Kind(o))
  BY DEF IInv, OwnInv, CourseInv
<1> QED
  BY <1>1, RequestTypes DEF Kind

LEMMA StartKeepsIInv == ASSUME IInv, NEW o \in Op, Start(o) PROVE IInv'
<1> PICK request \in Request :
      /\ pc[o] = "idle"
      /\ req' = [req EXCEPT ![o] = request]
      /\ pc' = [pc EXCEPT ![o] =
           CASE request.kind = "SIGNUP" -> "slug"
             [] request.kind = "RESEND" -> "account"
             [] request.kind = "VERIFY" -> "claiming"]
  BY DEF Start
<1>1. /\ known' = [known EXCEPT ![o] = {l \in Link : link[l] # "none"}]
      /\ UNCHANGED <<committed, mailed, seen, todo, marked, issued>>
  BY DEF Start
<1>2. link' = link
  BY <1>1 DEF committed
<1>3. TypeOK
  BY DEF IInv
<1>4. /\ pc' \in [Op -> PC]
      /\ pc'[o] = CASE request.kind = "SIGNUP" -> "slug"
                    [] request.kind = "RESEND" -> "account"
                    [] request.kind = "VERIFY" -> "claiming"
      /\ \A p \in Op : p # o => pc'[p] = pc[p]
  BY <1>3, RequestTypes DEF TypeOK, PC
<1>5. /\ req' \in [Op -> Request \cup {NoRequest}] /\ req'[o] = request
      /\ \A p \in Op : p # o => req'[p] = req[p]
  BY <1>3 DEF TypeOK
<1>6. /\ known' \in [Op -> SUBSET Link] /\ known'[o] = {l \in Link : link[l] # "none"}
      /\ \A p \in Op : p # o => known'[p] = known[p]
  BY <1>1, <1>3 DEF TypeOK
<1>7. TypeOK'
  BY <1>1, <1>3, <1>4, <1>5, <1>6 DEF TypeOK, committed
<1>8. pc'[o] \in {"slug", "account", "claiming"} /\ pc'[o] \in Course(request.kind)
  BY <1>4, RequestTypes DEF Course
<1>9. todo[o] = {} /\ marked[o] = {} /\ issued[o] = NoLink
  BY DEF IInv, OwnInv, IdleInv
<1>10. IdleInv(o)' /\ CourseInv(o)' /\ IssuedInv(o)' /\ MarkedInv(o)' /\ KnownInv(o)'
  BY <1>1, <1>2, <1>5, <1>6, <1>8, <1>9
     DEF IdleInv, CourseInv, IssuedInv, MarkedInv, KnownInv, Kind
<1>11. Exclusive'
  BY <1>1 DEF IInv, Exclusive
<1> QED
  BY <1>1, <1>4, <1>5, <1>6, <1>7, <1>10, <1>11, PlainStepKeepsIInv DEF OwnInv

\* A step that moves on to a statement of the same request.
LEMMA MoveKeepsIInv ==
  ASSUME IInv, NEW o \in Op, NEW next \in Course(Kind(o)), pc[o] # "idle",
         pc' = [pc EXCEPT ![o] = next], next # "committing",
         next \in {"user", "activating"} => pc[o] \in {"user", "activating"},
         next \in {"consuming", "mailing"} => FALSE,
         pc[o] # "mailing",
         UNCHANGED <<committed, mailed, req, known, todo, marked, issued>>,
         seen' \in [Op -> Status], pc[o] # "committing"
  PROVE  IInv'
<1>1. link' = link
  BY DEF committed
<1>2. TypeOK
  BY DEF IInv
<1>3. next \in PC /\ next # "idle"
  BY UnderWay DEF Course, PC
<1>4. pc' \in [Op -> PC] /\ pc'[o] = next /\ \A p \in Op : p # o => pc'[p] = pc[p]
  BY <1>2, <1>3 DEF TypeOK
<1>5. TypeOK'
  BY <1>2, <1>4 DEF TypeOK, committed
<1>6. OwnInv(o)
  BY DEF IInv
<1>7. IdleInv(o)' /\ CourseInv(o)' /\ IssuedInv(o)'
  BY <1>1, <1>3, <1>4, <1>6 DEF OwnInv, IdleInv, CourseInv, IssuedInv, Kind
<1>8. MarkedInv(o)' /\ KnownInv(o)'
  BY <1>1, <1>3, <1>4, <1>6 DEF OwnInv, MarkedInv, KnownInv, Kind
<1>9. Exclusive'
  BY DEF IInv, Exclusive
<1> QED
  BY <1>4, <1>5, <1>7, <1>8, <1>9, PlainStepKeepsIInv DEF OwnInv

LEMMA FindsKeepIInv ==
  ASSUME IInv, NEW o \in Op, FindSlug(o) \/ FindAccount(o) \/ ReadUser(o)
  PROVE  IInv'
<1>1. TypeOK
  BY DEF IInv
<1>2. CASE FindSlug(o)
  <2>1. pc[o] = "slug" /\ "inserting" \in Course(Kind(o)) /\ seen' \in [Op -> Status]
    BY <1>1, <1>2, UnderWay DEF FindSlug, Course, TypeOK
  <2> QED
    BY <1>2, <2>1, MoveKeepsIInv DEF FindSlug
<1>3. CASE FindAccount(o)
  <2>1. pc[o] = "account" /\ "update" \in Course(Kind(o)) /\ seen' \in [Op -> Status]
    BY <1>1, <1>3, UnderWay DEF FindAccount, Course, TypeOK
  <2> QED
    BY <1>3, <2>1, MoveKeepsIInv DEF FindAccount
<1>4. CASE ReadUser(o)
  <2>1. pc[o] = "user" /\ "activating" \in Course(Kind(o)) /\ seen' \in [Op -> Status]
    BY <1>1, <1>4, UnderWay DEF ReadUser, Course, TypeOK
  <2> QED
    BY <1>4, <2>1, MoveKeepsIInv DEF ReadUser
<1> QED
  BY <1>2, <1>3, <1>4

\* The snapshot has every link that is live, and known ones that are not are consumed.
LEMMA StartConsumingKeepsIInv == ASSUME IInv, NEW o \in Op, StartConsuming(o) PROVE IInv'
<1>1. /\ pc[o] = "update" /\ pc' = [pc EXCEPT ![o] = "consuming"]
      /\ todo' = [todo EXCEPT ![o] = Live]
      /\ UNCHANGED <<committed, mailed, req, seen, known, marked, issued>>
  BY DEF StartConsuming
<1>2. link' = link /\ TypeOK /\ Kind(o) = "RESEND"
  BY <1>1, UnderWay DEF committed, IInv, Course
<1>3. /\ pc' \in [Op -> PC] /\ todo' \in [Op -> SUBSET Link]
      /\ pc'[o] = "consuming" /\ todo'[o] = Live
      /\ \A p \in Op : p # o => pc'[p] = pc[p] /\ todo'[p] = todo[p]
  BY <1>1, <1>2 DEF TypeOK, PC, Live
<1>4. TypeOK'
  BY <1>1, <1>2, <1>3 DEF TypeOK, committed
<1>5. OwnInv(o)
  BY DEF IInv
<1>6. IdleInv(o)' /\ CourseInv(o)' /\ IssuedInv(o)' /\ MarkedInv(o)'
  BY <1>1, <1>2, <1>3, <1>5
     DEF OwnInv, IdleInv, CourseInv, IssuedInv, MarkedInv, Kind, Course, Live
<1>7. \A l \in known[o] : link[l] = "consumed" \/ l \in Live
  BY <1>2, <1>5 DEF OwnInv, KnownInv, TypeOK, LinkState, Live
<1>8. KnownInv(o)'
  BY <1>1, <1>2, <1>3, <1>5, <1>7 DEF OwnInv, KnownInv
<1>9. Exclusive'
  BY <1>1 DEF IInv, Exclusive
<1> QED
  BY <1>1, <1>3, <1>4, <1>6, <1>8, <1>9, PlainStepKeepsIInv DEF OwnInv

\* Either the link is still live and becomes this request's, or it was consumed.
LEMMA ConsumeKeepsIInv == ASSUME IInv, NEW o \in Op, Consume(o) PROVE IInv'
<1> PICK l \in todo[o] :
      /\ pc[o] = "consuming" /\ Holders(l) = {}
      /\ marked' = [marked EXCEPT ![o] = IF link[l] = "live" THEN @ \cup {l} ELSE @]
      /\ todo' = [todo EXCEPT ![o] = @ \ {l}]
  BY DEF Consume, NextLink
<1>1. UNCHANGED <<committed, mailed, pc, req, seen, known, issued>>
  BY DEF Consume
<1>2. link' = link /\ TypeOK /\ Kind(o) = "RESEND"
  BY <1>1, UnderWay DEF committed, IInv, Course
<1>3. l \in Link /\ link[l] \in {"live", "consumed"}
  BY <1>2 DEF IInv, OwnInv, MarkedInv, TypeOK, LinkState
<1>4. /\ todo' \in [Op -> SUBSET Link] /\ marked' \in [Op -> SUBSET Link]
      /\ todo'[o] = todo[o] \ {l}
      /\ marked'[o] = IF link[l] = "live" THEN marked[o] \cup {l} ELSE marked[o]
      /\ \A p \in Op : p # o => todo'[p] = todo[p] /\ marked'[p] = marked[p]
  BY <1>2, <1>3 DEF TypeOK
<1>5. TypeOK'
  BY <1>1, <1>2, <1>4 DEF TypeOK, committed
<1>6. OwnInv(o)
  BY DEF IInv
<1>7. IdleInv(o)' /\ CourseInv(o)' /\ IssuedInv(o)' /\ MarkedInv(o)'
  BY <1>1, <1>2, <1>4, <1>6
     DEF OwnInv, IdleInv, CourseInv, IssuedInv, MarkedInv, Kind
<1>8. KnownInv(o)'
  BY <1>1, <1>2, <1>3, <1>4, <1>6 DEF OwnInv, KnownInv, Kind
<1>9. \A p \in Op : l \notin marked[p]
  BY DEF Holders
<1>10. Exclusive'
  BY <1>1, <1>4, <1>9 DEF IInv, Exclusive
<1> QED
  BY <1>1, <1>4, <1>5, <1>7, <1>8, <1>10, PlainStepKeepsIInv DEF OwnInv

\* A new link is nobody else's, and is not committed.
LEMMA MakeKeepsIInv ==
  ASSUME IInv, NEW o \in Op, Make(o), pc' = [pc EXCEPT ![o] = "mailing"],
         pc[o] # "idle", Kind(o) # "VERIFY",
         Kind(o) = "RESEND" => pc[o] = "consuming", todo[o] = {},
         UNCHANGED <<committed, mailed, req, seen, known, todo, marked>>
  PROVE  IInv'
<1> PICK l \in Link : Unused(l) /\ issued' = [issued EXCEPT ![o] = l]
  BY DEF Make
<1>1. link' = link /\ TypeOK /\ NoLink \notin Link
  BY NoLinkAssumption DEF committed, IInv
<1>2. /\ pc' \in [Op -> PC] /\ issued' \in [Op -> Link \cup {NoLink}]
      /\ pc'[o] = "mailing" /\ issued'[o] = l
      /\ \A p \in Op : p # o => pc'[p] = pc[p] /\ issued'[p] = issued[p]
  BY <1>1 DEF TypeOK, PC
<1>3. TypeOK'
  BY <1>1, <1>2 DEF TypeOK, committed
<1>4. OwnInv(o) /\ Kind(o) \in {"SIGNUP", "RESEND"} /\ req[o] \in Request
  BY UnderWay DEF IInv
<1>5. link[l] = "none" /\ \A p \in Op : issued[p] # l
  BY DEF Unused
<1>6. IdleInv(o)' /\ CourseInv(o)' /\ IssuedInv(o)'
  BY <1>1, <1>2, <1>4, <1>5 DEF OwnInv, IdleInv, CourseInv, IssuedInv, Kind, Course
<1>7. MarkedInv(o)' /\ KnownInv(o)'
  BY <1>1, <1>2, <1>4 DEF OwnInv, MarkedInv, KnownInv, Kind
<1>8. Exclusive'
  BY <1>2, <1>5 DEF IInv, Exclusive
<1> QED
  BY <1>2, <1>3, <1>6, <1>7, <1>8, PlainStepKeepsIInv DEF OwnInv

LEMMA IssueKeepsIInv ==
  ASSUME IInv, NEW o \in Op, InsertTenant(o) \/ AddLink(o)
  PROVE  IInv'
<1>1. CASE InsertTenant(o)
  <2>1. pc[o] = "inserting" /\ Kind(o) = "SIGNUP"
    BY <1>1, UnderWay DEF InsertTenant, Course
  <2>2. todo[o] = {}
    BY <2>1 DEF IInv, OwnInv, MarkedInv
  <2> QED
    BY <1>1, <2>1, <2>2, MakeKeepsIInv DEF InsertTenant
<1>2. CASE AddLink(o)
  <2>1. pc[o] = "consuming" /\ Kind(o) = "RESEND"
    BY <1>2, UnderWay DEF AddLink, Course
  <2> QED
    BY <1>2, <2>1, MakeKeepsIInv DEF AddLink
<1> QED
  BY <1>1, <1>2

LEMMA SendMailKeepsIInv == ASSUME IInv, NEW o \in Op, SendMail(o) PROVE IInv'
<1>1. /\ pc[o] = "mailing" /\ mailed' = mailed \cup {issued[o]}
      /\ pc' = [pc EXCEPT ![o] = "committing"]
      /\ UNCHANGED <<committed, req, seen, known, todo, marked, issued>>
  BY DEF SendMail
<1>2. link' = link /\ TypeOK /\ Kind(o) \in {"SIGNUP", "RESEND"} /\ OwnInv(o)
  BY <1>1, UnderWay DEF committed, IInv, Course
<1>3. issued[o] \in Link
  BY <1>1, <1>2 DEF TypeOK, OwnInv, IssuedInv
<1>4. pc' \in [Op -> PC] /\ pc'[o] = "committing" /\ \A p \in Op : p # o => pc'[p] = pc[p]
  BY <1>1, <1>2 DEF TypeOK, PC
<1>5. TypeOK'
  BY <1>1, <1>2, <1>3, <1>4 DEF TypeOK, committed
<1>6. IdleInv(o)' /\ CourseInv(o)' /\ IssuedInv(o)'
  BY <1>1, <1>2, <1>4 DEF OwnInv, IdleInv, CourseInv, IssuedInv, Kind, Course
<1>7. MarkedInv(o)' /\ KnownInv(o)'
  BY <1>1, <1>2, <1>4 DEF OwnInv, MarkedInv, KnownInv, Kind
<1>8. Exclusive'
  BY <1>1 DEF IInv, Exclusive
<1> QED
  BY <1>1, <1>4, <1>5, <1>6, <1>7, <1>8, PlainStepKeepsIInv DEF OwnInv

\* The UPDATE has the row's lock and found it live.
LEMMA ClaimKeepsIInv == ASSUME IInv, NEW o \in Op, Claim(o) PROVE IInv'
<1>1. /\ pc[o] = "claiming" /\ req[o].link \in Live /\ Holders(req[o].link) = {}
      /\ marked' = [marked EXCEPT ![o] = {req[o].link}]
      /\ pc' = [pc EXCEPT ![o] = "user"]
      /\ UNCHANGED <<committed, mailed, req, seen, known, todo, issued>>
  BY DEF Claim
<1>2. link' = link /\ TypeOK /\ Kind(o) = "VERIFY" /\ req[o].link \in Link
  BY <1>1, UnderWay DEF committed, IInv, Course
<1>3. /\ pc' \in [Op -> PC] /\ marked' \in [Op -> SUBSET Link]
      /\ pc'[o] = "user" /\ marked'[o] = {req[o].link}
      /\ \A p \in Op : p # o => pc'[p] = pc[p] /\ marked'[p] = marked[p]
  BY <1>1, <1>2 DEF TypeOK, PC
<1>4. TypeOK'
  BY <1>1, <1>2, <1>3 DEF TypeOK, committed
<1>5. OwnInv(o)
  BY DEF IInv
<1>6. IdleInv(o)' /\ CourseInv(o)' /\ IssuedInv(o)'
  BY <1>1, <1>2, <1>3, <1>5 DEF OwnInv, IdleInv, CourseInv, IssuedInv, Kind, Course
<1>7. MarkedInv(o)' /\ KnownInv(o)'
  BY <1>1, <1>2, <1>3, <1>5 DEF OwnInv, MarkedInv, KnownInv, Kind, Live
<1>8. \A p \in Op : req[o].link \notin marked[p]
  BY <1>1 DEF Holders
<1>9. Exclusive'
  BY <1>1, <1>3, <1>8 DEF IInv, Exclusive
<1> QED
  BY <1>1, <1>3, <1>4, <1>6, <1>7, <1>9, PlainStepKeepsIInv DEF OwnInv

LEMMA ActivateKeepsIInv == ASSUME IInv, NEW o \in Op, Activate(o) PROVE IInv'
<1>1. /\ pc[o] = "activating" /\ pc' = [pc EXCEPT ![o] = "committing"]
      /\ UNCHANGED <<committed, mailed, req, seen, known, todo, marked, issued>>
  BY DEF Activate
<1>2. link' = link /\ TypeOK /\ Kind(o) = "VERIFY" /\ OwnInv(o)
  BY <1>1, UnderWay DEF committed, IInv, Course
<1>3. pc' \in [Op -> PC] /\ pc'[o] = "committing" /\ \A p \in Op : p # o => pc'[p] = pc[p]
  BY <1>1, <1>2 DEF TypeOK, PC
<1>4. TypeOK'
  BY <1>1, <1>2, <1>3 DEF TypeOK, committed
<1>5. IdleInv(o)' /\ CourseInv(o)' /\ IssuedInv(o)'
  BY <1>1, <1>2, <1>3 DEF OwnInv, IdleInv, CourseInv, IssuedInv, Kind, Course
<1>6. MarkedInv(o)' /\ KnownInv(o)'
  <2>1. marked'[o] = marked[o] /\ todo'[o] = todo[o] /\ known'[o] = known[o] /\ Kind(o)' = Kind(o)
    BY <1>1 DEF Kind
  <2>2. MarkedInv(o)'
    BY <1>1, <1>2, <1>3, <2>1 DEF OwnInv, MarkedInv
  <2>3. todo[o] = {}
    BY <1>1, <1>2 DEF OwnInv, MarkedInv
  <2>4. KnownInv(o)'
    BY <1>1, <1>2, <1>3, <2>1, <2>3 DEF OwnInv, KnownInv
  <2> QED
    BY <2>2, <2>4
<1>7. Exclusive'
  BY <1>1 DEF IInv, Exclusive
<1> QED
  BY <1>1, <1>3, <1>4, <1>5, <1>6, <1>7, PlainStepKeepsIInv DEF OwnInv

-----------------------------------------------------------------------------
(* The commit *)

\* It commits the link that was issued and consumes those that were marked.
LEMMA CommittedLinks ==
  ASSUME IInv, NEW o \in Op, Commit(o)
  PROVE  /\ pc[o] = "committing" /\ issued[o] \in Link \cup {NoLink}
         /\ link' \in [Link -> LinkState]
         /\ \A l \in Link : /\ l = issued[o] => link[l] = "none" /\ link'[l] = "live"
                            /\ l \in marked[o] => link[l] = "live" /\ link'[l] = "consumed"
                            /\ l # issued[o] /\ l \notin marked[o] => link'[l] = link[l]
                            /\ link[l] = "consumed" => link'[l] = "consumed"
                            /\ link[l] # "none" => link'[l] # "none"
<1>1. pc[o] = "committing" /\ link' = [l \in Link |-> LinkAfter(o, l)]
  BY DEF Commit
<1>2. issued[o] \in Link \cup {NoLink} /\ link \in [Link -> LinkState]
  BY DEF IInv, TypeOK
<1>3. \A l \in Link : l = issued[o] => link[l] = "none"
  BY NoLinkAssumption DEF IInv, OwnInv, IssuedInv
<1>4. \A l \in Link : l \in marked[o] => link[l] = "live"
  BY DEF IInv, OwnInv, MarkedInv
<1>5. \A l \in Link : /\ l = issued[o] => link'[l] = "live"
                      /\ l \in marked[o] => link'[l] = "consumed"
                      /\ l # issued[o] /\ l \notin marked[o] => link'[l] = link[l]
  <2> TAKE l \in Link
  <2>1. link'[l] = LinkAfter(o, l)
    BY <1>1
  <2> QED
    BY <1>3, <1>4, <2>1 DEF LinkAfter
<1>6. \A l \in Link : link'[l] \in LinkState
  BY <1>2, <1>5 DEF LinkState
<1> QED
  BY <1>1, <1>2, <1>3, <1>4, <1>5, <1>6

\* A verification redeems a link that it holds.
LEMMA RedeemsItsOwn ==
  ASSUME IInv, NEW o \in Op, Commit(o), Kind(o) = "VERIFY"
  PROVE  req[o].link \in Link /\ req[o].link \in marked[o] /\ activations[req[o].link] = 0
<1>1. pc[o] = "committing"
  BY DEF Commit
<1>2. req[o].link \in Link /\ req[o].link \in marked[o]
  BY <1>1, UnderWay DEF IInv, OwnInv, MarkedInv
<1>3. link[req[o].link] = "live"
  BY <1>2 DEF IInv, OwnInv, MarkedInv
<1> QED
  BY <1>2, <1>3 DEF IInv, HistoryInv

LEMMA CommitKeepsIInv == ASSUME IInv, NEW o \in Op, Commit(o) PROVE IInv'
<1>1. End(o) /\ mailed' = mailed /\ pc[o] = "committing"
  BY DEF Commit
<1>2. TypeOK /\ NoLink \notin Link /\ OwnInv(o)
  BY NoLinkAssumption DEF IInv
<1>3. /\ Kind(o) \in {"SIGNUP", "RESEND", "VERIFY"}
      /\ Kind(o) # "VERIFY" => issued[o] \in Link /\ issued[o] \in mailed
  BY <1>1, <1>2, UnderWay DEF TypeOK, OwnInv, IssuedInv
<1>4. /\ activations' \in [Link -> Nat]
      /\ \A l \in Link : \/ activations'[l] = activations[l]
                         \/ /\ Kind(o) = "VERIFY" /\ l \in marked[o]
                            /\ activations[l] = 0 /\ activations'[l] = 1
  <2>1. CASE Kind(o) = "VERIFY"
    <3>1. activations' = [activations EXCEPT ![req[o].link] = @ + 1]
      BY <2>1 DEF Commit
    <3>2. activations \in [Link -> Nat]
      BY <1>2 DEF TypeOK
    <3> QED
      BY <2>1, <3>1, <3>2, RedeemsItsOwn
  <2>2. CASE Kind(o) # "VERIFY"
    BY <1>2, <2>2 DEF Commit, TypeOK
  <2> QED
    BY <2>1, <2>2
<1>5. /\ supersedes' \in [Link -> SUBSET Link]
      /\ \A l \in Link : \/ supersedes'[l] = supersedes[l]
                         \/ Kind(o) = "RESEND" /\ l = issued[o] /\ supersedes'[l] = known[o]
  <2>1. known[o] \in SUBSET Link
    BY <1>2 DEF TypeOK
  <2>2. CASE Kind(o) = "RESEND"
    BY <1>2, <1>3, <2>1, <2>2 DEF Commit, TypeOK
  <2>3. CASE Kind(o) # "RESEND"
    BY <1>2, <2>3 DEF Commit, TypeOK
  <2> QED
    BY <2>2, <2>3
<1>6. TypeOK'
  <2>1. tenants' \in Nat /\ status' \in Status
    BY <1>2 DEF Commit, TypeOK, Status
  <2> QED
    BY <1>1, <1>2, <1>4, <1>5, <2>1, CommittedLinks, EndForgets DEF TypeOK
<1>7. HistoryInv'
  <2> SUFFICES ASSUME NEW l \in Link
               PROVE  /\ activations'[l] \in {0, 1}
                      /\ activations'[l] # 0 => link'[l] = "consumed"
                      /\ link'[l] = "none" => supersedes'[l] = {}
    BY DEF HistoryInv
  <2>1. /\ activations[l] \in {0, 1} /\ (activations[l] # 0 => link[l] = "consumed")
        /\ link[l] = "none" => supersedes[l] = {}
    BY DEF IInv, HistoryInv
  <2>2. activations'[l] \in {0, 1} /\ (activations'[l] # 0 => link'[l] = "consumed")
    BY <1>4, <2>1, CommittedLinks
  <2>3. link'[l] = "none" => l # issued[o] /\ link[l] = "none"
    BY CommittedLinks
  <2> QED
    BY <1>5, <2>1, <2>2, <2>3
<1>8. SupersededIsDead'
  <2> SUFFICES ASSUME NEW m \in Link, link'[m] # "none", NEW l \in supersedes'[m]
               PROVE  link'[l] = "consumed"
    BY DEF SupersededIsDead
  <2>1. CASE supersedes'[m] = supersedes[m]
    <3>1. link[m] # "none"
      BY <2>1 DEF IInv, HistoryInv
    <3>2. l \in Link /\ link[l] = "consumed"
      BY <1>2, <2>1, <3>1 DEF IInv, SupersededIsDead, TypeOK
    <3> QED
      BY <3>2, CommittedLinks
  <2>2. CASE Kind(o) = "RESEND" /\ supersedes'[m] = known[o]
    <3>1. l \in Link /\ (link[l] = "consumed" \/ l \in marked[o])
      BY <1>1, <1>2, <2>2 DEF OwnInv, KnownInv, TypeOK
    <3> QED
      BY <3>1, CommittedLinks
  <2> QED
    BY <1>5, <2>1, <2>2
<1>9. NobodyIsStranded'
  <2> SUFFICES ASSUME ~Verified' PROVE \E l \in Link : link'[l] = "live" /\ l \in mailed
    <3>1. Live' = {l \in Link : link'[l] = "live"}
      BY DEF Live
    <3> QED
      BY <1>1, <3>1 DEF NobodyIsStranded
  <2>1. Kind(o) # "VERIFY"
    <3> SUFFICES ASSUME Kind(o) = "VERIFY" PROVE Verified'
      OBVIOUS
    <3>1. activations'[req[o].link] = activations[req[o].link] + 1
      BY <1>2, RedeemsItsOwn DEF Commit, TypeOK
    <3>2. activations'[req[o].link] > 0 /\ req[o].link \in Link
      BY <3>1, RedeemsItsOwn
    <3> QED
      BY <3>2 DEF Verified
  <2> QED
    BY <1>3, <2>1, CommittedLinks
<1>10. ASSUME NEW p \in Op, p # o PROVE OwnInv(p)'
  <2>1. /\ pc'[p] = pc[p] /\ req'[p] = req[p] /\ known'[p] = known[p]
        /\ todo'[p] = todo[p] /\ marked'[p] = marked[p] /\ issued'[p] = issued[p]
        /\ Kind(p)' = Kind(p)
    BY <1>1, <1>10, EndForgets DEF Kind
  <2>2. OwnInv(p)
    BY DEF IInv
  <2>3. /\ known[p] \subseteq Link /\ todo[p] \subseteq Link /\ marked[p] \subseteq Link
        /\ issued[p] \in Link \cup {NoLink}
    BY <1>2 DEF TypeOK
  <2>4. IdleInv(p)' /\ CourseInv(p)'
    BY <2>1, <2>2 DEF OwnInv, IdleInv, CourseInv
  <2>5. IssuedInv(p)'
    <3>1. issued[p] # NoLink => link'[issued[p]] = "none"
      <4> SUFFICES ASSUME issued[p] # NoLink PROVE link'[issued[p]] = "none"
        OBVIOUS
      <4>1. issued[p] \in Link /\ link[issued[p]] = "none" /\ issued[p] # issued[o]
        BY <1>10, <2>2, <2>3 DEF OwnInv, IssuedInv, IInv, Exclusive
      <4> QED
        BY <4>1, CommittedLinks
    <3> QED
      BY <1>1, <2>1, <2>2, <3>1 DEF OwnInv, IssuedInv
  <2>6. MarkedInv(p)'
    <3>1. \A l \in marked[p] : link'[l] = "live"
      <4> TAKE l \in marked[p]
      <4>1. l \in Link /\ link[l] = "live" /\ l \notin marked[o]
        BY <1>10, <2>2, <2>3 DEF OwnInv, MarkedInv, IInv, Exclusive
      <4> QED
        BY <4>1, CommittedLinks
    <3>2. \A l \in todo[p] : link'[l] # "none"
      BY <2>2, <2>3, CommittedLinks DEF OwnInv, MarkedInv
    <3> QED
      BY <2>1, <2>2, <3>1, <3>2 DEF OwnInv, MarkedInv
  <2>7. KnownInv(p)'
    <3>1. \A l \in known[p] : /\ link'[l] # "none"
                              /\ link[l] = "consumed" => link'[l] = "consumed"
      BY <2>2, <2>3, CommittedLinks DEF OwnInv, KnownInv
    <3> QED
      BY <2>1, <2>2, <3>1 DEF OwnInv, KnownInv
  <2> QED
    BY <2>4, <2>5, <2>6, <2>7 DEF OwnInv
<1> QED
  BY <1>1, <1>6, <1>7, <1>8, <1>9, <1>10, EndForgets DEF IInv

-----------------------------------------------------------------------------

LEMMA UnchangedKeepsIInv ==
  ASSUME IInv, UNCHANGED <<link, activations, supersedes, mailed, locals>>, TypeOK',
         NobodyIsStranded'
  PROVE  IInv'
<1>1. /\ pc' = pc /\ req' = req /\ seen' = seen /\ known' = known /\ todo' = todo
      /\ marked' = marked /\ issued' = issued
  BY DEF locals
<1>2. \A p \in Op : OwnInv(p)'
  BY <1>1, BystanderKeeps
<1>3. Exclusive' /\ HistoryInv' /\ SupersededIsDead'
  BY <1>1 DEF IInv, Exclusive, HistoryInv, SupersededIsDead
<1> QED
  BY <1>2, <1>3 DEF IInv

LEMMA NextKeepsIInv == ASSUME IInv, [Next]_vars PROVE IInv'
<1>1. CASE UNCHANGED vars
  <2>1. /\ UNCHANGED <<link, activations, supersedes, mailed, locals>>
        /\ tenants' = tenants /\ status' = status
    BY <1>1 DEF vars, committed
  <2>2. TypeOK' /\ NobodyIsStranded'
    BY <2>1 DEF locals, IInv, TypeOK, NobodyIsStranded, Live, Verified
  <2> QED
    BY <2>1, <2>2, UnchangedKeepsIInv
<1>2. CASE SetUserStatus
  <2>1. /\ UNCHANGED <<link, activations, supersedes, mailed, locals>>
        /\ tenants' = tenants /\ status' \in {"ACTIVE", "INACTIVE"} /\ Verified
    BY <1>2 DEF SetUserStatus
  <2>2. TypeOK'
    BY <2>1 DEF locals, IInv, TypeOK, Status
  <2>3. NobodyIsStranded'
    BY <2>1 DEF NobodyIsStranded, Verified
  <2> QED
    BY <2>1, <2>2, <2>3, UnchangedKeepsIInv
<1>3. ASSUME NEW o \in Op,
             \/ SlugTaken(o) \/ NoAccount(o) \/ MailFails(o) \/ ClaimRefused(o) \/ Abort(o)
      PROVE  IInv'
  <2>1. /\ End(o) /\ UNCHANGED committed
        /\ mailed' = mailed \/ MailFails(o)
    BY <1>3 DEF SlugTaken, NoAccount, MailFails, ClaimRefused, Abort
  <2>2. mailed \subseteq Link
    BY DEF IInv, TypeOK
  <2>3. CASE mailed' = mailed
    BY <2>1, <2>2, <2>3, RollbackKeepsIInv
  <2>4. CASE MailFails(o)
    <3>1. pc[o] = "mailing" /\ mailed' \in {mailed, mailed \cup {issued[o]}}
      BY <2>4 DEF MailFails
    <3>2. issued[o] \in Link
      BY <3>1, UnderWay DEF Course, IInv, OwnInv, IssuedInv, TypeOK
    <3> QED
      BY <2>1, <2>2, <3>1, <3>2, RollbackKeepsIInv
  <2> QED
    BY <2>1, <2>3, <2>4
<1>4. CASE \E o \in Op : Start(o) \/ Run(o) \/ Abort(o)
  BY <1>3, <1>4, StartKeepsIInv, FindsKeepIInv, StartConsumingKeepsIInv, ConsumeKeepsIInv,
     IssueKeepsIInv, SendMailKeepsIInv, ClaimKeepsIInv, ActivateKeepsIInv, CommitKeepsIInv
     DEF Run
<1> QED
  BY <1>1, <1>2, <1>4 DEF Next

LEMMA InitIInv == ASSUME Init PROVE IInv
<1>1. TypeOK
  BY DEF Init, TypeOK, Status, LinkState, PC
<1>2. \A o \in Op : OwnInv(o)
  BY DEF Init, OwnInv, IdleInv, CourseInv, IssuedInv, MarkedInv, KnownInv
<1>3. Exclusive /\ HistoryInv /\ SupersededIsDead /\ NobodyIsStranded
  BY DEF Init, Exclusive, HistoryInv, SupersededIsDead, NobodyIsStranded
<1> QED
  BY <1>1, <1>2, <1>3 DEF IInv

\* "Two concurrent redemptions of the same link can never both succeed"
\* (onboarding/service.py:158-161), for any number of requests that redeem and
\* supersede it: no link activates twice.
THEOREM LinksAreRedeemedOnce == Spec => []RedeemedOnce
<1>1. Init => IInv
  BY InitIInv
<1>2. IInv /\ [Next]_vars => IInv'
  BY NextKeepsIInv
<1>3. IInv => RedeemedOnce
  BY DEF IInv, HistoryInv, RedeemedOnce
<1> QED
  BY <1>1, <1>2, <1>3, PTL DEF Spec

\* A new link leaves none alive of those that were there when it was asked for
\* (onboarding/service.py:235-242).
THEOREM SupersededLinksAreDead == Spec => []SupersededIsDead
<1>1. Init => IInv
  BY InitIInv
<1>2. IInv /\ [Next]_vars => IInv'
  BY NextKeepsIInv
<1>3. IInv => SupersededIsDead
  BY DEF IInv
<1> QED
  BY <1>1, <1>2, <1>3, PTL DEF Spec

\* The mail leaves before the commit (api/v1/onboarding.py:74-80): until the address
\* is verified a live link for it has been mailed, whatever fails.
THEOREM NoAdministratorIsStranded == Spec => []NobodyIsStranded
<1>1. Init => IInv
  BY InitIInv
<1>2. IInv /\ [Next]_vars => IInv'
  BY NextKeepsIInv
<1>3. IInv => NobodyIsStranded
  BY DEF IInv
<1> QED
  BY <1>1, <1>2, <1>3, PTL DEF Spec
-----------------------------------------------------------------------------
(* Waiting *)

\* Nothing is locked ahead of an UPDATE, and the rows that a resend has locked come
\* before those that it has still to visit.
ScanInv(o) ==
  /\ pc[o] \in {"account", "update", "claiming"} => marked[o] = {}
  /\ pc[o] = "consuming" => \A l \in marked[o], m \in todo[o] : l < m

\* Of another request ScanInv says the same as before; so it does of one that has
\* left its UPDATE, or that has just begun.
LEMMA ScanStays ==
  ASSUME NEW p \in Op, ScanInv(p),
         \/ pc'[p] = pc[p] /\ todo'[p] = todo[p] /\ marked'[p] = marked[p]
         \/ pc'[p] \notin {"account", "update", "claiming", "consuming"}
         \/ pc'[p] # "consuming" /\ marked'[p] = {}
  PROVE  ScanInv(p)'
BY DEF ScanInv

LEMMA StepKeepsScanInv ==
  ASSUME IInv, NEW o \in Op, Start(o) \/ Run(o) \/ Abort(o), \A p \in Op : ScanInv(p)
  PROVE  \A p \in Op : ScanInv(p)'
<1>1. TypeOK /\ OwnInv(o) /\ ScanInv(o)
  BY DEF IInv
<1>2. ASSUME NEW p \in Op, p # o PROVE ScanInv(p)'
  <2>1. pc'[p] = pc[p] /\ todo'[p] = todo[p] /\ marked'[p] = marked[p]
    <3>1. CASE Start(o) \/ FindSlug(o) \/ InsertTenant(o) \/ FindAccount(o) \/ SendMail(o)
               \/ ReadUser(o) \/ Activate(o)
      BY <1>1, <1>2, <3>1
      DEF Start, FindSlug, InsertTenant, FindAccount, SendMail, ReadUser, Activate, TypeOK
    <3>2. CASE StartConsuming(o) \/ Consume(o) \/ AddLink(o) \/ Claim(o)
      BY <1>1, <1>2, <3>2 DEF StartConsuming, Consume, AddLink, Claim, TypeOK
    <3>3. CASE SlugTaken(o) \/ NoAccount(o) \/ MailFails(o) \/ ClaimRefused(o) \/ Commit(o) \/ Abort(o)
      <4>1. End(o)
        BY <3>3 DEF SlugTaken, NoAccount, MailFails, ClaimRefused, Commit, Abort
      <4> QED
        BY <1>2, <4>1, EndForgets
    <3> QED
      BY <3>1, <3>2, <3>3 DEF Run
  <2> QED
    BY <2>1, ScanStays
<1>3. ScanInv(o)'
  <2>1. CASE Start(o)
    <3>1. pc'[o] # "consuming" /\ marked'[o] = {}
      <4>1. PICK request \in Request :
              pc' = [pc EXCEPT ![o] = CASE request.kind = "SIGNUP" -> "slug"
                                        [] request.kind = "RESEND" -> "account"
                                        [] request.kind = "VERIFY" -> "claiming"]
        BY <2>1 DEF Start
      <4>2. request.kind \in {"SIGNUP", "RESEND", "VERIFY"}
        BY RequestTypes
      <4>3. pc'[o] \in {"slug", "account", "claiming"}
        BY <1>1, <4>1, <4>2, Zenon DEF TypeOK
      <4> QED
        BY <1>1, <2>1, <4>3 DEF Start, OwnInv, IdleInv
    <3> QED
      BY <1>1, <3>1, ScanStays
  <2>2. CASE FindSlug(o) \/ InsertTenant(o) \/ SendMail(o) \/ Claim(o) \/ ReadUser(o) \/ Activate(o)
             \/ AddLink(o)
    <3>1. pc'[o] \in {"inserting", "mailing", "committing", "user", "activating"}
      BY <1>1, <2>2
      DEF FindSlug, InsertTenant, SendMail, Claim, ReadUser, Activate, AddLink, TypeOK
    <3> QED
      BY <1>1, <3>1, ScanStays
  <2>3. CASE FindAccount(o)
    <3>1. pc'[o] = "update" /\ marked'[o] = {}
      BY <1>1, <2>3 DEF FindAccount, TypeOK, ScanInv
    <3> QED
      BY <1>1, <3>1, ScanStays
  <2>4. CASE StartConsuming(o)
    <3>1. pc'[o] = "consuming" /\ marked'[o] = {}
      BY <1>1, <2>4 DEF StartConsuming, TypeOK, ScanInv
    <3> QED
      BY <3>1 DEF ScanInv
  <2>5. CASE Consume(o)
    <3>1. PICK l \in NextLink(o) :
            /\ marked'[o] \subseteq marked[o] \cup {l}
            /\ todo'[o] = todo[o] \ {l}
      BY <1>1, <2>5 DEF Consume, TypeOK
    <3>2. todo[o] \in SUBSET Nat /\ l \in todo[o] /\ \A m \in todo[o] : l <= m
      BY <1>1, <3>1, MaxLinksAssumption DEF NextLink, TypeOK, Link
    <3>3. pc'[o] = "consuming" /\ \A k \in marked[o], m \in todo[o] : k < m
      BY <1>1, <2>5 DEF Consume, ScanInv
    <3>4. \A m \in todo'[o] : m \in Nat /\ m \in todo[o] /\ l < m
      BY <3>1, <3>2
    <3>5. \A k \in marked'[o], m \in todo'[o] : k < m
      BY <3>1, <3>3, <3>4
    <3> QED
      BY <3>3, <3>5 DEF ScanInv
  <2>6. CASE SlugTaken(o) \/ NoAccount(o) \/ MailFails(o) \/ ClaimRefused(o) \/ Commit(o) \/ Abort(o)
    <3>1. End(o)
      BY <2>6 DEF SlugTaken, NoAccount, MailFails, ClaimRefused, Commit, Abort
    <3>2. pc'[o] = "idle"
      BY <1>1, <3>1 DEF End, TypeOK
    <3> QED
      BY <1>1, <3>2, ScanStays
  <2> QED
    BY <2>1, <2>2, <2>3, <2>4, <2>5, <2>6 DEF Run
<1> QED
  BY <1>2, <1>3

LEMMA NextKeepsScanInv ==
  ASSUME IInv, [Next]_vars, \A p \in Op : ScanInv(p)
  PROVE  \A p \in Op : ScanInv(p)'
<1>1. CASE SetUserStatus \/ UNCHANGED vars
  <2>1. pc' = pc /\ todo' = todo /\ marked' = marked
    BY <1>1 DEF SetUserStatus, vars, locals
  <2> QED
    BY <2>1, ScanStays
<1>2. CASE \E o \in Op : Start(o) \/ Run(o) \/ Abort(o)
  BY <1>2, StepKeepsScanInv
<1> QED
  BY <1>1, <1>2 DEF Next

\* A bounded set of natural numbers has a greatest element.
LEMMA GreatestOfNaturals ==
  ASSUME NEW max \in Nat, NEW S \in SUBSET (0 .. max), S # {}
  PROVE  \E m \in S : \A n \in S : n <= m
<1> DEFINE From == {m .. max : m \in S}
<1>1. \A m \in S : IsFiniteSet(m .. max) /\ m .. max \in SUBSET Nat
  BY FS_Interval
<1>2. From \subseteq FiniteSubsetsOf(Nat) /\ From # {}
  BY <1>1 DEF FiniteSubsetsOf
<1>3. \E X \in From : \A Y \in From : <<Y, X>> \notin StrictSubsetOrdering(Nat)
  BY <1>2, FS_StrictSubsetOrderingWellFounded, WFMin
<1>4. PICK m \in S : \A n \in S : <<n .. max, m .. max>> \notin StrictSubsetOrdering(Nat)
  BY <1>3
<1>5. ASSUME NEW n \in S, m < n PROVE FALSE
  <2>1. m \in m .. max /\ m \notin n .. max /\ n .. max \subseteq m .. max /\ m .. max \subseteq Nat
    BY <1>5
  <2> QED
    BY <1>4, <2>1 DEF StrictSubsetOrdering
<1> QED
  BY <1>5

\* Whoever has a row of the links either waits in its own UPDATE, or for the user, or
\* for nobody.
LEMMA HoldersWait ==
  ASSUME IInv, \A o \in Op : ScanInv(o), NEW p \in Op, marked[p] # {}
  PROVE  pc[p] \in {"consuming", "mailing", "user", "activating", "committing"}
<1>1. OwnInv(p) /\ ScanInv(p) /\ pc[p] # "idle"
  BY DEF IInv, OwnInv, IdleInv
<1>2. /\ Kind(p) \in {"SIGNUP", "RESEND", "VERIFY"}
      /\ pc[p] \in Course(Kind(p))
  BY <1>1, RequestTypes DEF OwnInv, CourseInv, Kind
<1>3. Kind(p) # "SIGNUP"
  BY <1>1 DEF OwnInv, MarkedInv
<1>4. CASE Kind(p) = "RESEND"
  BY <1>1, <1>2, <1>4 DEF Course, ScanInv
<1>5. CASE Kind(p) = "VERIFY"
  BY <1>1, <1>2, <1>5 DEF Course, ScanInv
<1> QED
  BY <1>2, <1>3, <1>4, <1>5

\* Of the links that a circle waits for take the greatest: whoever has it waits for a
\* greater one.
LEMMA NobodyCircles ==
  ASSUME IInv, \A o \in Op : ScanInv(o),
         NEW S \in SUBSET Op, S # {}, \A o \in S : Blockers(o) \cap S # {}
  PROVE  FALSE
<1>1. ASSUME NEW o \in S, pc[o] \notin {"inserting", "consuming", "claiming", "activating"}
      PROVE  FALSE
  BY <1>1 DEF Blockers
<1>2. ASSUME NEW o \in S, pc[o] = "inserting" PROVE FALSE
  <2>1. PICK p \in S : p \in SlugHolders
    BY <1>2 DEF Blockers
  <2>2. pc[p] \in {"mailing", "committing"}
    BY <2>1 DEF SlugHolders, IInv, OwnInv, IssuedInv
  <2> QED
    BY <1>1, <2>2
<1>3. ASSUME NEW o \in S, pc[o] = "activating" PROVE FALSE
  <2>1. Blockers(o) = IF seen[o] # "ACTIVE" THEN Activating ELSE {}
    BY <1>3 DEF Blockers
  <2>2. PICK p \in S : p \in Activating
    BY <2>1
  <2>3. pc[p] = "committing"
    BY <2>2 DEF Activating
  <2> QED
    BY <1>1, <2>3
<1>4. ASSUME NEW p \in S, marked[p] # {} PROVE pc[p] = "consuming"
  BY <1>1, <1>3, <1>4, HoldersWait
<1>5. ASSUME NEW o \in S, pc[o] = "consuming"
      PROVE  \E l \in NextLink(o) : \E p \in S : l \in marked[p] /\ pc[p] = "consuming"
  <2>1. Blockers(o) = UNION {Holders(l) : l \in NextLink(o)}
    BY <1>5 DEF Blockers
  <2>2. PICK l \in NextLink(o), p \in S : p \in Holders(l)
    BY <2>1
  <2> QED
    BY <1>4, <2>2 DEF Holders
<1>6. PICK o \in S : pc[o] = "consuming"
  <2>1. PICK o \in S : TRUE
    OBVIOUS
  <2>2. CASE pc[o] = "claiming"
    <3>1. Blockers(o) = Holders(req[o].link)
      BY <2>2 DEF Blockers
    <3>2. PICK p \in S : p \in Holders(req[o].link)
      BY <3>1
    <3> QED
      BY <1>4, <3>2 DEF Holders
  <2> QED
    BY <1>1, <1>2, <1>3, <2>1, <2>2
<1> DEFINE Awaited == {l \in Link : \E p \in S : pc[p] = "consuming" /\ l \in NextLink(p)}
<1>7. MaxLinks \in Nat /\ Awaited \in SUBSET (0 .. MaxLinks) /\ Awaited # {}
  <2>1. \A p \in Op : NextLink(p) \subseteq Link
    BY DEF NextLink, IInv, TypeOK
  <2>2. Link \subseteq 0 .. MaxLinks
    BY MaxLinksAssumption DEF Link
  <2> QED
    BY <1>5, <1>6, <2>1, <2>2, MaxLinksAssumption
<1>8. PICK l \in Awaited : \A m \in Awaited : m <= l
  <2> HIDE DEF Awaited
  <2> QED
    BY <1>7, GreatestOfNaturals
<1>9. PICK p \in S : pc[p] = "consuming" /\ l \in NextLink(p)
  BY <1>8
<1>10. PICK k \in NextLink(p), q \in S : k \in marked[q] /\ pc[q] = "consuming"
  BY <1>5, <1>9
<1>11. k = l
  BY <1>9, <1>10, MaxLinksAssumption DEF NextLink, IInv, TypeOK, Link
<1>12. PICK m \in NextLink(q) : TRUE
  BY <1>5, <1>10
<1>13. m \in Awaited /\ l < m /\ m \in Nat /\ l \in Nat
  BY <1>7, <1>8, <1>10, <1>11, <1>12 DEF NextLink, ScanInv, IInv, TypeOK
<1> QED
  BY <1>8, <1>13

\* Sign-ups, resends and verifications never wait for each other in a circle: the
\* link comes before the user, and an UPDATE takes the links in one order
\* (onboarding/service.py:167, 187, 235).
THEOREM RequestsNeverCircle == Spec => []NoCircle
<1> DEFINE Inv == IInv /\ \A o \in Op : ScanInv(o)
<1>1. Init => Inv
  BY InitIInv DEF Init, ScanInv
<1>2. Inv /\ [Next]_vars => Inv'
  BY NextKeepsIInv, NextKeepsScanInv
<1>3. Inv => NoCircle
  BY NobodyCircles DEF NoCircle
<1> QED
  BY <1>1, <1>2, <1>3, PTL DEF Spec
=============================================================================
