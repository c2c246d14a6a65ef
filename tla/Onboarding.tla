----------------------------- MODULE Onboarding -----------------------------
(***************************************************************************)
(* How an organisation comes into being: sign-up, verification of its      *)
(* first administrator's e-mail address and requests for another link      *)
(* (services/onboarding/service.py, api/v1/onboarding.py).                 *)
(*                                                                         *)
(* The organisation of one slug; organisations share nothing else.  A      *)
(* request is one transaction under READ COMMITTED.  An UPDATE visits the  *)
(* rows of its snapshot in their physical order, which is the same for     *)
(* every transaction, waits for each, and evaluates its WHERE clause again *)
(* on what it finds then.  Rows that are only added to the session reach   *)
(* the database with the commit (autoflush is off).  The mail leaves       *)
(* before the commit, and no rollback calls it back.                       *)
(***************************************************************************)
EXTENDS Naturals, FiniteSets

CONSTANTS
  Op,         \* the requests that may run at once
  MaxLinks,   \* bound: links are the numbers up to it, in the order of issue
  NoLink,     \* no link
  NoRequest   \* the work of an idle process

Link == 1 .. MaxLinks

ASSUME MaxLinksAssumption == MaxLinks \in Nat \ {0}
ASSUME NoLinkAssumption == NoLink \notin Link

VARIABLES
  tenants,      \* the number of committed tenants rows with the slug
  status,       \* users.status of the first administrator
  link,         \* link[l]: the committed email_verification_tokens row of l
  mailed,       \* the links that have been handed to the mail server
  activations,  \* activations[l]: committed verifications with l
  supersedes,   \* supersedes[l]: links known when the request for l began
  pc,           \* pc[o]: the next statement of o
  req,          \* req[o]: what o was asked to do
  seen,         \* seen[o]: users.status in the session of o
  known,        \* known[o]: the links that were there when o began
  todo,         \* todo[o]: rows that the UPDATE of o has still to visit
  marked,       \* marked[o]: rows that o has consumed, and locks
  issued        \* issued[o]: the link that o has made

committed == <<tenants, status, link, activations, supersedes>>
locals == <<pc, req, seen, known, todo, marked, issued>>
vars == <<committed, mailed, locals>>

-----------------------------------------------------------------------------
(* The values *)

Status == {"none", "INACTIVE", "ACTIVE"}
LinkState == {"none", "live", "consumed"}
PC == {"idle", "slug", "inserting", "account", "update", "consuming", "mailing",
       "claiming", "user", "activating", "committing"}
Request == [kind : {"SIGNUP", "RESEND"}] \cup [kind : {"VERIFY"}, link : Link]

ASSUME NoRequestAssumption == NoRequest \notin Request

Kind(o) == req[o].kind
Live == {l \in Link : link[l] = "live"}
Holders(l) == {o \in Op : l \in marked[o]}

\* A row EMAIL_VERIFIED in audit_logs: nothing else remembers it.
Verified == \E l \in Link : activations[l] > 0

Init ==
  /\ tenants = 0
  /\ status = "none"
  /\ link = [l \in Link |-> "none"]
  /\ mailed = {}
  /\ activations = [l \in Link |-> 0]
  /\ supersedes = [l \in Link |-> {}]
  /\ pc = [o \in Op |-> "idle"]
  /\ req = [o \in Op |-> NoRequest]
  /\ seen = [o \in Op |-> "none"]
  /\ known = [o \in Op |-> {}]
  /\ todo = [o \in Op |-> {}]
  /\ marked = [o \in Op |-> {}]
  /\ issued = [o \in Op |-> NoLink]

-----------------------------------------------------------------------------
(* The beginning and the end of a request *)

Unused(l) == link[l] = "none" /\ l \notin mailed /\ \A o \in Op : issued[o] # l

\* Whoever verifies has received the link, perhaps before it is committed.
Start(o) ==
  /\ pc[o] = "idle"
  /\ \E request \in Request :
       /\ request.kind = "VERIFY" => request.link \in mailed
       /\ req' = [req EXCEPT ![o] = request]
       /\ pc' = [pc EXCEPT ![o] =
            CASE request.kind = "SIGNUP" -> "slug"
              [] request.kind = "RESEND" -> "account"
              [] request.kind = "VERIFY" -> "claiming"]
  /\ known' = [known EXCEPT ![o] = {l \in Link : link[l] # "none"}]
  /\ UNCHANGED <<committed, mailed, seen, todo, marked, issued>>

End(o) ==
  /\ pc' = [pc EXCEPT ![o] = "idle"]
  /\ req' = [req EXCEPT ![o] = NoRequest]
  /\ seen' = [seen EXCEPT ![o] = "none"]
  /\ known' = [known EXCEPT ![o] = {}]
  /\ todo' = [todo EXCEPT ![o] = {}]
  /\ marked' = [marked EXCEPT ![o] = {}]
  /\ issued' = [issued EXCEPT ![o] = NoLink]

\* A failure, a timeout, a lost connection: get_db rolls back.
Abort(o) ==
  /\ pc[o] # "idle"
  /\ End(o)
  /\ UNCHANGED <<committed, mailed>>

-----------------------------------------------------------------------------
(* Sign-up: create_tenant_with_admin *)

\* generate_opaque_token: a link that nobody has seen before.
Make(o) ==
  \E l \in Link :
    /\ Unused(l)
    /\ \A m \in Link : Unused(m) => l <= m
    /\ issued' = [issued EXCEPT ![o] = l]

\* The SELECT of the fast path.
FindSlug(o) ==
  /\ pc[o] = "slug"
  /\ tenants = 0
  /\ pc' = [pc EXCEPT ![o] = "inserting"]
  /\ UNCHANGED <<committed, mailed, req, seen, known, todo, marked, issued>>

\* 409, after the SELECT or after the INSERT.
SlugTaken(o) ==
  /\ pc[o] \in {"slug", "inserting"}
  /\ tenants > 0
  /\ End(o)
  /\ UNCHANGED <<committed, mailed>>

\* The sign-ups whose tenants row is in the index and not committed.
SlugHolders == {o \in Op : pc[o] # "idle" /\ Kind(o) = "SIGNUP" /\ issued[o] # NoLink}

\* The INSERT of the tenant waits for another one of the same slug; user and
\* link follow.
InsertTenant(o) ==
  /\ pc[o] = "inserting"
  /\ SlugHolders = {}
  /\ tenants = 0
  /\ Make(o)
  /\ pc' = [pc EXCEPT ![o] = "mailing"]
  /\ UNCHANGED <<committed, mailed, req, seen, known, todo, marked>>

-----------------------------------------------------------------------------
(* Another link: resend_verification_email *)

NeedsLink == tenants > 0 /\ status = "INACTIVE"

FindAccount(o) ==
  /\ pc[o] = "account"
  /\ NeedsLink
  /\ pc' = [pc EXCEPT ![o] = "update"]
  /\ UNCHANGED <<committed, mailed, req, seen, known, todo, marked, issued>>

\* Nothing is done, and the answer is the same.
NoAccount(o) ==
  /\ pc[o] = "account"
  /\ ~NeedsLink
  /\ End(o)
  /\ UNCHANGED <<committed, mailed>>

\* The snapshot of the UPDATE.
StartConsuming(o) ==
  /\ pc[o] = "update"
  /\ todo' = [todo EXCEPT ![o] = Live]
  /\ pc' = [pc EXCEPT ![o] = "consuming"]
  /\ UNCHANGED <<committed, mailed, req, seen, known, marked, issued>>

\* Mutant: rows that are free come first.
NextLinkFreeFirst(o) ==
  {l \in todo[o] :
    \A m \in todo[o] :
      IF (Holders(l) = {}) = (Holders(m) = {}) THEN l <= m ELSE Holders(l) = {}}

\* The row that the UPDATE comes to next, if one is left.
NextLink(o) == {l \in todo[o] : \A m \in todo[o] : l <= m}

\* Mutant: a row that somebody else has locked is passed over.
ConsumeUnlocked(o) ==
  /\ pc[o] = "consuming"
  /\ \E l \in NextLink(o) :
       /\ marked' = [marked EXCEPT ![o] =
            IF link[l] = "live" /\ Holders(l) = {} THEN @ \cup {l} ELSE @]
       /\ todo' = [todo EXCEPT ![o] = @ \ {l}]
  /\ UNCHANGED <<committed, mailed, pc, req, seen, known, issued>>

\* A row that was consumed in the meantime is passed over.
Consume(o) ==
  /\ pc[o] = "consuming"
  /\ \E l \in NextLink(o) :
       /\ Holders(l) = {}
       /\ marked' = [marked EXCEPT ![o] = IF link[l] = "live" THEN @ \cup {l} ELSE @]
       /\ todo' = [todo EXCEPT ![o] = @ \ {l}]
  /\ UNCHANGED <<committed, mailed, pc, req, seen, known, issued>>

\* session.add of the new link.
AddLink(o) ==
  /\ pc[o] = "consuming"
  /\ todo[o] = {}
  /\ Make(o)
  /\ pc' = [pc EXCEPT ![o] = "mailing"]
  /\ UNCHANGED <<committed, mailed, req, seen, known, todo, marked>>

-----------------------------------------------------------------------------
(* The mail *)

SendMail(o) ==
  /\ pc[o] = "mailing"
  /\ mailed' = mailed \cup {issued[o]}
  /\ pc' = [pc EXCEPT ![o] = "committing"]
  /\ UNCHANGED <<committed, req, seen, known, todo, marked, issued>>

\* Mutant: a mail that cannot be sent is only logged.
MailFailsSilently(o) ==
  /\ pc[o] = "mailing"
  /\ pc' = [pc EXCEPT ![o] = "committing"]
  /\ UNCHANGED <<committed, mailed, req, seen, known, todo, marked, issued>>

\* EmailDeliveryError, 503.  The server may have taken the mail all the same.
MailFails(o) ==
  /\ pc[o] = "mailing"
  /\ mailed' \in {mailed, mailed \cup {issued[o]}}
  /\ End(o)
  /\ UNCHANGED committed

-----------------------------------------------------------------------------
(* Verification: verify_email and issue_token_pair *)

\* Mutant: the guard is evaluated before the wait only.
ClaimAsSeen(o) ==
  /\ pc[o] = "claiming"
  /\ req[o].link \in Live
  /\ marked' = [marked EXCEPT ![o] = {req[o].link}]
  /\ pc' = [pc EXCEPT ![o] = "user"]
  /\ UNCHANGED <<committed, mailed, req, seen, known, todo, issued>>

\* UPDATE ... WHERE consumed_at IS NULL ... RETURNING
Claim(o) ==
  /\ pc[o] = "claiming"
  /\ req[o].link \in Live
  /\ Holders(req[o].link) = {}
  /\ marked' = [marked EXCEPT ![o] = {req[o].link}]
  /\ pc' = [pc EXCEPT ![o] = "user"]
  /\ UNCHANGED <<committed, mailed, req, seen, known, todo, issued>>

\* 401: consumed, not committed yet, never to be committed, or expired.
ClaimRefused(o) ==
  /\ pc[o] = "claiming"
  /\ End(o)
  /\ UNCHANGED <<committed, mailed>>

\* session.get(User)
ReadUser(o) ==
  /\ pc[o] = "user"
  /\ seen' = [seen EXCEPT ![o] = status]
  /\ pc' = [pc EXCEPT ![o] = "activating"]
  /\ UNCHANGED <<committed, mailed, req, known, todo, marked, issued>>

\* Requests that have flushed an UPDATE of the user's row: an attribute that
\* is set to the value it had is not written.
Activating == {o \in Op : pc[o] = "committing" /\ Kind(o) = "VERIFY" /\ seen[o] # "ACTIVE"}

\* The flush of issue_refresh_token: the status, the audit row, the refresh token.
Activate(o) ==
  /\ pc[o] = "activating"
  /\ seen[o] # "ACTIVE" => Activating = {}
  /\ pc' = [pc EXCEPT ![o] = "committing"]
  /\ UNCHANGED <<committed, mailed, req, seen, known, todo, marked, issued>>

-----------------------------------------------------------------------------
(* The commit *)

LinkAfter(o, l) ==
  CASE l = issued[o] -> "live"
    [] l \in marked[o] -> "consumed"
    [] OTHER -> link[l]

Commit(o) ==
  /\ pc[o] = "committing"
  /\ link' = [l \in Link |-> LinkAfter(o, l)]
  /\ tenants' = IF Kind(o) = "SIGNUP" THEN tenants + 1 ELSE tenants
  /\ status' = CASE Kind(o) = "SIGNUP" -> "INACTIVE"
                 [] Kind(o) = "VERIFY" /\ seen[o] # "ACTIVE" -> "ACTIVE"
                 [] OTHER -> status
  /\ activations' = IF Kind(o) = "VERIFY" THEN [activations EXCEPT ![req[o].link] = @ + 1]
                                          ELSE activations
  /\ supersedes' = IF Kind(o) = "RESEND" THEN [supersedes EXCEPT ![issued[o]] = known[o]]
                                         ELSE supersedes
  /\ End(o)
  /\ UNCHANGED mailed

\* set_user_status by another administrator, whom there can only be once the
\* first one has signed in; it locks the user's row FOR UPDATE.
SetUserStatus ==
  /\ Verified
  /\ \A o \in Op : pc[o] = "committing" => Kind(o) # "VERIFY"
  /\ status' \in {"ACTIVE", "INACTIVE"} \ {status}
  /\ UNCHANGED <<tenants, link, activations, supersedes, mailed, locals>>

-----------------------------------------------------------------------------
(* The specification *)

Run(o) ==
  \/ FindSlug(o) \/ SlugTaken(o) \/ InsertTenant(o)
  \/ FindAccount(o) \/ NoAccount(o) \/ StartConsuming(o) \/ Consume(o) \/ AddLink(o)
  \/ SendMail(o) \/ MailFails(o)
  \/ Claim(o) \/ ClaimRefused(o) \/ ReadUser(o) \/ Activate(o)
  \/ Commit(o)

Next == (\E o \in Op : Start(o) \/ Run(o) \/ Abort(o)) \/ SetUserStatus

Spec == Init /\ [][Next]_vars

-----------------------------------------------------------------------------
(* Properties *)

TypeOK ==
  /\ tenants \in Nat
  /\ status \in Status
  /\ link \in [Link -> LinkState]
  /\ mailed \subseteq Link
  /\ activations \in [Link -> Nat]
  /\ supersedes \in [Link -> SUBSET Link]
  /\ pc \in [Op -> PC]
  /\ req \in [Op -> Request \cup {NoRequest}]
  /\ seen \in [Op -> Status]
  /\ known \in [Op -> SUBSET Link]
  /\ todo \in [Op -> SUBSET Link]
  /\ marked \in [Op -> SUBSET Link]
  /\ issued \in [Op -> Link \cup {NoLink}]

\* A link activates and signs in once, whoever else redeems or supersedes it at
\* the same time (onboarding/service.py:158-161).
RedeemedOnce == \A l \in Link : activations[l] <= 1

\* A request for a new link leaves none alive that was there when it was made,
\* also if a redemption had one of them locked and was rolled back
\* (onboarding/service.py:218-221, 235-242).
SupersededIsDead ==
  \A m \in Link : link[m] # "none" => \A l \in supersedes[m] : link[l] = "consumed"

\* As long as the first administrator has not verified the address there is a
\* live link for it in the mail, whatever failed (api/v1/onboarding.py:74-80).
NobodyIsStranded == tenants > 0 /\ ~Verified => Live \cap mailed # {}

\* The requests that o waits for.
Blockers(o) ==
  CASE pc[o] = "inserting" -> SlugHolders
    [] pc[o] = "consuming" -> UNION {Holders(l) : l \in NextLink(o)}
    [] pc[o] = "claiming" -> Holders(req[o].link)
    [] pc[o] = "activating" /\ seen[o] # "ACTIVE" -> Activating
    [] OTHER -> {}

\* Requests never wait for each other in a circle: link before user, and links
\* in one order (onboarding/service.py:167, 187, 235).
NoCircle ==
  \A S \in SUBSET Op : S # {} => \E o \in S : Blockers(o) \cap S = {}
=============================================================================
