-------------------------- MODULE ClientSessionProofs --------------------------
(***************************************************************************)
(* Proofs about ClientSession for any number of tabs, calls, users and     *)
(* tokens.                                                                 *)
(***************************************************************************)
EXTENDS ClientSession, TLAPS

Store == [status : Status, user : User \cup {Nobody}, access : Token \cup {NoToken}]

CallState == [at : {"none", "sent", "waiting", "resent", "changed"}, token : Token \cup {NoToken}]

\* What a request is for is seen from its slot and from the function that runs.
LogsOut(t, s) == s = "main" /\ main[t] = "logout"

\* What the memory of a tab looks like at each stage of its session function: one
\* that is not open waits for nothing, and me() is called when tokens have come.
StageInv(t) ==
    /\ main[t] = "closed" => \A s \in Slot : ~InFlight(t, s)
    /\ main[t] \in {"closed", "bootstrap"} => \A c \in Call : call[t][c] = AtRest
    /\ main[t] \in {"closed", "bootstrap"} <=> store[t].status = "loading"
    /\ main[t] = "logout" => InFlight(t, "main")
    /\ InFlight(t, "main") => main[t] \in {"bootstrap", "logout"} /\ call[t]["me"] = AtRest
    /\ main[t] \in {"closed", "idle", "logout"} => call[t]["me"] = AtRest

\* Tokens come with the answer to an exchange.
AnswerInv(t) ==
    \A s \in Slot : InFlight(t, s) =>
        wire[t][s].issued # NoToken <=> wire[t][s].answer = "ok" /\ ~LogsOut(t, s)

\* A refresh is under way for those who wait for it, and for nobody else.
WaitersInv(t) == (\E c \in Fetch : call[t][c].at = "waiting") <=> InFlight(t, "refresh")

\* One request at most is under way, for the token that is stored, and it is good
\* until it is answered.
OneRequest ==
    /\ \A t \in Tab, s \in Slot : InFlight(t, s) =>
          /\ wire[t][s].token = stored
          /\ wire[t][s].answer # "refused"
          /\ wire[t][s].answer = "none" <=> stored \in live
          /\ wire[t][s].issued # NoToken => wire[t][s].issued \in live \cap fresh
          /\ \A o \in Tab, r \in Slot : InFlight(o, r) => o = t /\ r = s
    /\ stored # NoToken =>
          stored \in live \/ \E t \in Tab, s \in Slot : InFlight(t, s)

\* The tab needs the stored token.
Relies(t) == store[t].status = "authenticated" \/ main[t] \in {"bootstrap", "login"}

\* A session rests on the stored token, it is refreshed only while it lasts or
\* begins, and what was just issued to it is good.
SoundSession(t) ==
    /\ Relies(t) => stored # NoToken
    /\ InFlight(t, "refresh") => store[t].status = "authenticated" \/ main[t] = "login"
    /\ main[t] = "logout" => store[t].status = "authenticated"
    /\ main[t] = "login" =>
          /\ store[t].status # "authenticated" \/ \A c \in Call : call[t][c] = AtRest
          /\ store[t].access = call[t]["me"].token
          /\ call[t]["me"] # AtRest
    /\ call[t]["me"] # AtRest => call[t]["me"].at = "sent" /\ call[t]["me"].token \in fresh
    /\ \A c \in Call : /\ call[t][c].at = "resent" => call[t][c].token \in fresh
                      /\ call[t][c].at # "changed"

ShapeInv ==
    /\ TypeOK
    /\ live \subseteq Token /\ fresh \subseteq Token
    /\ wire \in [Tab -> [Slot -> Request \cup {NoRequest}]]

NothingForgotten ==
    \A n \in live \ left : n = stored \/ \E t \in Tab, s \in Slot : InFlight(t, s) /\ wire[t][s].issued = n

\* The second part holds until something interferes.
IInv ==
    /\ ShapeInv
    /\ \A t \in Tab : StageInv(t) /\ AnswerInv(t) /\ WaitersInv(t)
    /\ ~disturbed =>
          /\ OneRequest
          /\ NothingForgotten
          /\ \A t \in Tab : SoundSession(t)

-----------------------------------------------------------------------------
(* What the tabs know of each other                                        *)

LEMMA Typing ==
    ASSUME IInv, NEW t \in Tab
    PROVE  /\ store[t] \in Store /\ main[t] \in {"closed", "idle", "bootstrap", "login", "logout"}
           /\ mine[t] \in Token \cup {NoToken}
           /\ wire[t] \in [Slot -> Request \cup {NoRequest}]
           /\ call[t] \in [Fetch -> CallState]
           /\ store[t].status = "authenticated" <=> store[t].user # Nobody
           /\ StageInv(t) /\ AnswerInv(t) /\ WaitersInv(t)
           /\ ~disturbed => OneRequest /\ NothingForgotten /\ SoundSession(t)
<1>1. /\ store \in [Tab -> Store] /\ main \in [Tab -> {"closed", "idle", "bootstrap", "login", "logout"}]
      /\ mine \in [Tab -> Token \cup {NoToken}]
      /\ wire \in [Tab -> [Slot -> Request \cup {NoRequest}]]
      /\ call \in [Tab -> [Fetch -> CallState]]
      /\ store[t].status = "authenticated" <=> store[t].user # Nobody
    BY DEF IInv, ShapeInv, TypeOK, Store, CallState
<1> QED
    BY <1>1 DEF IInv

\* What a tab that does nothing itself keeps.
LEMMA StepOfOneTab ==
    ASSUME IInv, NEW t \in Tab, ShapeInv',
           StageInv(t)', AnswerInv(t)', WaitersInv(t)',
           \A o \in Others(t) :
              /\ main'[o] = main[o] /\ store'[o] = store[o]
              /\ wire'[o] = wire[o] /\ call'[o] = call[o],
           ~disturbed' =>
              /\ ~disturbed /\ OneRequest' /\ NothingForgotten' /\ SoundSession(t)'
              /\ fresh \subseteq fresh'
              /\ stored' # NoToken \/ stored = NoToken \/ ~Shared(t)
    PROVE  IInv'
<1>1. ASSUME NEW o \in Others(t)
      PROVE  /\ StageInv(o)' /\ AnswerInv(o)' /\ WaitersInv(o)'
             /\ ~disturbed' => SoundSession(o)'
    <2>1. o \in Tab /\ StageInv(o) /\ AnswerInv(o) /\ WaitersInv(o)
          /\ (~disturbed => SoundSession(o))
        BY Typing DEF Others
    <2>2. StageInv(o)' /\ AnswerInv(o)' /\ WaitersInv(o)'
        BY <2>1 DEF StageInv, AnswerInv, WaitersInv, InFlight, LogsOut
    <2>3. ASSUME ~disturbed' PROVE SoundSession(o)'
        <3>1. Relies(o) => stored' # NoToken
            BY <2>1, <2>3 DEF Shared, Relies, SoundSession
        <3> QED
            BY <2>1, <2>3, <3>1 DEF SoundSession, Relies, InFlight
    <2> QED
        BY <2>2, <2>3
<1> QED
    BY <1>1 DEF IInv, Others

\* The wires, the stored token and the server are the same.
LEMMA WiresStay ==
    ASSUME IInv, UNCHANGED <<wire, stored, live, left>>, fresh \subseteq fresh', ~disturbed
    PROVE  OneRequest' /\ NothingForgotten'
BY DEF IInv, OneRequest, NothingForgotten, InFlight

\* Undisturbed, only what is stored, or a token on its way, is live.
LEMMA AtMostOne ==
    ASSUME IInv, ~disturbed, NEW t \in Tab, NEW s \in Slot, InFlight(t, s)
    PROVE  /\ wire[t][s] \in Request /\ wire[t][s].token = stored /\ stored \in Token
           /\ wire[t][s].answer # "refused"
           /\ wire[t][s].answer = "none" <=> stored \in live
           /\ wire[t][s].answer = "ok" => \A n \in live \ left : n = wire[t][s].issued
           /\ wire[t][s].answer = "none" => \A n \in live \ left : n = stored
           /\ wire[t][s].issued # NoToken => wire[t][s].issued \in live \cap fresh
           /\ \A o \in Tab, r \in Slot : InFlight(o, r) => o = t /\ r = s
<1>1. OneRequest /\ NothingForgotten /\ wire[t][s] \in Request /\ AnswerInv(t)
    BY Typing DEF InFlight
<1>2. wire[t][s].token \in Token /\ wire[t][s].answer \in {"none", "refused", "ok"}
    BY <1>1 DEF Request
<1>3. /\ wire[t][s].token = stored
      /\ wire[t][s].answer # "refused"
      /\ wire[t][s].answer = "none" <=> stored \in live
      /\ wire[t][s].issued # NoToken => wire[t][s].issued \in live \cap fresh
      /\ \A o \in Tab, r \in Slot : InFlight(o, r) => o = t /\ r = s
    BY <1>1 DEF OneRequest
<1>4. \A n \in live \ left : n = stored \/ n = wire[t][s].issued
    BY <1>1, <1>3 DEF NothingForgotten
<1>5. wire[t][s].answer = "none" => wire[t][s].issued = NoToken
    BY <1>1 DEF AnswerInv
<1>6. live \subseteq Token
    BY DEF IInv, ShapeInv
<1> QED
    BY <1>1, <1>2, <1>3, <1>4, <1>5, <1>6, ValuesAssumption

-----------------------------------------------------------------------------
(* Calls                                                                   *)

\* Only calls of t change, and none of them waits that did not.
LEMMA StartCallKeepsIInv ==
    ASSUME IInv, NEW t \in Tab, NEW c \in Call, StartCall(t, c)
    PROVE  IInv'
<1>1. /\ store[t].status = "authenticated" /\ main[t] \in {"idle", "logout"}
      /\ call[t][c].at # "waiting"
      /\ call' = [call EXCEPT ![t][c] = [at |-> "sent", token |-> store[t].access]]
      /\ UNCHANGED <<server, stored, store, main, mine, wire, left, disturbed, faults>>
    BY DEF StartCall, AtRest
<1>2. c \in Fetch /\ c # "me" /\ store[t].access \in Token \cup {NoToken}
    BY Typing, CallsAssumption DEF Fetch, Store
<1>3. /\ call' \in [Tab -> [Fetch -> CallState]]
      /\ call'[t][c] = [at |-> "sent", token |-> store[t].access]
      /\ \A d \in Fetch : d # c => call'[t][d] = call[t][d]
      /\ \A o \in Others(t) : call'[o] = call[o]
    BY <1>1, <1>2 DEF IInv, ShapeInv, TypeOK, CallState, Others
<1>4. ShapeInv'
    BY <1>1, <1>3 DEF IInv, ShapeInv, TypeOK, CallState, InFlight, server
<1>5. StageInv(t)' /\ AnswerInv(t)' /\ WaitersInv(t)'
    BY <1>1, <1>2, <1>3, Typing
       DEF StageInv, AnswerInv, WaitersInv, InFlight, Fetch, LogsOut
<1>6. ~disturbed => SoundSession(t)'
    BY <1>1, <1>2, <1>3, Typing
       DEF SoundSession, Relies, InFlight, Fetch, server
<1> QED
    BY <1>1, <1>3, <1>4, <1>5, <1>6, StepOfOneTab, WiresStay DEF server, Others

LEMMA CallSucceedsKeepsIInv ==
    ASSUME IInv, NEW t \in Tab, NEW c \in Call, CallSucceeds(t, c)
    PROVE  IInv'
<1>1. /\ call[t][c].at \in {"sent", "resent"}
      /\ call' = [call EXCEPT ![t][c] = AtRest]
      /\ UNCHANGED <<server, stored, store, main, mine, wire, left, disturbed, faults>>
    BY DEF CallSucceeds, Accepted
<1>2. c \in Fetch /\ c # "me" /\ AtRest \in CallState
    BY CallsAssumption DEF Fetch, CallState, AtRest
<1>3. /\ call' \in [Tab -> [Fetch -> CallState]]
      /\ call'[t][c] = AtRest
      /\ \A d \in Fetch : d # c => call'[t][d] = call[t][d]
      /\ \A o \in Others(t) : call'[o] = call[o]
    BY <1>1, <1>2 DEF IInv, ShapeInv, TypeOK, CallState, Others
<1>4. ShapeInv'
    BY <1>1, <1>3 DEF IInv, ShapeInv, TypeOK, CallState, InFlight, server
<1>5. StageInv(t)' /\ AnswerInv(t)' /\ WaitersInv(t)'
    BY <1>1, <1>2, <1>3, Typing
       DEF StageInv, AnswerInv, WaitersInv, InFlight, Fetch, LogsOut, AtRest
<1>6. ~disturbed => SoundSession(t)'
    BY <1>1, <1>2, <1>3, Typing
       DEF SoundSession, Relies, InFlight, Fetch, server, AtRest
<1> QED
    BY <1>1, <1>3, <1>4, <1>5, <1>6, StepOfOneTab, WiresStay DEF server, Others

\* Unless something interfered, a call that is refused is one of the page's, and one
\* that is refused again has a wrong password: the tokens have just been issued.
LEMMA RefusedCalls ==
    ASSUME IInv, NEW t \in Tab, NEW c \in Fetch, NEW at \in {"sent", "resent"},
           Unauthorized(t, c, at), ~disturbed
    PROVE  /\ c \in Call /\ c # "me"
           /\ at = "resent" => c \in PasswordCall /\ call[t][c].token \in fresh
           /\ store[t].status # "loading" /\ main[t] \notin {"closed", "bootstrap"}
<1>1. /\ StageInv(t) /\ SoundSession(t) /\ call[t][c].at = at
      /\ call[t][c].token \notin fresh \/ c \in PasswordCall
    BY Typing DEF Unauthorized
<1>2. c # "me" /\ c \in Call
    BY <1>1, CallsAssumption DEF SoundSession, Fetch, AtRest
<1> QED
    BY <1>1, <1>2 DEF SoundSession, StageInv, AtRest

LEMMA JoinRefreshKeepsIInv ==
    ASSUME IInv, NEW t \in Tab, NEW c \in Fetch, JoinRefresh(t, c)
    PROVE  IInv'
<1>1. /\ Unauthorized(t, c, "sent") /\ InFlight(t, "refresh")
      /\ call' = [call EXCEPT ![t][c] = Wait]
      /\ UNCHANGED <<server, stored, store, main, mine, wire, left, disturbed, faults>>
    BY DEF JoinRefresh
<1>2. Wait \in CallState /\ Wait # AtRest /\ call[t][c] # AtRest
    BY <1>1 DEF CallState, Wait, AtRest, Unauthorized
<1>3. /\ call' \in [Tab -> [Fetch -> CallState]]
      /\ call'[t][c] = Wait
      /\ \A d \in Fetch : d # c => call'[t][d] = call[t][d]
      /\ \A o \in Others(t) : call'[o] = call[o]
    BY <1>1, <1>2 DEF IInv, ShapeInv, TypeOK, CallState, Others
<1>4. ShapeInv'
    BY <1>1, <1>3 DEF IInv, ShapeInv, TypeOK, CallState, InFlight, server
<1>5. StageInv(t)' /\ AnswerInv(t)' /\ WaitersInv(t)'
    BY <1>1, <1>2, <1>3, Typing
       DEF StageInv, AnswerInv, WaitersInv, InFlight, Fetch, LogsOut, Wait
<1>6. ~disturbed => SoundSession(t)'
    BY <1>1, <1>2, <1>3, Typing, RefusedCalls
       DEF SoundSession, Relies, InFlight, Fetch, server, Wait
<1> QED
    BY <1>1, <1>3, <1>4, <1>5, <1>6, StepOfOneTab, WiresStay DEF server, Others

\* A request leaves the tab, while no other is under way unless that is noted.
LEMMA PostFirst ==
    ASSUME IInv, NEW t \in Tab, NEW s \in Slot, stored # NoToken, ~disturbed,
           ~InFlight(t, "main"), ~InFlight(t, "refresh"), ~Contended(t, stored)
    PROVE  /\ stored \in live /\ stored \in Token
           /\ \A o \in Tab, r \in Slot : ~InFlight(o, r)
<1>1. \A o \in Tab, r \in Slot : InFlight(o, r) => wire[o][r].token = stored
    BY AtMostOne
<1>2. \A o \in Tab, r \in Slot : ~InFlight(o, r)
    BY <1>1 DEF Contended, Others, Slot
<1>3. stored \in live
    BY <1>2 DEF IInv, OneRequest
<1> QED
    BY <1>2, <1>3 DEF IInv, ShapeInv

LEMMA PostedAlone ==
    ASSUME IInv, NEW t \in Tab, NEW s \in Slot, stored \in live, stored \in Token,
           \A o \in Tab, r \in Slot : ~InFlight(o, r), ~disturbed,
           wire' = [wire EXCEPT ![t][s] = Post(stored)],
           UNCHANGED <<server, stored, left>>
    PROVE  OneRequest' /\ NothingForgotten'
<1>1. wire \in [Tab -> [Slot -> Request \cup {NoRequest}]] /\ NoRequest \notin Request
    BY ValuesAssumption DEF IInv, ShapeInv
<1>2. Post(stored) \in Request /\ Post(stored).token = stored
      /\ Post(stored).answer = "none" /\ Post(stored).issued = NoToken
    BY DEF Post, Request
<1> HIDE DEF Post
<1>3. \A o \in Tab, r \in Slot : wire'[o][r] = IF o = t /\ r = s THEN Post(stored) ELSE NoRequest
    BY <1>1 DEF InFlight
<1>4. \A o \in Tab, r \in Slot : InFlight(o, r)' => o = t /\ r = s
    BY <1>3 DEF InFlight
<1>5. OneRequest'
    BY <1>2, <1>3, <1>4 DEF OneRequest, server, InFlight
<1>6. \A n \in live \ left : n = stored
    BY DEF IInv, NothingForgotten
<1> QED
    BY <1>5, <1>6 DEF NothingForgotten, server

LEMMA StartRefreshKeepsIInv ==
    ASSUME IInv, NEW t \in Tab, NEW c \in Fetch, StartRefresh(t, c)
    PROVE  IInv'
<1>1. /\ Unauthorized(t, c, "sent") /\ ~InFlight(t, "refresh") /\ stored # NoToken
      /\ call' = [call EXCEPT ![t][c] = Wait]
      /\ wire' = [wire EXCEPT ![t]["refresh"] = Post(stored)]
      /\ Disturb(Contended(t, stored) \/ main[t] = "logout" \/ AfterTheEnd(t))
      /\ UNCHANGED <<server, stored, store, main, mine, left, faults>>
    BY DEF StartRefresh
<1>2. Wait \in CallState /\ Wait # AtRest /\ call[t][c] # AtRest
    BY <1>1 DEF CallState, Wait, AtRest, Unauthorized
<1>3. /\ call' \in [Tab -> [Fetch -> CallState]]
      /\ call'[t][c] = Wait
      /\ \A d \in Fetch : d # c => call'[t][d] = call[t][d]
      /\ \A o \in Others(t) : call'[o] = call[o]
    BY <1>1, <1>2 DEF IInv, ShapeInv, TypeOK, CallState, Others
<1>4. stored \in Token /\ Post(stored) \in Request /\ Post(stored) # NoRequest
    BY <1>1, ValuesAssumption DEF IInv, ShapeInv, TypeOK, Post, Request
<1>5. /\ wire' \in [Tab -> [Slot -> Request \cup {NoRequest}]]
      /\ wire'[t]["main"] = wire[t]["main"] /\ wire'[t]["refresh"] = Post(stored)
      /\ \A o \in Others(t) : wire'[o] = wire[o]
    BY <1>1, <1>4 DEF IInv, ShapeInv, Slot, Others
<1>6. ShapeInv'
    BY <1>1, <1>3, <1>5 DEF IInv, ShapeInv, TypeOK, CallState, InFlight, server, Disturb
<1>7. StageInv(t)' /\ AnswerInv(t)' /\ WaitersInv(t)'
    <2>1. main[t] # "closed"
        BY <1>1, <1>2, Typing DEF StageInv, Fetch
    <2>2. StageInv(t)'
        BY <1>1, <1>2, <1>3, <1>5, <2>1, Typing DEF StageInv, InFlight, Fetch, Slot
    <2>3. AnswerInv(t)'
        BY <1>1, <1>5, Typing DEF AnswerInv, InFlight, LogsOut, Slot, Post
    <2>4. WaitersInv(t)'
        BY <1>3, <1>4, <1>5 DEF WaitersInv, InFlight, Wait
    <2> QED
        BY <2>2, <2>3, <2>4
<1>8. ASSUME ~disturbed' PROVE ~disturbed /\ OneRequest' /\ NothingForgotten' /\ SoundSession(t)'
    <2>1. ~disturbed /\ ~Contended(t, stored) /\ main[t] # "logout" /\ ~AfterTheEnd(t)
        BY <1>1, <1>8 DEF Disturb, IInv, ShapeInv, TypeOK
    <2>2. /\ c # "me" /\ c \in Call /\ store[t].status # "loading"
          /\ main[t] \notin {"closed", "bootstrap", "logout"}
        BY <1>1, <2>1, RefusedCalls
    <2>3. ~InFlight(t, "main")
        BY <2>2, Typing DEF StageInv
    <2>4. OneRequest' /\ NothingForgotten'
        BY <1>1, <2>1, <2>3, PostFirst, PostedAlone DEF Slot
    <2>5. store[t].status = "authenticated" \/ main[t] = "login"
        BY <2>1, <2>2, Typing DEF AfterTheEnd, Store, Status
    <2>6. SoundSession(t)'
        BY <1>1, <1>2, <1>3, <2>1, <2>2, <2>5, Typing
           DEF SoundSession, Relies, Fetch, server, Wait
    <2> QED
        BY <2>1, <2>4, <2>6
<1> QED
    BY <1>1, <1>3, <1>5, <1>6, <1>7, <1>8, StepOfOneTab DEF server, Others

\* What fails is at rest, and with me() the function that called it.
LEMMA FailedCalls ==
    ASSUME IInv, NEW t \in Tab, NEW done \in SUBSET Fetch, FailCalls(t, done)
    PROVE  /\ call' \in [Tab -> [Fetch -> CallState]]
           /\ main' \in [Tab -> {"closed", "idle", "bootstrap", "login", "logout"}]
           /\ mine' \in [Tab -> Token \cup {NoToken}]
           /\ \A d \in Fetch : call'[t][d] = IF d \in done THEN AtRest ELSE call[t][d]
           /\ \A o \in Others(t) : call'[o] = call[o] /\ main'[o] = main[o] /\ mine'[o] = mine[o]
           /\ main'[t] = IF "me" \in done THEN "idle" ELSE main[t]
<1>1. /\ call' = [call EXCEPT ![t] = Settle(call[t], done)]
      /\ main' = IF "me" \in done THEN [main EXCEPT ![t] = "idle"] ELSE main
      /\ mine' = IF "me" \in done THEN [mine EXCEPT ![t] = NoToken] ELSE mine
    BY DEF FailCalls
<1>2. /\ call \in [Tab -> [Fetch -> CallState]]
      /\ main \in [Tab -> {"closed", "idle", "bootstrap", "login", "logout"}]
      /\ mine \in [Tab -> Token \cup {NoToken}]
    BY DEF IInv, ShapeInv, TypeOK, CallState
<1>3. AtRest \in CallState
    BY DEF AtRest, CallState
<1>4. /\ Settle(call[t], done) \in [Fetch -> CallState]
      /\ \A d \in Fetch : Settle(call[t], done)[d] = IF d \in done THEN AtRest ELSE call[t][d]
    BY <1>2, <1>3 DEF Settle
<1> QED
    BY <1>1, <1>2, <1>4 DEF Others

LEMMA EndedSession ==
    ASSUME IInv, NEW t \in Tab, EndSession(t)
    PROVE  /\ stored' = NoToken /\ store' \in [Tab -> Store]
           /\ store'[t].status = "unauthenticated" /\ store'[t].user = Nobody
           /\ \A o \in Others(t) : store'[o] = store[o]
<1>1. store \in [Tab -> Store] /\ SignedOut \in Store
    BY DEF IInv, ShapeInv, TypeOK, Store, SignedOut, Status
<1> QED
    BY <1>1 DEF EndSession, SignedOut, Others

\* The pieces of the typing that a step disturbs, put together.
LEMMA ShapeFromPieces ==
    ASSUME IInv, NEW t \in Tab,
           owner' \in [Token -> User \cup {Nobody}],
           live' \subseteq Token, fresh' \subseteq Token,
           live' \cup fresh' \subseteq {n \in Token : owner'[n] # Nobody},
           stored' \in Token \cup {NoToken}, store' \in [Tab -> Store],
           store'[t].status = "authenticated" <=> store'[t].user # Nobody,
           \A o \in Others(t) : store'[o] = store[o],
           main' \in [Tab -> {"closed", "idle", "bootstrap", "login", "logout"}],
           mine' \in [Tab -> Token \cup {NoToken}],
           wire' \in [Tab -> [Slot -> Request \cup {NoRequest}]],
           call' \in [Tab -> [Fetch -> CallState]],
           left' \subseteq Token, faults' \in 0 .. MaxFaults, disturbed' \in BOOLEAN
    PROVE  ShapeInv'
<1>1. \A o \in Tab : store'[o].status = "authenticated" <=> store'[o].user # Nobody
    BY Typing DEF Others
<1> QED
    BY <1>1 DEF ShapeInv, TypeOK, Store, CallState, InFlight

LEMMA Shape ==
    ASSUME IInv
    PROVE  /\ owner \in [Token -> User \cup {Nobody}]
           /\ live \subseteq Token /\ fresh \subseteq Token
           /\ live \cup fresh \subseteq {n \in Token : owner[n] # Nobody}
           /\ stored \in Token \cup {NoToken} /\ store \in [Tab -> Store]
           /\ main \in [Tab -> {"closed", "idle", "bootstrap", "login", "logout"}]
           /\ mine \in [Tab -> Token \cup {NoToken}]
           /\ wire \in [Tab -> [Slot -> Request \cup {NoRequest}]]
           /\ call \in [Tab -> [Fetch -> CallState]]
           /\ left \subseteq Token /\ faults \in 0 .. MaxFaults /\ disturbed \in BOOLEAN
BY DEF IInv, ShapeInv, TypeOK, Store, CallState

LEMMA SameServer ==
    ASSUME IInv, UNCHANGED server
    PROVE  /\ owner' \in [Token -> User \cup {Nobody}]
           /\ live' \subseteq Token /\ fresh' \subseteq Token
           /\ live' \cup fresh' \subseteq {n \in Token : owner'[n] # Nobody}
BY Shape DEF server

LEMMA DisturbedOrNot ==
    ASSUME IInv, NEW P \in BOOLEAN, Disturb(P)
    PROVE  disturbed' \in BOOLEAN /\ (~disturbed' => ~disturbed /\ ~P)
BY Shape DEF Disturb

LEMMA FaultsCount ==
    ASSUME IInv, Fault \/ UNCHANGED faults
    PROVE  faults' \in 0 .. MaxFaults
BY Shape, BoundsAssumption DEF Fault

\* A tab that waits for an answer relies on the stored token.
LEMMA OthersInFlight ==
    ASSUME IInv, NEW t \in Tab, ~disturbed, ~Shared(t)
    PROVE  \A o \in Others(t), s \in Slot : ~InFlight(o, s)
<1> SUFFICES ASSUME NEW o \in Others(t), NEW s \in Slot, InFlight(o, s) PROVE FALSE
    OBVIOUS
<1>1. o \in Tab /\ SoundSession(o) /\ StageInv(o)
    BY Typing DEF Others
<1> QED
    BY <1>1 DEF SoundSession, StageInv, Shared, Slot

\* Undisturbed there was nothing stored, or the password was wrong: the token that is
\* dropped is in `left' then, and nothing else relies on it.
LEMMA SessionExpiresKeepsIInv ==
    ASSUME IInv, NEW t \in Tab, NEW c \in Fetch, SessionExpires(t, c)
    PROVE  IInv'
<1>1. /\ \/ Unauthorized(t, c, "sent") /\ ~InFlight(t, "refresh") /\ stored = NoToken
         \/ Unauthorized(t, c, "resent")
      /\ EndSession(t)
      /\ FailCalls(t, {c})
      /\ left' = IF c \in PasswordCall THEN left \cup (live \cap {stored}) ELSE left
      /\ Disturb(CutShort(t) \/ main[t] \in {"login", "logout"})
      /\ UNCHANGED <<server, wire, faults>>
    BY DEF SessionExpires
<1>2. call[t][c] # AtRest
    BY <1>1 DEF Unauthorized, AtRest
<1>3. /\ (CutShort(t) \/ main[t] \in {"login", "logout"}) \in BOOLEAN
      /\ left' \subseteq Token
    BY <1>1, Shape DEF CutShort, InFlight, Shared
<1>4. ShapeInv'
    <2>1. /\ stored' \in Token \cup {NoToken} /\ store' \in [Tab -> Store]
          /\ store'[t].status = "authenticated" <=> store'[t].user # Nobody
          /\ \A o \in Others(t) : store'[o] = store[o]
        BY <1>1, EndedSession
    <2>2. disturbed' \in BOOLEAN /\ faults' \in 0 .. MaxFaults
        BY <1>1, <1>3, DisturbedOrNot, FaultsCount
    <2>3. /\ call' \in [Tab -> [Fetch -> CallState]]
          /\ main' \in [Tab -> {"closed", "idle", "bootstrap", "login", "logout"}]
          /\ mine' \in [Tab -> Token \cup {NoToken}]
        BY <1>1, FailedCalls
    <2> QED
        BY <1>1, <1>3, <2>1, <2>2, <2>3, Shape, ShapeFromPieces DEF server
<1>5. StageInv(t)' /\ AnswerInv(t)' /\ WaitersInv(t)'
    <2>1. main[t] # "closed" /\ (c = "me" => main[t] \in {"bootstrap", "login"})
          /\ (main[t] = "bootstrap" => c = "me" /\ ~InFlight(t, "main"))
        BY <1>2, Typing DEF StageInv, Fetch
    <2>2. /\ main'[t] = (IF c = "me" THEN "idle" ELSE main[t])
          /\ \A d \in Fetch : call'[t][d] = IF d = c THEN AtRest ELSE call[t][d]
          /\ wire'[t] = wire[t] /\ store'[t].status = "unauthenticated"
        BY <1>1, EndedSession, FailedCalls
    <2>3. StageInv(t)'
        BY <2>1, <2>2, Typing, CallsAssumption DEF StageInv, InFlight, Fetch
    <2>4. AnswerInv(t)'
        BY <2>1, <2>2, Typing DEF AnswerInv, InFlight, LogsOut, Slot, StageInv
    <2>5. WaitersInv(t)'
        BY <1>1, <2>2, Typing DEF WaitersInv, InFlight, AtRest, Unauthorized
    <2> QED
        BY <2>3, <2>4, <2>5
<1>6. ASSUME ~disturbed'
      PROVE  /\ ~disturbed /\ ~Shared(t) /\ OneRequest' /\ NothingForgotten' /\ SoundSession(t)'
    <2>1. ~disturbed /\ ~CutShort(t) /\ main[t] \notin {"login", "logout"}
        BY <1>1, <1>3, <1>6, DisturbedOrNot
    <2>2. /\ stored = NoToken \/ c \in PasswordCall
          /\ c \in Call /\ c # "me" /\ main[t] \notin {"closed", "bootstrap"}
        BY <1>1, <2>1, RefusedCalls
    <2>3. main[t] = "idle" /\ SoundSession(t) /\ StageInv(t)
        BY <2>1, <2>2, Typing
    <2>4. stored = NoToken \/ \A o \in Tab, s \in Slot : ~InFlight(o, s)
        BY <2>1, <2>3, OthersInFlight DEF CutShort, StageInv, Slot, Others
    <2>5. OneRequest' /\ NothingForgotten'
        <3>1. CASE stored = NoToken
            <4>1. left' = left
                BY <1>1, <3>1, Shape, ValuesAssumption
            <4> QED
                BY <1>1, <2>1, <3>1, <4>1, WiresStay, EndedSession DEF server
        <3>2. CASE stored # NoToken
            <4>1. /\ \A o \in Tab, s \in Slot : ~InFlight(o, s)' /\ ~InFlight(o, s)
                  /\ stored' = NoToken /\ live' = live /\ left' = left \cup (live \cap {stored})
                BY <1>1, <2>2, <2>4, <3>2, EndedSession DEF InFlight, server
            <4>2. \A n \in live \ left : n = stored
                BY <2>1, <4>1 DEF IInv, NothingForgotten
            <4> QED
                BY <4>1, <4>2 DEF OneRequest, NothingForgotten
        <3> QED
            BY <3>1, <3>2
    <2>6. /\ main'[t] = main[t]
          /\ \A d \in Fetch : call'[t][d] = IF d = c THEN AtRest ELSE call[t][d]
          /\ wire'[t] = wire[t] /\ store'[t].status = "unauthenticated"
        BY <1>1, <2>2, EndedSession, FailedCalls
    <2>7. SoundSession(t)'
        BY <1>1, <2>1, <2>2, <2>3, <2>6
           DEF SoundSession, Relies, InFlight, CutShort, server, AtRest, Fetch
    <2> QED
        BY <2>1, <2>5, <2>7 DEF CutShort
<1> QED
    BY <1>1, <1>4, <1>5, <1>6, EndedSession, FailedCalls, StepOfOneTab DEF server, Others

LEMMA CallFailsKeepsIInv ==
    ASSUME IInv, NEW t \in Tab, NEW c \in Fetch, CallFails(t, c)
    PROVE  IInv'
<1>1. /\ Fault
      /\ call[t][c].at \in {"sent", "resent", "changed"}
      /\ FailCalls(t, {c})
      /\ disturbed' = TRUE
      /\ IF c = "me" /\ main[t] = "bootstrap" THEN EndSession(t) ELSE UNCHANGED <<stored, store>>
      /\ UNCHANGED <<server, wire, left>>
    BY DEF CallFails, Disturb
<1>2. call[t][c] # AtRest
    BY <1>1 DEF AtRest
<1>3. /\ stored' \in Token \cup {NoToken} /\ store' \in [Tab -> Store]
      /\ store'[t].status = "authenticated" <=> store'[t].user # Nobody
      /\ \A o \in Others(t) : store'[o] = store[o]
      /\ store'[t].status = IF c = "me" /\ main[t] = "bootstrap" THEN "unauthenticated"
                            ELSE store[t].status
    BY <1>1, Shape, Typing, EndedSession DEF Others
<1>4. ShapeInv'
    BY <1>1, <1>3, Shape, FailedCalls, FaultsCount, ShapeFromPieces DEF server
<1>5. main[t] # "closed" /\ (c = "me" => main[t] \in {"bootstrap", "login"})
      /\ (main[t] = "bootstrap" => c = "me" /\ ~InFlight(t, "main"))
    BY <1>2, Typing DEF StageInv, Fetch
<1>6. /\ main'[t] = (IF c = "me" THEN "idle" ELSE main[t])
      /\ \A d \in Fetch : call'[t][d] = IF d = c THEN AtRest ELSE call[t][d]
      /\ wire'[t] = wire[t]
    BY <1>1, FailedCalls
<1>7. StageInv(t)'
    BY <1>3, <1>5, <1>6, Typing, CallsAssumption DEF StageInv, InFlight, Fetch
<1>8. AnswerInv(t)'
    BY <1>5, <1>6, Typing DEF AnswerInv, InFlight, LogsOut, Slot, StageInv
<1>9. WaitersInv(t)'
    BY <1>1, <1>6, Typing DEF WaitersInv, InFlight, AtRest
<1> QED
    BY <1>1, <1>3, <1>4, <1>7, <1>8, <1>9, FailedCalls, StepOfOneTab DEF Others

\* The stored token is replaced by the one it was exchanged for; it is not good any
\* longer.
LEMMA ReceivedAlone ==
    ASSUME IInv, NEW t \in Tab, NEW s \in Slot, InFlight(t, s), ~disturbed,
           wire[t][s].answer = "ok",
           wire' = [wire EXCEPT ![t][s] = NoRequest],
           stored' = wire[t][s].issued, UNCHANGED <<server, left>>
    PROVE  OneRequest' /\ NothingForgotten'
<1> DEFINE n == wire[t][s].issued
<1>1. /\ \A m \in live \ left : m = n
      /\ \A o \in Tab, r \in Slot : InFlight(o, r) => o = t /\ r = s
    BY AtMostOne
<1>2. \A o \in Tab, r \in Slot : ~InFlight(o, r)'
    BY <1>1, Shape DEF InFlight
<1>3. NothingForgotten'
    BY <1>1 DEF NothingForgotten, server
<1>4. n = NoToken \/ n \in live
    BY AtMostOne
<1> QED
    BY <1>2, <1>3, <1>4 DEF OneRequest, server

\* The request of a slot is over, or answered.
LEMMA WireOfOneSlot ==
    ASSUME IInv, NEW t \in Tab, NEW s \in Slot, NEW r \in Request \cup {NoRequest},
           wire' = [wire EXCEPT ![t][s] = r]
    PROVE  /\ wire' \in [Tab -> [Slot -> Request \cup {NoRequest}]]
           /\ wire'[t][s] = r /\ (\A q \in Slot : q # s => wire'[t][q] = wire[t][q])
           /\ \A o \in Others(t) : wire'[o] = wire[o]
BY Shape DEF Others

\* Undisturbed no exchange is refused.
LEMMA RefreshFailsKeepsIInv ==
    ASSUME IInv, NEW t \in Tab, RefreshFails(t)
    PROVE  IInv'
<1>1. /\ InFlight(t, "refresh")
      /\ \/ wire[t]["refresh"].answer = "refused" /\ UNCHANGED faults /\ Disturb(Shared(t))
         \/ Fault /\ Disturb(TRUE)
      /\ wire' = [wire EXCEPT ![t]["refresh"] = NoRequest]
      /\ IF Waiting(t) = {} THEN UNCHANGED <<stored, store>> ELSE EndSession(t)
      /\ FailCalls(t, Waiting(t)) /\ Waiting(t) \in SUBSET Fetch
      /\ UNCHANGED <<server, left>>
    BY DEF RefreshFails, Waiting
<1>2. /\ disturbed' \in BOOLEAN /\ faults' \in 0 .. MaxFaults
      /\ disturbed'
    <2>1. Shared(t) \in BOOLEAN
        BY DEF Shared
    <2>2. disturbed' \in BOOLEAN /\ faults' \in 0 .. MaxFaults
        BY <1>1, <2>1, DisturbedOrNot, FaultsCount
    <2>3. ~disturbed => wire[t]["refresh"].answer # "refused"
        BY <1>1, AtMostOne DEF Slot
    <2> QED
        BY <1>1, <2>1, <2>2, <2>3, Shape DEF Disturb
<1>3. /\ wire' \in [Tab -> [Slot -> Request \cup {NoRequest}]]
      /\ wire'[t]["refresh"] = NoRequest /\ wire'[t]["main"] = wire[t]["main"]
      /\ \A o \in Others(t) : wire'[o] = wire[o]
    BY <1>1, WireOfOneSlot DEF Slot
<1>4. /\ stored' \in Token \cup {NoToken} /\ store' \in [Tab -> Store]
      /\ store'[t].status = "authenticated" <=> store'[t].user # Nobody
      /\ \A o \in Others(t) : store'[o] = store[o]
      /\ store'[t].status = IF Waiting(t) = {} THEN store[t].status ELSE "unauthenticated"
    BY <1>1, Shape, Typing, EndedSession DEF Others
<1>5. /\ call' \in [Tab -> [Fetch -> CallState]]
      /\ main' \in [Tab -> {"closed", "idle", "bootstrap", "login", "logout"}]
      /\ mine' \in [Tab -> Token \cup {NoToken}]
      /\ \A d \in Fetch : call'[t][d] = IF d \in Waiting(t) THEN AtRest ELSE call[t][d]
      /\ \A o \in Others(t) : call'[o] = call[o] /\ main'[o] = main[o]
      /\ main'[t] = IF "me" \in Waiting(t) THEN "idle" ELSE main[t]
    BY <1>1, FailedCalls
<1>6. ShapeInv'
    BY <1>1, <1>2, <1>3, <1>4, <1>5, Shape, ShapeFromPieces DEF server
<1>7. StageInv(t)'
    <2>1. main[t] # "closed" /\ ("me" \in Waiting(t) => main[t] \in {"bootstrap", "login"})
          /\ (main[t] = "bootstrap" => Waiting(t) \subseteq {"me"})
          /\ ("me" \in Waiting(t) => ~InFlight(t, "main"))
        BY <1>1, Typing DEF StageInv, Fetch, Waiting, AtRest, Slot
    <2> QED
        BY <1>3, <1>4, <1>5, <2>1, Typing, CallsAssumption DEF StageInv, InFlight, Fetch, Slot
<1>8. AnswerInv(t)'
    <2>1. InFlight(t, "main") => "me" \notin Waiting(t)
        BY Typing DEF StageInv, Waiting, AtRest
    <2> QED
        BY <1>3, <1>5, <2>1, Typing DEF AnswerInv, InFlight, LogsOut, Slot
<1>9. WaitersInv(t)'
    BY <1>3, <1>5 DEF WaitersInv, Waiting, InFlight, AtRest
<1> QED
    BY <1>2, <1>3, <1>4, <1>5, <1>6, <1>7, <1>8, <1>9, StepOfOneTab

LEMMA BootstrapFailsKeepsIInv ==
    ASSUME IInv, NEW t \in Tab, BootstrapFails(t)
    PROVE  IInv'
<1>1. /\ main[t] = "bootstrap" /\ InFlight(t, "main")
      /\ \/ wire[t]["main"].answer = "refused" /\ UNCHANGED faults /\ Disturb(CutShort(t))
         \/ Fault /\ Disturb(TRUE)
      /\ EndSession(t)
      /\ main' = [main EXCEPT ![t] = "idle"]
      /\ wire' = [wire EXCEPT ![t]["main"] = NoRequest]
      /\ UNCHANGED <<server, mine, call, left>>
    BY DEF BootstrapFails
<1>2. /\ disturbed' \in BOOLEAN /\ faults' \in 0 .. MaxFaults
      /\ disturbed'
    <2>1. CutShort(t) \in BOOLEAN
        BY DEF CutShort, InFlight, Shared
    <2>2. disturbed' \in BOOLEAN /\ faults' \in 0 .. MaxFaults
        BY <1>1, <2>1, DisturbedOrNot, FaultsCount
    <2>3. ~disturbed => wire[t]["main"].answer # "refused"
        BY <1>1, AtMostOne DEF Slot
    <2> QED
        BY <1>1, <2>1, <2>2, <2>3, Shape DEF Disturb
<1>3. /\ wire' \in [Tab -> [Slot -> Request \cup {NoRequest}]]
      /\ wire'[t]["main"] = NoRequest /\ wire'[t]["refresh"] = wire[t]["refresh"]
      /\ \A o \in Others(t) : wire'[o] = wire[o]
    BY <1>1, WireOfOneSlot DEF Slot
<1>4. /\ stored' \in Token \cup {NoToken} /\ store' \in [Tab -> Store]
      /\ store'[t].status = "unauthenticated" /\ store'[t].user = Nobody
      /\ \A o \in Others(t) : store'[o] = store[o]
    BY <1>1, EndedSession
<1>5. /\ main' \in [Tab -> {"closed", "idle", "bootstrap", "login", "logout"}]
      /\ main'[t] = "idle" /\ \A o \in Others(t) : main'[o] = main[o]
    BY <1>1, Shape DEF Others
<1>6. ShapeInv'
    <2>1. /\ mine' \in [Tab -> Token \cup {NoToken}] /\ call' \in [Tab -> [Fetch -> CallState]]
          /\ left' \subseteq Token /\ UNCHANGED server
        BY <1>1, Shape
    <2> QED
        BY <1>2, <1>3, <1>4, <1>5, <2>1, SameServer, ShapeFromPieces
<1>7. StageInv(t)'
    BY <1>1, <1>3, <1>4, <1>5, Typing DEF StageInv, InFlight, Slot
<1>8. AnswerInv(t)'
    BY <1>3, Typing DEF AnswerInv, InFlight, LogsOut, Slot
<1>9. WaitersInv(t)'
    BY <1>1, <1>3, Typing DEF WaitersInv, InFlight
<1> QED
    BY <1>1, <1>2, <1>3, <1>4, <1>5, <1>6, <1>7, <1>8, <1>9, StepOfOneTab DEF Others

\* The answer comes when the token is revoked: nothing is good any longer, or stored.
LEMMA LogoutEndsKeepsIInv ==
    ASSUME IInv, NEW t \in Tab, LogoutEnds(t)
    PROVE  IInv'
<1>1. /\ main[t] = "logout"
      /\ \/ wire[t]["main"].answer = "ok" /\ UNCHANGED faults /\ Disturb(CutShort(t))
         \/ Fault /\ Disturb(TRUE)
      /\ EndSession(t)
      /\ main' = [main EXCEPT ![t] = "idle"]
      /\ wire' = [wire EXCEPT ![t]["main"] = NoRequest]
      /\ UNCHANGED <<server, mine, call, left>>
    BY DEF LogoutEnds
<1>2. CutShort(t) \in BOOLEAN
    BY DEF CutShort, InFlight, Shared
<1>3. /\ wire' \in [Tab -> [Slot -> Request \cup {NoRequest}]]
      /\ wire'[t]["main"] = NoRequest /\ wire'[t]["refresh"] = wire[t]["refresh"]
      /\ \A o \in Others(t) : wire'[o] = wire[o]
    BY <1>1, WireOfOneSlot DEF Slot
<1>4. /\ stored' = NoToken /\ stored' \in Token \cup {NoToken} /\ store' \in [Tab -> Store]
      /\ store'[t].status = "unauthenticated" /\ store'[t].user = Nobody
      /\ \A o \in Others(t) : store'[o] = store[o]
    BY <1>1, EndedSession
<1>5. /\ main' \in [Tab -> {"closed", "idle", "bootstrap", "login", "logout"}]
      /\ main'[t] = "idle" /\ \A o \in Others(t) : main'[o] = main[o]
    BY <1>1, Shape DEF Others
<1>6. disturbed' \in BOOLEAN /\ faults' \in 0 .. MaxFaults
    BY <1>1, <1>2, DisturbedOrNot, FaultsCount
<1>7. ShapeInv'
    <2>1. /\ store'[t].status = "authenticated" <=> store'[t].user # Nobody
          /\ UNCHANGED <<server, mine, call, left>>
        BY <1>1, <1>4
    <2>2. mine' \in [Tab -> Token \cup {NoToken}] /\ call' \in [Tab -> [Fetch -> CallState]]
          /\ left' \subseteq Token
        BY <2>1, Shape
    <2> QED
        BY <1>3, <1>4, <1>5, <1>6, <2>1, <2>2, SameServer, ShapeFromPieces
<1>8. StageInv(t)' /\ AnswerInv(t)' /\ WaitersInv(t)'
    <2>1. StageInv(t)'
        BY <1>1, <1>3, <1>4, <1>5, Typing DEF StageInv, InFlight, Slot
    <2>2. AnswerInv(t)'
        BY <1>3, Typing DEF AnswerInv, InFlight, LogsOut, Slot
    <2>3. WaitersInv(t)'
        BY <1>1, <1>3, Typing DEF WaitersInv, InFlight
    <2> QED
        BY <2>1, <2>2, <2>3
<1>9. ASSUME ~disturbed'
      PROVE  /\ ~disturbed /\ ~Shared(t) /\ OneRequest' /\ NothingForgotten' /\ SoundSession(t)'
    <2>1. ~disturbed /\ ~CutShort(t) /\ wire[t]["main"].answer = "ok"
        BY <1>1, <1>2, <1>9, DisturbedOrNot, Shape DEF Disturb
    <2>2. InFlight(t, "main") /\ wire[t]["main"].issued = NoToken
        BY <1>1, Typing DEF StageInv, AnswerInv, LogsOut, Slot
    <2>3. OneRequest' /\ NothingForgotten'
        BY <1>1, <1>4, <2>1, <2>2, ReceivedAlone DEF Slot
    <2>4. ~InFlight(t, "refresh") /\ ~Shared(t)
        BY <2>1 DEF CutShort
    <2>5. SoundSession(t)'
        BY <1>1, <1>3, <1>4, <1>5, <2>1, <2>4, Typing
           DEF SoundSession, Relies, StageInv, InFlight, server
    <2> QED
        BY <2>1, <2>3, <2>4, <2>5
<1> QED
    BY <1>1, <1>3, <1>4, <1>5, <1>7, <1>8, <1>9, StepOfOneTab DEF server, Others

\* Whoever is signed in has a token to revoke, as long as nothing interferes.
LEMMA BeginLogoutKeepsIInv ==
    ASSUME IInv, NEW t \in Tab, BeginLogout(t),
           store[t].status = "authenticated" \/ disturbed,
           call' \in [Tab -> [Fetch -> CallState]],
           \A o \in Others(t) : call'[o] = call[o],
           \A d \in Fetch :
              \/ call'[t][d] = call[t][d]
              \/ d \in Call /\ call'[t][d] = AtRest /\ call[t][d].at = "changed"
    PROVE  IInv'
<1>1. /\ main[t] = "idle"
      /\ UNCHANGED <<server, mine, left, faults>>
    BY DEF BeginLogout
<1>2. /\ CutShort(t) \in BOOLEAN
      /\ (Contended(t, stored) \/ InFlight(t, "refresh")) \in BOOLEAN
    BY DEF CutShort, InFlight, Shared, Contended
<1>3. /\ ~InFlight(t, "main") /\ call[t]["me"] = AtRest
      /\ ~disturbed => stored # NoToken /\ store[t].status = "authenticated"
    BY <1>1, Typing DEF StageInv, SoundSession, Relies
<1>6. /\ call'[t]["me"] = AtRest
      /\ \A d \in Fetch : call'[t][d].at = "waiting" <=> call[t][d].at = "waiting"
      /\ ~disturbed => \A d \in Fetch : call'[t][d] = call[t][d]
    <2>1. "me" \in Fetch /\ "me" \notin Call
        BY CallsAssumption DEF Fetch
    <2>2. \A d \in Fetch : call'[t][d].at = "waiting" <=> call[t][d].at = "waiting"
        BY DEF AtRest
    <2>3. ~disturbed => \A d \in Fetch : call'[t][d] = call[t][d]
        BY Typing DEF SoundSession
    <2> QED
        BY <1>3, <2>1, <2>2, <2>3
<1>4. CASE stored = NoToken
    <2>1. EndSession(t) /\ Disturb(CutShort(t)) /\ UNCHANGED <<main, wire>>
        BY <1>4 DEF BeginLogout
    <2>2. /\ stored' \in Token \cup {NoToken} /\ store' \in [Tab -> Store]
          /\ store'[t].status = "unauthenticated" /\ store'[t].user = Nobody
          /\ \A o \in Others(t) : store'[o] = store[o]
        BY <2>1, EndedSession
    <2>3. disturbed' \in BOOLEAN /\ disturbed'
        BY <1>2, <1>3, <1>4, <2>1, DisturbedOrNot
    <2>4. ShapeInv'
        BY <1>1, <2>1, <2>2, <2>3, Shape, ShapeFromPieces DEF server
    <2>5. StageInv(t)' /\ AnswerInv(t)' /\ WaitersInv(t)'
        <3>1. StageInv(t)'
            BY <1>1, <1>3, <1>6, <2>1, <2>2, Typing DEF StageInv, InFlight
        <3>2. AnswerInv(t)' /\ WaitersInv(t)'
            BY <1>6, <2>1, Typing DEF AnswerInv, WaitersInv, InFlight, LogsOut
        <3> QED
            BY <3>1, <3>2
    <2> QED
        BY <1>1, <2>1, <2>2, <2>3, <2>4, <2>5, StepOfOneTab
<1>5. CASE stored # NoToken
    <2>1. /\ main' = [main EXCEPT ![t] = "logout"]
          /\ wire' = [wire EXCEPT ![t]["main"] = Post(stored)]
          /\ Disturb(Contended(t, stored) \/ InFlight(t, "refresh"))
          /\ UNCHANGED <<stored, store>>
        BY <1>5 DEF BeginLogout
    <2>2. stored \in Token /\ Post(stored) \in Request /\ Post(stored) # NoRequest
        BY <1>5, Shape, ValuesAssumption DEF Post, Request
    <2>3. /\ wire' \in [Tab -> [Slot -> Request \cup {NoRequest}]]
          /\ wire'[t]["main"] = Post(stored) /\ wire'[t]["refresh"] = wire[t]["refresh"]
          /\ \A o \in Others(t) : wire'[o] = wire[o]
        BY <2>1, <2>2, WireOfOneSlot DEF Slot
    <2>4. /\ main' \in [Tab -> {"closed", "idle", "bootstrap", "login", "logout"}]
          /\ main'[t] = "logout" /\ \A o \in Others(t) : main'[o] = main[o]
        BY <2>1, Shape DEF Others
    <2>5. disturbed' \in BOOLEAN
          /\ (~disturbed' => ~disturbed /\ ~Contended(t, stored) /\ ~InFlight(t, "refresh"))
        BY <1>2, <2>1, DisturbedOrNot
    <2>6. ShapeInv'
        <3>1. /\ stored' \in Token \cup {NoToken} /\ store' \in [Tab -> Store]
              /\ mine' \in [Tab -> Token \cup {NoToken}]
              /\ left' \subseteq Token /\ faults' \in 0 .. MaxFaults
            BY <1>1, <2>1, Shape
        <3>2. /\ store'[t].status = "authenticated" <=> store'[t].user # Nobody
              /\ \A o \in Others(t) : store'[o] = store[o]
            BY <2>1, Typing
        <3> QED
            BY <1>1, <2>3, <2>4, <2>5, <3>1, <3>2, SameServer, ShapeFromPieces
    <2>7. StageInv(t)' /\ AnswerInv(t)' /\ WaitersInv(t)'
        <3>1. StageInv(t)'
            BY <1>1, <1>3, <1>6, <2>1, <2>2, <2>3, <2>4, Typing DEF StageInv, InFlight, Slot
        <3>2. AnswerInv(t)'
            BY <2>3, <2>4, Typing DEF AnswerInv, InFlight, LogsOut, Slot, Post
        <3>3. WaitersInv(t)'
            BY <1>6, <2>3, Typing DEF WaitersInv, InFlight
        <3> QED
            BY <3>1, <3>2, <3>3
    <2>8. ASSUME ~disturbed' PROVE ~disturbed /\ OneRequest' /\ NothingForgotten' /\ SoundSession(t)'
        <3>1. ~disturbed /\ ~Contended(t, stored) /\ ~InFlight(t, "refresh")
            BY <2>5, <2>8
        <3>2. OneRequest' /\ NothingForgotten'
            BY <1>1, <1>3, <1>5, <2>1, <3>1, PostFirst, PostedAlone DEF Slot
        <3>3. SoundSession(t)'
            BY <1>1, <1>3, <1>6, <2>1, <2>3, <2>4, <3>1, Typing
               DEF SoundSession, Relies, InFlight, server, Fetch
        <3> QED
            BY <3>1, <3>2, <3>3
    <2> QED
        BY <1>1, <2>1, <2>3, <2>4, <2>6, <2>7, <2>8, StepOfOneTab DEF server, Others
<1> QED
    BY <1>4, <1>5

LEMMA LogoutKeepsIInv ==
    ASSUME IInv, NEW t \in Tab, Logout(t)
    PROVE  IInv'
BY Shape, BeginLogoutKeepsIInv DEF Logout, Others

\* A password is changed only at the price of every session.
LEMMA ChangePasswordKeepsIInv ==
    ASSUME IInv, NEW t \in Tab, NEW c \in Call, ChangePassword(t, c)
    PROVE  IInv'
<1>1. /\ call[t][c].at \in {"sent", "resent"} /\ disturbed' = TRUE
      /\ live' \subseteq live
      /\ call' = [call EXCEPT ![t][c].at = "changed"]
      /\ UNCHANGED <<owner, fresh, stored, store, main, mine, wire, left, faults>>
    BY DEF ChangePassword, Accepted, Disturb
<1> DEFINE x == [call[t][c] EXCEPT !.at = "changed"]
<1>2. c \in Fetch /\ c # "me"
    BY CallsAssumption DEF Fetch
<1>3. /\ x \in CallState /\ x # AtRest /\ x.at = "changed" /\ call[t][c] # AtRest
    BY <1>1, <1>2, Typing DEF CallState, AtRest
<1>4. call' = [call EXCEPT ![t][c] = x]
    BY <1>1, <1>2, Shape
<1> HIDE DEF x
<1>5. /\ call' \in [Tab -> [Fetch -> CallState]]
      /\ call'[t][c] = x /\ \A d \in Fetch : d # c => call'[t][d] = call[t][d]
      /\ \A o \in Others(t) : call'[o] = call[o]
    BY <1>2, <1>3, <1>4, Shape DEF Others
<1>6. ShapeInv'
    BY <1>1, <1>5 DEF IInv, ShapeInv, TypeOK, CallState, InFlight
<1>7. StageInv(t)' /\ AnswerInv(t)'
    BY <1>1, <1>2, <1>3, <1>5, Typing DEF StageInv, AnswerInv, InFlight, LogsOut, Fetch
<1>8. WaitersInv(t)'
    BY <1>1, <1>3, <1>5, Typing DEF WaitersInv, InFlight
<1> QED
    BY <1>1, <1>5, <1>6, <1>7, <1>8, StepOfOneTab DEF Others

LEMMA PasswordChangedKeepsIInv ==
    ASSUME IInv, NEW t \in Tab, NEW c \in Call, PasswordChanged(t, c)
    PROVE  IInv'
<1>1. /\ call[t][c].at = "changed" /\ BeginLogout(t)
      /\ call' = [call EXCEPT ![t][c] = AtRest]
    BY DEF PasswordChanged
<1>2. disturbed /\ c \in Fetch /\ AtRest \in CallState
    BY <1>1, Typing DEF SoundSession, Fetch, AtRest, CallState
<1>3. /\ call' \in [Tab -> [Fetch -> CallState]]
      /\ call'[t][c] = AtRest /\ \A d \in Fetch : d # c => call'[t][d] = call[t][d]
      /\ \A o \in Others(t) : call'[o] = call[o]
    BY <1>1, <1>2, Shape DEF Others
<1> QED
    BY <1>1, <1>2, <1>3, BeginLogoutKeepsIInv

-----------------------------------------------------------------------------
(* Pages are loaded and closed                                             *)

LEMMA OpenKeepsIInv ==
    ASSUME IInv, NEW t \in Tab, Open(t)
    PROVE  IInv'
<1>1. /\ main[t] = "closed"
      /\ UNCHANGED <<server, stored, mine, call, left, faults>>
    BY DEF Open
<1>2. /\ ~InFlight(t, "main") /\ ~InFlight(t, "refresh")
      /\ store[t].status = "loading" /\ \A c \in Fetch : call[t][c] = AtRest
    BY <1>1, Typing DEF StageInv, Slot, Fetch
<1>3. Waiting(t) = {}
    BY <1>2 DEF Waiting, AtRest
<1>4. CASE stored = NoToken
    <2>1. /\ store' = [store EXCEPT ![t] = SignedOut]
          /\ main' = [main EXCEPT ![t] = "idle"] /\ UNCHANGED <<wire, disturbed>>
        BY <1>4 DEF Open
    <2>2. SignedOut \in Store
        BY DEF SignedOut, Store, Status
    <2>3. /\ store' \in [Tab -> Store]
          /\ store'[t].status = "unauthenticated" /\ store'[t].user = Nobody
          /\ \A o \in Others(t) : store'[o] = store[o]
        BY <2>1, <2>2, Shape DEF Others, SignedOut
    <2>4. /\ main' \in [Tab -> {"closed", "idle", "bootstrap", "login", "logout"}]
          /\ main'[t] = "idle" /\ \A o \in Others(t) : main'[o] = main[o]
        BY <2>1, Shape DEF Others
    <2>5. ShapeInv'
        BY <1>1, <2>1, <2>3, <2>4, Shape, ShapeFromPieces DEF server
    <2>6. StageInv(t)' /\ AnswerInv(t)' /\ WaitersInv(t)'
        BY <1>1, <1>2, <1>3, <2>1, <2>3, <2>4, Typing
           DEF StageInv, AnswerInv, WaitersInv, InFlight, LogsOut, Slot, Fetch
    <2>7. ~disturbed => SoundSession(t)'
        BY <1>1, <1>2, <2>1, <2>3, <2>4, Typing
           DEF SoundSession, Relies, InFlight, server, Fetch, AtRest
    <2> QED
        BY <1>1, <2>1, <2>3, <2>4, <2>5, <2>6, <2>7, WiresStay, StepOfOneTab DEF server, Others
<1>5. CASE stored # NoToken
    <2>1. /\ main' = [main EXCEPT ![t] = "bootstrap"]
          /\ wire' = [wire EXCEPT ![t]["main"] = Post(stored)]
          /\ Disturb(Contended(t, stored)) /\ UNCHANGED store
        BY <1>5 DEF Open
    <2>2. stored \in Token /\ Post(stored) \in Request /\ Post(stored) # NoRequest
        BY <1>5, Shape, ValuesAssumption DEF Post, Request
    <2>3. /\ wire' \in [Tab -> [Slot -> Request \cup {NoRequest}]]
          /\ wire'[t]["main"] = Post(stored) /\ wire'[t]["refresh"] = wire[t]["refresh"]
          /\ \A o \in Others(t) : wire'[o] = wire[o]
        BY <2>1, <2>2, WireOfOneSlot DEF Slot
    <2>4. /\ main' \in [Tab -> {"closed", "idle", "bootstrap", "login", "logout"}]
          /\ main'[t] = "bootstrap" /\ \A o \in Others(t) : main'[o] = main[o]
        BY <2>1, Shape DEF Others
    <2>5. disturbed' \in BOOLEAN /\ (~disturbed' => ~disturbed /\ ~Contended(t, stored))
        <3>1. Contended(t, stored) \in BOOLEAN
            BY DEF Contended
        <3> QED
            BY <2>1, <3>1, DisturbedOrNot
    <2>6. ShapeInv'
        <3>1. /\ stored' \in Token \cup {NoToken} /\ store' \in [Tab -> Store]
              /\ mine' \in [Tab -> Token \cup {NoToken}]
              /\ call' \in [Tab -> [Fetch -> CallState]]
              /\ left' \subseteq Token /\ faults' \in 0 .. MaxFaults
            BY <1>1, <2>1, Shape
        <3>2. /\ store'[t].status = "authenticated" <=> store'[t].user # Nobody
              /\ \A o \in Others(t) : store'[o] = store[o]
            BY <2>1, Typing
        <3> QED
            BY <1>1, <2>3, <2>4, <2>5, <3>1, <3>2, SameServer, ShapeFromPieces
    <2>7. StageInv(t)' /\ AnswerInv(t)' /\ WaitersInv(t)'
        <3>1. StageInv(t)'
            BY <1>1, <1>2, <2>1, <2>2, <2>3, <2>4, Typing DEF StageInv, InFlight, Slot, Fetch
        <3>2. AnswerInv(t)'
            BY <1>2, <2>3, <2>4, Typing DEF AnswerInv, InFlight, LogsOut, Slot, Post
        <3>3. WaitersInv(t)'
            BY <1>1, <1>2, <2>3 DEF WaitersInv, InFlight, AtRest
        <3> QED
            BY <3>1, <3>2, <3>3
    <2>8. ASSUME ~disturbed' PROVE ~disturbed /\ OneRequest' /\ NothingForgotten' /\ SoundSession(t)'
        <3>1. ~disturbed /\ ~Contended(t, stored)
            BY <2>5, <2>8
        <3>2. OneRequest' /\ NothingForgotten'
            BY <1>1, <1>2, <1>5, <2>1, <3>1, PostFirst, PostedAlone DEF Slot
        <3>3. SoundSession(t)'
            BY <1>1, <1>2, <1>5, <2>1, <2>3, <2>4, <3>1, Typing
               DEF SoundSession, Relies, InFlight, server, Fetch, AtRest
        <3> QED
            BY <3>1, <3>2, <3>3
    <2> QED
        BY <1>1, <2>1, <2>3, <2>4, <2>6, <2>7, <2>8, StepOfOneTab DEF server, Others
<1> QED
    BY <1>4, <1>5

LEMMA CloseKeepsIInv ==
    ASSUME IInv, NEW t \in Tab, Close(t)
    PROVE  IInv'
<1> DEFINE noRequests == [s \in Slot |-> NoRequest]
           noCalls == [c \in Fetch |-> AtRest]
           loading == [SignedOut EXCEPT !.status = "loading"]
<1>1. /\ main' = [main EXCEPT ![t] = "closed"]
      /\ mine' = [mine EXCEPT ![t] = NoToken]
      /\ store' = [store EXCEPT ![t] = loading]
      /\ wire' = [wire EXCEPT ![t] = noRequests]
      /\ call' = [call EXCEPT ![t] = noCalls]
      /\ Disturb(\E s \in Slot : InFlight(t, s))
      /\ UNCHANGED <<server, stored, left, faults>>
    BY DEF Close
<1>2. loading \in Store /\ loading.status = "loading" /\ loading.user = Nobody
    BY DEF SignedOut, Store, Status
<1>3. noRequests \in [Slot -> Request \cup {NoRequest}] /\ noCalls \in [Fetch -> CallState]
    BY DEF AtRest, CallState
<1> HIDE DEF loading
<1>4. /\ main' \in [Tab -> {"closed", "idle", "bootstrap", "login", "logout"}]
      /\ mine' \in [Tab -> Token \cup {NoToken}] /\ store' \in [Tab -> Store]
      /\ wire' \in [Tab -> [Slot -> Request \cup {NoRequest}]]
      /\ call' \in [Tab -> [Fetch -> CallState]]
      /\ \A o \in Others(t) :
            /\ main'[o] = main[o] /\ store'[o] = store[o]
            /\ wire'[o] = wire[o] /\ call'[o] = call[o]
    BY <1>1, <1>2, <1>3, Shape DEF Others
<1>5. /\ main'[t] = "closed" /\ store'[t].status = "loading" /\ store'[t].user = Nobody
      /\ \A s \in Slot : wire'[t][s] = NoRequest
      /\ \A c \in Fetch : call'[t][c] = AtRest
    BY <1>1, <1>2, Shape
<1>6. disturbed' \in BOOLEAN /\ (~disturbed' => ~disturbed /\ \A s \in Slot : ~InFlight(t, s))
    BY <1>1, Shape DEF Disturb
<1>7. ShapeInv'
    <2>1. /\ store'[t].status = "authenticated" <=> store'[t].user # Nobody
          /\ UNCHANGED <<server, stored, left, faults>>
        BY <1>1, <1>5
    <2>2. stored' \in Token \cup {NoToken} /\ faults' \in 0 .. MaxFaults /\ left' \subseteq Token
        BY <2>1, Shape
    <2> QED
        BY <1>4, <1>6, <2>1, <2>2, SameServer, ShapeFromPieces
<1>8. StageInv(t)' /\ AnswerInv(t)' /\ WaitersInv(t)'
    BY <1>5 DEF StageInv, AnswerInv, WaitersInv, InFlight, Slot, Fetch, AtRest
<1>9. ASSUME ~disturbed' PROVE ~disturbed /\ OneRequest' /\ NothingForgotten' /\ SoundSession(t)'
    <2>1. ~disturbed /\ UNCHANGED wire
        <3>1. wire[t] = noRequests
            BY <1>6, <1>9, Typing DEF InFlight
        <3> QED
            BY <1>1, <1>6, <1>9, <3>1, Shape
    <2>2. OneRequest' /\ NothingForgotten'
        BY <1>1, <2>1, WiresStay DEF server
    <2>3. SoundSession(t)'
        BY <1>5 DEF SoundSession, Relies, InFlight, Slot, Fetch, AtRest
    <2> QED
        BY <2>1, <2>2, <2>3
<1> QED
    BY <1>1, <1>4, <1>7, <1>8, <1>9, StepOfOneTab DEF server

-----------------------------------------------------------------------------
(* The server                                                              *)

\* Undisturbed the token that is presented is the one that is good, and then the one
\* that is issued for it is.
LEMMA ExchangeKeepsIInv ==
    ASSUME IInv, NEW t \in Tab, NEW s \in Slot, Exchange(t, s)
    PROVE  IInv'
<1> DEFINE old == wire[t][s].token
<1>1. /\ InFlight(t, s) /\ wire[t][s].answer = "none"
      /\ s = "main" => main[t] = "bootstrap"
      /\ UNCHANGED <<stored, store, main, mine, call, left, disturbed, faults>>
    BY DEF Exchange
<1>2. wire[t][s] \in Request /\ wire[t][s].issued = NoToken /\ old \in Token
    BY <1>1, Typing DEF InFlight, AnswerInv, Request
<1>3. CASE old \in live
    <2>1. PICK n \in Token :
            /\ Issue(n, owner[old]) /\ live' = (live \ {old}) \cup {n}
            /\ wire' = [wire EXCEPT ![t][s].answer = "ok", ![t][s].issued = n]
        BY <1>3 DEF Exchange
    <2>2. /\ owner[n] = Nobody /\ owner' = [owner EXCEPT ![n] = owner[old]]
          /\ fresh' = fresh \cup {n} /\ owner[old] \in User /\ n # old
        BY <1>3, <2>1, Shape DEF Issue
    <2> DEFINE r == [wire[t][s] EXCEPT !.answer = "ok", !.issued = n]
    <2>3. /\ r \in Request /\ r # NoRequest
          /\ r.answer = "ok" /\ r.issued = n /\ r.token = wire[t][s].token
        BY <1>2, ValuesAssumption DEF Request
    <2>4. wire' = [wire EXCEPT ![t][s] = r]
        BY <2>1, Shape
    <2> HIDE DEF r
    <2>5. /\ wire' \in [Tab -> [Slot -> Request \cup {NoRequest}]]
          /\ wire'[t][s] = r /\ \A q \in Slot : q # s => wire'[t][q] = wire[t][q]
          /\ \A o \in Others(t) : wire'[o] = wire[o]
        BY <2>3, <2>4, WireOfOneSlot
    <2>6. /\ owner' \in [Token -> User \cup {Nobody}]
          /\ live' \subseteq Token /\ fresh' \subseteq Token
          /\ live' \cup fresh' \subseteq {m \in Token : owner'[m] # Nobody}
        BY <2>1, <2>2, Shape, ValuesAssumption
    <2>7. ShapeInv'
        BY <1>1, <2>5, <2>6, Shape, Typing, ShapeFromPieces
    <2>8. \A q \in Slot : InFlight(t, q)' <=> InFlight(t, q)
        BY <1>1, <2>3, <2>5 DEF InFlight
    <2>9. StageInv(t)' /\ AnswerInv(t)' /\ WaitersInv(t)'
        <3>1. StageInv(t)'
            BY <1>1, <2>8, Typing DEF StageInv, Slot
        <3>2. AnswerInv(t)'
            BY <1>1, <2>3, <2>5, <2>8, Typing, ValuesAssumption DEF AnswerInv, LogsOut
        <3>3. WaitersInv(t)'
            BY <1>1, <2>8, Typing DEF WaitersInv, Slot
        <3> QED
            BY <3>1, <3>2, <3>3
    <2>10. ASSUME ~disturbed
           PROVE  OneRequest' /\ NothingForgotten' /\ SoundSession(t)'
        <3>1. /\ old = stored /\ stored \notin live' /\ n \in live' /\ stored \in Token
              /\ \A m \in live' \ left : m = n
              /\ \A o \in Tab, q \in Slot : InFlight(o, q) => o = t /\ q = s
            BY <1>1, <2>1, <2>2, <2>10, AtMostOne
        <3>2. \A o \in Tab, q \in Slot : InFlight(o, q)' => o = t /\ q = s
            BY <2>5, <2>8, <3>1 DEF InFlight, Others
        <3>3. OneRequest'
            BY <1>1, <2>2, <2>3, <2>5, <2>8, <3>1, <3>2 DEF OneRequest
        <3>4. NothingForgotten'
            BY <1>1, <2>3, <2>5, <2>8, <3>1 DEF NothingForgotten
        <3>5. SoundSession(t)'
            BY <1>1, <2>2, <2>8, <2>10, Typing DEF SoundSession, Relies, Slot
        <3> QED
            BY <3>3, <3>4, <3>5
    <2> QED
        BY <1>1, <2>2, <2>5, <2>7, <2>9, <2>10, StepOfOneTab DEF Others
<1>4. CASE old \notin live
    <2>1. wire' = [wire EXCEPT ![t][s].answer = "refused"] /\ UNCHANGED server
        BY <1>4 DEF Exchange
    <2> DEFINE r == [wire[t][s] EXCEPT !.answer = "refused"]
    <2>2. /\ r \in Request /\ r # NoRequest
          /\ r.answer = "refused" /\ r.issued = NoToken
        BY <1>2, ValuesAssumption DEF Request
    <2>3. wire' = [wire EXCEPT ![t][s] = r]
        BY <2>1, Shape
    <2> HIDE DEF r
    <2>4. /\ wire' \in [Tab -> [Slot -> Request \cup {NoRequest}]]
          /\ wire'[t][s] = r /\ \A q \in Slot : q # s => wire'[t][q] = wire[t][q]
          /\ \A o \in Others(t) : wire'[o] = wire[o]
        BY <2>2, <2>3, WireOfOneSlot
    <2>5. ShapeInv'
        BY <1>1, <2>1, <2>4, SameServer, Shape, Typing, ShapeFromPieces
    <2>6. \A q \in Slot : InFlight(t, q)' <=> InFlight(t, q)
        BY <1>1, <2>2, <2>4 DEF InFlight
    <2>7. StageInv(t)' /\ AnswerInv(t)' /\ WaitersInv(t)'
        <3>1. StageInv(t)'
            BY <1>1, <2>6, Typing DEF StageInv, Slot
        <3>2. AnswerInv(t)'
            BY <1>1, <2>2, <2>4, <2>6, Typing DEF AnswerInv, LogsOut
        <3>3. WaitersInv(t)'
            BY <1>1, <2>6, Typing DEF WaitersInv, Slot
        <3> QED
            BY <3>1, <3>2, <3>3
    <2>8. disturbed
        BY <1>1, <1>4, AtMostOne
    <2> QED
        BY <1>1, <2>4, <2>5, <2>7, <2>8, StepOfOneTab DEF Others
<1> QED
    BY <1>3, <1>4

LEMMA RevokeKeepsIInv ==
    ASSUME IInv, NEW t \in Tab, Revoke(t)
    PROVE  IInv'
<1>1. /\ InFlight(t, "main") /\ wire[t]["main"].answer = "none" /\ main[t] = "logout"
      /\ live' = live \ {wire[t]["main"].token}
      /\ wire' = [wire EXCEPT ![t]["main"].answer = "ok"]
      /\ UNCHANGED <<owner, fresh, stored, store, main, mine, call, left, disturbed, faults>>
    BY DEF Revoke
<1>2. wire[t]["main"] \in Request /\ wire[t]["main"].issued = NoToken
    BY <1>1, Typing DEF InFlight, AnswerInv, Slot
<1> DEFINE r == [wire[t]["main"] EXCEPT !.answer = "ok"]
<1>3. /\ r \in Request /\ r # NoRequest
      /\ r.answer = "ok" /\ r.issued = NoToken /\ r.token = wire[t]["main"].token
    BY <1>2, ValuesAssumption DEF Request
<1>4. wire' = [wire EXCEPT ![t]["main"] = r]
    BY <1>1, Shape
<1> HIDE DEF r
<1>5. /\ wire' \in [Tab -> [Slot -> Request \cup {NoRequest}]]
      /\ wire'[t]["main"] = r /\ wire'[t]["refresh"] = wire[t]["refresh"]
      /\ \A o \in Others(t) : wire'[o] = wire[o]
    BY <1>3, <1>4, WireOfOneSlot DEF Slot
<1>6. ShapeInv'
    <2>1. /\ live' \subseteq Token /\ fresh' \subseteq Token
          /\ live' \cup fresh' \subseteq {n \in Token : owner'[n] # Nobody}
        BY <1>1, Shape
    <2> QED
        BY <1>1, <1>5, <2>1, Shape, Typing, ShapeFromPieces
<1>7. \A q \in Slot : InFlight(t, q)' <=> InFlight(t, q)
    BY <1>1, <1>3, <1>5 DEF InFlight, Slot
<1>8. StageInv(t)' /\ AnswerInv(t)' /\ WaitersInv(t)'
    <2>1. StageInv(t)'
        BY <1>1, <1>7, Typing DEF StageInv, Slot
    <2>2. AnswerInv(t)'
        BY <1>1, <1>3, <1>5, <1>7, Typing DEF AnswerInv, LogsOut, Slot
    <2>3. WaitersInv(t)'
        BY <1>1, <1>7, Typing DEF WaitersInv, Slot
    <2> QED
        BY <2>1, <2>2, <2>3
<1>9. ASSUME ~disturbed
      PROVE  OneRequest' /\ NothingForgotten' /\ SoundSession(t)'
    <2>1. /\ wire[t]["main"].token = stored /\ stored \notin live' /\ live' \subseteq left
          /\ \A o \in Tab, q \in Slot : InFlight(o, q) => o = t /\ q = "main"
        BY <1>1, <1>9, AtMostOne DEF Slot
    <2>2. \A o \in Tab, q \in Slot : InFlight(o, q)' => o = t /\ q = "main"
        BY <1>5, <1>7, <2>1 DEF InFlight, Others
    <2>3. OneRequest'
        <3>1. /\ "main" \in Slot /\ InFlight(t, "main")' /\ wire'[t]["main"].token = stored
              /\ wire'[t]["main"].answer = "ok" /\ wire'[t]["main"].issued = NoToken
              /\ stored' = stored
            BY <1>1, <1>3, <1>5, <1>7, <2>1 DEF Slot
        <3> QED
            BY <2>1, <2>2, <3>1 DEF OneRequest
    <2>4. NothingForgotten'
        BY <1>1, <2>1 DEF NothingForgotten
    <2>5. SoundSession(t)'
        BY <1>1, <1>7, <1>9, Typing DEF SoundSession, Relies, Slot
    <2> QED
        BY <2>3, <2>4, <2>5
<1> QED
    BY <1>1, <1>5, <1>6, <1>8, <1>9, StepOfOneTab DEF Others

\* What has just been issued does not expire.
LEMMA ExpireKeepsIInv ==
    ASSUME IInv, NEW n \in Token, Expire(n)
    PROVE  IInv'
<1>1. /\ \A t \in Tab :
            /\ \A c \in Fetch :
                  (c = "me" \/ call[t][c].at = "resent") => call[t][c].token # n
            /\ \A s \in Slot : InFlight(t, s) => wire[t][s].issued # n
      /\ fresh' = fresh \ {n}
      /\ UNCHANGED <<owner, live, stored, store, main, mine, wire, call, left, disturbed, faults>>
    BY DEF Expire
<1>2. ShapeInv'
    BY <1>1 DEF IInv, ShapeInv, TypeOK, InFlight
<1>3. \A t \in Tab : StageInv(t)' /\ AnswerInv(t)' /\ WaitersInv(t)'
    BY <1>1 DEF IInv, StageInv, AnswerInv, WaitersInv, InFlight, LogsOut
<1>4. ASSUME ~disturbed PROVE OneRequest' /\ NothingForgotten'
    BY <1>1, <1>4 DEF IInv, OneRequest, NothingForgotten, InFlight
<1>5. ASSUME ~disturbed, NEW t \in Tab PROVE SoundSession(t)'
    BY <1>1, <1>5, Typing DEF SoundSession, Relies, InFlight, Fetch
<1> QED
    BY <1>1, <1>2, <1>3, <1>4, <1>5 DEF IInv

LEMMA DeactivateKeepsIInv ==
    ASSUME IInv, NEW u \in User, Deactivate(u)
    PROVE  IInv'
<1>1. /\ Fault /\ disturbed' = TRUE
      /\ live' \subseteq live /\ fresh' \subseteq fresh
      /\ UNCHANGED <<owner, stored, store, main, mine, wire, call, left>>
    BY DEF Deactivate, Disturb
<1>2. ShapeInv'
    BY <1>1, FaultsCount DEF IInv, ShapeInv, TypeOK, InFlight
<1>3. \A t \in Tab : StageInv(t)' /\ AnswerInv(t)' /\ WaitersInv(t)'
    BY <1>1 DEF IInv, StageInv, AnswerInv, WaitersInv, InFlight, LogsOut
<1> QED
    BY <1>1, <1>2, <1>3 DEF IInv

-----------------------------------------------------------------------------
(* Tokens arrive                                                           *)

LEMMA RefreshSucceedsKeepsIInv ==
    ASSUME IInv, NEW t \in Tab, RefreshSucceeds(t)
    PROVE  IInv'
<1> DEFINE n == wire[t]["refresh"].issued
<1>1. /\ InFlight(t, "refresh") /\ wire[t]["refresh"].answer = "ok"
      /\ stored' = n
      /\ store' = IF store[t].user = Nobody THEN store ELSE [store EXCEPT ![t].access = n]
      /\ call' = [call EXCEPT ![t] =
                     [c \in Fetch |-> IF c \in Waiting(t)
                                      THEN [at |-> "resent", token |-> store'[t].access]
                                      ELSE call[t][c]]]
      /\ wire' = [wire EXCEPT ![t]["refresh"] = NoRequest]
      /\ UNCHANGED <<server, main, mine, left, disturbed, faults>>
    BY DEF RefreshSucceeds
<1>2. wire[t]["refresh"] \in Request /\ n \in Token
    BY <1>1, Typing DEF InFlight, AnswerInv, Slot, LogsOut, Request
<1>3. /\ store' \in [Tab -> Store] /\ store'[t].access \in Token \cup {NoToken}
      /\ store'[t].status = store[t].status /\ store'[t].user = store[t].user
      /\ store'[t].access = IF store[t].user = Nobody THEN store[t].access ELSE n
      /\ \A o \in Others(t) : store'[o] = store[o]
    <2>1. CASE store[t].user = Nobody
        BY <1>1, <2>1, Shape, Typing DEF Store, Others
    <2>2. CASE store[t].user # Nobody
        <3>1. store' = [store EXCEPT ![t] = [store[t] EXCEPT !.access = n]]
            BY <1>1, <2>2, Shape
        <3>2. store[t] \in Store /\ [store[t] EXCEPT !.access = n] \in Store
            <4>1. store[t] \in Store
                BY Shape
            <4> HIDE DEF n
            <4> QED
                BY <1>2, <4>1 DEF Store
        <3> QED
            BY <2>2, <3>1, <3>2, Shape DEF Others, Store
    <2> QED
        BY <2>1, <2>2
<1> DEFINE again == [at |-> "resent", token |-> store'[t].access]
<1>4. again \in CallState /\ again # AtRest /\ again.at = "resent" /\ again.token = store'[t].access
    BY <1>3 DEF CallState, AtRest
<1> HIDE DEF again
<1>5. /\ call' \in [Tab -> [Fetch -> CallState]]
      /\ \A c \in Fetch : call'[t][c] = IF c \in Waiting(t) THEN again ELSE call[t][c]
      /\ \A o \in Others(t) : call'[o] = call[o]
    <2>1. call' = [call EXCEPT ![t] = [c \in Fetch |-> IF c \in Waiting(t) THEN again ELSE call[t][c]]]
        BY <1>1 DEF again
    <2> QED
        BY <1>4, <2>1, Shape DEF Others
<1>6. /\ wire' \in [Tab -> [Slot -> Request \cup {NoRequest}]]
      /\ wire'[t]["refresh"] = NoRequest /\ wire'[t]["main"] = wire[t]["main"]
      /\ \A o \in Others(t) : wire'[o] = wire[o]
    BY <1>1, WireOfOneSlot DEF Slot
<1>7. ShapeInv'
    <2>1. /\ stored' \in Token \cup {NoToken} /\ mine' \in [Tab -> Token \cup {NoToken}] /\ left' \subseteq Token
          /\ main' \in [Tab -> {"closed", "idle", "bootstrap", "login", "logout"}]
          /\ faults' \in 0 .. MaxFaults /\ disturbed' \in BOOLEAN
          /\ store'[t].status = "authenticated" <=> store'[t].user # Nobody
        BY <1>1, <1>2, <1>3, Shape, Typing
    <2> QED
        BY <1>1, <1>3, <1>5, <1>6, <2>1, SameServer, ShapeFromPieces
<1>8. StageInv(t)' /\ AnswerInv(t)' /\ WaitersInv(t)'
    <2>1. \A c \in Fetch : call[t][c] = AtRest => c \notin Waiting(t)
        BY DEF Waiting, AtRest
    <2>2. main[t] # "closed"
        BY <1>1, Typing DEF StageInv, Slot
    <2>3. StageInv(t)'
        BY <1>1, <1>3, <1>5, <1>6, <2>1, <2>2, Typing DEF StageInv, InFlight, Slot, Fetch
    <2>4. AnswerInv(t)'
        BY <1>1, <1>6, Typing DEF AnswerInv, InFlight, LogsOut, Slot
    <2>5. WaitersInv(t)'
        BY <1>4, <1>5, <1>6 DEF WaitersInv, Waiting, InFlight
    <2> QED
        BY <2>3, <2>4, <2>5
<1>9. ASSUME ~disturbed
      PROVE  OneRequest' /\ NothingForgotten' /\ SoundSession(t)'
    <2>1. OneRequest' /\ NothingForgotten'
        BY <1>1, <1>9, ReceivedAlone DEF Slot
    <2>2. n \in fresh /\ stored' # NoToken
        BY <1>1, <1>2, <1>9, AtMostOne, ValuesAssumption DEF Slot
    <2>3. /\ SoundSession(t) /\ "me" \notin Waiting(t)
          /\ (store[t].status = "authenticated" <=> store[t].user # Nobody)
        BY <1>9, Typing DEF SoundSession, Waiting, AtRest
    <2>4. again.token \in fresh
        BY <1>1, <1>3, <1>4, <2>2, <2>3 DEF SoundSession
    <2>5. /\ \A c \in Call : call'[t][c].at = "resent" => call'[t][c].token \in fresh
          /\ call'[t]["me"] = call[t]["me"]
        BY <1>5, <2>3, <2>4 DEF SoundSession, Fetch
    <2>6. main[t] = "login" => /\ store[t].status # "authenticated"
                               /\ store'[t].access = store[t].access
        <3>1. Waiting(t) # {}
            BY <1>1, Typing DEF WaitersInv, Waiting
        <3>2. \E c \in Call : call[t][c] # AtRest
            BY <2>3, <3>1 DEF Waiting, AtRest, Fetch
        <3> QED
            BY <1>3, <2>3, <3>2 DEF SoundSession
    <2>7. \A c \in Call : call'[t][c].at # "changed"
        BY <1>4, <1>5, <2>3 DEF SoundSession, Fetch
    <2> QED
        BY <1>1, <1>3, <1>6, <2>1, <2>2, <2>3, <2>5, <2>6, <2>7
           DEF SoundSession, Relies, InFlight, server
<1> QED
    BY <1>1, <1>3, <1>5, <1>6, <1>7, <1>8, <1>9, <1>2, ValuesAssumption, StepOfOneTab
       DEF server, Others

LEMMA CallOfOneFetch ==
    ASSUME IInv, NEW t \in Tab, NEW c \in Fetch, NEW x \in CallState,
           call' = [call EXCEPT ![t][c] = x]
    PROVE  /\ call' \in [Tab -> [Fetch -> CallState]]
           /\ call'[t][c] = x
           /\ \A d \in Fetch : d # c => call'[t][d] = call[t][d]
           /\ \A o \in Others(t) : call'[o] = call[o]
BY Shape DEF Others

\* What Establish does to the pieces.
LEMMA Established ==
    ASSUME IInv, NEW t \in Tab, NEW n \in Token, Establish(t, n)
    PROVE  /\ stored' = n /\ stored' \in Token \cup {NoToken} /\ n # NoToken
           /\ store' \in [Tab -> Store] /\ store'[t].access = n
           /\ store'[t].status = store[t].status /\ store'[t].user = store[t].user
           /\ mine' \in [Tab -> Token \cup {NoToken}]
           /\ call' \in [Tab -> [Fetch -> CallState]]
           /\ call'[t]["me"] = [at |-> "sent", token |-> n]
           /\ \A c \in Call : call'[t][c] = call[t][c]
           /\ \A o \in Others(t) : call'[o] = call[o] /\ store'[o] = store[o]
<1>1. /\ stored' = n
      /\ store' = [store EXCEPT ![t].access = n]
      /\ mine' = [mine EXCEPT ![t] = n]
      /\ call' = [call EXCEPT ![t]["me"] = [at |-> "sent", token |-> n]]
    BY DEF Establish
<1>2. store' = [store EXCEPT ![t] = [store[t] EXCEPT !.access = n]]
    BY <1>1, Shape
<1>3. store[t] \in Store /\ [store[t] EXCEPT !.access = n] \in Store
    <2>1. store[t] \in Store
        BY Shape
    <2> QED
        BY <2>1 DEF Store
<1>4. /\ store' \in [Tab -> Store] /\ store'[t] = [store[t] EXCEPT !.access = n]
      /\ \A o \in Others(t) : store'[o] = store[o]
    BY <1>2, <1>3, Shape DEF Others
<1>5. /\ store'[t].access = n
      /\ store'[t].status = store[t].status /\ store'[t].user = store[t].user
    BY <1>3, <1>4 DEF Store
<1>6. [at |-> "sent", token |-> n] \in CallState /\ "me" \in Fetch
    BY DEF CallState, Fetch
<1>7. /\ call' \in [Tab -> [Fetch -> CallState]]
      /\ call'[t]["me"] = [at |-> "sent", token |-> n]
      /\ \A c \in Call : call'[t][c] = call[t][c]
      /\ \A o \in Others(t) : call'[o] = call[o]
    <2>1. \A c \in Call : c \in Fetch /\ c # "me"
        BY CallsAssumption DEF Fetch
    <2> QED
        BY <1>1, <1>6, <2>1, CallOfOneFetch
<1> QED
    BY <1>1, <1>4, <1>5, <1>7, Shape, ValuesAssumption

LEMMA BootstrappedKeepsIInv ==
    ASSUME IInv, NEW t \in Tab, Bootstrapped(t)
    PROVE  IInv'
<1> DEFINE n == wire[t]["main"].issued
<1>1. /\ main[t] = "bootstrap" /\ InFlight(t, "main") /\ wire[t]["main"].answer = "ok"
      /\ Establish(t, n)
      /\ wire' = [wire EXCEPT ![t]["main"] = NoRequest]
      /\ UNCHANGED <<server, main, left, disturbed, faults>>
    BY DEF Bootstrapped
<1>2. wire[t]["main"] \in Request /\ n \in Token
    BY <1>1, Typing DEF InFlight, AnswerInv, Slot, LogsOut, Request
<1> HIDE DEF n
<1>e. /\ stored' = n /\ stored' \in Token \cup {NoToken} /\ n # NoToken
      /\ store' \in [Tab -> Store] /\ store'[t].access = n
      /\ store'[t].status = store[t].status /\ store'[t].user = store[t].user
      /\ mine' \in [Tab -> Token \cup {NoToken}]
      /\ call' \in [Tab -> [Fetch -> CallState]]
      /\ call'[t]["me"] = [at |-> "sent", token |-> n]
      /\ \A c \in Call : call'[t][c] = call[t][c]
      /\ \A o \in Others(t) : call'[o] = call[o] /\ store'[o] = store[o]
    BY <1>1, <1>2, Established
<1>3. /\ wire' \in [Tab -> [Slot -> Request \cup {NoRequest}]]
      /\ wire'[t]["main"] = NoRequest /\ wire'[t]["refresh"] = wire[t]["refresh"]
      /\ \A o \in Others(t) : wire'[o] = wire[o]
    BY <1>1, WireOfOneSlot DEF Slot
<1>4. ShapeInv'
    <2>1. /\ main' \in [Tab -> {"closed", "idle", "bootstrap", "login", "logout"}]
          /\ left' \subseteq Token /\ faults' \in 0 .. MaxFaults /\ disturbed' \in BOOLEAN
          /\ store'[t].status = "authenticated" <=> store'[t].user # Nobody
        BY <1>1, <1>2, Shape, Typing, <1>e
    <2> QED
        BY <1>1, <1>2, <1>3, <2>1, <1>e, SameServer, ShapeFromPieces
<1>5. StageInv(t)' /\ AnswerInv(t)' /\ WaitersInv(t)'
    <2>1. StageInv(t)'
        BY <1>1, <1>2, <1>3, Typing, <1>e DEF StageInv, InFlight, Slot
    <2>2. AnswerInv(t)'
        BY <1>3, Typing DEF AnswerInv, InFlight, LogsOut, Slot
    <2>3. WaitersInv(t)'
        BY <1>1, <1>2, <1>3, Typing, <1>e DEF WaitersInv, StageInv, InFlight, Fetch, AtRest
    <2> QED
        BY <2>1, <2>2, <2>3
<1>6. ASSUME ~disturbed
      PROVE  OneRequest' /\ NothingForgotten' /\ SoundSession(t)'
    <2>1. OneRequest' /\ NothingForgotten'
        BY <1>1, <1>2, <1>6, <1>e, ReceivedAlone DEF Slot, n
    <2>2. n \in fresh /\ ~InFlight(t, "refresh") /\ n # NoToken
        BY <1>1, <1>2, <1>6, AtMostOne, ValuesAssumption DEF Slot, n
    <2>3. SoundSession(t)
        BY <1>6, Typing
    <2>4. SoundSession(t)'
        <3>1. /\ call'[t]["me"].at = "sent" /\ call'[t]["me"].token \in fresh
              /\ fresh' = fresh /\ stored' # NoToken
              /\ ~InFlight(t, "refresh")' /\ main'[t] = "bootstrap"
            BY <1>1, <1>3, <1>e, <2>2 DEF InFlight, server
        <3> QED
            BY <1>e, <2>3, <3>1 DEF SoundSession, Relies
    <2> QED
        BY <2>1, <2>4
<1> QED
    BY <1>1, <1>2, <1>3, <1>4, <1>5, <1>6, <1>e, StepOfOneTab DEF server, Others

\* A new session is begun: what was stored until then is left behind.
LEMMA LoginKeepsIInv ==
    ASSUME IInv, NEW t \in Tab, NEW u \in User, Login(t, u)
    PROVE  IInv'
<1>1. PICK n \in Token : Issue(n, u) /\ live' = live \cup {n} /\ Establish(t, n)
    BY DEF Login
<1>2. /\ main[t] = "idle"
      /\ main' = [main EXCEPT ![t] = "login"]
      /\ store[t].status = "unauthenticated" \/ \A c \in Fetch : call[t][c] = AtRest
      /\ left' = left \cup (live \cap {stored})
      /\ Disturb(Shared(t))
      /\ UNCHANGED <<wire, faults>>
    BY DEF Login
<1>3. /\ owner' = [owner EXCEPT ![n] = u] /\ fresh' = fresh \cup {n}
    BY <1>1 DEF Issue
<1>4. /\ owner' \in [Token -> User \cup {Nobody}]
      /\ live' \subseteq Token /\ fresh' \subseteq Token
      /\ live' \cup fresh' \subseteq {m \in Token : owner'[m] # Nobody}
    BY <1>1, <1>3, Shape, ValuesAssumption
<1>5. /\ main' \in [Tab -> {"closed", "idle", "bootstrap", "login", "logout"}]
      /\ main'[t] = "login" /\ \A o \in Others(t) : main'[o] = main[o]
    BY <1>2, Shape DEF Others
<1>6. disturbed' \in BOOLEAN /\ (~disturbed' => ~disturbed /\ ~Shared(t))
    <2>1. Shared(t) \in BOOLEAN
        BY DEF Shared
    <2> QED
        BY <1>2, <2>1, DisturbedOrNot
<1>e. /\ stored' = n /\ stored' \in Token \cup {NoToken} /\ n # NoToken
      /\ store' \in [Tab -> Store] /\ store'[t].access = n
      /\ store'[t].status = store[t].status /\ store'[t].user = store[t].user
      /\ mine' \in [Tab -> Token \cup {NoToken}]
      /\ call' \in [Tab -> [Fetch -> CallState]]
      /\ call'[t]["me"] = [at |-> "sent", token |-> n]
      /\ \A c \in Call : call'[t][c] = call[t][c]
      /\ \A o \in Others(t) : call'[o] = call[o] /\ store'[o] = store[o]
    BY <1>1, Established
<1>7. /\ store'[t].status = store[t].status /\ store'[t].user = store[t].user
      /\ store'[t].status = "authenticated" <=> store'[t].user # Nobody
      /\ store'[t].access = n /\ call'[t]["me"] = [at |-> "sent", token |-> n]
      /\ \A c \in Call : call'[t][c] = call[t][c]
      /\ stored' = n /\ n # NoToken
    BY <1>e, Typing
<1>8. ShapeInv'
    <2>1. /\ wire' \in [Tab -> [Slot -> Request \cup {NoRequest}]] /\ faults' \in 0 .. MaxFaults
          /\ left' \subseteq Token
        BY <1>2, Shape
    <2> QED
        BY <1>e, <1>4, <1>5, <1>6, <1>7, <2>1, ShapeFromPieces
<1>9. StageInv(t)' /\ AnswerInv(t)' /\ WaitersInv(t)'
    <2>1. StageInv(t)'
        BY <1>2, <1>5, <1>7, Typing DEF StageInv, InFlight, Slot
    <2>2. AnswerInv(t)'
        BY <1>2, <1>5, Typing DEF AnswerInv, InFlight, LogsOut, Slot, StageInv
    <2>3. WaitersInv(t)'
        BY <1>2, <1>7, Typing DEF WaitersInv, StageInv, InFlight, Fetch, AtRest
    <2> QED
        BY <2>1, <2>2, <2>3
<1>10. ASSUME ~disturbed'
       PROVE  ~disturbed /\ OneRequest' /\ NothingForgotten' /\ SoundSession(t)'
    <2>1. ~disturbed /\ ~Shared(t) /\ SoundSession(t) /\ StageInv(t) /\ WaitersInv(t)
        BY <1>6, <1>10, Typing
    <2>2. /\ ~InFlight(t, "main")
          /\ store[t].status # "authenticated" \/ \A c \in Call : call[t][c] = AtRest
        BY <1>2, <2>1 DEF StageInv, Fetch
    <2>3. ~InFlight(t, "refresh")
        <3>1. CASE store[t].status = "unauthenticated"
            BY <1>2, <2>1, <3>1 DEF SoundSession
        <3>2. CASE \A c \in Fetch : call[t][c] = AtRest
            BY <2>1, <3>2 DEF WaitersInv, AtRest
        <3> QED
            BY <1>2, <3>1, <3>2
    <2>4. \A o \in Tab, s \in Slot : ~InFlight(o, s)
        BY <2>1, <2>2, <2>3, OthersInFlight DEF Others, Slot
    <2>5. \A m \in live' \ left' : m = n
        BY <1>1, <1>2, <2>1, <2>4 DEF IInv, NothingForgotten
    <2>6. OneRequest' /\ NothingForgotten'
        BY <1>1, <1>2, <1>7, <2>4, <2>5 DEF OneRequest, NothingForgotten, InFlight
    <2>7. SoundSession(t)'
        <3>1. call'[t]["me"].at = "sent" /\ call'[t]["me"].token = n
              /\ call'[t]["me"] # AtRest
            BY <1>7 DEF AtRest
        <3> QED
            BY <1>2, <1>3, <1>5, <1>7, <2>1, <2>2, <2>4, <3>1
               DEF SoundSession, Relies, InFlight, Slot
    <2> QED
        BY <2>1, <2>6, <2>7
<1> QED
    BY <1>1, <1>2, <1>3, <1>5, <1>7, <1>8, <1>9, <1>10, <1>e, StepOfOneTab DEF Others

LEMMA LoginUnansweredKeepsIInv ==
    ASSUME IInv, NEW t \in Tab, NEW u \in User, LoginUnanswered(t, u)
    PROVE  IInv'
<1>1. PICK n \in Token : Issue(n, u) /\ live' = live \cup {n}
    BY DEF LoginUnanswered
<1>2. /\ Fault /\ disturbed' = TRUE
      /\ UNCHANGED <<stored, store, main, mine, wire, call, left>>
    BY DEF LoginUnanswered, Disturb
<1>3. /\ owner' = [owner EXCEPT ![n] = u] /\ fresh' = fresh \cup {n}
    BY <1>1 DEF Issue
<1>4. /\ owner' \in [Token -> User \cup {Nobody}]
      /\ live' \subseteq Token /\ fresh' \subseteq Token
      /\ live' \cup fresh' \subseteq {m \in Token : owner'[m] # Nobody}
    BY <1>1, <1>3, Shape, ValuesAssumption
<1>5. ShapeInv'
    BY <1>2, <1>4, FaultsCount DEF IInv, ShapeInv, TypeOK, InFlight
<1>6. \A o \in Tab : StageInv(o)' /\ AnswerInv(o)' /\ WaitersInv(o)'
    BY <1>2 DEF IInv, StageInv, AnswerInv, WaitersInv, InFlight, LogsOut
<1> QED
    BY <1>2, <1>5, <1>6 DEF IInv

LEMMA MeSucceedsKeepsIInv ==
    ASSUME IInv, NEW t \in Tab, MeSucceeds(t)
    PROVE  IInv'
<1> DEFINE u == owner[call[t]["me"].token]
           in == [status |-> "authenticated", user |-> u, access |-> mine[t]]
<1>1. /\ Accepted(t, "me")
      /\ store' = [store EXCEPT ![t] = in]
      /\ call' = [call EXCEPT ![t]["me"] = AtRest]
      /\ main' = [main EXCEPT ![t] = "idle"]
      /\ mine' = [mine EXCEPT ![t] = NoToken]
      /\ UNCHANGED <<server, stored, wire, left, disturbed, faults>>
    BY DEF MeSucceeds
<1>2. /\ call[t]["me"] # AtRest /\ call[t]["me"].at # "waiting"
      /\ call[t]["me"].token \in fresh
    BY <1>1 DEF Accepted, AtRest
<1>3. in \in Store /\ in.status = "authenticated" /\ in.user # Nobody
    BY <1>2, Shape DEF Store, Status
<1> HIDE DEF in
<1>4. /\ store' \in [Tab -> Store] /\ store'[t] = in
      /\ \A o \in Others(t) : store'[o] = store[o]
    BY <1>1, <1>3, Shape DEF Others
<1>5. /\ main' \in [Tab -> {"closed", "idle", "bootstrap", "login", "logout"}]
      /\ mine' \in [Tab -> Token \cup {NoToken}]
      /\ main'[t] = "idle" /\ \A o \in Others(t) : main'[o] = main[o]
    BY <1>1, Shape DEF Others
<1>6. /\ call' \in [Tab -> [Fetch -> CallState]] /\ call'[t]["me"] = AtRest
      /\ \A c \in Call : call'[t][c] = call[t][c]
      /\ \A o \in Others(t) : call'[o] = call[o]
    <2>1. AtRest \in CallState /\ "me" \in Fetch
        BY DEF AtRest, CallState, Fetch
    <2>2. \A c \in Call : c \in Fetch /\ c # "me"
        BY CallsAssumption DEF Fetch
    <2> QED
        BY <1>1, <2>1, <2>2, CallOfOneFetch
<1>7. ShapeInv'
    <2>1. /\ stored' \in Token \cup {NoToken} /\ left' \subseteq Token /\ faults' \in 0 .. MaxFaults /\ disturbed' \in BOOLEAN
          /\ wire' \in [Tab -> [Slot -> Request \cup {NoRequest}]]
          /\ store'[t].status = "authenticated" <=> store'[t].user # Nobody
        BY <1>1, <1>3, <1>4, Shape
    <2> QED
        BY <1>1, <1>4, <1>5, <1>6, <2>1, SameServer, ShapeFromPieces
<1>8. main[t] \in {"bootstrap", "login"} /\ ~InFlight(t, "main")
    BY <1>2, Typing DEF StageInv
<1>9. StageInv(t)' /\ AnswerInv(t)' /\ WaitersInv(t)'
    <2>1. StageInv(t)'
        BY <1>1, <1>3, <1>4, <1>5, <1>6, <1>8, Typing DEF StageInv, InFlight, Slot
    <2>2. AnswerInv(t)'
        BY <1>1, <1>5, <1>8, Typing DEF AnswerInv, InFlight, LogsOut, Slot
    <2>3. WaitersInv(t)'
        BY <1>1, <1>2, <1>6, Typing DEF WaitersInv, InFlight, Fetch, AtRest
    <2> QED
        BY <2>1, <2>2, <2>3
<1>10. ~disturbed => SoundSession(t)'
    BY <1>1, <1>3, <1>4, <1>5, <1>6, <1>8, Typing DEF SoundSession, Relies, InFlight, server
<1> QED
    BY <1>1, <1>4, <1>5, <1>6, <1>7, <1>9, <1>10, WiresStay, StepOfOneTab DEF server, Others

-----------------------------------------------------------------------------
(* The invariant                                                           *)

LEMMA InitIInv ==
    ASSUME Init
    PROVE  IInv
<1>1. ShapeInv
    <2> DEFINE loading == [SignedOut EXCEPT !.status = "loading"]
    <2>1. loading \in Store /\ loading.status = "loading" /\ loading.user = Nobody
        BY DEF SignedOut, Store, Status
    <2>2. store = [t \in Tab |-> loading]
        BY DEF Init
    <2> HIDE DEF loading
    <2>3. /\ store \in [Tab -> Store]
          /\ \A t \in Tab : (store[t].status = "authenticated") <=> (store[t].user # Nobody)
        BY <2>1, <2>2
    <2>4. call \in [Tab -> [Fetch -> CallState]]
        BY DEF Init, CallState, AtRest
    <2>5. wire \in [Tab -> [Slot -> Request \cup {NoRequest}]] /\ \A t \in Tab, s \in Slot : ~InFlight(t, s)
        BY DEF Init, InFlight
    <2>6. /\ owner \in [Token -> User \cup {Nobody}] /\ live = {} /\ fresh = {}
          /\ stored = NoToken
          /\ main \in [Tab -> {"closed", "idle", "bootstrap", "login", "logout"}]
          /\ mine \in [Tab -> Token \cup {NoToken}]
          /\ left \subseteq Token /\ faults \in 0 .. MaxFaults /\ disturbed \in BOOLEAN
        <3>1. /\ owner = [n \in Token |-> Nobody] /\ live = {} /\ fresh = {}
              /\ stored = NoToken
              /\ main = [t \in Tab |-> "closed"]
              /\ mine = [t \in Tab |-> NoToken]
              /\ left = {} /\ disturbed = FALSE /\ faults = 0
            BY DEF Init
        <3>2. disturbed \in BOOLEAN
            BY <3>1
        <3>3. faults \in 0 .. MaxFaults
            BY <3>1, BoundsAssumption
        <3>4. /\ owner \in [Token -> User \cup {Nobody}]
              /\ main \in [Tab -> {"closed", "idle", "bootstrap", "login", "logout"}]
              /\ mine \in [Tab -> Token \cup {NoToken}]
            BY <3>1
        <3> QED
            BY <3>1, <3>2, <3>3, <3>4
    <2> QED
        BY <2>3, <2>4, <2>5, <2>6 DEF ShapeInv, TypeOK, Store, CallState
<1>2. \A t \in Tab : StageInv(t) /\ AnswerInv(t) /\ WaitersInv(t)
    <2>1. ASSUME NEW t \in Tab
          PROVE  /\ main[t] = "closed" /\ store[t].status = "loading"
                 /\ \A q \in Slot : ~InFlight(t, q)
                 /\ \A c \in Fetch : call[t][c] = AtRest
        BY DEF Init, InFlight, SignedOut
    <2>2. AtRest.at # "waiting" /\ "refresh" \in Slot /\ "main" \in Slot /\ Call \subseteq Fetch
        BY DEF AtRest, Slot, Fetch
    <2> QED
        BY <2>1, <2>2 DEF StageInv, AnswerInv, WaitersInv, Fetch
<1>3. OneRequest /\ NothingForgotten
    BY DEF Init, OneRequest, NothingForgotten, InFlight
<1>4. \A t \in Tab : SoundSession(t)
    BY DEF Init, SoundSession, Relies, InFlight, SignedOut, AtRest, Slot, Fetch
<1> QED
    BY <1>1, <1>2, <1>3, <1>4 DEF IInv

LEMMA NextKeepsIInv ==
    ASSUME IInv, [Next]_vars
    PROVE  IInv'
<1>1. ASSUME NEW t \in Tab, Open(t) \/ Close(t) PROVE IInv'
    BY <1>1, OpenKeepsIInv, CloseKeepsIInv
<1>2. ASSUME NEW t \in Tab, NEW s \in Slot, Exchange(t, s) PROVE IInv'
    BY <1>2, ExchangeKeepsIInv
<1>3. ASSUME NEW t \in Tab, Revoke(t) PROVE IInv'
    BY <1>3, RevokeKeepsIInv
<1>4. ASSUME NEW t \in Tab, NEW c \in Call,
             \/ StartCall(t, c) \/ CallSucceeds(t, c)
             \/ ChangePassword(t, c) \/ PasswordChanged(t, c)
      PROVE  IInv'
    BY <1>4, StartCallKeepsIInv, CallSucceedsKeepsIInv, ChangePasswordKeepsIInv,
       PasswordChangedKeepsIInv
<1>5. ASSUME NEW t \in Tab, NEW c \in Fetch,
             JoinRefresh(t, c) \/ StartRefresh(t, c) \/ SessionExpires(t, c) \/ CallFails(t, c)
      PROVE  IInv'
    BY <1>5, JoinRefreshKeepsIInv, StartRefreshKeepsIInv, SessionExpiresKeepsIInv, CallFailsKeepsIInv
<1>6. ASSUME NEW t \in Tab, RefreshSucceeds(t) \/ RefreshFails(t) PROVE IInv'
    BY <1>6, RefreshSucceedsKeepsIInv, RefreshFailsKeepsIInv
<1>7. ASSUME NEW t \in Tab, Bootstrapped(t) \/ BootstrapFails(t) PROVE IInv'
    BY <1>7, BootstrappedKeepsIInv, BootstrapFailsKeepsIInv
<1>8. ASSUME NEW t \in Tab, NEW u \in User, Login(t, u) \/ LoginUnanswered(t, u) PROVE IInv'
    BY <1>8, LoginKeepsIInv, LoginUnansweredKeepsIInv
<1>9. ASSUME NEW t \in Tab, MeSucceeds(t) \/ Logout(t) \/ LogoutEnds(t) PROVE IInv'
    BY <1>9, MeSucceedsKeepsIInv, LogoutKeepsIInv, LogoutEndsKeepsIInv
<1>10. ASSUME NEW n \in Token, Expire(n) PROVE IInv'
    BY <1>10, ExpireKeepsIInv
<1>11. ASSUME NEW u \in User, Deactivate(u) PROVE IInv'
    BY <1>11, DeactivateKeepsIInv
<1>12. ASSUME UNCHANGED vars PROVE IInv'
    BY <1>12 DEF vars, IInv, ShapeInv, TypeOK, StageInv, AnswerInv, WaitersInv, InFlight,
                 LogsOut, OneRequest, NothingForgotten, SoundSession, Relies
<1> QED
    BY <1>1, <1>2, <1>3, <1>4, <1>5, <1>6, <1>7, <1>8, <1>9, <1>10, <1>11, <1>12 DEF Next

LEMMA SpecIInv == Spec => []IInv
<1>1. IInv /\ [Next]_vars => IInv'
    BY NextKeepsIInv
<1> QED
    BY <1>1, InitIInv, PTL DEF Spec

\* A call that waits for a refresh is woken by it, whatever happens: refreshes that fail,
\* other tabs, pages that are closed (client.ts:35-61).
THEOREM WaitersAreWoken == Spec => []WaitersHaveARefresh
<1>1. IInv => WaitersHaveARefresh
    BY DEF IInv, WaitersInv, WaitersHaveARefresh, Waiting
<1> QED
    BY <1>1, SpecIInv, PTL

\* As long as nothing interferes, a refresh token that the server would exchange is the
\* stored one, or on its way, or one of the two kinds that the client drops without
\* revoking them: what was stored when somebody signs in over it, and what was refreshed
\* for a wrong current password.  A logout leaves none behind (session.ts:142-152).
THEOREM TheBrowserHoldsTheSession == Spec => []NoSessionIsForgotten
<1>1. IInv => NoSessionIsForgotten
    BY DEF IInv, NothingForgotten, NoSessionIsForgotten
<1> QED
    BY <1>1, SpecIInv, PTL

-----------------------------------------------------------------------------
(* How a session ends                                                      *)

\* Someone is signed in, or comes back to a session.
Begun(t) == store[t].status = "authenticated" \/ main[t] = "bootstrap"

Reason(t) == main[t] = "logout" \/ disturbed \/ faults' # faults \/ PasswordRefused(t)

LEMMA FaultsShow ==
    ASSUME IInv, Fault
    PROVE  faults' # faults
BY Shape DEF Fault

LEMMA SameStatus ==
    ASSUME IInv, NEW t \in Tab, Begun(t), store'[t].status = store[t].status
    PROVE  store'[t].status # "unauthenticated"
BY Typing DEF Begun, StageInv

\* No tab but the one that moves is affected.
LEMMA OneStoreMoves ==
    ASSUME IInv, NEW t \in Tab,
           \/ Open(t) \/ Close(t)
           \/ \E c \in Fetch : SessionExpires(t, c) \/ CallFails(t, c)
           \/ RefreshSucceeds(t) \/ RefreshFails(t)
           \/ Bootstrapped(t) \/ BootstrapFails(t)
           \/ \E u \in User : Login(t, u)
           \/ MeSucceeds(t) \/ Logout(t) \/ LogoutEnds(t)
           \/ \E c \in Call : PasswordChanged(t, c),
           NEW o \in Tab, o # t
    PROVE  store'[o] = store[o]
<1>1. CASE Open(t) \/ Close(t) \/ MeSucceeds(t)
    BY <1>1, Shape DEF Open, Close, MeSucceeds
<1>2. CASE \E c \in Fetch : SessionExpires(t, c) \/ CallFails(t, c)
    BY <1>2, Shape DEF SessionExpires, CallFails, EndSession
<1>3. CASE RefreshSucceeds(t)
    BY <1>3, Shape DEF RefreshSucceeds
<1>4. CASE \/ RefreshFails(t) \/ BootstrapFails(t) \/ Logout(t) \/ LogoutEnds(t)
           \/ \E c \in Call : PasswordChanged(t, c)
    BY <1>4, Shape DEF RefreshFails, BootstrapFails, Logout, PasswordChanged, BeginLogout,
                       LogoutEnds, EndSession
<1>5. CASE Bootstrapped(t) \/ \E u \in User : Login(t, u)
    BY <1>5, Shape DEF Bootstrapped, Login, Establish
<1> QED
    BY <1>1, <1>2, <1>3, <1>4, <1>5

LEMMA EndedForAReason ==
    ASSUME IInv, [Next]_vars, NEW t \in Tab, Begun(t), store'[t].status = "unauthenticated"
    PROVE  Reason(t)
<1> SUFFICES ASSUME ~disturbed, main[t] # "logout", faults' = faults, ~PasswordRefused(t)
             PROVE  FALSE
    BY DEF Reason
<1>1. /\ SoundSession(t) /\ StageInv(t) /\ stored # NoToken
      /\ (store[t].status = "loading" \/ store[t].status = "authenticated")
    BY Typing DEF SoundSession, Relies, Begun, StageInv
<1>2. store'[t].status # store[t].status
    BY <1>1
<1>3. /\ ~UNCHANGED store /\ ~Fault
    BY <1>2, FaultsShow
<1>4. ~(Open(t) \/ Close(t))
    <2>1. ~Open(t)
        BY <1>1, <1>3 DEF Open
    <2>2. ASSUME Close(t) PROVE FALSE
        BY <2>2, Shape DEF Close, SignedOut
    <2> QED
        BY <2>1, <2>2
<1>5. ASSUME NEW c \in Fetch PROVE ~SessionExpires(t, c) /\ ~CallFails(t, c)
    <2>1. ~CallFails(t, c)
        BY <1>3 DEF CallFails
    <2>2. ASSUME Unauthorized(t, c, "resent"), SessionExpires(t, c) PROVE FALSE
        <3>1. c \in PasswordCall /\ call[t][c].token \in fresh
            BY <2>2, RefusedCalls
        <3>2. call[t][c].at = "resent" /\ call'[t][c] = AtRest
            BY <2>2, FailedCalls DEF SessionExpires, Unauthorized
        <3> QED
            BY <3>1, <3>2 DEF PasswordRefused
    <2> QED
        BY <1>1, <2>1, <2>2 DEF SessionExpires
<1>6. ~RefreshFails(t) /\ ~BootstrapFails(t)
    BY <1>3, AtMostOne DEF RefreshFails, BootstrapFails, Slot
<1>7. ~RefreshSucceeds(t)
    <2>1. ASSUME RefreshSucceeds(t) PROVE store'[t].status = store[t].status
        BY <2>1, Shape DEF RefreshSucceeds, Store
    <2> QED
        BY <1>2, <2>1
<1>8. ~Bootstrapped(t) /\ \A u \in User : ~Login(t, u)
    <2>1. ASSUME NEW n, Establish(t, n) PROVE store'[t].status = store[t].status
        BY <2>1, Shape DEF Establish, Store
    <2> QED
        BY <1>2, <2>1 DEF Bootstrapped, Login
<1>9. ~MeSucceeds(t)
    BY Shape DEF MeSucceeds
<1>10. ~Logout(t) /\ ~LogoutEnds(t) /\ \A c \in Call : ~PasswordChanged(t, c)
    BY <1>1, <1>3 DEF Logout, LogoutEnds, BeginLogout, PasswordChanged, SoundSession
<1>11. ASSUME NEW o \in Tab, o # t
       PROVE  /\ ~Open(o) /\ ~Close(o) /\ ~RefreshSucceeds(o) /\ ~RefreshFails(o)
              /\ ~Bootstrapped(o) /\ ~BootstrapFails(o) /\ \A u \in User : ~Login(o, u)
              /\ ~MeSucceeds(o) /\ ~Logout(o) /\ ~LogoutEnds(o)
              /\ \A c \in Fetch : ~SessionExpires(o, c) /\ ~CallFails(o, c)
              /\ \A c \in Call : ~PasswordChanged(o, c)
    BY <1>2, <1>11, OneStoreMoves
<1>12. /\ ~UNCHANGED vars
       /\ \A n \in Token : ~Expire(n)
       /\ \A u \in User : ~Deactivate(u)
    BY <1>3 DEF vars, Expire, Deactivate
<1>13. ASSUME NEW o \in Tab
       PROVE  /\ \A s \in Slot : ~Exchange(o, s)
              /\ ~Revoke(o)
              /\ \A c \in Call : ~StartCall(o, c) /\ ~CallSucceeds(o, c) /\ ~ChangePassword(o, c)
              /\ \A c \in Fetch : ~JoinRefresh(o, c) /\ ~StartRefresh(o, c)
              /\ \A u \in User : ~LoginUnanswered(o, u)
    BY <1>3 DEF Exchange, Revoke, StartCall, CallSucceeds, ChangePassword, JoinRefresh,
                StartRefresh, LoginUnanswered
<1> QED
    BY <1>4, <1>5, <1>6, <1>7, <1>8, <1>9, <1>10, <1>11, <1>12, <1>13 DEF Next

\* A session that someone has begun, or comes back to, ends only by a logout, by a wrong
\* current password, by a fault, or after something interfered: a revocation, another
\* tab, an overlap with a refresh, a login or a logout, a late call of an earlier
\* session.  Neither calls that pile up behind one refresh, nor late 401s of the same
\* session, nor a rotation between a request and its retry end it (client.ts:35-115).
THEOREM NoSessionEndsByItself == Spec => SessionsEndForAReason
<1>1. IInv /\ [Next]_vars =>
        [\A t \in Tab :
            /\ store[t].status = "authenticated" \/ main[t] = "bootstrap"
            /\ store'[t].status = "unauthenticated"
            => main[t] = "logout" \/ disturbed \/ faults' # faults \/ PasswordRefused(t)]_vars
    BY EndedForAReason DEF Begun, Reason
<1> QED
    BY <1>1, SpecIInv, PTL DEF Spec, SessionsEndForAReason
=============================================================================
