-------------------------- MODULE RateLimiterProofs --------------------------
(***************************************************************************)
(* Proofs that no window is dropped before it has lasted, that the table   *)
(* never overflows, that a key is never admitted more than twice its limit *)
(* and that the guesses at a password stay bounded: for any number of      *)
(* threads, callers and rules, whatever a window lasts.                    *)
(***************************************************************************)
EXTENDS RateLimiter, FiniteSetTheorems, TLAPS

\* The table, within its bound.
TableInv ==
    /\ DOMAIN windows \subseteq Key /\ IsFiniteSet(DOMAIN windows)
    /\ windows \in [DOMAIN windows -> [started : Nat, count : Nat]]
    /\ Cardinality(DOMAIN windows) <= MaxKeys

\* Those who verify a password, or are about to, do so for an account.
RequestInv ==
    \A t \in Thread : pc[t] # "idle" =>
        /\ req[t] \in Request
        /\ pc[t] \in {"guarded", "verifying"} \/ req[t].rule = "login"
              => req[t].account \in Account

IInv ==
    /\ clock \in Nat /\ since \in [Thread -> Nat]
    /\ DOMAIN pc = Thread /\ DOMAIN req = Thread /\ DOMAIN guesses = Account
    /\ TableInv /\ RequestInv

\* What WindowsLast says of a step.
TableLasts ==
    /\ \A k \in DOMAIN windows :
          \/ k \in DOMAIN windows' /\ windows'[k].started = windows[k].started
          \/ clock - windows[k].started >= WindowSeconds[RuleOf(k)]
          \/ LoginClears(k) \/ MakesRoom
    /\ Cardinality(DOMAIN windows') <= MaxKeys

-----------------------------------------------------------------------------
(* What may be dropped.                                                    *)

LEMMA RulesOfKeys ==
    /\ \A k \in Key : WindowSeconds[RuleOf(k)] \in Nat /\ WindowSeconds[RuleOf(k)] <= Hour
    /\ \A a \in Account : FailureKey(a) \in Key /\ RuleOf(FailureKey(a)) = "login_failures"
                          /\ FailureKey(a)[2] = a
    /\ \A r \in Rule \ {"login_failures"}, c \in Client : <<r, c>> \in Key
<1>1. \A k \in Key : RuleOf(k) \in Rule
    BY DEF Key, RuleOf, Rule
<1>2. \A r \in Rule : WindowSeconds[r] \in Nat /\ WindowSeconds[r] <= Hour
    BY RulesAssumption
<1> QED BY <1>1, <1>2 DEF Key, FailureKey, RuleOf

\* A reading of the clock lies in the past.
LEMMA ReadingsArePast ==
    ASSUME IInv, NEW t \in Thread, NEW now \in Readings(t)
    PROVE  now \in Nat /\ now <= clock
BY DEF IInv, Readings

LEMMA SweptHaveLasted ==
    ASSUME IInv, NEW now \in Nat, now <= clock, NEW k \in Swept(now)
    PROVE  k \in DOMAIN windows /\ clock - windows[k].started >= WindowSeconds[RuleOf(k)]
<1>1. k \in DOMAIN windows /\ windows[k].started < now - Hour
    BY DEF Swept, Dead
<1>2. k \in Key /\ windows[k].started \in Nat
    BY <1>1 DEF IInv, TableInv
<1>3. WindowSeconds[RuleOf(k)] \in Nat /\ WindowSeconds[RuleOf(k)] <= Hour
    BY <1>2, RulesOfKeys
<1> QED BY <1>1, <1>2, <1>3, BoundsAssumption DEF IInv

LEMMA ExpiredHaveLasted ==
    ASSUME IInv, NEW now \in Nat, now <= clock, NEW k \in DOMAIN windows, ~Live(k, now)
    PROVE  clock - windows[k].started >= WindowSeconds[RuleOf(k)]
<1>1. now - windows[k].started >= WindowSeconds[RuleOf(k)]
    BY DEF Live, Expired
<1>2. windows[k].started \in Nat /\ k \in Key
    BY DEF IInv, TableInv
<1> QED BY <1>1, <1>2, RulesOfKeys DEF IInv

\* A table that has lost keys is a table.
LEMMA WithoutIsATable ==
    ASSUME NEW w, NEW keys, DOMAIN w \subseteq Key, IsFiniteSet(DOMAIN w),
           w \in [DOMAIN w -> [started : Nat, count : Nat]]
    PROVE  /\ DOMAIN Without(w, keys) = DOMAIN w \ keys
           /\ \A k \in DOMAIN w \ keys : Without(w, keys)[k] = w[k]
           /\ IsFiniteSet(DOMAIN Without(w, keys))
           /\ Cardinality(DOMAIN Without(w, keys)) \in Nat
           /\ Cardinality(DOMAIN Without(w, keys)) <= Cardinality(DOMAIN w)
           /\ Without(w, keys) \in [DOMAIN Without(w, keys) -> [started : Nat, count : Nat]]
<1>1. Without(w, keys) = [k \in DOMAIN w \ keys |-> w[k]]
    BY DEF Without, Restrict
<1>2. (DOMAIN w \ keys) \in SUBSET DOMAIN w
    OBVIOUS
<1>3. /\ IsFiniteSet(DOMAIN w \ keys)
      /\ Cardinality(DOMAIN w \ keys) <= Cardinality(DOMAIN w)
    BY <1>2, FS_Subset
<1>4. Cardinality(DOMAIN w \ keys) \in Nat
    BY <1>3, FS_CardinalityType
<1> QED BY <1>1, <1>3, <1>4

-----------------------------------------------------------------------------
(* The methods of the limiter.                                             *)

\* One that drops only windows that have lasted.
LEMMA DropKeeps ==
    ASSUME IInv, NEW gone, windows' = Without(windows, gone),
           \A k \in gone \cap DOMAIN windows :
               clock - windows[k].started >= WindowSeconds[RuleOf(k)] \/ LoginClears(k)
    PROVE  TableInv' /\ TableLasts
<1>1. /\ DOMAIN windows' = DOMAIN windows \ gone
      /\ \A k \in DOMAIN windows \ gone : windows'[k] = windows[k]
      /\ IsFiniteSet(DOMAIN windows')
      /\ Cardinality(DOMAIN windows') \in Nat
      /\ Cardinality(DOMAIN windows') <= Cardinality(DOMAIN windows)
      /\ windows' \in [DOMAIN windows' -> [started : Nat, count : Nat]]
    BY WithoutIsATable DEF IInv, TableInv
<1>2. Cardinality(DOMAIN windows) \in Nat /\ Cardinality(DOMAIN windows) <= MaxKeys
    BY FS_CardinalityType DEF IInv, TableInv
<1>3. Cardinality(DOMAIN windows') <= MaxKeys
    BY <1>1, <1>2, BoundsAssumption
<1>4. TableInv'
    BY <1>1, <1>3 DEF IInv, TableInv
<1>5. TableLasts
    BY <1>1, <1>3 DEF TableLasts
<1> QED BY <1>4, <1>5

LEMMA CountedKeeps ==
    ASSUME IInv, NEW now \in Nat, now <= clock, NEW k \in Key, ConsumeCounted(k, now)
    PROVE  TableInv' /\ TableLasts
<1> DEFINE w == [windows EXCEPT ![k].count = @ + 1]
<1>1. k \in DOMAIN windows /\ windows' = Without(w, Swept(now))
    BY DEF ConsumeCounted, Live
<1>2. /\ DOMAIN w = DOMAIN windows
      /\ w \in [DOMAIN windows -> [started : Nat, count : Nat]]
      /\ \A j \in DOMAIN windows : w[j].started = windows[j].started
    <2>1. windows[k] \in [started : Nat, count : Nat]
        BY <1>1 DEF IInv, TableInv
    <2>2. [windows[k] EXCEPT !.count = @ + 1] \in [started : Nat, count : Nat]
        BY <2>1
    <2>3. [windows[k] EXCEPT !.count = @ + 1].started = windows[k].started
        BY <2>1
    <2> QED BY <1>1, <2>2, <2>3 DEF IInv, TableInv
<1> HIDE DEF w
<1>3. /\ DOMAIN windows' = DOMAIN windows \ Swept(now)
      /\ \A j \in DOMAIN windows \ Swept(now) : windows'[j] = w[j]
      /\ IsFiniteSet(DOMAIN windows')
      /\ Cardinality(DOMAIN windows') \in Nat
      /\ Cardinality(DOMAIN windows') <= Cardinality(DOMAIN windows)
      /\ windows' \in [DOMAIN windows' -> [started : Nat, count : Nat]]
    <2>1. /\ DOMAIN w \subseteq Key /\ IsFiniteSet(DOMAIN w)
          /\ w \in [DOMAIN w -> [started : Nat, count : Nat]]
        BY <1>2 DEF IInv, TableInv
    <2>2. /\ DOMAIN Without(w, Swept(now)) = DOMAIN w \ Swept(now)
          /\ \A j \in DOMAIN w \ Swept(now) : Without(w, Swept(now))[j] = w[j]
          /\ IsFiniteSet(DOMAIN Without(w, Swept(now)))
          /\ Cardinality(DOMAIN Without(w, Swept(now))) \in Nat
          /\ Cardinality(DOMAIN Without(w, Swept(now))) <= Cardinality(DOMAIN w)
          /\ Without(w, Swept(now)) \in
                [DOMAIN Without(w, Swept(now)) -> [started : Nat, count : Nat]]
        BY <2>1, WithoutIsATable
    <2> QED BY <1>1, <1>2, <2>2
<1>4. Cardinality(DOMAIN windows) \in Nat /\ Cardinality(DOMAIN windows) <= MaxKeys
    BY FS_CardinalityType DEF IInv, TableInv
<1>5. Cardinality(DOMAIN windows') <= MaxKeys
    BY <1>3, <1>4, BoundsAssumption
<1>6. TableInv'
    BY <1>3, <1>5 DEF IInv, TableInv
<1>7. TableLasts
    BY <1>2, <1>3, <1>5, SweptHaveLasted DEF TableLasts
<1> QED BY <1>6, <1>7

\* A table of at most MaxKeys windows and one more exceeds MaxKeys by one at
\* most: either the new window has to go, or another one for which it stays.
LEMMA NewWindowKeeps ==
    ASSUME IInv, NEW now \in Nat, now <= clock, NEW k \in Key, ConsumeNewWindow(k, now)
    PROVE  TableInv' /\ TableLasts
<1> DEFINE D == DOMAIN windows \ Swept(now)
           w == [j \in D \cup {k} |-> IF j = k THEN [started |-> now, count |-> 1]
                                               ELSE windows[j]]
<1>1. PICK gone \in Evictions(w) : windows' = Without(w, gone)
    BY DEF ConsumeNewWindow
<1>2. /\ DOMAIN w = D \cup {k} /\ DOMAIN w \subseteq Key
      /\ w \in [DOMAIN w -> [started : Nat, count : Nat]]
      /\ \A j \in D : j # k => w[j] = windows[j]
    BY DEF IInv, TableInv
<1>3. /\ IsFiniteSet(D) /\ Cardinality(D) \in Nat
      /\ Cardinality(D) <= Cardinality(DOMAIN windows)
      /\ Cardinality(DOMAIN windows) \in Nat
    <2>1. D \in SUBSET DOMAIN windows /\ IsFiniteSet(DOMAIN windows)
        BY DEF IInv, TableInv
    <2> QED BY <2>1, FS_Subset, FS_CardinalityType
<1>4. /\ IsFiniteSet(D \cup {k})
      /\ Cardinality(D \cup {k}) = IF k \in D THEN Cardinality(D) ELSE Cardinality(D) + 1
    BY <1>3, FS_AddElement
<1>5. /\ gone \in SUBSET (D \cup {k})
      /\ Cardinality(gone) = IF Cardinality(D \cup {k}) - MaxKeys > 0
                             THEN Cardinality(D \cup {k}) - MaxKeys ELSE 0
    BY <1>1, <1>2 DEF Evictions
<1> HIDE DEF w
<1>6. /\ DOMAIN windows' = (D \cup {k}) \ gone
      /\ \A j \in (D \cup {k}) \ gone : windows'[j] = w[j]
      /\ IsFiniteSet(DOMAIN windows')
      /\ windows' \in [DOMAIN windows' -> [started : Nat, count : Nat]]
    <2>1. IsFiniteSet(DOMAIN w)
        BY <1>2, <1>4
    <2>2. /\ DOMAIN Without(w, gone) = DOMAIN w \ gone
          /\ \A j \in DOMAIN w \ gone : Without(w, gone)[j] = w[j]
          /\ IsFiniteSet(DOMAIN Without(w, gone))
          /\ Without(w, gone) \in [DOMAIN Without(w, gone) -> [started : Nat, count : Nat]]
        BY <1>2, <2>1, WithoutIsATable
    <2> QED BY <1>1, <1>2, <2>2
<1>7. /\ IsFiniteSet(gone) /\ Cardinality(gone) \in Nat
      /\ Cardinality((D \cup {k}) \ gone) = Cardinality(D \cup {k}) - Cardinality(gone)
    <2>1. (D \cup {k}) \cap gone = gone
        BY <1>5
    <2>2. IsFiniteSet(gone) /\ Cardinality(gone) \in Nat
        BY <1>4, <1>5, FS_Subset, FS_CardinalityType
    <2>3. Cardinality((D \cup {k}) \ gone)
              = Cardinality(D \cup {k}) - Cardinality((D \cup {k}) \cap gone)
        BY <1>4, FS_Difference
    <2> QED BY <2>1, <2>2, <2>3
<1>8. Cardinality(DOMAIN windows) <= MaxKeys /\ MaxKeys \in Nat
    BY BoundsAssumption DEF IInv, TableInv
<1>9. Cardinality(DOMAIN windows') <= MaxKeys
    BY <1>3, <1>4, <1>5, <1>6, <1>7, <1>8
<1>10. TableInv'
    BY <1>2, <1>6, <1>9 DEF TableInv
<1>11. \A j \in DOMAIN windows : j \in Swept(now) \/ j = k =>
           clock - windows[j].started >= WindowSeconds[RuleOf(j)]
    BY SweptHaveLasted, ExpiredHaveLasted DEF ConsumeNewWindow
<1>12. \A j \in D : j # k /\ j \notin gone =>
           j \in DOMAIN windows' /\ windows'[j].started = windows[j].started
    BY <1>2, <1>6
<1>13. \A j \in D : j # k /\ j \in gone => MakesRoom
    <2> SUFFICES ASSUME NEW j \in D, j # k, j \in gone PROVE MakesRoom
        OBVIOUS
    <2>1. Cardinality(gone) # 0
        BY <1>7, FS_EmptySet
    <2>2. /\ Cardinality(D \cup {k}) - MaxKeys > 0 /\ k \notin D
          /\ Cardinality(D) = Cardinality(DOMAIN windows)
          /\ Cardinality(gone) = 1 /\ Cardinality(DOMAIN windows') = MaxKeys
        BY <1>3, <1>4, <1>5, <1>6, <1>7, <1>8, <2>1
    <2>3. k \notin gone
        BY <1>7, <2>2, FS_Singleton
    <2>4. D = DOMAIN windows
        BY <2>2, FS_Subset DEF IInv, TableInv
    <2>5. k \in DOMAIN windows' \ DOMAIN windows
        BY <1>6, <2>2, <2>3, <2>4
    <2> QED BY <2>2, <2>5 DEF MakesRoom
<1>14. TableLasts
    BY <1>9, <1>11, <1>12, <1>13 DEF TableLasts
<1> QED BY <1>10, <1>14

LEMMA ConsumeKeeps ==
    ASSUME IInv, NEW now \in Nat, now <= clock, NEW k \in Key,
           ConsumeRefused(k, now) \/ ConsumeCounted(k, now) \/ ConsumeNewWindow(k, now)
    PROVE  TableInv' /\ TableLasts
<1>1. CASE ConsumeRefused(k, now)
    <2>1. windows' = Without(windows, Swept(now))
        BY <1>1 DEF ConsumeRefused
    <2> QED BY <2>1, SweptHaveLasted, DropKeeps
<1> QED BY <1>1, CountedKeeps, NewWindowKeeps

LEMMA UnchangedKeeps == ASSUME IInv, UNCHANGED windows PROVE TableInv' /\ TableLasts
BY DEF IInv, TableInv, TableLasts

LEMMA PeekKeeps ==
    ASSUME IInv, NEW now \in Nat, now <= clock, NEW k, Peek(k, now)
    PROVE  TableInv' /\ TableLasts
<1>1. CASE k \in DOMAIN windows /\ ~Live(k, now)
    BY <1>1, ExpiredHaveLasted, DropKeeps DEF Peek
<1>2. CASE ~(k \in DOMAIN windows /\ ~Live(k, now))
    BY <1>2, UnchangedKeeps DEF Peek
<1> QED BY <1>1, <1>2

-----------------------------------------------------------------------------
(* The requests.                                                           *)

\* What a thread does next changes no other.
LEMMA GotoKeeps ==
    ASSUME IInv, NEW t \in Thread, NEW next \in {"idle", "guarded", "verifying"},
           Goto(t, next), pc[t] # "idle",
           next # "idle" => req[t].account \in Account
    PROVE  /\ since' \in [Thread -> Nat] /\ DOMAIN pc' = Thread /\ DOMAIN req' = Thread
           /\ RequestInv'
<1>1. /\ since' \in [Thread -> Nat] /\ DOMAIN pc' = Thread /\ DOMAIN req' = Thread
      /\ pc'[t] = next /\ \A u \in Thread : u # t => pc'[u] = pc[u] /\ req'[u] = req[u]
      /\ next # "idle" => req'[t] = req[t]
    BY DEF Goto, IInv
<1> QED BY <1>1 DEF IInv, RequestInv

LEMMA StepKeeps ==
    ASSUME IInv, NEW t \in Thread,
           Enforce(t) \/ Guard(t) \/ RecordFailure(t) \/ ClearFailures(t) \/ Fail(t)
    PROVE  IInv' /\ TableLasts
<1>1. clock' = clock /\ pc[t] # "idle" /\ req[t] \in Request
    BY DEF Enforce, Guard, RecordFailure, ClearFailures, Fail, IInv, RequestInv
<1>2. CASE Enforce(t)
    <2> DEFINE k == <<req[t].rule, req[t].client>>
               next == IF req[t].rule = "login" THEN "guarded" ELSE "idle"
    <2>1. k \in Key
        BY <1>1, RulesAssumption, RulesOfKeys DEF Request
    <2>2. PICK now \in Readings(t) :
             /\ ConsumeRefused(k, now) \/ ConsumeCounted(k, now) \/ ConsumeNewWindow(k, now)
             /\ Goto(t, "idle") \/ Goto(t, next)
        BY <1>2 DEF Enforce
    <2>3. TableInv' /\ TableLasts
        BY <2>1, <2>2, ReadingsArePast, ConsumeKeeps
    <2>4. req[t].rule = "login" => req[t].account \in Account
        BY <1>1 DEF IInv, RequestInv
    <2>5. /\ since' \in [Thread -> Nat] /\ DOMAIN pc' = Thread /\ DOMAIN req' = Thread
          /\ RequestInv'
        BY <1>1, <2>2, <2>4, GotoKeeps
    <2> QED BY <1>1, <1>2, <2>3, <2>5 DEF IInv, Enforce
<1>3. CASE Guard(t)
    <2>1. PICK now \in Readings(t) :
             /\ Peek(FailureKey(req[t].account), now)
             /\ Goto(t, "idle") \/ Goto(t, "verifying")
        BY <1>3 DEF Guard
    <2>2. TableInv' /\ TableLasts
        BY <2>1, ReadingsArePast, PeekKeeps
    <2>3. req[t].account \in Account
        BY <1>3 DEF Guard, IInv, RequestInv
    <2>4. /\ since' \in [Thread -> Nat] /\ DOMAIN pc' = Thread /\ DOMAIN req' = Thread
          /\ RequestInv'
        BY <1>1, <2>1, <2>3, GotoKeeps
    <2> QED BY <1>1, <1>3, <2>2, <2>4 DEF IInv, Guard
<1>4. ASSUME pc[t] = "verifying" PROVE req[t].account \in Account
    BY <1>4 DEF IInv, RequestInv
<1>5. ASSUME Goto(t, "idle")
      PROVE  /\ since' \in [Thread -> Nat] /\ DOMAIN pc' = Thread /\ DOMAIN req' = Thread
             /\ RequestInv'
    BY <1>1, <1>5, GotoKeeps
<1>6. CASE RecordFailure(t)
    <2> DEFINE k == FailureKey(req[t].account)
    <2>1. k \in Key
        BY <1>4, <1>6, RulesOfKeys DEF RecordFailure
    <2>2. PICK now \in Readings(t) :
             ConsumeRefused(k, now) \/ ConsumeCounted(k, now) \/ ConsumeNewWindow(k, now)
        BY <1>6 DEF RecordFailure
    <2>3. TableInv' /\ TableLasts
        BY <2>1, <2>2, ReadingsArePast, ConsumeKeeps
    <2>4. DOMAIN guesses' = Account
        BY <1>6 DEF RecordFailure, IInv
    <2> QED BY <1>1, <1>5, <1>6, <2>3, <2>4 DEF IInv, RecordFailure
<1>7. CASE ClearFailures(t)
    <2> DEFINE k == FailureKey(req[t].account)
    <2>1. req[t].account \in Account
        BY <1>4, <1>7 DEF ClearFailures
    <2>2. DOMAIN guesses' = Account /\ guesses'[req[t].account] = 0
        BY <1>7, <2>1 DEF ClearFailures, IInv
    <2>3. LoginClears(k)
        BY <2>1, <2>2, RulesOfKeys DEF LoginClears
    <2>4. windows' = Without(windows, {k})
        BY <1>7 DEF ClearFailures
    <2>5. TableInv' /\ TableLasts
        BY <2>3, <2>4, DropKeeps
    <2> QED BY <1>1, <1>5, <1>7, <2>2, <2>5 DEF IInv, ClearFailures
<1>8. CASE Fail(t)
    BY <1>1, <1>5, <1>8, UnchangedKeeps DEF IInv, Fail
<1> QED BY <1>2, <1>3, <1>6, <1>7, <1>8

LEMMA ArriveKeeps ==
    ASSUME IInv, NEW t \in Thread, NEW r \in Request, Arrive(t, r)
    PROVE  IInv' /\ TableLasts
<1>1. /\ UNCHANGED <<clock, windows, guesses>>
      /\ since' \in [Thread -> Nat] /\ DOMAIN pc' = Thread /\ DOMAIN req' = Thread
      /\ pc'[t] = "limited" /\ req'[t] = r
      /\ r.rule = "login" => r.account \in Account
      /\ \A u \in Thread : u # t => pc'[u] = pc[u] /\ req'[u] = req[u]
    BY DEF Arrive, IInv
<1>2. RequestInv'
    BY <1>1 DEF IInv, RequestInv
<1> QED BY <1>1, <1>2, UnchangedKeeps DEF IInv

LEMMA NextKeeps == ASSUME IInv, Next PROVE IInv' /\ TableLasts
<1>1. CASE Tick
    BY <1>1, UnchangedKeeps DEF Tick, IInv, RequestInv
<1> QED BY <1>1, ArriveKeeps, StepKeeps DEF Next

LEMMA InitIInv == ASSUME Init PROVE IInv
<1>1. DOMAIN windows = {} /\ windows \in [{} -> [started : Nat, count : Nat]]
    BY DEF Init
<1>2. TableInv
    BY <1>1, FS_EmptySet, BoundsAssumption DEF TableInv
<1>3. RequestInv
    BY DEF Init, RequestInv
<1> QED BY <1>2, <1>3 DEF Init, IInv

\* "[Drops] windows that can no longer reject anything" (rate_limit.py:228):
\* a limit outlasts sweeps, peeks and stale readings of the clock, and a full
\* table loses a window only to a new one.
THEOREM LimitsLast == Spec => WindowsLast
<1>1. Init => IInv
    BY InitIInv
<1>2. IInv /\ [Next]_vars => IInv' /\ [TableLasts]_vars
    <2>1. ASSUME IInv, UNCHANGED vars PROVE IInv'
        BY <2>1 DEF vars, IInv, TableInv, RequestInv
    <2> QED BY <2>1, NextKeeps
<1>3. Spec => [][TableLasts]_vars
    BY <1>1, <1>2, PTL DEF Spec
<1> QED BY <1>3 DEF WindowsLast, TableLasts

-----------------------------------------------------------------------------
(* Guesses at a password.                                                  *)

Budget == Limit["login_failures"]

\* The threads that are checking a password of account a.
Verifying(a) == {t \in Thread : pc[t] = "verifying" /\ req[t].account = a}

\* What a guess may find: a budget, and all threads but one.
MostGuesses == Budget + Cardinality(Thread) - 1

\* The window counts the guesses until it is full; from then on nobody begins another one,
\* unless the window is dropped first, and the next failure begins a new one.
GuessInv(a) ==
    /\ guesses[a] \in Nat /\ guesses[a] <= MostGuesses
    /\ FailureKey(a) \in DOMAIN windows =>
          LET count == windows[FailureKey(a)].count
          IN  /\ count \in 1..Budget
              /\ count < Budget => guesses[a] = count
              /\ count = Budget => guesses[a] + Cardinality(Verifying(a)) <= MostGuesses

LEMMA FiniteThreads ==
    /\ Budget \in Nat \ {0} /\ Cardinality(Thread) \in Nat /\ MostGuesses \in Nat
    /\ \A a : /\ IsFiniteSet(Verifying(a)) /\ Cardinality(Verifying(a)) \in Nat
              /\ Cardinality(Verifying(a)) <= Cardinality(Thread)
<1>1. Budget \in Nat \ {0} /\ Cardinality(Thread) \in Nat
    BY ThreadAssumption, RulesAssumption, FS_CardinalityType DEF Budget, Rule
<1>2. ASSUME NEW a
      PROVE  /\ IsFiniteSet(Verifying(a)) /\ Cardinality(Verifying(a)) \in Nat
             /\ Cardinality(Verifying(a)) <= Cardinality(Thread)
    <2>1. Verifying(a) \in SUBSET Thread
        BY DEF Verifying
    <2> QED BY <2>1, ThreadAssumption, FS_Subset, FS_CardinalityType
<1> QED BY <1>1, <1>2 DEF MostGuesses

\* Those who check no longer, or not yet.
LEMMA FewerVerify ==
    ASSUME NEW a, Verifying(a)' \subseteq Verifying(a)
    PROVE  Cardinality(Verifying(a))' \in Nat
           /\ Cardinality(Verifying(a))' <= Cardinality(Verifying(a))
<1>1. Verifying(a)' \in SUBSET Verifying(a) /\ IsFiniteSet(Verifying(a))
    BY FiniteThreads
<1> QED BY <1>1, FS_Subset, FS_CardinalityType

\* The account makes no guess, and its window stays or is dropped.
LEMMA QuietGuesses ==
    ASSUME NEW a \in Account, GuessInv(a), guesses'[a] = guesses[a],
           FailureKey(a) \in DOMAIN windows' =>
               /\ FailureKey(a) \in DOMAIN windows
               /\ windows'[FailureKey(a)] = windows[FailureKey(a)]
               /\ \/ Verifying(a)' \subseteq Verifying(a)
                  \/ windows[FailureKey(a)].count < Budget
    PROVE  GuessInv(a)'
<1> DEFINE k == FailureKey(a)
           count == windows[k].count
<1>1. guesses[a] \in Nat /\ guesses[a] <= MostGuesses
    BY DEF GuessInv
<1>2. CASE k \notin DOMAIN windows'
    BY <1>1, <1>2 DEF GuessInv, MostGuesses, Budget, FailureKey
<1>3. CASE k \in DOMAIN windows'
    <2>1. /\ count \in 1..Budget
          /\ count < Budget => guesses[a] = count
          /\ count = Budget => guesses[a] + Cardinality(Verifying(a)) <= MostGuesses
        BY <1>3 DEF GuessInv
    <2>2. count = Budget => guesses[a] + Cardinality(Verifying(a))' <= MostGuesses
        <3>1. count = Budget => Verifying(a)' \subseteq Verifying(a)
            BY <1>3, <2>1, FiniteThreads
        <3> QED BY <1>1, <2>1, <3>1, FewerVerify, FiniteThreads
    <2> QED BY <1>1, <1>3, <2>1, <2>2 DEF GuessInv, MostGuesses, Budget, FailureKey
<1> QED BY <1>2, <1>3

-----------------------------------------------------------------------------
(* What a call of consume leaves.                                          *)

LEMMA ConsumeLeaves ==
    ASSUME IInv, NEW now \in Nat, now <= clock, NEW k \in Key
    PROVE  /\ ConsumeRefused(k, now) =>
                 /\ k \in DOMAIN windows /\ windows[k].count >= Limit[RuleOf(k)]
                 /\ \A j \in DOMAIN windows' : j \in DOMAIN windows /\ windows'[j] = windows[j]
           /\ ConsumeCounted(k, now) =>
                 /\ k \in DOMAIN windows /\ windows[k].count < Limit[RuleOf(k)]
                 /\ windows'[k].count = windows[k].count + 1
                 /\ \A j \in DOMAIN windows' : j # k =>
                       j \in DOMAIN windows /\ windows'[j] = windows[j]
           /\ ConsumeNewWindow(k, now) =>
                 /\ k \in DOMAIN windows' => windows'[k].count = 1
                 /\ \A j \in DOMAIN windows' : j # k =>
                       j \in DOMAIN windows /\ windows'[j] = windows[j]
<1>2. ASSUME ConsumeRefused(k, now)
      PROVE  /\ k \in DOMAIN windows /\ windows[k].count >= Limit[RuleOf(k)]
             /\ \A j \in DOMAIN windows' : j \in DOMAIN windows /\ windows'[j] = windows[j]
    <2>1. /\ k \in DOMAIN windows /\ windows[k].count >= Limit[RuleOf(k)]
          /\ windows' = Without(windows, Swept(now))
        BY <1>2 DEF ConsumeRefused, Live
    <2>2. /\ DOMAIN windows' = DOMAIN windows \ Swept(now)
          /\ \A j \in DOMAIN windows' : windows'[j] = windows[j]
        BY <2>1 DEF Without, Restrict
    <2> QED BY <2>1, <2>2
<1>3. ASSUME ConsumeCounted(k, now)
      PROVE  /\ k \in DOMAIN windows /\ windows[k].count < Limit[RuleOf(k)]
             /\ windows'[k].count = windows[k].count + 1
             /\ \A j \in DOMAIN windows' : j # k =>
                   j \in DOMAIN windows /\ windows'[j] = windows[j]
    <2> DEFINE w == [windows EXCEPT ![k].count = @ + 1]
    <2>1. /\ k \in DOMAIN windows /\ k \notin Swept(now) /\ windows[k].count < Limit[RuleOf(k)]
          /\ windows' = Without(w, Swept(now))
        BY <1>3 DEF ConsumeCounted, Live
    <2>2. /\ DOMAIN w = DOMAIN windows /\ w[k].count = windows[k].count + 1
          /\ \A j \in DOMAIN windows : j # k => w[j] = windows[j]
        <3>1. windows[k] \in [started : Nat, count : Nat]
            BY <2>1 DEF IInv, TableInv
        <3> QED BY <2>1, <3>1
    <2> HIDE DEF w
    <2>3. /\ DOMAIN windows' = DOMAIN w \ Swept(now)
          /\ \A j \in DOMAIN windows' : windows'[j] = w[j]
        BY <2>1 DEF Without, Restrict
    <2> QED BY <2>1, <2>2, <2>3
<1>4. ASSUME ConsumeNewWindow(k, now)
      PROVE  /\ k \in DOMAIN windows' => windows'[k].count = 1
             /\ \A j \in DOMAIN windows' : j # k =>
                   j \in DOMAIN windows /\ windows'[j] = windows[j]
    <2> DEFINE w == [j \in (DOMAIN windows \ Swept(now)) \cup {k} |->
                        IF j = k THEN [started |-> now, count |-> 1] ELSE windows[j]]
    <2>1. PICK gone : windows' = Without(w, gone)
        BY <1>4 DEF ConsumeNewWindow
    <2>2. /\ DOMAIN w = (DOMAIN windows \ Swept(now)) \cup {k} /\ w[k].count = 1
          /\ \A j \in DOMAIN w : j # k => w[j] = windows[j]
        OBVIOUS
    <2> HIDE DEF w
    <2>3. /\ DOMAIN windows' = DOMAIN w \ gone
          /\ \A j \in DOMAIN windows' : windows'[j] = w[j]
        BY <2>1 DEF Without, Restrict
    <2> QED BY <2>1, <2>2, <2>3
<1> QED BY <1>2, <1>3, <1>4

LEMMA FailureKeys ==
    /\ \A a, b : FailureKey(a) = FailureKey(b) => a = b
    /\ \A r \in Rule \ {"login_failures"} : \A c, a : <<r, c>> # FailureKey(a)
BY DEF FailureKey

\* Whoever leaves verifying joins nobody.
LEMMA GotoVerifies ==
    ASSUME IInv, NEW t \in Thread, NEW next, Goto(t, next), NEW a
    PROVE  /\ next # "verifying" => Verifying(a)' \subseteq Verifying(a) \ {t}
           /\ req[t].account # a => Verifying(a)' \subseteq Verifying(a)
<1>1. /\ pc'[t] = next /\ (next = "verifying" => req'[t] = req[t])
      /\ \A u \in Thread : u # t => pc'[u] = pc[u] /\ req'[u] = req[u]
    BY DEF Goto, IInv
<1> QED BY <1>1 DEF Verifying

-----------------------------------------------------------------------------
(* The requests.                                                           *)

LEMMA EnforceKeepsGuesses ==
    ASSUME IInv, NEW t \in Thread, Enforce(t), NEW a \in Account, GuessInv(a)
    PROVE  GuessInv(a)'
<1> DEFINE k == <<req[t].rule, req[t].client>>
           next == IF req[t].rule = "login" THEN "guarded" ELSE "idle"
<1>1. req[t] \in Request /\ guesses' = guesses
    BY DEF Enforce, IInv, RequestInv
<1>2. req[t].rule \in Rule \ {"login_failures"} /\ req[t].client \in Client
    BY <1>1, RulesAssumption DEF Request
<1>3. k \in Key /\ k # FailureKey(a)
    BY <1>2, RulesOfKeys, FailureKeys
<1>4. PICK now \in Readings(t) :
         /\ ConsumeRefused(k, now) \/ ConsumeCounted(k, now) \/ ConsumeNewWindow(k, now)
         /\ Goto(t, "idle") \/ Goto(t, next)
    BY DEF Enforce
<1>5. \A j \in DOMAIN windows' : j # k => j \in DOMAIN windows /\ windows'[j] = windows[j]
    BY <1>3, <1>4, ReadingsArePast, ConsumeLeaves
<1>6. Verifying(a)' \subseteq Verifying(a)
    BY <1>4, GotoVerifies
<1> QED BY <1>1, <1>3, <1>5, <1>6, QuietGuesses

LEMMA GuardKeepsGuesses ==
    ASSUME IInv, NEW t \in Thread, Guard(t), NEW a \in Account, GuessInv(a)
    PROVE  GuessInv(a)'
<1> DEFINE k == FailureKey(req[t].account)
<1>1. PICK now \in Readings(t) :
         Peek(k, now) /\ Goto(t, IF PeekRefuses(k, now) THEN "idle" ELSE "verifying")
    BY DEF Guard
<1>2. guesses' = guesses
    BY DEF Guard
<1>3. \A j \in DOMAIN windows' :
          /\ j \in DOMAIN windows /\ windows'[j] = windows[j]
          /\ j = k => Live(k, now)
    <2>1. CASE k \in DOMAIN windows /\ ~Live(k, now)
        BY <1>1, <2>1 DEF Peek, Without, Restrict
    <2>2. CASE ~(k \in DOMAIN windows /\ ~Live(k, now))
        BY <1>1, <2>2 DEF Peek
    <2> QED BY <2>1, <2>2
<1>4. CASE req[t].account # a
    <2>1. Verifying(a)' \subseteq Verifying(a)
        BY <1>1, <1>4, GotoVerifies
    <2> QED BY <1>2, <1>3, <2>1, QuietGuesses
<1>5. CASE req[t].account = a
    <2>1. CASE PeekRefuses(k, now)
        <3>1. Goto(t, "idle")
            BY <1>1, <2>1
        <3>2. Verifying(a)' \subseteq Verifying(a)
            BY <3>1, GotoVerifies
        <3> QED BY <1>2, <1>3, <3>2, QuietGuesses
    <2>2. CASE ~PeekRefuses(k, now)
        <3>1. ASSUME k \in DOMAIN windows' PROVE windows[k].count < Budget
            <4>1. windows[k] \in [started : Nat, count : Nat]
                BY <1>3, <3>1 DEF IInv, TableInv
            <4>2. ~ windows[k].count >= Limit[RuleOf(k)]
                BY <1>3, <2>2, <3>1 DEF PeekRefuses
            <4> QED BY <4>1, <4>2, FiniteThreads DEF Budget, FailureKey, RuleOf
        <3> QED BY <1>2, <1>3, <1>5, <3>1, QuietGuesses
    <2> QED BY <2>1, <2>2
<1> QED BY <1>4, <1>5

LEMMA FailureKeepsGuesses ==
    ASSUME IInv, NEW t \in Thread, RecordFailure(t), NEW a \in Account, GuessInv(a)
    PROVE  GuessInv(a)'
<1> DEFINE b == req[t].account
           k == FailureKey(b)
<1>1. pc[t] = "verifying" /\ b \in Account /\ Goto(t, "idle")
    BY DEF RecordFailure, IInv, RequestInv
<1>2. PICK now \in Readings(t) :
         \/ /\ ConsumeRefused(k, now) \/ ConsumeCounted(k, now)
            /\ guesses' = [guesses EXCEPT ![b] = @ + 1]
         \/ ConsumeNewWindow(k, now) /\ guesses' = [guesses EXCEPT ![b] = 1]
    BY DEF RecordFailure
<1>3. k \in Key /\ Limit[RuleOf(k)] = Budget
    BY <1>1, RulesOfKeys DEF Budget
<1>4. now \in Nat /\ now <= clock
    BY ReadingsArePast
<1>5. Verifying(a)' \subseteq Verifying(a) \ {t}
    BY <1>1, GotoVerifies
<1>6. CASE b # a
    <2>1. FailureKey(a) # k
        BY <1>6, FailureKeys
    <2>2. guesses'[a] = guesses[a]
        BY <1>1, <1>2, <1>6 DEF IInv
    <2>3. FailureKey(a) \in DOMAIN windows' =>
              FailureKey(a) \in DOMAIN windows /\ windows'[FailureKey(a)] = windows[FailureKey(a)]
        BY <1>2, <1>3, <1>4, <2>1, ConsumeLeaves
    <2> QED BY <1>5, <2>2, <2>3, QuietGuesses
<1>7. CASE b = a
    <2>1. t \in Verifying(a) /\ FailureKey(a) = k
        BY <1>1, <1>7 DEF Verifying
    <2>2. /\ Cardinality(Verifying(a)) \in Nat /\ Cardinality(Verifying(a)') \in Nat
          /\ Cardinality(Verifying(a)') <= Cardinality(Verifying(a)) - 1
          /\ Cardinality(Verifying(a)) <= Cardinality(Thread)
        <3>1. /\ IsFiniteSet(Verifying(a) \ {t})
              /\ Cardinality(Verifying(a) \ {t}) = Cardinality(Verifying(a)) - 1
            BY <2>1, FiniteThreads, FS_RemoveElement
        <3>2. Verifying(a)' \in SUBSET (Verifying(a) \ {t})
            BY <1>5
        <3> QED BY <3>1, <3>2, FiniteThreads, FS_Subset, FS_CardinalityType
    <2>3. /\ Budget \in Nat \ {0} /\ Cardinality(Thread) \in Nat
          /\ MostGuesses = Budget + Cardinality(Thread) - 1
        BY FiniteThreads DEF MostGuesses
    <2>4. guesses[a] \in Nat /\ a \in DOMAIN guesses
        BY <1>1, <1>7 DEF GuessInv, IInv
    <2> DEFINE count == windows[k].count
    <2>5. k \in DOMAIN windows =>
              /\ count \in 1..Budget
              /\ count < Budget => guesses[a] = count
              /\ count = Budget => guesses[a] + Cardinality(Verifying(a)) <= MostGuesses
        BY <2>1 DEF GuessInv
    <2>6. GuessInv(a)' =
              /\ guesses'[a] \in Nat /\ guesses'[a] <= MostGuesses
              /\ k \in DOMAIN windows' =>
                    /\ windows'[k].count \in 1..Budget
                    /\ windows'[k].count < Budget => guesses'[a] = windows'[k].count
                    /\ windows'[k].count = Budget =>
                          guesses'[a] + Cardinality(Verifying(a)') <= MostGuesses
        BY <2>1 DEF GuessInv, MostGuesses, Budget, FailureKey
    <2> HIDE DEF k
    <2>7. CASE ConsumeRefused(k, now) /\ guesses' = [guesses EXCEPT ![b] = @ + 1]
        <3>1. /\ k \in DOMAIN windows /\ count >= Budget
              /\ k \in DOMAIN windows' => windows'[k] = windows[k]
            BY <1>3, <1>4, <2>7, ConsumeLeaves
        <3>2. guesses'[a] = guesses[a] + 1
            BY <1>7, <2>4, <2>7
        <3>3. count = Budget /\ guesses[a] + Cardinality(Verifying(a)) <= MostGuesses
            BY <2>3, <2>5, <3>1
        <3>4. guesses'[a] + Cardinality(Verifying(a)') <= MostGuesses
            BY <2>2, <2>3, <2>4, <3>2, <3>3
        <3>5. guesses'[a] \in Nat /\ guesses'[a] <= MostGuesses
            BY <2>2, <2>3, <2>4, <3>2, <3>4
        <3> QED BY <2>3, <2>5, <2>6, <3>1, <3>3, <3>4, <3>5
    <2>8. CASE ConsumeCounted(k, now) /\ guesses' = [guesses EXCEPT ![b] = @ + 1]
        <3>1. k \in DOMAIN windows /\ count < Budget /\ windows'[k].count = count + 1
            BY <1>3, <1>4, <2>8, ConsumeLeaves
        <3>2. guesses'[a] = guesses[a] + 1
            BY <1>7, <2>4, <2>8
        <3>3. guesses[a] = count /\ count \in 1..Budget
            BY <2>5, <3>1
        <3>4. guesses'[a] = count + 1 /\ count + 1 \in 1..Budget
            BY <2>3, <3>1, <3>2, <3>3
        <3>5. guesses'[a] + Cardinality(Verifying(a)') <= MostGuesses
            BY <2>2, <2>3, <3>4
        <3>6. guesses'[a] \in Nat /\ guesses'[a] <= MostGuesses
            BY <2>2, <2>3, <3>4, <3>5
        <3> QED BY <2>6, <3>1, <3>4, <3>5, <3>6
    <2>9. CASE ConsumeNewWindow(k, now) /\ guesses' = [guesses EXCEPT ![b] = 1]
        <3>1. k \in DOMAIN windows' => windows'[k].count = 1
            BY <1>3, <1>4, <2>9, ConsumeLeaves
        <3>2. guesses'[a] = 1
            BY <1>7, <2>4, <2>9
        <3>3. guesses'[a] + Cardinality(Verifying(a)') <= MostGuesses
            BY <2>2, <2>3, <3>2
        <3>4. guesses'[a] \in Nat /\ guesses'[a] <= MostGuesses /\ 1 \in 1..Budget
            BY <2>2, <2>3, <3>2, <3>3
        <3> QED BY <2>6, <3>1, <3>2, <3>3, <3>4
    <2> QED BY <1>2, <2>7, <2>8, <2>9
<1> QED BY <1>6, <1>7

LEMMA LoginKeepsGuesses ==
    ASSUME IInv, NEW t \in Thread, ClearFailures(t), NEW a \in Account, GuessInv(a)
    PROVE  GuessInv(a)'
<1> DEFINE b == req[t].account
<1>1. /\ pc[t] = "verifying" /\ b \in Account /\ Goto(t, "idle")
      /\ windows' = Without(windows, {FailureKey(b)})
      /\ guesses' = [guesses EXCEPT ![b] = 0]
    BY DEF ClearFailures, IInv, RequestInv
<1>2. /\ DOMAIN windows' = DOMAIN windows \ {FailureKey(b)}
      /\ \A j \in DOMAIN windows' : windows'[j] = windows[j]
    BY <1>1 DEF Without, Restrict
<1>3. CASE b = a
    <2>1. guesses'[a] = 0 /\ FailureKey(a) \notin DOMAIN windows'
        BY <1>1, <1>2, <1>3 DEF IInv
    <2> QED BY <2>1, FiniteThreads DEF GuessInv, MostGuesses, Budget, FailureKey
<1>4. CASE b # a
    <2>1. guesses'[a] = guesses[a]
        BY <1>1, <1>4 DEF IInv
    <2>2. Verifying(a)' \subseteq Verifying(a)
        BY <1>1, GotoVerifies
    <2> QED BY <1>2, <2>1, <2>2, QuietGuesses
<1> QED BY <1>3, <1>4

LEMMA NextKeepsGuesses ==
    ASSUME IInv, [Next]_vars, NEW a \in Account, GuessInv(a)
    PROVE  GuessInv(a)'
<1>1. CASE UNCHANGED vars \/ Tick
    <2>1. UNCHANGED <<windows, guesses, pc, req>>
        BY <1>1 DEF Tick, vars
    <2>2. Verifying(a)' = Verifying(a)
        BY <2>1 DEF Verifying
    <2> QED BY <2>1, <2>2, QuietGuesses
<1>2. ASSUME NEW t \in Thread, NEW r \in Request, Arrive(t, r)
      PROVE  GuessInv(a)'
    <2>1. /\ UNCHANGED <<windows, guesses>> /\ pc'[t] = "limited"
          /\ \A u \in Thread : u # t => pc'[u] = pc[u] /\ req'[u] = req[u]
        BY <1>2 DEF Arrive, IInv
    <2>2. Verifying(a)' \subseteq Verifying(a)
        BY <2>1 DEF Verifying
    <2> QED BY <2>1, <2>2, QuietGuesses
<1>3. ASSUME NEW t \in Thread, Fail(t)
      PROVE  GuessInv(a)'
    <2>1. UNCHANGED <<windows, guesses>> /\ Goto(t, "idle")
        BY <1>3 DEF Fail
    <2>2. Verifying(a)' \subseteq Verifying(a)
        BY <2>1, GotoVerifies
    <2> QED BY <2>1, <2>2, QuietGuesses
<1> QED
    BY <1>1, <1>2, <1>3, EnforceKeepsGuesses, GuardKeepsGuesses, FailureKeepsGuesses,
       LoginKeepsGuesses DEF Next

\* "Within one window" an account sees its budget of failed logins, and one more for every
\* other thread that had passed the guard (auth.py:76-85): for any budget, any number of
\* threads and callers, and however windows are swept, evicted or read too late.
THEOREM GuessesAreBounded == Spec => []GuessesBounded
<1> DEFINE Inv == IInv /\ \A a \in Account : GuessInv(a)
<1>1. Init => Inv
    <2> SUFFICES ASSUME Init, NEW a \in Account PROVE GuessInv(a)
        BY InitIInv
    <2>1. guesses[a] = 0 /\ FailureKey(a) \notin DOMAIN windows
        BY DEF Init
    <2> QED BY <2>1, FiniteThreads DEF GuessInv
<1>2. Inv /\ [Next]_vars => Inv'
    <2> SUFFICES ASSUME Inv, [Next]_vars PROVE Inv'
        OBVIOUS
    <2>1. IInv'
        BY NextKeeps DEF vars, IInv, TableInv, RequestInv
    <2>2. \A a \in Account : GuessInv(a)'
        BY NextKeepsGuesses
    <2> QED BY <2>1, <2>2
<1>3. Inv => GuessesBounded
    BY DEF GuessInv, MostGuesses, Budget, GuessesBounded
<1> QED BY <1>1, <1>2, <1>3, PTL DEF Spec

-----------------------------------------------------------------------------
(* Budgets across the boundary of two windows.                             *)

\* The last events of k are those of its window, and old ones that a thread
\* which had read the clock early may still have admitted before it began.
Split(k, old) ==
    /\ old \subseteq recent[k] /\ Cardinality(old) <= Limit[RuleOf(k)]
    /\ k \in DOMAIN windows =>
          /\ \A e \in old : e.at <= windows[k].started + MaxDelay
          /\ Cardinality(recent[k] \ old) <= windows[k].count
          /\ windows[k].count <= Limit[RuleOf(k)]
    /\ k \notin DOMAIN windows => old = {}
    /\ Cardinality(recent[k] \ old) <= Limit[RuleOf(k)]

\* They are remembered for a span.
Remembered(k) ==
    /\ IsFiniteSet(recent[k])
    /\ \A e \in recent[k] : e.at \in Nat /\ e.at <= clock /\ clock - e.at < Span(k)

BudgetInv(k) == Remembered(k) /\ \E old : Split(k, old)

LEMMA BudgetsOfKeys ==
    ASSUME NEW k \in Key
    PROVE  /\ Limit[RuleOf(k)] \in Nat \ {0} /\ WindowSeconds[RuleOf(k)] \in Nat
           /\ MaxDelay \in Nat /\ MaxDelay < WindowSeconds[RuleOf(k)]
           /\ Span(k) = WindowSeconds[RuleOf(k)] - MaxDelay
<1>1. RuleOf(k) \in Rule
    BY DEF Key, RuleOf, Rule
<1> QED BY <1>1, RulesAssumption, BoundsAssumption DEF Span

\* When a window has lasted, no event is left of the one before it.
LEMMA OldAreForgotten ==
    ASSUME IInv, NEW k \in Key, Remembered(k), NEW old, Split(k, old), k \in DOMAIN windows,
           clock - windows[k].started >= WindowSeconds[RuleOf(k)]
    PROVE  old = {}
<1>1. windows[k].started \in Nat /\ clock \in Nat
    BY DEF IInv, TableInv
<1> SUFFICES ASSUME NEW e \in old PROVE FALSE
    OBVIOUS
<1>2. /\ e.at \in Nat /\ clock - e.at < Span(k)
      /\ e.at <= windows[k].started + MaxDelay
    BY DEF Split, Remembered
<1> QED BY <1>1, <1>2, BudgetsOfKeys

\* Nothing is admitted: the window stays, or is dropped when it has lasted.
LEMMA QuietBudget ==
    ASSUME IInv, NEW k \in Key, BudgetInv(k), clock' = clock, recent'[k] = recent[k],
           k \in DOMAIN windows' => k \in DOMAIN windows /\ windows'[k] = windows[k],
           k \in DOMAIN windows \ DOMAIN windows' =>
               clock - windows[k].started >= WindowSeconds[RuleOf(k)]
    PROVE  BudgetInv(k)'
<1>1. PICK old : Split(k, old)
    BY DEF BudgetInv
<1>2. Remembered(k) /\ Remembered(k)'
    BY DEF BudgetInv, Remembered, Span
<1>3. k \notin DOMAIN windows' => old = {}
    BY <1>1, <1>2, OldAreForgotten DEF Split
<1>4. Split(k, old)'
    BY <1>1, <1>3 DEF Split
<1> QED BY <1>2, <1>4 DEF BudgetInv

\* All events are forgiven.
LEMMA ForgivenBudget ==
    ASSUME NEW k \in Key, recent'[k] = {}, k \notin DOMAIN windows'
    PROVE  BudgetInv(k)'
<1>1. Remembered(k)'
    BY FS_EmptySet DEF Remembered
<1>2. Cardinality({}) = 0 /\ {} \ {} = {} /\ 0 <= Limit[RuleOf(k)]
    BY FS_EmptySet, BudgetsOfKeys
<1>3. Split(k, {})'
    BY <1>2 DEF Split
<1> QED BY <1>1, <1>3 DEF BudgetInv

\* The event that is admitted now is remembered.
LEMMA AdmittedIsRemembered ==
    ASSUME IInv, NEW k \in Key, Remembered(k), clock' = clock,
           recent'[k] = recent[k] \cup {Admitted(k)}
    PROVE  Remembered(k)'
<1>1. Admitted(k).at = clock /\ clock \in Nat
    BY DEF Admitted, IInv
<1>2. IsFiniteSet(recent'[k])
    BY FS_AddElement DEF Remembered
<1>3. clock - clock < Span(k)
    BY <1>1, BudgetsOfKeys
<1> QED BY <1>1, <1>2, <1>3 DEF Remembered, Span

\* One more of the window.
LEMMA CountedBudget ==
    ASSUME IInv, NEW k \in Key, BudgetInv(k), clock' = clock,
           recent'[k] = recent[k] \cup {Admitted(k)},
           k \in DOMAIN windows, k \in DOMAIN windows',
           windows[k].count < Limit[RuleOf(k)],
           windows'[k].count = windows[k].count + 1,
           windows'[k].started = windows[k].started
    PROVE  BudgetInv(k)'
<1>1. PICK old : Split(k, old)
    BY DEF BudgetInv
<1>2. Remembered(k) /\ Remembered(k)'
    BY AdmittedIsRemembered DEF BudgetInv
<1> DEFINE rest == recent[k] \ old
           more == recent'[k] \ old
<1>3. /\ IsFiniteSet(rest) /\ Cardinality(rest) \in Nat
      /\ Cardinality(rest \cup {Admitted(k)}) \in Nat
      /\ IsFiniteSet(rest \cup {Admitted(k)})
      /\ Cardinality(rest \cup {Admitted(k)}) <= Cardinality(rest) + 1
    <2>1. rest \in SUBSET recent[k]
        OBVIOUS
    <2>2. IsFiniteSet(rest) /\ Cardinality(rest) \in Nat
        BY <1>2, <2>1, FS_Subset, FS_CardinalityType DEF Remembered
    <2> HIDE DEF rest
    <2>3. /\ IsFiniteSet(rest \cup {Admitted(k)})
          /\ Cardinality(rest \cup {Admitted(k)}) =
                IF Admitted(k) \in rest THEN Cardinality(rest) ELSE Cardinality(rest) + 1
        BY <2>2, FS_AddElement
    <2> QED BY <2>2, <2>3
<1>4. Cardinality(more) \in Nat /\ Cardinality(more) <= Cardinality(rest) + 1
    <2>1. more \in SUBSET (rest \cup {Admitted(k)})
        OBVIOUS
    <2> HIDE DEF rest, more
    <2> QED BY <1>3, <2>1, FS_Subset, FS_CardinalityType
<1>5. Cardinality(rest) <= windows[k].count /\ windows[k].count \in Nat
      /\ Limit[RuleOf(k)] \in Nat
    BY <1>1, BudgetsOfKeys DEF Split, IInv, TableInv
<1>6. /\ Cardinality(more) <= windows'[k].count
      /\ windows'[k].count <= Limit[RuleOf(k)] /\ Cardinality(more) <= Limit[RuleOf(k)]
    <2> HIDE DEF rest, more
    <2> QED BY <1>3, <1>4, <1>5
<1>7. Split(k, old)'
    BY <1>1, <1>6 DEF Split
<1> QED BY <1>2, <1>7 DEF BudgetInv

\* The first of a window: all others become old.
LEMMA FirstBudget ==
    ASSUME IInv, NEW k \in Key, BudgetInv(k), clock' = clock, NEW now \in Nat,
           clock <= now + MaxDelay,
           k \in DOMAIN windows => clock - windows[k].started >= WindowSeconds[RuleOf(k)],
           recent'[k] = recent[k] \cup {Admitted(k)},
           k \in DOMAIN windows', windows'[k] = [started |-> now, count |-> 1]
    PROVE  BudgetInv(k)'
<1>1. PICK old : Split(k, old)
    BY DEF BudgetInv
<1>2. Remembered(k) /\ Remembered(k)'
    BY AdmittedIsRemembered DEF BudgetInv
<1>3. old = {} /\ recent[k] \ old = recent[k]
    BY <1>1, <1>2, OldAreForgotten DEF Split
<1>4. Cardinality(recent[k]) <= Limit[RuleOf(k)]
    BY <1>1, <1>3 DEF Split
<1>5. \A e \in recent[k] : e.at <= now + MaxDelay
    BY <1>2, BoundsAssumption DEF Remembered, IInv
<1>6. Cardinality(recent'[k] \ recent[k]) <= 1
    <2>1. recent'[k] \ recent[k] \in SUBSET {Admitted(k)}
        OBVIOUS
    <2>2. Cardinality(recent'[k] \ recent[k]) <= Cardinality({Admitted(k)})
          /\ Cardinality({Admitted(k)}) = 1
        BY <2>1, FS_Subset, FS_Singleton
    <2> QED BY <2>2
<1>7. 1 <= Limit[RuleOf(k)] /\ Cardinality(recent'[k] \ recent[k]) <= Limit[RuleOf(k)]
    <2>1. Cardinality(recent'[k] \ recent[k]) \in Nat
        <3>1. recent'[k] \ recent[k] \in SUBSET recent'[k]
            OBVIOUS
        <3> QED BY <1>2, <3>1, FS_Subset, FS_CardinalityType DEF Remembered
    <2> QED BY <1>6, <2>1, BudgetsOfKeys
<1>8. windows'[k].started = now /\ windows'[k].count = 1
    OBVIOUS
<1>9. PICK all : all = recent[k]
    OBVIOUS
<1>10. all \subseteq recent'[k]
    BY <1>9
<1>11. Split(k, all)'
    BY <1>4, <1>5, <1>6, <1>7, <1>8, <1>9, <1>10 DEF Split
<1> QED BY <1>2, <1>11 DEF BudgetInv

-----------------------------------------------------------------------------
(* The methods of the limiter, for the events of any key.                  *)

LEMMA DropBudget ==
    ASSUME IInv, NEW k \in Key, BudgetInv(k), clock' = clock, recent'[k] = recent[k],
           NEW gone, windows' = Without(windows, gone),
           k \in gone \cap DOMAIN windows =>
               clock - windows[k].started >= WindowSeconds[RuleOf(k)]
    PROVE  BudgetInv(k)'
<1>1. /\ DOMAIN windows' = DOMAIN windows \ gone
      /\ \A j \in DOMAIN windows \ gone : windows'[j] = windows[j]
    BY DEF Without, Restrict
<1> QED BY <1>1, QuietBudget

\* What a call of consume for j does to the events of k.
LEMMA ConsumeBudget ==
    ASSUME IInv, NEW j \in Key, NEW now \in Nat, now <= clock, clock <= now + MaxDelay,
           clock' = clock,
           ConsumeRefused(j, now) \/ ConsumeCounted(j, now) \/ ConsumeNewWindow(j, now),
           NEW k \in Key, BudgetInv(k)
    PROVE  BudgetInv(k)'
<1>1. k \in Swept(now) \cap DOMAIN windows =>
          clock - windows[k].started >= WindowSeconds[RuleOf(k)]
    BY SweptHaveLasted
<1>2. CASE ConsumeRefused(j, now)
    <2>1. windows' = Without(windows, Swept(now)) /\ recent'[k] = recent[k]
        BY <1>2 DEF ConsumeRefused
    <2> QED BY <1>1, <2>1, DropBudget
<1>3. CASE ConsumeCounted(j, now)
    <2> DEFINE w == [windows EXCEPT ![j].count = @ + 1]
    <2>1. /\ j \in DOMAIN windows /\ j \notin Swept(now)
          /\ windows[j].count < Limit[RuleOf(j)]
          /\ windows' = Without(w, Swept(now))
          /\ recent'[k] = recent[k] \cup (IF k = j THEN {Admitted(j)} ELSE {})
        BY <1>3 DEF ConsumeCounted, Live, Count
    <2>2. /\ DOMAIN w = DOMAIN windows
          /\ w[j].count = windows[j].count + 1 /\ w[j].started = windows[j].started
          /\ \A i \in DOMAIN windows : i # j => w[i] = windows[i]
        <3>1. windows[j] \in [started : Nat, count : Nat]
            BY <2>1 DEF IInv, TableInv
        <3> QED BY <2>1, <3>1
    <2>3. /\ DOMAIN windows' = DOMAIN windows \ Swept(now)
          /\ \A i \in DOMAIN windows \ Swept(now) : windows'[i] = w[i]
        <3> HIDE DEF w
        <3> QED BY <2>1, <2>2 DEF Without, Restrict
    <2> HIDE DEF w
    <2>4. CASE k = j
        BY <2>1, <2>2, <2>3, <2>4, CountedBudget
    <2>5. CASE k # j
        BY <1>1, <2>1, <2>2, <2>3, <2>5, QuietBudget
    <2> QED BY <2>4, <2>5
<1>4. CASE ConsumeNewWindow(j, now)
    <2> DEFINE w == [i \in (DOMAIN windows \ Swept(now)) \cup {j} |->
                        IF i = j THEN [started |-> now, count |-> 1] ELSE windows[i]]
    <2>1. PICK gone : windows' = Without(w, gone) /\ Count(j, gone)
        BY <1>4 DEF ConsumeNewWindow
    <2>2. /\ DOMAIN w = (DOMAIN windows \ Swept(now)) \cup {j}
          /\ w[j] = [started |-> now, count |-> 1]
          /\ \A i \in DOMAIN w : i # j => w[i] = windows[i]
        OBVIOUS
    <2>3. /\ DOMAIN windows' = ((DOMAIN windows \ Swept(now)) \cup {j}) \ gone
          /\ \A i \in DOMAIN windows' : windows'[i] = w[i]
        <3> HIDE DEF w
        <3> QED BY <2>1, <2>2 DEF Without, Restrict
    <2>4. recent'[k] = IF k \in gone THEN {}
                       ELSE recent[k] \cup (IF k = j THEN {Admitted(j)} ELSE {})
        BY <2>1 DEF Count
    <2>5. j \in DOMAIN windows => clock - windows[j].started >= WindowSeconds[RuleOf(j)]
        BY <1>4, SweptHaveLasted, ExpiredHaveLasted DEF ConsumeNewWindow
    <2> HIDE DEF w
    <2>6. CASE k \in gone
        BY <2>3, <2>4, <2>6, ForgivenBudget
    <2>7. CASE k \notin gone /\ k = j
        BY <2>2, <2>3, <2>4, <2>5, <2>7, FirstBudget
    <2>8. CASE k \notin gone /\ k # j
        BY <1>1, <2>2, <2>3, <2>4, <2>8, QuietBudget
    <2> QED BY <2>6, <2>7, <2>8
<1> QED BY <1>2, <1>3, <1>4

LEMMA TickBudget ==
    ASSUME IInv, Tick, NEW k \in Key, BudgetInv(k)
    PROVE  BudgetInv(k)'
<1>1. PICK old : Split(k, old)
    BY DEF BudgetInv
<1>2. /\ clock' = clock + 1 /\ windows' = windows /\ clock \in Nat
      /\ recent'[k] = {e \in recent[k] : clock' - e.at < Span(k)}
    BY DEF Tick, IInv
<1>3. IsFiniteSet(recent[k]) /\ recent'[k] \in SUBSET recent[k]
    BY <1>2 DEF BudgetInv, Remembered
<1>4. Remembered(k)'
    <2>1. IsFiniteSet(recent'[k])
        BY <1>3, FS_Subset
    <2>2. \A e \in recent'[k] : e.at \in Nat /\ e.at <= clock
        BY <1>2 DEF BudgetInv, Remembered
    <2> QED BY <1>2, <2>1, <2>2 DEF Remembered, Span
<1> DEFINE still == old \cap recent'[k]
<1>5. /\ Cardinality(still) <= Cardinality(old)
      /\ Cardinality(still) \in Nat /\ Cardinality(old) \in Nat
    <2>1. IsFiniteSet(old) /\ still \in SUBSET old
        BY <1>1, <1>3, FS_Subset DEF Split
    <2> QED BY <2>1, FS_Subset, FS_CardinalityType
<1>6. /\ Cardinality(recent'[k] \ still) <= Cardinality(recent[k] \ old)
      /\ Cardinality(recent'[k] \ still) \in Nat /\ Cardinality(recent[k] \ old) \in Nat
    <2>1. recent[k] \ old \in SUBSET recent[k] /\ recent'[k] \ still \in SUBSET (recent[k] \ old)
        BY <1>3
    <2> QED BY <1>3, <2>1, FS_Subset, FS_CardinalityType
<1>7. Limit[RuleOf(k)] \in Nat /\ (k \in DOMAIN windows => windows[k].count \in Nat)
    BY BudgetsOfKeys DEF IInv, TableInv
<1>8. /\ still \subseteq recent'[k] /\ still \subseteq old
      /\ Cardinality(still) <= Limit[RuleOf(k)]
      /\ Cardinality(recent'[k] \ still) <= Limit[RuleOf(k)]
      /\ k \in DOMAIN windows => Cardinality(recent'[k] \ still) <= windows[k].count
    <2> HIDE DEF still
    <2>1. still \subseteq recent'[k] /\ still \subseteq old
        BY DEF still
    <2> QED BY <1>1, <1>5, <1>6, <1>7, <2>1 DEF Split
<1> HIDE DEF still
<1>9. PICK s :
         /\ s \subseteq recent'[k] /\ s \subseteq old /\ Cardinality(s) <= Limit[RuleOf(k)]
         /\ Cardinality(recent'[k] \ s) <= Limit[RuleOf(k)]
         /\ k \in DOMAIN windows => Cardinality(recent'[k] \ s) <= windows[k].count
    BY <1>8
<1>10. Split(k, s)'
    BY <1>1, <1>2, <1>9 DEF Split
<1> QED BY <1>4, <1>10 DEF BudgetInv

LEMMA ReadingsAreRecent ==
    ASSUME IInv, NEW t \in Thread, NEW now \in Readings(t)
    PROVE  now \in Nat /\ now <= clock /\ clock <= now + MaxDelay
BY BoundsAssumption DEF IInv, Readings

LEMMA NextKeepsBudgets ==
    ASSUME IInv, DOMAIN recent = Key, \A k \in Key : BudgetInv(k), [Next]_vars
    PROVE  DOMAIN recent' = Key /\ \A k \in Key : BudgetInv(k)'
<1>1. CASE UNCHANGED vars
    BY <1>1, QuietBudget DEF vars
<1>2. CASE Tick
    BY <1>2, TickBudget DEF Tick
<1>3. ASSUME NEW t \in Thread,
             (\E r \in Request : Arrive(t, r)) \/ Fail(t)
      PROVE  UNCHANGED <<clock, windows, recent>>
    BY <1>3 DEF Arrive, Fail
<1>4. ASSUME NEW t \in Thread, Enforce(t)
      PROVE  DOMAIN recent' = Key /\ \A k \in Key : BudgetInv(k)'
    <2> DEFINE j == <<req[t].rule, req[t].client>>
    <2>1. req[t] \in Request /\ clock' = clock
        BY <1>4 DEF Enforce, IInv, RequestInv
    <2>2. j \in Key
        BY <2>1, RulesAssumption, RulesOfKeys DEF Request
    <2>3. PICK now \in Readings(t) :
             ConsumeRefused(j, now) \/ ConsumeCounted(j, now) \/ ConsumeNewWindow(j, now)
        BY <1>4 DEF Enforce
    <2>4. now \in Nat /\ now <= clock /\ clock <= now + MaxDelay
        BY ReadingsAreRecent
    <2>5. DOMAIN recent' = Key
        BY <2>3 DEF ConsumeRefused, ConsumeCounted, ConsumeNewWindow, Count
    <2> HIDE DEF j
    <2> QED BY <2>1, <2>2, <2>3, <2>4, <2>5, ConsumeBudget
<1>5. ASSUME NEW t \in Thread, Guard(t)
      PROVE  DOMAIN recent' = Key /\ \A k \in Key : BudgetInv(k)'
    <2> DEFINE j == FailureKey(req[t].account)
    <2>1. clock' = clock /\ recent' = recent
        BY <1>5 DEF Guard
    <2>2. PICK now \in Readings(t) : Peek(j, now)
        BY <1>5 DEF Guard
    <2>3. now \in Nat /\ now <= clock
        BY ReadingsArePast
    <2> HIDE DEF j
    <2>4. CASE j \in DOMAIN windows /\ ~Live(j, now)
        <3>1. windows' = Without(windows, {j})
            BY <2>2, <2>4 DEF Peek
        <3>2. clock - windows[j].started >= WindowSeconds[RuleOf(j)]
            BY <2>3, <2>4, ExpiredHaveLasted
        <3> QED BY <2>1, <3>1, <3>2, DropBudget
    <2>5. CASE ~(j \in DOMAIN windows /\ ~Live(j, now))
        BY <2>1, <2>2, <2>5, QuietBudget DEF Peek
    <2> QED BY <2>4, <2>5
<1>6. ASSUME NEW t \in Thread, RecordFailure(t)
      PROVE  DOMAIN recent' = Key /\ \A k \in Key : BudgetInv(k)'
    <2> DEFINE j == FailureKey(req[t].account)
    <2>1. req[t].account \in Account /\ clock' = clock
        BY <1>6 DEF RecordFailure, IInv, RequestInv
    <2>2. j \in Key
        BY <2>1, RulesOfKeys
    <2>3. PICK now \in Readings(t) :
             ConsumeRefused(j, now) \/ ConsumeCounted(j, now) \/ ConsumeNewWindow(j, now)
        BY <1>6 DEF RecordFailure
    <2>4. now \in Nat /\ now <= clock /\ clock <= now + MaxDelay
        BY ReadingsAreRecent
    <2>5. DOMAIN recent' = Key
        BY <2>3 DEF ConsumeRefused, ConsumeCounted, ConsumeNewWindow, Count
    <2> HIDE DEF j
    <2> QED BY <2>1, <2>2, <2>3, <2>4, <2>5, ConsumeBudget
<1>7. ASSUME NEW t \in Thread, ClearFailures(t)
      PROVE  DOMAIN recent' = Key /\ \A k \in Key : BudgetInv(k)'
    <2> DEFINE j == FailureKey(req[t].account)
    <2>1. /\ clock' = clock /\ windows' = Without(windows, {j})
          /\ recent' = [recent EXCEPT ![j] = {}]
        BY <1>7 DEF ClearFailures
    <2> HIDE DEF j
    <2>2. DOMAIN windows' = DOMAIN windows \ {j}
        BY <2>1 DEF Without, Restrict
    <2>3. ASSUME NEW k \in Key PROVE BudgetInv(k)'
        <3>1. CASE k = j
            BY <2>1, <2>2, <3>1, ForgivenBudget
        <3>2. CASE k # j
            BY <2>1, <3>2, DropBudget
        <3> QED BY <3>1, <3>2
    <2> QED BY <2>1, <2>3
<1> QED
    BY <1>1, <1>2, <1>3, <1>4, <1>5, <1>6, <1>7, QuietBudget DEF Next

\* "A fixed window admits up to 2 * limit requests across a window boundary" (rate_limit.py:35)
\* and never more: in any span as long as a window, less what a thread waits between its
\* reading of the clock and the lock, whatever sweeps, peeks, evictions and other keys do.
THEOREM NeverThreeBudgets == Spec => []AtMostTwiceTheLimit
<1> DEFINE Inv == IInv /\ DOMAIN recent = Key /\ \A k \in Key : BudgetInv(k)
<1>1. Init => Inv
    <2> SUFFICES ASSUME Init, NEW k \in Key PROVE BudgetInv(k)
        BY InitIInv DEF Init
    <2>1. recent[k] = {} /\ k \notin DOMAIN windows
        BY DEF Init
    <2>2. Cardinality({}) = 0 /\ {} \ {} = {} /\ 0 <= Limit[RuleOf(k)] /\ IsFiniteSet({})
        BY FS_EmptySet, BudgetsOfKeys
    <2>3. Split(k, {}) /\ Remembered(k)
        BY <2>1, <2>2 DEF Split, Remembered
    <2> QED BY <2>3 DEF BudgetInv
<1>2. Inv /\ [Next]_vars => Inv'
    <2> SUFFICES ASSUME Inv, [Next]_vars PROVE Inv'
        OBVIOUS
    <2>1. IInv'
        BY NextKeeps DEF vars, IInv, TableInv, RequestInv
    <2> QED BY <2>1, NextKeepsBudgets
<1>3. Inv => AtMostTwiceTheLimit
    <2> SUFFICES ASSUME Inv, NEW k \in Key
                 PROVE  Cardinality(recent[k]) <= 2 * Limit[RuleOf(k)]
        BY DEF AtMostTwiceTheLimit
    <2>1. PICK old : Split(k, old)
        BY DEF BudgetInv
    <2> DEFINE rest == recent[k] \ old
    <2>2. IsFiniteSet(recent[k]) /\ old \in SUBSET recent[k] /\ rest \in SUBSET recent[k]
        BY <2>1 DEF BudgetInv, Remembered, Split
    <2>3. IsFiniteSet(old) /\ IsFiniteSet(rest) /\ recent[k] = old \cup rest
          /\ old \cap rest = {}
        BY <2>2, FS_Subset
    <2>4. /\ Cardinality(old) \in Nat /\ Cardinality(rest) \in Nat
          /\ Cardinality(old \cup rest) = Cardinality(old) + Cardinality(rest)
        <3> HIDE DEF rest
        <3>1. Cardinality(old \cup rest)
                  = Cardinality(old) + Cardinality(rest) - Cardinality(old \cap rest)
            BY <2>3, FS_Union
        <3>2. Cardinality(old \cap rest) = 0
            BY <2>3, FS_EmptySet
        <3>3. Cardinality(old) \in Nat /\ Cardinality(rest) \in Nat
            BY <2>3, FS_CardinalityType
        <3> QED BY <3>1, <3>2, <3>3
    <2>5. Cardinality(old) <= Limit[RuleOf(k)] /\ Cardinality(rest) <= Limit[RuleOf(k)]
        BY <2>1 DEF Split
    <2> HIDE DEF rest
    <2> QED BY <2>3, <2>4, <2>5, BudgetsOfKeys
<1> QED BY <1>1, <1>2, <1>3, PTL DEF Spec
=============================================================================
