------------------------ MODULE AttendanceReadsProofs ------------------------
(***************************************************************************)
(* Proofs about AttendanceReads for every set of users and readers, every  *)
(* calendar, page size and default range: what the algorithms compute, by  *)
(* induction over the histories, and what the requests show, by invariants *)
(* of the requests.                                                        *)
(***************************************************************************)
EXTENDS AttendanceReads, SequenceTheorems, FiniteSetTheorems, WellFoundedInduction, TLAPS

-----------------------------------------------------------------------------
(* Induction, about sets of numbers and of sequences.                      *)

\* A set of numbers has a least element: of the sets 0..m with m in it one
\* includes no other.
LEMMA LeastOfNaturals ==
    ASSUME NEW S \in SUBSET Nat, S # {}
    PROVE  \E m \in S : \A n \in S : m <= n
<1> DEFINE Upto == {0 .. m : m \in S}
<1>1. \A m \in S : IsFiniteSet(0 .. m) /\ 0 .. m \in SUBSET Nat
    BY FS_Interval
<1>2. Upto \subseteq FiniteSubsetsOf(Nat) /\ Upto # {}
    BY <1>1 DEF FiniteSubsetsOf
<1>3. \E X \in Upto : \A Y \in Upto : <<Y, X>> \notin StrictSubsetOrdering(Nat)
    BY <1>2, FS_StrictSubsetOrderingWellFounded, WFMin
<1>4. PICK m \in S : \A n \in S : <<0 .. n, 0 .. m>> \notin StrictSubsetOrdering(Nat)
    BY <1>3
<1>5. ASSUME NEW n \in S, n < m PROVE FALSE
    <2>1. 0 .. n \subseteq 0 .. m /\ 0 .. n # 0 .. m /\ 0 .. m \subseteq Nat
        <3>1. m \in 0 .. m /\ m \notin 0 .. n
            BY <1>5
        <3> QED BY <1>5, <3>1
    <2> QED BY <1>4, <2>1 DEF StrictSubsetOrdering
<1> QED BY <1>5

\* A set that holds 0, and with each number the next, holds all of them, up to n.
LEMMA UpTo ==
    ASSUME NEW n \in Nat, NEW S, 0 \in S, \A i \in 0..(n - 1) : i \in S => i + 1 \in S
    PROVE  \A i \in 0..n : i \in S
<1> DEFINE Missing == {i \in 0..n : i \notin S}
<1> SUFFICES ASSUME Missing # {} PROVE FALSE
    OBVIOUS
<1>1. PICK m \in Missing : \A i \in Missing : m <= i
    <2>1. Missing \in SUBSET Nat
        OBVIOUS
    <2> HIDE DEF Missing
    <2> QED BY <2>1, LeastOfNaturals
<1>2. m # 0 /\ m - 1 \in 0..(n - 1)
    OBVIOUS
<1>3. m - 1 \in S
    BY <1>1, <1>2
<1> QED BY <1>2, <1>3

\* A set that holds the empty history, and with each history every longer one, holds
\* them all.
LEMMA EveryHistory ==
    ASSUME NEW P, <<>> \in P,
           \A es \in Seq(Event), e \in Event : es \in P => Append(es, e) \in P
    PROVE  \A es \in Seq(Event) : es \in P
<1> SUFFICES ASSUME NEW es \in Seq(Event) PROVE es \in P
    OBVIOUS
<1> DEFINE Prefix(i) == SubSeq(es, 1, i)
           S == {i \in 0..Len(es) : Prefix(i) \in P}
<1>1. Len(es) \in Nat /\ Prefix(Len(es)) = es
    BY LenProperties, SubSeqFull
<1>2. Prefix(0) = <<>>
    BY SubSeqEmpty
<1>3. ASSUME NEW i \in 0..(Len(es) - 1), Prefix(i) \in P PROVE Prefix(i + 1) \in P
    <2>1. i + 1 \in 1..Len(es) /\ i + 1 - 1 = i /\ i \in Int /\ 1 \in 1..Len(es)
        BY <1>1
    <2>2. SubSeq(es, 1, i + 1) = SubSeq(es, 1, i) \o <<es[i + 1]>>
        BY <2>1, SubSeqRecursiveSecond
    <2>3. \A j \in 1..i : es[j] \in Event
        BY <1>1, ElementOfSeq
    <2>4. SubSeq(es, 1, i) \in Seq(Event) /\ es[i + 1] \in Event
        BY <2>1, <2>3, SubSeqProperties, ElementOfSeq
    <2>5. Prefix(i + 1) = Append(Prefix(i), es[i + 1])
        BY <2>2, <2>4, AppendIsConcat
    <2> QED BY <1>3, <2>4, <2>5
<1> HIDE DEF Prefix
<1>4. 0 \in S /\ \A i \in 0..(Len(es) - 1) : i \in S => i + 1 \in S
    BY <1>1, <1>2, <1>3
<1>5. \A i \in 0..Len(es) : i \in S
    <2> HIDE DEF S
    <2> QED BY <1>1, <1>4, UpTo
<1> QED BY <1>1, <1>5

-----------------------------------------------------------------------------
(* Folds.  FoldLeft takes the elements of a sequence away from the end, by *)
(* the sets of their indices; the first three lemmas say of any step from  *)
(* value to value, given as a function, what each fold below needs.        *)

LEMMA MaxOfPart ==
    ASSUME NEW n \in Nat, NEW s \in SUBSET (1..n), s # {}
    PROVE  Max(s) \in s /\ \A i \in s : i <= Max(s)
<1>1. \E m \in s : \A i \in s : m >= i
    <2> DEFINE Down == {n - i : i \in s}
    <2>1. Down \in SUBSET Nat /\ Down # {}
        <3>1. \A i \in s : i \in 1..n /\ n - i \in Nat
            OBVIOUS
        <3> QED BY <3>1
    <2>2. PICK d \in Down : \A i \in Down : d <= i
        <3> HIDE DEF Down
        <3> QED BY <2>1, LeastOfNaturals
    <2>3. PICK m \in s : d = n - m
        OBVIOUS
    <2>4. ASSUME NEW i \in s PROVE m >= i
        <3>1. n - i \in Down /\ i \in 1..n /\ m \in 1..n
            OBVIOUS
        <3>2. n - m <= n - i
            <4> HIDE DEF Down
            <4> QED BY <2>2, <2>3, <3>1
        <3> QED BY <3>1, <3>2
    <2> QED BY <2>4
<1> QED BY <1>1 DEF Max

LEMMA MaxOfAll ==
    ASSUME NEW i \in Nat \ {0}
    PROVE  Max(1..i) = i /\ (1..i) \ {i} = 1..(i - 1)
<1>1. Max(1..i) \in 1..i /\ \A j \in 1..i : j <= Max(1..i)
    <2>1. 1..i \in SUBSET (1..i) /\ 1..i # {}
        OBVIOUS
    <2> QED BY <2>1, MaxOfPart
<1>2. i \in 1..i
    OBVIOUS
<1> QED BY <1>1, <1>2

\* step[i][v] is a value again.
StaysIn(V, step, n) == \A i \in 1..n : \A v \in V : step[i][v] \in V

\* f is a function that the steps define by recursion.
DefinedBy(f, base, V, step, n) ==
    /\ f \in [SUBSET (1..n) -> V]
    /\ \A s \in SUBSET (1..n) :
          f[s] = IF s = {} THEN base ELSE step[Max(s)][f[s \ {Max(s)}]]

\* There is a function that a fold defines by recursion.
LEMMA FoldExists ==
    ASSUME NEW n \in Nat, NEW V, NEW base \in V,
           NEW step, StaysIn(V, step, n)
    PROVE  \E f : DefinedBy(f, base, V, step, n)
<1> DEFINE IsFold(h, k) ==
               \A s \in SUBSET (1..k) :
                   h[s] = IF s = {} THEN base ELSE step[Max(s)][h[s \ {Max(s)}]]
           Exists(k) == \E h \in [SUBSET (1..k) -> V] : IsFold(h, k)
           S == {k \in 0..n : Exists(k)}
<1>1. Exists(0)
    <2> DEFINE h == [s \in SUBSET (1..0) |-> base]
    <2>1. \A s \in SUBSET (1..0) : s = {}
        OBVIOUS
    <2>2. h \in [SUBSET (1..0) -> V] /\ IsFold(h, 0)
        BY <2>1
    <2> QED BY <2>2
<1>2. ASSUME NEW k \in 0..(n - 1), NEW g \in [SUBSET (1..k) -> V], IsFold(g, k)
      PROVE  Exists(k + 1)
    <2> DEFINE h == [s \in SUBSET (1..(k + 1)) |->
                        IF k + 1 \in s THEN step[k + 1][g[s \ {k + 1}]] ELSE g[s]]
    <2>1. ASSUME NEW s \in SUBSET (1..(k + 1)), k + 1 \in s
          PROVE  /\ Max(s) = k + 1 /\ s \ {k + 1} \in SUBSET (1..k)
                 /\ k + 1 \notin s \ {k + 1} /\ s \ {k + 1} \in SUBSET (1..(k + 1))
        <3>1. k + 1 \in Nat /\ s # {}
            BY <2>1
        <3>2. Max(s) \in s /\ \A i \in s : i <= Max(s)
            BY <3>1, MaxOfPart
        <3>3. Max(s) = k + 1
            <4>1. Max(s) \in 1..(k + 1) /\ k + 1 <= Max(s)
                BY <2>1, <3>2
            <4> QED BY <4>1
        <3>4. \A i \in s \ {k + 1} : i \in 1..k
            BY <2>1
        <3> QED BY <3>3, <3>4
    <2>2. ASSUME NEW s \in SUBSET (1..(k + 1)), k + 1 \notin s
          PROVE  /\ s \in SUBSET (1..k) /\ s \ {Max(s)} \in SUBSET (1..k)
                 /\ k + 1 \notin s \ {Max(s)} /\ s \ {Max(s)} \in SUBSET (1..(k + 1))
        <3>1. \A i \in s : i \in 1..k
            BY <2>2
        <3> QED BY <2>2, <3>1
    <2>3. k + 1 \in 1..n
        OBVIOUS
    <2>4. \A s \in SUBSET (1..(k + 1)) : h[s] \in V
        BY <2>1, <2>2, <2>3 DEF StaysIn
    <2>5. h \in [SUBSET (1..(k + 1)) -> V]
        BY <2>4
    <2>6. ASSUME NEW s \in SUBSET (1..(k + 1))
          PROVE  h[s] = IF s = {} THEN base ELSE step[Max(s)][h[s \ {Max(s)}]]
        <3>1. CASE k + 1 \in s
            BY <2>1, <3>1
        <3>2. CASE k + 1 \notin s
            <4>1. g[s] = IF s = {} THEN base ELSE step[Max(s)][g[s \ {Max(s)}]]
                BY <1>2, <2>2, <3>2
            <4>2. h[s] = g[s] /\ h[s \ {Max(s)}] = g[s \ {Max(s)}]
                BY <2>2, <3>2
            <4> QED BY <4>1, <4>2
        <3> QED BY <3>1, <3>2
    <2>7. IsFold(h, k + 1)
        BY <2>6
    <2> HIDE DEF IsFold, h
    <2> QED BY <2>5, <2>7
<1>3. 0 \in S /\ \A k \in 0..(n - 1) : k \in S => k + 1 \in S
    <2>1. ASSUME NEW k \in 0..(n - 1), Exists(k) PROVE Exists(k + 1)
        <3>1. PICK g \in [SUBSET (1..k) -> V] : IsFold(g, k)
            BY <2>1
        <3> HIDE DEF Exists, IsFold
        <3> QED BY <1>2, <3>1
    <2> HIDE DEF Exists
    <2> QED BY <1>1, <2>1
<1>4. Exists(n)
    <2>1. \A k \in 0..n : k \in S
        <3> HIDE DEF S
        <3> QED BY <1>3, UpTo
    <2> HIDE DEF Exists
    <2> QED BY <2>1
<1> QED BY <1>4 DEF DefinedBy

\* g folds the first n elements by the steps.
Folds(g, base, V, step, n) ==
    /\ g[{}] = base
    /\ \A s \in SUBSET (1..n) :
          s # {} /\ g[s \ {Max(s)}] \in V => g[s] = step[Max(s)][g[s \ {Max(s)}]]

\* A fold takes the steps one by one.
LEMMA FoldTrace ==
    ASSUME NEW n \in Nat, NEW V, NEW base \in V, NEW step, StaysIn(V, step, n),
           NEW g, Folds(g, base, V, step, n)
    PROVE  /\ g[{}] = base
           /\ \A i \in 0..n : g[1..i] \in V
           /\ \A i \in 1..n : g[1..i] = step[i][g[1..(i - 1)]]
<1> DEFINE S == {i \in 0..n : g[1..i] \in V}
<1>1. ASSUME NEW i \in 1..n, g[1..(i - 1)] \in V
      PROVE  g[1..i] \in V /\ g[1..i] = step[i][g[1..(i - 1)]]
    <2>1. i \in Nat \ {0} /\ 1..i \in SUBSET (1..n) /\ 1..i # {}
        OBVIOUS
    <2>2. Max(1..i) = i /\ (1..i) \ {i} = 1..(i - 1)
        BY <2>1, MaxOfAll
    <2>3. g[1..i] = step[i][g[1..(i - 1)]]
        BY <1>1, <2>1, <2>2 DEF Folds
    <2> QED BY <1>1, <2>3 DEF StaysIn
<1>2. 0 \in S
    <2>1. 1..0 = {}
        OBVIOUS
    <2> QED BY <2>1 DEF Folds
<1>3. \A i \in 0..(n - 1) : i \in S => i + 1 \in S
    <2>1. \A i \in 0..(n - 1) : i + 1 \in 1..n /\ i + 1 - 1 = i
        OBVIOUS
    <2> QED BY <1>1, <2>1
<1>4. \A i \in 0..n : i \in S
    <2> HIDE DEF S
    <2> QED BY <1>2, <1>3, UpTo
<1>5. \A i \in 1..n : i - 1 \in 0..n
    OBVIOUS
<1>6. g[{}] = base
    BY DEF Folds
<1> QED BY <1>1, <1>4, <1>5, <1>6

\* With one more element a fold takes one more step.
LEMMA FoldOneMore ==
    ASSUME NEW n \in Nat, NEW m \in Nat, m = n + 1, NEW V, NEW base \in V,
           NEW step, StaysIn(V, step, m), NEW g, NEW h,
           Folds(g, base, V, step, n), Folds(h, base, V, step, m)
    PROVE  g[1..n] \in V /\ h[1..m] = step[m][g[1..n]]
<1>1. h[{}] = base /\ \A i \in 1..m : h[1..i] = step[i][h[1..(i - 1)]]
    BY FoldTrace
<1>2. /\ g[{}] = base /\ \A i \in 0..n : g[1..i] \in V
      /\ \A i \in 1..n : g[1..i] = step[i][g[1..(i - 1)]]
    <2>1. StaysIn(V, step, n)
        BY DEF StaysIn
    <2> QED BY <2>1, FoldTrace
<1> DEFINE S == {i \in 0..n : h[1..i] = g[1..i]}
<1>3. 0 \in S
    <2>1. 1..0 = {}
        OBVIOUS
    <2> QED BY <1>1, <1>2, <2>1
<1>4. ASSUME NEW i \in 0..(n - 1), i \in S PROVE i + 1 \in S
    <2>1. i + 1 \in 0..n /\ i + 1 \in 1..n /\ i + 1 \in 1..m /\ i + 1 - 1 = i
        OBVIOUS
    <2> QED BY <1>1, <1>2, <1>4, <2>1
<1>5. \A i \in 0..n : i \in S
    <2> HIDE DEF S
    <2> QED BY <1>3, <1>4, UpTo
<1>6. n \in 0..n /\ m \in 1..m /\ m - 1 = n
    OBVIOUS
<1> QED BY <1>1, <1>2, <1>5, <1>6

-----------------------------------------------------------------------------
(* Select.                                                                 *)

\* A step of Select, as a function.
SelectStep(S, e) == [chosen \in Seq(Event) |-> IF e \in S THEN Append(chosen, e) ELSE chosen]

LEMMA SelectStepIs ==
    ASSUME NEW S, NEW e \in Event, NEW v \in Seq(Event)
    PROVE  /\ SelectStep(S, e)[v] = IF e \in S THEN Append(v, e) ELSE v
           /\ SelectStep(S, e)[v] \in Seq(Event)
<1>1. Append(v, e) \in Seq(Event)
    BY AppendProperties
<1> QED BY <1>1 DEF SelectStep

LEMMA SelectFolds ==
    ASSUME NEW es \in Seq(Event), NEW S,
           NEW step, \A i \in 1..Len(es) : step[i] = SelectStep(S, es[i])
    PROVE  /\ StaysIn(Seq(Event), step, Len(es))
           /\ \E g : /\ Folds(g, <<>>, Seq(Event), step, Len(es))
                     /\ Select(es, S) = g[1..Len(es)]
<1> DEFINE n == Len(es)
           V == Seq(Event)
           IsIt(h) ==
               h = [s \in SUBSET (DOMAIN es) |->
                       IF s = {} THEN <<>>
                       ELSE IF es[Max(s)] \in S
                            THEN Append(h[s \ {Max(s)}], es[Max(s)])
                            ELSE h[s \ {Max(s)}]]
           g == CHOOSE h : IsIt(h)
<1>1. n \in Nat /\ DOMAIN es = 1..n /\ \A i \in 1..n : es[i] \in Event
    BY LenProperties, ElementOfSeq
<1>2. \A i \in 1..n : \A v \in V :
          /\ step[i][v] = IF es[i] \in S THEN Append(v, es[i]) ELSE v
          /\ step[i][v] \in V
    BY <1>1, SelectStepIs
<1>3. <<>> \in V
    OBVIOUS
<1>4. Select(es, S) = g[1..n]
    BY <1>1, Zenon DEF Select, FoldLeft, MapThenFoldSet
<1> HIDE DEF n, V
<1>5. StaysIn(V, step, n)
    BY <1>2 DEF StaysIn
<1>6. PICK f : DefinedBy(f, <<>>, V, step, n)
    BY <1>1, <1>3, <1>5, FoldExists
<1>7. IsIt(f)
    <2>1. f \in [SUBSET (1..n) -> V]
        BY <1>6 DEF DefinedBy
    <2>2. ASSUME NEW s \in SUBSET (1..n)
          PROVE  f[s] = IF s = {} THEN <<>>
                        ELSE IF es[Max(s)] \in S
                             THEN Append(f[s \ {Max(s)}], es[Max(s)])
                             ELSE f[s \ {Max(s)}]
        <3>1. f[s] = IF s = {} THEN <<>> ELSE step[Max(s)][f[s \ {Max(s)}]]
            BY <1>6 DEF DefinedBy
        <3>2. CASE s # {}
            <4>1. Max(s) \in 1..n /\ s \ {Max(s)} \in SUBSET (1..n)
                BY <1>1, <3>2, MaxOfPart
            <4> QED BY <1>2, <2>1, <3>1, <3>2, <4>1
        <3> QED BY <3>1, <3>2
    <2> QED BY <1>1, <2>1, <2>2
<1>8. IsIt(g)
    BY <1>7, Zenon
<1>9. Folds(g, <<>>, V, step, n)
    <2>1. \A s \in SUBSET (1..n) :
              g[s] = IF s = {} THEN <<>>
                     ELSE IF es[Max(s)] \in S
                          THEN Append(g[s \ {Max(s)}], es[Max(s)])
                          ELSE g[s \ {Max(s)}]
        <3> HIDE DEF g
        <3> QED BY <1>1, <1>8
    <2> HIDE DEF g
    <2>2. g[{}] = <<>>
        BY <2>1
    <2>3. ASSUME NEW s \in SUBSET (1..n), s # {}, g[s \ {Max(s)}] \in V
          PROVE  g[s] = step[Max(s)][g[s \ {Max(s)}]]
        <3>1. Max(s) \in 1..n
            BY <1>1, <2>3, MaxOfPart
        <3> QED BY <1>2, <2>1, <2>3, <3>1
    <2> QED BY <2>2, <2>3 DEF Folds
<1> QED BY <1>4, <1>5, <1>9 DEF n, V

LEMMA SelectOneMore ==
    ASSUME NEW S
    PROVE  /\ Select(<<>>, S) = <<>>
           /\ \A es \in Seq(Event) : Select(es, S) \in Seq(Event)
           /\ \A es \in Seq(Event), e \in Event :
                 Select(Append(es, e), S) =
                     IF e \in S THEN Append(Select(es, S), e) ELSE Select(es, S)
<1> DEFINE V == Seq(Event)
<1>1. Select(<<>>, S) = <<>>
    <2>1. <<>> \in Seq(Event) /\ Len(<<>>) = 0 /\ 1..0 = {}
        OBVIOUS
    <2>2. PICK g : Folds(g, <<>>, Seq(Event), <<>>, 0) /\ Select(<<>>, S) = g[1..0]
        BY <2>1, SelectFolds
    <2> QED BY <2>1, <2>2 DEF Folds
<1>2. ASSUME NEW es \in Seq(Event), NEW e \in Event
      PROVE  /\ Select(es, S) \in Seq(Event)
             /\ Select(Append(es, e), S) =
                    IF e \in S THEN Append(Select(es, S), e) ELSE Select(es, S)
    <2> DEFINE more == Append(es, e)
               n == Len(es)
               m == Len(more)
               step == [i \in 1..m |-> SelectStep(S, more[i])]
    <2>1. /\ more \in Seq(Event) /\ n \in Nat /\ m \in Nat /\ m = n + 1 /\ more[m] = e
          /\ \A i \in 1..n : more[i] = es[i]
        BY AppendProperties, LenProperties
    <2>2. /\ \A i \in 1..n : step[i] = SelectStep(S, es[i])
          /\ \A i \in 1..m : step[i] = SelectStep(S, more[i])
          /\ step[m] = SelectStep(S, e)
        BY <2>1
    <2> HIDE DEF step, more
    <2>3. PICK g : Folds(g, <<>>, V, step, n) /\ Select(es, S) = g[1..n]
        BY <2>2, SelectFolds
    <2>4. PICK h : Folds(h, <<>>, V, step, m) /\ Select(more, S) = h[1..m]
        BY <2>1, <2>2, SelectFolds
    <2>5. StaysIn(V, step, m)
        BY <2>1, <2>2, SelectFolds
    <2>6. g[1..n] \in V /\ h[1..m] = step[m][g[1..n]]
        <3>1. <<>> \in V
            OBVIOUS
        <3> HIDE DEF n, m, V
        <3> QED BY <2>1, <2>3, <2>4, <2>5, <3>1, FoldOneMore
    <2>7. Select(more, S) = IF e \in S THEN Append(Select(es, S), e) ELSE Select(es, S)
        BY <2>2, <2>3, <2>4, <2>6, SelectStepIs
    <2> QED BY <2>3, <2>6, <2>7 DEF more
<1>3. ASSUME NEW es \in Seq(Event) PROVE Select(es, S) \in Seq(Event)
    <2>1. [type |-> "CHECK_IN", at |-> 0] \in Event
        BY CalendarAssumption DEF Event
    <2> QED BY <1>2, <2>1
<1> QED BY <1>1, <1>2, <1>3

-----------------------------------------------------------------------------
(* The loop of build_sessions.                                             *)

SessionType == [check_in : Event \cup {NoEvent}, check_out : Event \cup {NoEvent}]

PairState == [sessions : Seq(SessionType), open : Event \cup {NoEvent}]

PairStart == [sessions |-> <<>>, open |-> NoEvent]

Paired(es) == FoldLeft(Pair, PairStart, es)

PairStep(e) == [acc \in PairState |-> Pair(acc, e)]

LEMMA PairStepIs ==
    ASSUME NEW e \in Event, NEW acc \in PairState
    PROVE  PairStep(e)[acc] = Pair(acc, e) /\ Pair(acc, e) \in PairState
<1>1. acc.sessions \in Seq(SessionType) /\ acc.open \in Event \cup {NoEvent}
    BY DEF PairState
<1>2. /\ Session(acc.open, NoEvent) \in SessionType
      /\ Session(acc.open, e) \in SessionType
    BY <1>1 DEF Session, SessionType
<1>3. /\ Append(acc.sessions, Session(acc.open, NoEvent)) \in Seq(SessionType)
      /\ Append(acc.sessions, Session(acc.open, e)) \in Seq(SessionType)
    BY <1>1, <1>2, AppendProperties
<1>4. Pair(acc, e) \in PairState
    BY <1>1, <1>3 DEF Pair, PairState
<1> QED BY <1>4 DEF PairStep

LEMMA PairFolds ==
    ASSUME NEW es \in Seq(Event),
           NEW step, \A i \in 1..Len(es) : step[i] = PairStep(es[i])
    PROVE  /\ StaysIn(PairState, step, Len(es))
           /\ \E g : /\ Folds(g, PairStart, PairState, step, Len(es))
                     /\ Paired(es) = g[1..Len(es)]
<1> DEFINE n == Len(es)
           IsIt(h) ==
               h = [s \in SUBSET (DOMAIN es) |->
                       IF s = {} THEN PairStart ELSE Pair(h[s \ {Max(s)}], es[Max(s)])]
           g == CHOOSE h : IsIt(h)
<1>1. n \in Nat /\ DOMAIN es = 1..n /\ \A i \in 1..n : es[i] \in Event
    BY LenProperties, ElementOfSeq
<1>2. \A i \in 1..n : \A v \in PairState :
          step[i][v] = Pair(v, es[i]) /\ step[i][v] \in PairState
    BY <1>1, PairStepIs
<1>3. PairStart \in PairState
    <2>1. <<>> \in Seq(SessionType)
        OBVIOUS
    <2> QED BY <2>1 DEF PairStart, PairState
<1>4. Paired(es) = g[1..n]
    BY <1>1, Zenon DEF Paired, FoldLeft, MapThenFoldSet
<1> HIDE DEF n
<1>5. StaysIn(PairState, step, n)
    BY <1>2 DEF StaysIn
<1>6. PICK f : DefinedBy(f, PairStart, PairState, step, n)
    BY <1>1, <1>3, <1>5, FoldExists
<1>7. IsIt(f)
    <2>1. f \in [SUBSET (1..n) -> PairState]
        BY <1>6 DEF DefinedBy
    <2>2. ASSUME NEW s \in SUBSET (1..n)
          PROVE  f[s] = IF s = {} THEN PairStart ELSE Pair(f[s \ {Max(s)}], es[Max(s)])
        <3>1. f[s] = IF s = {} THEN PairStart ELSE step[Max(s)][f[s \ {Max(s)}]]
            BY <1>6 DEF DefinedBy
        <3>2. CASE s # {}
            <4>1. Max(s) \in 1..n /\ s \ {Max(s)} \in SUBSET (1..n)
                BY <1>1, <3>2, MaxOfPart
            <4> QED BY <1>2, <2>1, <3>1, <3>2, <4>1
        <3> QED BY <3>1, <3>2
    <2> QED BY <1>1, <2>1, <2>2
<1>8. IsIt(g)
    BY <1>7, Zenon
<1>9. Folds(g, PairStart, PairState, step, n)
    <2>1. \A s \in SUBSET (1..n) :
              g[s] = IF s = {} THEN PairStart ELSE Pair(g[s \ {Max(s)}], es[Max(s)])
        <3> HIDE DEF g
        <3> QED BY <1>1, <1>8
    <2> HIDE DEF g
    <2>2. g[{}] = PairStart
        BY <2>1
    <2>3. ASSUME NEW s \in SUBSET (1..n), s # {}, g[s \ {Max(s)}] \in PairState
          PROVE  g[s] = step[Max(s)][g[s \ {Max(s)}]]
        <3>1. Max(s) \in 1..n
            BY <1>1, <2>3, MaxOfPart
        <3> QED BY <1>2, <2>1, <2>3, <3>1
    <2> QED BY <2>2, <2>3 DEF Folds
<1> QED BY <1>4, <1>5, <1>9 DEF n

\* The state of the loop before the first event, and after one more.
LEMMA PairOneMore ==
    /\ Paired(<<>>) = PairStart
    /\ \A es \in Seq(Event) : Paired(es) \in PairState
    /\ \A es \in Seq(Event), e \in Event : Paired(Append(es, e)) = Pair(Paired(es), e)
<1>0. PairStart \in PairState
    <2>1. <<>> \in Seq(SessionType)
        OBVIOUS
    <2> QED BY <2>1 DEF PairStart, PairState
<1>1. Paired(<<>>) = PairStart
    <2>1. <<>> \in Seq(Event) /\ Len(<<>>) = 0 /\ 1..0 = {}
        OBVIOUS
    <2>2. PICK g : Folds(g, PairStart, PairState, <<>>, 0) /\ Paired(<<>>) = g[1..0]
        BY <2>1, PairFolds
    <2> QED BY <2>1, <2>2 DEF Folds
<1>2. ASSUME NEW es \in Seq(Event), NEW e \in Event
      PROVE  Paired(es) \in PairState /\ Paired(Append(es, e)) = Pair(Paired(es), e)
    <2> DEFINE more == Append(es, e)
               n == Len(es)
               m == Len(more)
               step == [i \in 1..m |-> PairStep(more[i])]
    <2>1. /\ more \in Seq(Event) /\ n \in Nat /\ m \in Nat /\ m = n + 1 /\ more[m] = e
          /\ \A i \in 1..n : more[i] = es[i]
        BY AppendProperties, LenProperties
    <2>2. /\ \A i \in 1..n : step[i] = PairStep(es[i])
          /\ \A i \in 1..m : step[i] = PairStep(more[i])
          /\ step[m] = PairStep(e)
        BY <2>1
    <2> HIDE DEF step, more
    <2>3. PICK g : Folds(g, PairStart, PairState, step, n) /\ Paired(es) = g[1..n]
        BY <2>2, PairFolds
    <2>4. PICK h : Folds(h, PairStart, PairState, step, m) /\ Paired(more) = h[1..m]
        BY <2>1, <2>2, PairFolds
    <2>5. StaysIn(PairState, step, m)
        BY <2>1, <2>2, PairFolds
    <2>6. g[1..n] \in PairState /\ h[1..m] = step[m][g[1..n]]
        <3> HIDE DEF n, m
        <3> QED BY <1>0, <2>1, <2>3, <2>4, <2>5, FoldOneMore
    <2>7. Paired(more) = Pair(Paired(es), e)
        BY <2>2, <2>3, <2>4, <2>6, PairStepIs
    <2> QED BY <2>3, <2>6, <2>7 DEF more
<1>3. ASSUME NEW es \in Seq(Event) PROVE Paired(es) \in PairState
    <2>1. [type |-> "CHECK_IN", at |-> 0] \in Event
        BY CalendarAssumption DEF Event
    <2> QED BY <1>2, <2>1
<1> QED BY <1>1, <1>2, <1>3

-----------------------------------------------------------------------------
(* FlattenSeq.                                                             *)

\* A step of FlattenSeq, as a function.
FlattenStep(E, s) == [flat \in Seq(E) |-> flat \o s]

LEMMA FlattenStepIs ==
    ASSUME NEW E, NEW s \in Seq(E), NEW v \in Seq(E)
    PROVE  FlattenStep(E, s)[v] = v \o s /\ v \o s \in Seq(E)
<1>1. v \o s \in Seq(E)
    BY ConcatProperties
<1> QED BY <1>1 DEF FlattenStep

LEMMA FlattenFolds ==
    ASSUME NEW E, NEW ss \in Seq(Seq(E)),
           NEW step, \A i \in 1..Len(ss) : step[i] = FlattenStep(E, ss[i])
    PROVE  /\ StaysIn(Seq(E), step, Len(ss))
           /\ \E g : /\ Folds(g, <<>>, Seq(E), step, Len(ss))
                     /\ FlattenSeq(ss) = g[1..Len(ss)]
<1> DEFINE n == Len(ss)
           V == Seq(E)
           IsIt(h) == h = [i \in 1..n |-> IF i = 1 THEN ss[i] ELSE h[i - 1] \o ss[i]]
           flatten == CHOOSE h : IsIt(h)
<1>1. n \in Nat /\ \A i \in 1..n : ss[i] \in V
    BY LenProperties, ElementOfSeq
<1>2. \A i \in 1..n : \A v \in V : step[i][v] = v \o ss[i] /\ step[i][v] \in V
    <2> SUFFICES ASSUME NEW i \in 1..n, NEW v \in V
                 PROVE  step[i][v] = v \o ss[i] /\ step[i][v] \in V
        OBVIOUS
    <2>1. step[i] = FlattenStep(E, ss[i]) /\ ss[i] \in Seq(E) /\ v \in Seq(E)
        BY <1>1
    <2>2. FlattenStep(E, ss[i])[v] = v \o ss[i] /\ v \o ss[i] \in Seq(E)
        BY <2>1, FlattenStepIs, Zenon
    <2> QED BY <2>1, <2>2
<1>3. <<>> \in V /\ \A s \in V : <<>> \o s = s
    BY ConcatEmptySeq
<1>4. FlattenSeq(ss) = IF n = 0 THEN ss ELSE flatten[n]
    BY Zenon DEF FlattenSeq
<1>5. n = 0 => ss = <<>>
    BY EmptySeq
<1> HIDE DEF n, V
<1>6. StaysIn(V, step, n)
    BY <1>2 DEF StaysIn
<1>7. PICK g : DefinedBy(g, <<>>, V, step, n)
    BY <1>1, <1>3, <1>6, FoldExists
<1>8. Folds(g, <<>>, V, step, n)
    BY <1>7 DEF DefinedBy, Folds
<1>9. /\ g[{}] = <<>>
      /\ \A i \in 0..n : g[1..i] \in V
      /\ \A i \in 1..n : g[1..i] = step[i][g[1..(i - 1)]]
    BY <1>1, <1>3, <1>6, <1>8, FoldTrace
<1>10. \A i \in 1..n : g[1..i] = IF i = 1 THEN ss[i] ELSE g[1..(i - 1)] \o ss[i]
    <2> SUFFICES ASSUME NEW i \in 1..n
                 PROVE  g[1..i] = IF i = 1 THEN ss[i] ELSE g[1..(i - 1)] \o ss[i]
        OBVIOUS
    <2>1. i - 1 \in 0..n /\ g[1..(i - 1)] \in V
        BY <1>1, <1>9
    <2>2. g[1..i] = g[1..(i - 1)] \o ss[i]
        BY <1>2, <1>9, <2>1
    <2>3. i = 1 => g[1..(i - 1)] = <<>>
        <3>1. 1..0 = {}
            OBVIOUS
        <3> QED BY <1>9, <3>1
    <2> QED BY <1>1, <1>3, <2>2, <2>3
<1>11. IsIt(flatten)
    <2> DEFINE f == [i \in 1..n |-> g[1..i]]
    <2>1. ASSUME NEW i \in 1..n
          PROVE  f[i] = IF i = 1 THEN ss[i] ELSE f[i - 1] \o ss[i]
        <3>1. i # 1 => i - 1 \in 1..n
            BY <1>1
        <3> QED BY <1>10, <3>1
    <2>2. IsIt(f)
        BY <2>1
    <2> HIDE DEF f
    <2> QED BY <2>2, Zenon
<1>12. \A i \in 1..n : flatten[i] = IF i = 1 THEN ss[i] ELSE flatten[i - 1] \o ss[i]
    <2> HIDE DEF flatten
    <2> QED BY <1>11
<1> HIDE DEF flatten, IsIt
<1>13. n # 0 => flatten[n] = g[1..n]
    <2> DEFINE S == {i \in 0..n : i # 0 => flatten[i] = g[1..i]}
    <2>1. 0 \in S
        BY <1>1
    <2>2. ASSUME NEW i \in 0..(n - 1), i \in S PROVE i + 1 \in S
        <3>1. i + 1 \in 1..n /\ i + 1 - 1 = i /\ (i = 0 <=> i + 1 = 1) /\ i + 1 \in 0..n
            BY <1>1
        <3> QED BY <1>10, <1>12, <2>2, <3>1
    <2>3. \A i \in 0..n : i \in S
        <3> HIDE DEF S
        <3> QED BY <1>1, <2>1, <2>2, UpTo
    <2> QED BY <1>1, <2>3
<1>14. FlattenSeq(ss) = g[1..n]
    <2>1. 1..0 = {}
        OBVIOUS
    <2> QED BY <1>4, <1>5, <1>9, <1>13, <2>1
<1> QED BY <1>6, <1>8, <1>14 DEF n, V

LEMMA FlattenOneMore ==
    ASSUME NEW E
    PROVE  /\ FlattenSeq(<<>>) = <<>>
           /\ \A ss \in Seq(Seq(E)), s \in Seq(E) :
                 /\ FlattenSeq(ss) \in Seq(E)
                 /\ FlattenSeq(Append(ss, s)) = FlattenSeq(ss) \o s
<1> DEFINE V == Seq(E)
<1>1. FlattenSeq(<<>>) = <<>>
    <2>1. Len(<<>>) = 0
        OBVIOUS
    <2> QED BY <2>1, Zenon DEF FlattenSeq
<1>2. ASSUME NEW ss \in Seq(Seq(E)), NEW s \in Seq(E)
      PROVE  FlattenSeq(ss) \in Seq(E) /\ FlattenSeq(Append(ss, s)) = FlattenSeq(ss) \o s
    <2> DEFINE more == Append(ss, s)
               n == Len(ss)
               m == Len(more)
               step == [i \in 1..m |-> FlattenStep(E, more[i])]
    <2>1. /\ more \in Seq(Seq(E)) /\ n \in Nat /\ m \in Nat /\ m = n + 1 /\ more[m] = s
          /\ \A i \in 1..n : more[i] = ss[i]
        BY AppendProperties, LenProperties
    <2>2. /\ \A i \in 1..n : step[i] = FlattenStep(E, ss[i])
          /\ \A i \in 1..m : step[i] = FlattenStep(E, more[i])
          /\ step[m] = FlattenStep(E, s)
        BY <2>1
    <2> HIDE DEF step, more
    <2>3. PICK g : Folds(g, <<>>, V, step, n) /\ FlattenSeq(ss) = g[1..n]
        BY <2>2, FlattenFolds
    <2>4. PICK h : Folds(h, <<>>, V, step, m) /\ FlattenSeq(more) = h[1..m]
        BY <2>1, <2>2, FlattenFolds
    <2>5. StaysIn(V, step, m)
        BY <2>1, <2>2, FlattenFolds
    <2>6. g[1..n] \in V /\ h[1..m] = step[m][g[1..n]]
        <3>1. <<>> \in V
            OBVIOUS
        <3> HIDE DEF n, m, V
        <3> QED BY <2>1, <2>3, <2>4, <2>5, <3>1, FoldOneMore
    <2>7. FlattenSeq(more) = FlattenSeq(ss) \o s
        <3>1. FlattenStep(E, s)[g[1..n]] = g[1..n] \o s
            BY <2>6, FlattenStepIs, Zenon
        <3> QED BY <2>2, <2>3, <2>4, <2>6, <3>1
    <2> QED BY <2>3, <2>6, <2>7 DEF more
<1> QED BY <1>1, <1>2

-----------------------------------------------------------------------------
(* No event is lost.                                                       *)

LEMMA ConcatOfEvents ==
    \A s, t, u \in Seq(Event) : (s \o t) \o u = s \o (t \o u)
BY ConcatAssociative

LEMMA HalfType ==
    ASSUME NEW e \in Event \cup {NoEvent}
    PROVE  Half(e) \in Seq(Event) /\ Half(NoEvent) = <<>> /\ (e \in Event => Half(e) = <<e>>)
<1>1. e \in Event => e # NoEvent /\ <<e>> \in Seq(Event)
    BY MissingAssumption
<1>2. <<>> \in Seq(Event)
    OBVIOUS
<1> QED BY <1>1, <1>2 DEF Half

\* What one more session shows.
LEMMA EventsOfOneMore ==
    /\ EventsOf(<<>>) = <<>>
    /\ \A ss \in Seq(SessionType) : EventsOf(ss) \in Seq(Event)
    /\ \A ss \in Seq(SessionType) : \A s \in SessionType :
          EventsOf(Append(ss, s)) = EventsOf(ss) \o (Half(s.check_in) \o Half(s.check_out))
<1> DEFINE V == Seq(Event)
           Shows(s) == Half(s.check_in) \o Half(s.check_out)
           Shown(ss) == [i \in DOMAIN ss |-> Shows(ss[i])]
<1>1. ASSUME NEW s \in SessionType PROVE Shows(s) \in V
    <2>1. Half(s.check_in) \in Seq(Event) /\ Half(s.check_out) \in Seq(Event)
        BY HalfType DEF SessionType
    <2> QED BY <2>1, ConcatProperties
<1>2. ASSUME NEW ss \in Seq(SessionType)
      PROVE  Shown(ss) \in Seq(V)
    <2>1. Len(ss) \in Nat /\ DOMAIN ss = 1..Len(ss) /\ \A i \in 1..Len(ss) : ss[i] \in SessionType
        BY LenProperties, ElementOfSeq
    <2>2. \A i \in 1..Len(ss) : Shows(ss[i]) \in V
        BY <1>1, <2>1
    <2> HIDE DEF Shows, V
    <2> QED BY <2>1, <2>2
<1>3. \A ss : EventsOf(ss) = FlattenSeq(Shown(ss))
    BY DEF EventsOf
<1>4. EventsOf(<<>>) = <<>>
    <2>1. Shown(<<>>) = <<>>
        OBVIOUS
    <2> HIDE DEF Shown
    <2> QED BY <1>3, <2>1, FlattenOneMore
<1>5. ASSUME NEW ss \in Seq(SessionType), NEW s \in SessionType
      PROVE  /\ EventsOf(ss) \in Seq(Event)
             /\ EventsOf(Append(ss, s)) = EventsOf(ss) \o Shows(s)
    <2>1. Shown(Append(ss, s)) = Append(Shown(ss), Shows(s))
        <3>1. /\ Append(ss, s) \in Seq(SessionType) /\ Len(Append(ss, s)) = Len(ss) + 1
              /\ \A i \in 1..Len(ss) : Append(ss, s)[i] = ss[i]
              /\ Append(ss, s)[Len(ss) + 1] = s /\ Len(ss) \in Nat
            BY AppendProperties, LenProperties
        <3> DEFINE more == Append(ss, s)
        <3> HIDE DEF more
        <3>2. DOMAIN more = 1..(Len(ss) + 1) /\ DOMAIN ss = 1..Len(ss)
            BY <3>1, LenProperties DEF more
        <3> HIDE DEF Shows, V
        <3>3. Shown(ss) \in Seq(V) /\ Len(Shown(ss)) = Len(ss)
            <4>1. DOMAIN Shown(ss) = 1..Len(ss)
                BY <3>2
            <4>2. Shown(ss) \in Seq(V)
                BY <1>2
            <4> HIDE DEF Shown
            <4> QED BY <3>1, <4>1, <4>2, LenProperties
        <3>4. Append(Shown(ss), Shows(s)) =
                  [i \in 1..(Len(ss) + 1) |-> IF i = Len(ss) + 1 THEN Shows(s) ELSE Shown(ss)[i]]
            BY <3>3
        <3>5. \A i \in 1..(Len(ss) + 1) :
                  Shown(more)[i] = IF i = Len(ss) + 1 THEN Shows(s) ELSE Shown(ss)[i]
            BY <3>1, <3>2 DEF more
        <3>6. Shown(more) = [i \in 1..(Len(ss) + 1) |-> Shown(more)[i]]
            BY <3>2
        <3> QED BY <3>4, <3>5, <3>6 DEF more
    <2> HIDE DEF Shown
    <2>2. Shown(ss) \in Seq(Seq(Event)) /\ Shows(s) \in Seq(Event)
        BY <1>1, <1>2
    <2> HIDE DEF Shows
    <2>3. /\ FlattenSeq(Shown(ss)) \in Seq(Event)
          /\ FlattenSeq(Append(Shown(ss), Shows(s))) = FlattenSeq(Shown(ss)) \o Shows(s)
        BY <2>2, FlattenOneMore
    <2> QED BY <1>3, <2>1, <2>3
<1>6. <<>> \in Seq(Event) /\ \E s : s \in SessionType
    <2>1. [check_in |-> NoEvent, check_out |-> NoEvent] \in SessionType
        BY DEF SessionType
    <2> QED BY <2>1
<1> QED BY <1>4, <1>5, <1>6

\* Whatever its input, build_sessions shows every event of it, in order.
LEMMA BuildSessionsShowsAll ==
    ASSUME NEW es \in Seq(Event)
    PROVE  BuildSessions(es) \in Seq(SessionType) /\ EventsOf(BuildSessions(es)) = es
<1> DEFINE Shows(acc) == EventsOf(acc.sessions) \o Half(acc.open)
           P == {s \in Seq(Event) : Shows(Paired(s)) = s}
<1>1. ASSUME NEW acc \in PairState
      PROVE  /\ acc.sessions \in Seq(SessionType) /\ acc.open \in Event \cup {NoEvent}
             /\ EventsOf(acc.sessions) \in Seq(Event) /\ Half(acc.open) \in Seq(Event)
    BY HalfType, EventsOfOneMore DEF PairState
<1>2. <<>> \in P
    <2>1. Shows(PairStart) = <<>> \o <<>>
        BY EventsOfOneMore, HalfType DEF PairStart
    <2>2. <<>> \in Seq(Event) /\ <<>> \o <<>> = <<>>
        BY ConcatEmptySeq
    <2> HIDE DEF Shows
    <2> QED BY <2>1, <2>2, PairOneMore
<1>3. ASSUME NEW s \in Seq(Event), NEW e \in Event, s \in P
      PROVE  Append(s, e) \in P
    <2>1. /\ Paired(s) \in PairState /\ Paired(Append(s, e)) = Pair(Paired(s), e)
          /\ Append(s, e) = s \o <<e>> /\ Append(s, e) \in Seq(Event)
        BY PairOneMore, AppendIsConcat, AppendProperties
    <2>2. PICK acc \in PairState : acc = Paired(s)
        BY <2>1
    <2> DEFINE X == EventsOf(acc.sessions)
               O == Half(acc.open)
    <2>3. X \in Seq(Event) /\ O \in Seq(Event) /\ X \o O = s /\ <<e>> \in Seq(Event)
        BY <1>1, <1>3, <2>2
    <2>4. e # NoEvent /\ Half(e) = <<e>> /\ Half(NoEvent) = <<>>
        BY MissingAssumption, HalfType
    <2>5. \A h \in Event \cup {NoEvent} :
              EventsOf(Append(acc.sessions, Session(acc.open, h))) = X \o (O \o Half(h))
        <3> SUFFICES ASSUME NEW h \in Event \cup {NoEvent}
                     PROVE  EventsOf(Append(acc.sessions, Session(acc.open, h))) = X \o (O \o Half(h))
            OBVIOUS
        <3>1. Session(acc.open, h) \in SessionType
            BY <1>1 DEF Session, SessionType
        <3> QED BY <1>1, <3>1, EventsOfOneMore DEF Session
    <2> HIDE DEF X, O
    <2> SUFFICES Shows(Pair(acc, e)) = s \o <<e>>
        <3> HIDE DEF Shows
        <3> QED BY <2>1, <2>2
    <2>6. ASSUME NEW ss, NEW h \in Event \cup {NoEvent},
                 Pair(acc, e).sessions = ss, Pair(acc, e).open = h,
                 EventsOf(ss) \o Half(h) = s \o <<e>>
          PROVE  Shows(Pair(acc, e)) = s \o <<e>>
        BY <2>6, Zenon
    <2>7. CASE e.type = "CHECK_IN" /\ acc.open = NoEvent
        <3>1. Pair(acc, e).sessions = acc.sessions /\ Pair(acc, e).open = e
            BY <2>7 DEF Pair
        <3>2. X = s
            <4>1. O = <<>>
                BY <2>4, <2>7 DEF O
            <4> QED BY <2>3, <4>1, ConcatEmptySeq
        <3>3. EventsOf(acc.sessions) \o Half(e) = s \o <<e>>
            BY <2>4, <3>2 DEF X
        <3> HIDE DEF Shows
        <3> QED BY <2>6, <3>1, <3>3
    <2>8. CASE e.type = "CHECK_IN" /\ acc.open # NoEvent
        <3>1. /\ Pair(acc, e).sessions = Append(acc.sessions, Session(acc.open, NoEvent))
              /\ Pair(acc, e).open = e
            BY <2>8 DEF Pair
        <3>2. O \o Half(NoEvent) = O
            BY <2>3, <2>4, ConcatEmptySeq
        <3>3. EventsOf(Append(acc.sessions, Session(acc.open, NoEvent))) = s
            BY <2>3, <2>5, <3>2
        <3>4. EventsOf(Append(acc.sessions, Session(acc.open, NoEvent))) \o Half(e) = s \o <<e>>
            BY <2>4, <3>3
        <3> HIDE DEF Shows
        <3> QED BY <2>6, <3>1, <3>4
    <2>9. CASE e.type # "CHECK_IN"
        <3>1. /\ Pair(acc, e).sessions = Append(acc.sessions, Session(acc.open, e))
              /\ Pair(acc, e).open = NoEvent
            BY <2>9 DEF Pair
        <3>2. X \o (O \o <<e>>) = s \o <<e>>
            <4>1. (X \o O) \o <<e>> = X \o (O \o <<e>>)
                <5>1. \A u \in Seq(Event) : (X \o O) \o u = X \o (O \o u)
                    BY <2>3, ConcatOfEvents
                <5> QED BY <2>3, <5>1
            <4> QED BY <2>3, <4>1
        <3>3. EventsOf(Append(acc.sessions, Session(acc.open, e))) = s \o <<e>>
            BY <2>4, <2>5, <3>2
        <3>4. (s \o <<e>>) \o <<>> = s \o <<e>>
            BY <2>1, ConcatEmptySeq
        <3>5. EventsOf(Append(acc.sessions, Session(acc.open, e))) \o Half(NoEvent) = s \o <<e>>
            BY <2>4, <3>3, <3>4
        <3> HIDE DEF Shows
        <3> QED BY <2>6, <3>1, <3>5
    <2> QED BY <2>7, <2>8, <2>9
<1>4. es \in P
    <2> HIDE DEF P
    <2> QED BY <1>2, <1>3, EveryHistory
<1>5. PICK acc \in PairState : acc = Paired(es)
    BY PairOneMore
<1>6. BuildSessions(es) = IF acc.open = NoEvent THEN acc.sessions
                          ELSE Append(acc.sessions, Session(acc.open, NoEvent))
    BY <1>5 DEF BuildSessions, Paired, PairStart
<1>7. EventsOf(acc.sessions) \o Half(acc.open) = es
    BY <1>4, <1>5
<1>8. CASE acc.open = NoEvent
    <2>1. Half(acc.open) = <<>>
        BY <1>8, HalfType
    <2> QED BY <1>1, <1>6, <1>7, <1>8, <2>1, ConcatEmptySeq
<1>9. CASE acc.open # NoEvent
    <2>1. Session(acc.open, NoEvent) \in SessionType
        BY <1>1 DEF Session, SessionType
    <2>2. EventsOf(Append(acc.sessions, Session(acc.open, NoEvent)))
              = EventsOf(acc.sessions) \o (Half(acc.open) \o Half(NoEvent))
        BY <1>1, <2>1, EventsOfOneMore DEF Session
    <2>3. Half(acc.open) \o Half(NoEvent) = Half(acc.open)
        BY <1>1, HalfType, ConcatEmptySeq
    <2>4. Append(acc.sessions, Session(acc.open, NoEvent)) \in Seq(SessionType)
        BY <1>1, <2>1, AppendProperties
    <2> QED BY <1>6, <1>7, <1>9, <2>2, <2>3, <2>4
<1> QED BY <1>8, <1>9

-----------------------------------------------------------------------------
(* The requests.                                                           *)

\* What a route makes of its parameters.
LEMMA RequestIs ==
    ASSUME NEW q \in Request
    PROVE  /\ q.tenant \in Tenant
           /\ q.route \in {"me", "user", "me/history", "user/history", "team", "hours"}
           /\ q.route \in {"me", "user"} => q.target \in User /\ q.day \in AskedDate
           /\ q.route = "team" => q.day \in AskedDate
           /\ Paged(q) => /\ q.target \in User /\ q.from \in AskedDate /\ q.to \in AskedDate
                          /\ q.page \in 1..MaxRangeDays /\ q.size \in PageSize
BY DEF Request, Paged

LEMMA PageOfRequest ==
    ASSUME NEW q \in Request, Paged(q), NEW p \in 1..MaxRangeDays
    PROVE  /\ [q EXCEPT !.page = p] \in Request
           /\ Paged([q EXCEPT !.page = p])
<1>1. q \in [route : {"me/history", "user/history"}, tenant : Tenant, target : User,
             from : AskedDate, to : AskedDate, page : 1..MaxRangeDays, size : PageSize]
    BY DEF Request, Paged
<1>2. [q EXCEPT !.page = p] \in
            [route : {"me/history", "user/history"}, tenant : Tenant, target : User,
             from : AskedDate, to : AskedDate, page : 1..MaxRangeDays, size : PageSize]
    BY <1>1
<1> QED BY <1>2 DEF Request, Paged

-----------------------------------------------------------------------------
(* Arithmetic of days and pages.                                           *)

LEMMA Product ==
    /\ \A a, b \in Int : \A c \in Nat : a <= b => a * c <= b * c
    /\ \A a, b \in Int : \A c \in Nat \ {0} : a * c < b * c => a < b
<1>1. \A a, b \in Int : \A c \in Nat : a <= b => a * c <= b * c
    OBVIOUS
<1>2. \A a, b \in Int : \A c \in Nat \ {0} : a * c < b * c => a < b
    OBVIOUS
<1> QED BY <1>1, <1>2

LEMMA Division ==
    ASSUME NEW a \in Nat, NEW b \in Nat \ {0}
    PROVE  a \div b \in Nat /\ (a \div b) * b <= a /\ a < ((a \div b) + 1) * b
<1>1. a \div b \in Nat
    OBVIOUS
<1>2. a = b * (a \div b) + (a % b) /\ 0 <= a % b /\ a % b < b
    OBVIOUS
<1> QED BY <1>1, <1>2

\* Each date has its half-open day.
LEMMA DayOf ==
    ASSUME NEW at \in Nat
    PROVE  /\ UtcDateOf(at) \in Nat
           /\ \A d \in Int : UtcDateOf(at) = d <=> d * DayLength <= at /\ at < (d + 1) * DayLength
           /\ \A d \in Int : UtcDateOf(at) < d <=> at < d * DayLength
<1> DEFINE q == at \div DayLength
<1>0. DayLength \in Nat \ {0} /\ UtcDateOf(at) = q
    BY CalendarAssumption DEF UtcDateOf
<1>1. q \in Nat /\ q * DayLength <= at /\ at < (q + 1) * DayLength
    BY <1>0, Division
<1> HIDE DEF q
<1>2. ASSUME NEW d \in Int PROVE q < d <=> at < d * DayLength
    <2>1. CASE q < d
        <3>1. (q + 1) * DayLength <= d * DayLength /\ d * DayLength \in Int
            BY <1>0, <1>1, <2>1, Product
        <3> QED BY <1>0, <1>1, <2>1, <3>1
    <2>2. CASE ~ (q < d)
        <3>1. d * DayLength <= q * DayLength /\ d * DayLength \in Int
            BY <1>0, <1>1, <2>2, Product
        <3> QED BY <1>0, <1>1, <2>2, <3>1
    <2> QED BY <2>1, <2>2
<1>3. ASSUME NEW d \in Int PROVE q = d <=> d * DayLength <= at /\ at < (d + 1) * DayLength
    <2>1. d * DayLength \in Int /\ (d + 1) * DayLength \in Int
        BY <1>0
    <2>2. (q < d <=> at < d * DayLength) /\ (q < d + 1 <=> at < (d + 1) * DayLength)
        BY <1>2
    <2> QED BY <1>1, <2>1, <2>2
<1> QED BY <1>0, <1>1, <1>2, <1>3

LEMMA RangeIs ==
    ASSUME NEW from \in AskedDate, NEW to \in AskedDate, NEW today \in Nat,
           NEW range \in ResolveRange(from, to, today)
    PROVE  /\ range = <<range[1], range[2]>> /\ range[1] \in Int /\ range[2] \in Int
           /\ range[1] <= range[2] /\ range[2] - range[1] + 1 <= MaxRangeDays
           /\ range[2] = (IF to = NoDate THEN today ELSE to)
           /\ range[1] = (IF from = NoDate THEN range[2] - (DefaultHistoryDays - 1) ELSE from)
<1> DEFINE last == IF to = NoDate THEN today ELSE to
           first == IF from = NoDate THEN last - (DefaultHistoryDays - 1) ELSE from
<1>1. last \in Int /\ first \in Int
    BY PagingAssumption
<1>2. range = <<first, last>> /\ first <= last /\ (last - first) + 1 <= MaxRangeDays
    BY DEF ResolveRange
<1> QED BY <1>1, <1>2

\* The pages of n days.
LEMMA Pages ==
    ASSUME NEW from \in Int, NEW to \in Int, from <= to, NEW size \in Nat \ {0}
    PROVE  /\ TotalPages(from, to, size) \in 1..(to - from + 1)
           /\ (TotalPages(from, to, size) - 1) * size < to - from + 1
           /\ to - from + 1 <= TotalPages(from, to, size) * size
<1> DEFINE n == to - from + 1
           t == (n + size - 1) \div size
<1>1. n \in Nat \ {0} /\ n + size - 1 \in Nat /\ TotalPages(from, to, size) = t
    BY DEF TotalPages
<1>2. t \in Nat /\ t * size <= n + size - 1 /\ n + size - 1 < (t + 1) * size
    BY <1>1, Division
<1> HIDE DEF n, t
<1>3. (t - 1) * size < n /\ n <= t * size
    <2>1. (t - 1) * size = t * size - size /\ (t + 1) * size = t * size + size
        BY <1>2
    <2> QED BY <1>1, <1>2, <2>1
<1>4. t >= 1
    BY <1>1, <1>2, <1>3
<1>5. t <= n
    <2>1. (t - 1) * 1 <= (t - 1) * size
        BY <1>2, <1>4
    <2> QED BY <1>1, <1>2, <1>3, <2>1
<1>6. t \in 1..n
    BY <1>1, <1>2, <1>4, <1>5
<1> QED BY <1>1, <1>3, <1>6 DEF n

-----------------------------------------------------------------------------
(* Types, and the order of the events of each user.                        *)

Ordered(es) == \A i, j \in DOMAIN es : i < j => es[i].at < es[j].at

LEMMA OrderedOneMore ==
    ASSUME NEW es \in Seq(Event), NEW e \in Event, Ordered(es),
           \A i \in DOMAIN es : es[i].at < e.at
    PROVE  Ordered(Append(es, e))
<1>1. /\ Append(es, e) \in Seq(Event) /\ Len(es) \in Nat /\ Len(Append(es, e)) = Len(es) + 1
      /\ \A i \in 1..Len(es) : Append(es, e)[i] = es[i]
      /\ Append(es, e)[Len(es) + 1] = e
    BY AppendProperties, LenProperties
<1>2. DOMAIN es = 1..Len(es) /\ DOMAIN Append(es, e) = 1..(Len(es) + 1)
    BY <1>1, LenProperties
<1> SUFFICES ASSUME NEW i \in 1..(Len(es) + 1), NEW j \in 1..(Len(es) + 1), i < j
             PROVE  Append(es, e)[i].at < Append(es, e)[j].at
    BY <1>2 DEF Ordered
<1>3. i \in 1..Len(es)
    BY <1>1
<1>4. CASE j = Len(es) + 1
    BY <1>1, <1>2, <1>3, <1>4
<1>5. CASE j # Len(es) + 1
    <2>1. j \in 1..Len(es)
        BY <1>1, <1>5
    <2> QED BY <1>1, <1>2, <1>3, <2>1 DEF Ordered
<1> QED BY <1>4, <1>5

\* Types, with the order of the events and a row of shown and before for each reader.
IType ==
    /\ TypeOK
    /\ shown = [r \in Reader |-> shown[r]] /\ before = [r \in Reader |-> before[r]]
    /\ \A r \in Reader : pc[r] # "idle" => req[r] \in Request

LEMMA ITypeInit == Init => IType
<1> SUFFICES ASSUME Init PROVE IType
    OBVIOUS
<1>1. 0 \in 0..MaxTime /\ <<>> \in Seq(Event)
    BY CalendarAssumption
<1>2. \A u \in User : Ordered(events[u])
    BY DEF Init, Ordered
<1> QED BY <1>1, <1>2 DEF Init, IType, TypeOK, Ordered

LEMMA MoveType ==
    ASSUME IType, NEW r \in Reader,
           NEW to \in {"begun", "found", "listed", "answered", "refused"}, Move(r, to)
    PROVE  /\ pc' \in [Reader -> {"idle", "begun", "found", "listed", "answered", "refused"}]
           /\ since' \in [Reader -> 0..MaxTime]
           /\ \A x \in Reader \ {r} : pc'[x] = pc[x]
BY DEF IType, TypeOK, Move

LEMMA ITypeStep == IType /\ [Next]_vars => IType'
<1> SUFFICES ASSUME IType, [Next]_vars PROVE IType'
    OBVIOUS
<1> USE DEF IType, TypeOK
<1> DEFINE Rows == /\ shown = [x \in Reader |-> shown[x]]
                   /\ before = [x \in Reader |-> before[x]]
                   /\ \A x \in Reader : pc[x] # "idle" => req[x] \in Request
<1>0. \A r \in Reader : since[r]..clock \subseteq 0..MaxTime
    BY CalendarAssumption
<1>1. ASSUME NEW r \in Reader, NEW q \in FirstRequest, Begin(r, q) PROVE IType'
    <2>1. AfterAuthentication(q) \in {"begun", "found", "listed", "answered", "refused"}
        BY DEF AfterAuthentication
    <2>2. Move(r, AfterAuthentication(q)) /\ q \in Request
        BY <1>1 DEF Begin, FirstRequest
    <2>3. /\ pc' \in [Reader -> {"idle", "begun", "found", "listed", "answered", "refused"}]
          /\ since' \in [Reader -> 0..MaxTime]
          /\ \A x \in Reader \ {r} : pc'[x] = pc[x]
        BY <2>1, <2>2, MoveType
    <2>4. before' = [x \in Reader |-> before'[x]]
        BY <1>1 DEF Begin
    <2> QED BY <1>1, <2>2, <2>3, <2>4 DEF Begin
<1>2. ASSUME NEW r \in Reader, FindTenantUser(r) PROVE IType'
    <2>1. PICK to \in {"found", "refused"} : Move(r, to)
        BY <1>2 DEF FindTenantUser
    <2> QED BY <1>2, <2>1, MoveType DEF FindTenantUser
<1>3. ASSUME NEW r \in Reader, ReadDay(r) PROVE IType'
    <2>1. Move(r, "answered")
        BY <1>3 DEF ReadDay
    <2>2. now' \in [Reader -> 0..MaxTime]
        <3>1. PICK at \in since[r]..clock : now' = [now EXCEPT ![r] = at]
            BY <1>3 DEF ReadDay
        <3> QED BY <1>0, <3>1
    <2>3. shown' = [x \in Reader |-> shown'[x]]
        BY <1>3 DEF ReadDay
    <2> QED BY <1>3, <2>1, <2>2, <2>3, MoveType DEF ReadDay
<1>4. ASSUME NEW r \in Reader, ReadPage(r) PROVE IType'
    <2>1. PICK to \in {"answered", "refused"} : Move(r, to)
        BY <1>4 DEF ReadPage
    <2>2. now' \in [Reader -> 0..MaxTime]
        <3>1. UNCHANGED now \/ \E at \in since[r]..clock : now' = [now EXCEPT ![r] = at]
            BY <1>4 DEF ReadPage
        <3> QED BY <1>0, <3>1
    <2>3. shown' = [x \in Reader |-> shown'[x]]
        <3>1. UNCHANGED shown \/ \E days : shown' = [shown EXCEPT ![r] = days]
            BY <1>4 DEF ReadPage
        <3> QED BY <3>1
    <2> QED BY <1>4, <2>1, <2>2, <2>3, MoveType DEF ReadPage
<1>5. ASSUME NEW r \in Reader, NextPage(r) PROVE IType'
    <2>1. AfterAuthentication(req[r]) \in {"begun", "found", "listed", "answered", "refused"}
        BY DEF AfterAuthentication
    <2>2. Move(r, AfterAuthentication(req[r]))
        BY <1>5 DEF NextPage
    <2>3. /\ pc' \in [Reader -> {"idle", "begun", "found", "listed", "answered", "refused"}]
          /\ since' \in [Reader -> 0..MaxTime]
          /\ \A x \in Reader \ {r} : pc'[x] = pc[x]
        BY <2>1, <2>2, MoveType
    <2>4. pc[r] = "answered" /\ req[r] \in Request /\ Paged(req[r])
        BY <1>5 DEF NextPage
    <2>5. PICK range \in ResolveRange(req[r].from, req[r].to, UtcDateOf(now[r])) :
              req[r].page < TotalPages(range[1], range[2], req[r].size)
        BY <1>5 DEF NextPage
    <2>6. req[r].page + 1 \in 1..MaxRangeDays
        <3>1. /\ req[r].from \in AskedDate /\ req[r].to \in AskedDate
              /\ req[r].page \in 1..MaxRangeDays /\ req[r].size \in PageSize
            BY <2>4, RequestIs
        <3>2. UtcDateOf(now[r]) \in Nat
            BY DayOf, CalendarAssumption
        <3>3. range[1] \in Int /\ range[2] \in Int /\ range[1] <= range[2]
              /\ range[2] - range[1] + 1 <= MaxRangeDays
            BY <2>5, <3>1, <3>2, RangeIs
        <3>4. TotalPages(range[1], range[2], req[r].size) \in 1..(range[2] - range[1] + 1)
            BY <3>1, <3>3, Pages, PagingAssumption
        <3> QED BY <2>5, <3>1, <3>3, <3>4, PagingAssumption
    <2>7. [req[r] EXCEPT !.page = req[r].page + 1] \in Request
        BY <2>4, <2>6, PageOfRequest
    <2>8. req' = [req EXCEPT ![r] = [req[r] EXCEPT !.page = req[r].page + 1]]
        BY <1>5 DEF NextPage
    <2> DEFINE next == [req[r] EXCEPT !.page = req[r].page + 1]
    <2> HIDE DEF next
    <2>9. req' = [req EXCEPT ![r] = next] /\ next \in Request
        BY <2>7, <2>8 DEF next
    <2>10. /\ req' \in [Reader -> Request \cup {NoRequest}] /\ req'[r] \in Request
           /\ \A x \in Reader \ {r} : req'[x] = req[x]
        BY <2>9
    <2>11. UNCHANGED <<clock, status, events, now, roster, shown, before>>
        BY <1>5 DEF NextPage
    <2> QED BY <2>3, <2>10, <2>11
<1>6. ASSUME NEW r \in Reader, ReadRoster(r) PROVE IType'
    <2>1. Move(r, "listed")
        BY <1>6 DEF ReadRoster
    <2>2. now' \in [Reader -> 0..MaxTime]
        <3>1. PICK at \in since[r]..clock : now' = [now EXCEPT ![r] = at]
            BY <1>6 DEF ReadRoster
        <3> QED BY <1>0, <3>1
    <2>3. roster' \in [Reader -> SUBSET User]
        BY <1>6 DEF ReadRoster
    <2> QED BY <1>6, <2>1, <2>2, <2>3, MoveType DEF ReadRoster
<1>7. ASSUME NEW r \in Reader, ReadTeamEvents(r) PROVE IType'
    <2>1. Move(r, "answered")
        BY <1>7 DEF ReadTeamEvents
    <2>2. shown' = [x \in Reader |-> shown'[x]]
        BY <1>7 DEF ReadTeamEvents
    <2> QED BY <1>7, <2>1, <2>2, MoveType DEF ReadTeamEvents
<1>8. ASSUME NEW r \in Reader, Finish(r) PROVE IType'
    <2>1. shown' = [x \in Reader |-> shown'[x]] /\ before' = [x \in Reader |-> before'[x]]
        BY <1>8 DEF Finish
    <2>2. since' \in [Reader -> 0..MaxTime] /\ now' \in [Reader -> 0..MaxTime]
        BY <1>8, CalendarAssumption DEF Finish
    <2> QED BY <1>8, <2>1, <2>2 DEF Finish
<1>9. ASSUME NEW u \in User, NEW e \in Event, Record(u, e) PROVE IType'
    <2>1. events[u] \in Seq(Event) /\ Ordered(events[u])
        BY DEF Ordered
    <2>2. Append(events[u], e) \in Seq(Event)
        BY <2>1, AppendProperties
    <2>3. Ordered(Append(events[u], e))
        BY <1>9, <2>1, OrderedOneMore DEF Record
    <2>4. events' = [events EXCEPT ![u] = Append(events[u], e)]
        BY <1>9 DEF Record
    <2>5. events' \in [User -> Seq(Event)]
        BY <2>2, <2>4
    <2>6. \A x \in User : Ordered(events'[x])
        BY <2>3, <2>4 DEF Ordered
    <2> QED BY <1>9, <2>5, <2>6 DEF Record, Ordered
<1>10. ASSUME NEW u \in User, NEW new \in {"ACTIVE", "INACTIVE", "GONE"}, SetStatus(u, new)
       PROVE  IType'
    <2>1. <<>> \in Seq(Event) /\ Ordered(<<>>)
        BY DEF Ordered
    <2>2. \A x \in User : events'[x] = events[x] \/ events'[x] = <<>>
        BY <1>10 DEF SetStatus
    <2>3. events' \in [User -> Seq(Event)]
        BY <1>10, <2>1 DEF SetStatus
    <2>4. \A x \in User : Ordered(events'[x])
        BY <2>1, <2>2 DEF Ordered
    <2> QED BY <1>10, <2>3, <2>4 DEF SetStatus, Ordered
<1>11. ASSUME Tick PROVE IType'
    BY <1>11, CalendarAssumption DEF Tick
<1>12. ASSUME UNCHANGED vars PROVE IType'
    BY <1>12 DEF vars
<1> QED BY <1>1, <1>2, <1>3, <1>4, <1>5, <1>6, <1>7, <1>8, <1>9, <1>10, <1>11, <1>12 DEF Next

LEMMA ITypeAlways == Spec => []IType
<1> QED BY ITypeInit, ITypeStep, PTL DEF Spec

\* Types, and with them that the events of each user are kept in the order of their timestamps,
\* as _events_query asks for them (queries.py:132-136).
THEOREM TypeCorrect == Spec => []TypeOK
<1>1. IType => TypeOK
    BY DEF IType
<1> QED BY <1>1, ITypeAlways, PTL

\* build_sessions (queries.py:162-211) shows each event that it is given in one session, and in
\* order, whichever part of a history it is given: repeated types and ragged edges included.
THEOREM NothingIsLost == Spec => []NoEventIsLost
<1>1. IType => NoEventIsLost
    <2> SUFFICES ASSUME IType, NEW u \in User, NEW times \in SUBSET (0..MaxTime)
                 PROVE  LET es == Select(events[u], {e \in Event : e.at \in times})
                        IN  EventsOf(BuildSessions(es)) = es
        BY DEF NoEventIsLost
    <2> DEFINE es == Select(events[u], {e \in Event : e.at \in times})
    <2>1. es \in Seq(Event)
        BY SelectOneMore DEF IType, TypeOK
    <2> HIDE DEF es
    <2>2. EventsOf(BuildSessions(es)) = es
        BY <2>1, BuildSessionsShowsAll
    <2> QED BY <2>2 DEF es
<1> QED BY <1>1, ITypeAlways, PTL

-----------------------------------------------------------------------------
(* The state that a day tells.                                             *)

LEMMA RangeType ==
    ASSUME NEW es \in Seq(Event), NEW start, NEW end
    PROVE  InRange(es, start, end) \in Seq(Event)
BY SelectOneMore DEF InRange

LEMMA SelectNone ==
    ASSUME NEW es \in Seq(Event), NEW S, \A i \in DOMAIN es : es[i] \notin S
    PROVE  Select(es, S) = <<>>
<1> DEFINE None(s) == \A i \in DOMAIN s : s[i] \notin S
           P == {s \in Seq(Event) : None(s) => Select(s, S) = <<>>}
<1>1. <<>> \in P
    BY SelectOneMore
<1>2. ASSUME NEW s \in Seq(Event), NEW e \in Event, s \in P PROVE Append(s, e) \in P
    <2>1. /\ Append(s, e) \in Seq(Event) /\ Len(s) \in Nat /\ Len(Append(s, e)) = Len(s) + 1
          /\ \A i \in 1..Len(s) : Append(s, e)[i] = s[i]
          /\ Append(s, e)[Len(s) + 1] = e
        BY AppendProperties, LenProperties
    <2>2. DOMAIN s = 1..Len(s) /\ DOMAIN Append(s, e) = 1..(Len(s) + 1)
        BY <2>1, LenProperties
    <2>3. None(Append(s, e)) => None(s) /\ e \notin S
        BY <2>1, <2>2
    <2>4. Select(Append(s, e), S) = IF e \in S THEN Append(Select(s, S), e) ELSE Select(s, S)
        BY SelectOneMore
    <2> HIDE DEF None
    <2> QED BY <1>2, <2>1, <2>3, <2>4
<1> HIDE DEF P
<1>3. es \in P
    BY <1>1, <1>2, EveryHistory
<1> QED BY <1>3 DEF P

\* When nothing is later than its end, a range ends with the last event or is empty.
LEMMA LastOfRange ==
    ASSUME NEW es \in Seq(Event), Ordered(es), NEW start \in Int, NEW end \in Int,
           \A i \in DOMAIN es : es[i].at < end
    PROVE  \/ InRange(es, start, end) = <<>>
           \/ /\ es # <<>> /\ InRange(es, start, end) # <<>>
              /\ Last(InRange(es, start, end)) = Last(es)
<1> DEFINE S == {e \in Event : start <= e.at /\ e.at < end}
<1>1. CASE es = <<>>
    BY <1>1, SelectOneMore DEF InRange
<1>2. CASE es # <<>>
    <2>1. PICK s \in Seq(Event), e \in Event : es = Append(s, e)
        BY <1>2, SequenceEmptyOrAppend
    <2>2. /\ Len(s) \in Nat /\ Len(es) = Len(s) + 1 /\ es[Len(es)] = e
          /\ DOMAIN es = 1..Len(es) /\ \A i \in 1..Len(es) : es[i] \in Event
        BY <2>1, AppendProperties, LenProperties, ElementOfSeq
    <2>3. InRange(es, start, end) = IF e \in S THEN Append(Select(s, S), e) ELSE Select(s, S)
        BY <2>1, SelectOneMore DEF InRange
    <2>4. CASE e \in S
        <3>1. Select(s, S) \in Seq(Event)
            BY SelectOneMore
        <3>2. InRange(es, start, end) = Append(Select(s, S), e)
            BY <2>3, <2>4
        <3> HIDE DEF S
        <3>3. /\ Append(Select(s, S), e) # <<>>
              /\ Append(Select(s, S), e)[Len(Append(Select(s, S), e))] = e
            BY <3>1, AppendProperties
        <3> QED BY <1>2, <2>2, <3>2, <3>3 DEF Last
    <2>5. CASE e \notin S
        <3>1. e.at < start /\ e.at \in Nat
            <4>1. e.at \in 0..MaxTime /\ e.at < end
                BY <2>2 DEF Event
            <4> QED BY <2>5, <4>1
        <3>2. ASSUME NEW i \in DOMAIN es PROVE es[i] \notin S
            <4>1. es[i].at <= e.at /\ es[i].at \in 0..MaxTime
                <5>1. es[i].at \in 0..MaxTime
                    BY <2>2 DEF Event
                <5>2. i = Len(es) \/ i < Len(es)
                    BY <2>2
                <5> QED BY <2>2, <3>1, <5>1, <5>2 DEF Ordered
            <4> QED BY <3>1, <4>1
        <3> HIDE DEF S
        <3>3. Select(es, S) = <<>>
            BY <3>2, SelectNone
        <3> QED BY <3>3 DEF InRange, S
    <2> QED BY <2>4, <2>5
<1> QED BY <1>1, <1>2

LEMMA NoSessionsOfNothing == BuildSessions(<<>>) = <<>>
<1>1. Paired(<<>>) = PairStart
    BY PairOneMore
<1> QED BY <1>1 DEF BuildSessions, Paired, PairStart

\* A day with a session, after which nothing was recorded, tells the state.
LEMMA DayTellsState ==
    ASSUME NEW es \in Seq(Event), Ordered(es), NEW day \in Nat,
           \A i \in DOMAIN es : es[i].at < (day + 1) * DayLength,
           GetDay(es, day).sessions # <<>>
    PROVE  StateOf(GetDay(es, day)) = State(es)
<1> DEFINE X == InRange(es, day * DayLength, (day + 1) * DayLength)
<1>1. day * DayLength \in Int /\ (day + 1) * DayLength \in Int
    BY CalendarAssumption
<1>2. \/ X = <<>>
      \/ es # <<>> /\ X # <<>> /\ Last(X) = Last(es)
    BY <1>1, LastOfRange
<1>3. GetDay(es, day) = BuildDay(day, X)
    BY DEF GetDay, DayBounds
<1> HIDE DEF X
<1>4. X # <<>>
    BY <1>3, NoSessionsOfNothing DEF BuildDay
<1>5. BuildDay(day, X).status = IF Last(es).type = "CHECK_IN" THEN "CHECKED_IN" ELSE "COMPLETED"
    BY <1>2, <1>4 DEF BuildDay
<1> QED BY <1>2, <1>3, <1>4, <1>5 DEF StateOf, State

\* The date that a request of one day is for.
DayAsked(r) == IF req[r].day = NoDate THEN UtcDateOf(now[r]) ELSE req[r].day

\* Nothing is recorded ahead of time, and an answer that has not been read is still true.
ILive ==
    /\ \A u \in User : \A i \in DOMAIN events[u] : events[u][i].at <= clock
    /\ \A r \in Reader : pc[r] = "listed" => req[r].route \in {"team", "hours"}
    /\ \A r \in Reader :
          pc[r] = "answered" /\ req[r].route \in {"me", "user"} =>
              shown[r][req[r].target] = GetDay(events[req[r].target], DayAsked(r))

LEMMA MoveTo ==
    ASSUME IType, NEW r \in Reader, NEW to, Move(r, to)
    PROVE  pc'[r] = to /\ \A x \in Reader \ {r} : pc'[x] = pc[x]
BY DEF IType, TypeOK, Move

\* A step of one reader leaves the others as they were.
LEMMA OthersStay ==
    ASSUME IType, NEW r \in Reader,
           \/ \E q \in FirstRequest : Begin(r, q)
           \/ FindTenantUser(r) \/ ReadDay(r) \/ ReadPage(r) \/ NextPage(r)
           \/ ReadRoster(r) \/ ReadTeamEvents(r) \/ Finish(r)
    PROVE  /\ UNCHANGED <<clock, status, events>>
           /\ \A x \in Reader \ {r} :
                 /\ pc'[x] = pc[x] /\ req'[x] = req[x] /\ now'[x] = now[x]
                 /\ shown'[x] = shown[x] /\ before'[x] = before[x]
                 /\ since'[x] = since[x]
<1> USE DEF IType, TypeOK, Move
<1>1. ASSUME NEW q \in FirstRequest, Begin(r, q)
      PROVE  /\ UNCHANGED <<clock, status, events>>
             /\ \A x \in Reader \ {r} :
                   /\ pc'[x] = pc[x] /\ req'[x] = req[x] /\ now'[x] = now[x]
                   /\ shown'[x] = shown[x] /\ before'[x] = before[x]
                   /\ since'[x] = since[x]
    BY <1>1 DEF Begin
<1>2. CASE FindTenantUser(r)
    <2>1. \E to : Move(r, to)
        BY <1>2 DEF FindTenantUser
    <2> QED BY <1>2, <2>1 DEF FindTenantUser
<1>3. CASE ReadDay(r)
    <2>1. /\ \E at : now' = [now EXCEPT ![r] = at]
          /\ \E days : shown' = [shown EXCEPT ![r] = days]
        BY <1>3 DEF ReadDay
    <2> QED BY <1>3, <2>1 DEF ReadDay
<1>4. CASE ReadPage(r)
    <2>1. /\ UNCHANGED now \/ \E at : now' = [now EXCEPT ![r] = at]
          /\ UNCHANGED shown \/ \E days : shown' = [shown EXCEPT ![r] = days]
          /\ \E to : Move(r, to)
        BY <1>4 DEF ReadPage
    <2> QED BY <1>4, <2>1 DEF ReadPage
<1>5. CASE NextPage(r)
    BY <1>5 DEF NextPage
<1>6. CASE ReadRoster(r)
    <2>1. \E at : now' = [now EXCEPT ![r] = at]
        BY <1>6 DEF ReadRoster
    <2> QED BY <1>6, <2>1 DEF ReadRoster
<1>7. CASE ReadTeamEvents(r)
    BY <1>7 DEF ReadTeamEvents
<1>8. CASE Finish(r)
    BY <1>8 DEF Finish
<1> QED BY <1>1, <1>2, <1>3, <1>4, <1>5, <1>6, <1>7, <1>8

LEMMA ILiveStep == IType /\ IType' /\ ILive /\ [Next]_vars => ILive'
<1> SUFFICES ASSUME IType, IType', ILive, [Next]_vars PROVE ILive'
    OBVIOUS
<1> DEFINE Row(r) ==
        /\ pc[r] = "listed" => req[r].route \in {"team", "hours"}
        /\ pc[r] = "answered" /\ req[r].route \in {"me", "user"} =>
               shown[r][req[r].target] = GetDay(events[req[r].target], DayAsked(r))
<1>1. ASSUME NEW r \in Reader,
             \/ \E q \in FirstRequest : Begin(r, q)
             \/ FindTenantUser(r) \/ ReadDay(r) \/ ReadPage(r) \/ NextPage(r)
             \/ ReadRoster(r) \/ ReadTeamEvents(r) \/ Finish(r)
      PROVE  ILive'
    <2>1. /\ UNCHANGED <<clock, status, events>>
          /\ \A x \in Reader \ {r} :
                /\ pc'[x] = pc[x] /\ req'[x] = req[x] /\ now'[x] = now[x]
                /\ shown'[x] = shown[x] /\ before'[x] = before[x]
        BY <1>1, OthersStay
    <2>2. \A x \in Reader \ {r} : Row(x)'
        BY <2>1 DEF ILive, DayAsked
    <2>3. Row(r)'
        <3>1. ASSUME NEW q \in FirstRequest, Begin(r, q) PROVE Row(r)'
            <4>1. pc'[r] \in {"begun", "found"}
                BY <3>1, MoveTo DEF Begin, AfterAuthentication
            <4> QED BY <4>1
        <3>2. CASE FindTenantUser(r)
            <4>1. PICK to \in {"found", "refused"} : Move(r, to)
                BY <3>2 DEF FindTenantUser
            <4>2. pc'[r] \in {"found", "refused"}
                BY <4>1, MoveTo
            <4> QED BY <4>2
        <3>3. CASE ReadDay(r)
            <4>1. pc'[r] = "answered" /\ UNCHANGED <<events, req>>
                BY <3>3, MoveTo DEF ReadDay
            <4>2. PICK at \in since[r]..clock :
                      /\ now' = [now EXCEPT ![r] = at]
                      /\ shown' = [shown EXCEPT ![r] =
                             [x \in {req[r].target} |-> GetDay(events[x],
                                 IF req[r].day = NoDate THEN UtcDateOf(at) ELSE req[r].day)]]
                BY <3>3 DEF ReadDay
            <4>3. now'[r] = at
                BY <4>2 DEF IType, TypeOK
            <4>4. shown'[r][req[r].target] = GetDay(events[req[r].target],
                                 IF req[r].day = NoDate THEN UtcDateOf(at) ELSE req[r].day)
                BY <4>2 DEF IType
            <4> QED BY <4>1, <4>3, <4>4 DEF DayAsked
        <3>4. CASE ReadPage(r)
            <4>1. PICK to \in {"answered", "refused"} : Move(r, to)
                BY <3>4 DEF ReadPage
            <4>2. pc'[r] \in {"answered", "refused"} /\ UNCHANGED req /\ Paged(req[r])
                BY <3>4, <4>1, MoveTo DEF ReadPage
            <4> QED BY <4>2 DEF Paged
        <3>5. CASE NextPage(r)
            <4>1. pc'[r] \in {"begun", "found"}
                BY <3>5, MoveTo DEF NextPage, AfterAuthentication
            <4> QED BY <4>1
        <3>6. CASE ReadRoster(r)
            <4>1. pc'[r] = "listed" /\ UNCHANGED req /\ req[r].route \in {"team", "hours"}
                BY <3>6, MoveTo DEF ReadRoster
            <4> QED BY <4>1
        <3>7. CASE ReadTeamEvents(r)
            <4>1. pc'[r] = "answered" /\ UNCHANGED req /\ req[r].route \in {"team", "hours"}
                BY <3>7, MoveTo DEF ReadTeamEvents, ILive
            <4> QED BY <4>1
        <3>8. CASE Finish(r)
            <4>1. pc'[r] = "idle"
                BY <3>8 DEF Finish, IType, TypeOK
            <4> QED BY <4>1
        <3> QED BY <1>1, <3>1, <3>2, <3>3, <3>4, <3>5, <3>6, <3>7, <3>8
    <2> QED BY <2>1, <2>2, <2>3 DEF ILive
<1>2. ASSUME UNCHANGED <<pc, req, now, shown>>, AnswersAreRead PROVE \A r \in Reader : Row(r)'
    BY <1>2 DEF ILive, AnswersAreRead, Paged
<1>3. ASSUME NEW u \in User, NEW e \in Event, Record(u, e) PROVE ILive'
    <2>1. \A r \in Reader : Row(r)'
        BY <1>2, <1>3 DEF Record
    <2>2. /\ events[u] \in Seq(Event) /\ e.at = clock /\ UNCHANGED clock
          /\ events' = [events EXCEPT ![u] = Append(events[u], e)]
        BY <1>3 DEF Record, IType, TypeOK
    <2>3. \A i \in DOMAIN Append(events[u], e) :
              \/ Append(events[u], e)[i] = e
              \/ i \in DOMAIN events[u] /\ Append(events[u], e)[i] = events[u][i]
        <3> DEFINE es == events[u]
        <3>1. /\ Append(es, e) \in Seq(Event) /\ Len(es) \in Nat
              /\ Len(Append(es, e)) = Len(es) + 1 /\ DOMAIN es = 1..Len(es)
              /\ \A i \in 1..Len(es) : Append(es, e)[i] = es[i]
              /\ Append(es, e)[Len(es) + 1] = e
            BY <2>2, AppendProperties, LenProperties
        <3>2. DOMAIN Append(es, e) = 1..(Len(es) + 1)
            BY <3>1, LenProperties
        <3> QED BY <3>1, <3>2
    <2>4. \A i \in DOMAIN Append(events[u], e) : Append(events[u], e)[i].at <= clock
        <3>1. clock <= clock /\ \A i \in DOMAIN events[u] : events[u][i].at <= clock
            BY DEF ILive, IType, TypeOK
        <3> QED BY <2>2, <2>3, <3>1
    <2>5. \A x \in User : \A i \in DOMAIN events'[x] : events'[x][i].at <= clock
        BY <2>2, <2>4 DEF ILive, IType, TypeOK
    <2> QED BY <2>1, <2>2, <2>5 DEF ILive
<1>4. ASSUME NEW u \in User, NEW new \in {"ACTIVE", "INACTIVE", "GONE"}, SetStatus(u, new)
      PROVE  ILive'
    <2>1. \A r \in Reader : Row(r)'
        BY <1>2, <1>4 DEF SetStatus
    <2>2. \A x \in User : events'[x] = events[x] \/ events'[x] = <<>>
        BY <1>4 DEF SetStatus, IType, TypeOK
    <2>3. UNCHANGED clock
        BY <1>4 DEF SetStatus
    <2>4. \A x \in User : \A i \in DOMAIN events'[x] : events'[x][i].at <= clock
        BY <2>2 DEF ILive
    <2> QED BY <2>1, <2>3, <2>4 DEF ILive
<1>5. ASSUME Tick PROVE ILive'
    <2>1. \A r \in Reader : Row(r)'
        BY <1>2, <1>5 DEF Tick
    <2>2. ASSUME NEW x \in User, NEW i \in DOMAIN events[x] PROVE events[x][i].at <= clock + 1
        <3>1. events[x][i] \in Event /\ clock \in Nat
            <4>1. events[x] \in Seq(Event) /\ clock \in Nat
                BY DEF IType, TypeOK
            <4> QED BY <4>1, ElementOfSeq, LenProperties
        <3>2. events[x][i].at \in Nat
            BY <3>1 DEF Event
        <3> QED BY <3>1, <3>2 DEF ILive
    <2> QED BY <1>5, <2>1, <2>2 DEF Tick, ILive
<1>6. ASSUME UNCHANGED vars PROVE ILive'
    BY <1>6 DEF vars, ILive, DayAsked
<1> QED BY <1>1, <1>3, <1>4, <1>5, <1>6 DEF Next

LEMMA ILiveAlways == Spec => []ILive
<1>1. Init => ILive
    BY DEF Init, ILive
<1> QED BY <1>1, ITypeAlways, ILiveStep, PTL DEF Spec

\* The state that GET /attendance/me derives from the day of its own clock is the state of the
\* last event, when that day has any.
THEOREM StateIsToldOnceRecorded == Spec => []LiveStateOnceRecorded
<1>1. IType /\ ILive => LiveStateOnceRecorded
    <2> SUFFICES ASSUME IType, ILive, NEW r \in Reader, AnswersToday(r),
                        shown[r][req[r].target].sessions # <<>>
                 PROVE  StateIsTold(r)
        BY DEF LiveStateOnceRecorded
    <2>1. PICK u \in User : u = req[r].target
        BY RequestIs DEF AnswersToday, IType
    <2>2. PICK d \in Nat : d = UtcDateOf(clock)
        BY DayOf, CalendarAssumption DEF IType, TypeOK
    <2>3. shown[r][u] = GetDay(events[u], d)
        BY <2>1, <2>2 DEF ILive, AnswersToday, DayAsked
    <2>4. events[u] \in Seq(Event) /\ Ordered(events[u])
        BY DEF IType, TypeOK, Ordered
    <2>5. clock \in Nat /\ clock < (d + 1) * DayLength
        <3>1. clock \in Nat
            BY DEF IType, TypeOK
        <3> QED BY <2>2, <3>1, DayOf
    <2>6. ASSUME NEW i \in DOMAIN events[u] PROVE events[u][i].at < (d + 1) * DayLength
        <3>1. events[u][i] \in Event
            BY <2>4, ElementOfSeq, LenProperties
        <3>2. events[u][i].at \in Nat /\ (d + 1) * DayLength \in Nat
            BY <3>1, CalendarAssumption DEF Event
        <3> QED BY <2>5, <3>2 DEF ILive
    <2>7. StateOf(GetDay(events[u], d)) = State(events[u])
        BY <2>1, <2>3, <2>4, <2>6, DayTellsState
    <2> QED BY <2>1, <2>3, <2>7 DEF StateIsTold
<1> QED BY <1>1, ITypeAlways, ILiveAlways, PTL

-----------------------------------------------------------------------------
(* Days and pages.                                                         *)

\* Choosing from what was chosen.
LEMMA SelectTwice ==
    ASSUME NEW es \in Seq(Event), NEW S, NEW T, NEW U,
           \A e \in Event : e \in U <=> e \in S /\ e \in T
    PROVE  Select(Select(es, S), T) = Select(es, U)
<1> DEFINE P == {s \in Seq(Event) : Select(Select(s, S), T) = Select(s, U)}
<1>1. <<>> \in P
    <2>1. <<>> \in Seq(Event)
        OBVIOUS
    <2> QED BY <2>1, SelectOneMore
<1>2. ASSUME NEW s \in Seq(Event), NEW e \in Event, s \in P PROVE Append(s, e) \in P
    <2>1. Append(s, e) \in Seq(Event) /\ Select(s, S) \in Seq(Event)
        BY AppendProperties, SelectOneMore
    <2>2. Select(Append(s, e), S) = IF e \in S THEN Append(Select(s, S), e) ELSE Select(s, S)
        BY SelectOneMore
    <2>3. Select(Append(Select(s, S), e), T) =
              IF e \in T THEN Append(Select(Select(s, S), T), e) ELSE Select(Select(s, S), T)
        BY <2>1, SelectOneMore
    <2>4. Select(Append(s, e), U) = IF e \in U THEN Append(Select(s, U), e) ELSE Select(s, U)
        BY SelectOneMore
    <2>5. Select(Select(s, S), T) = Select(s, U)
        BY <1>2
    <2>6. Select(Select(Append(s, e), S), T) = Select(Append(s, e), U)
        <3>1. CASE e \in S
            <4>1. Select(Select(Append(s, e), S), T) =
                      IF e \in T THEN Append(Select(s, U), e) ELSE Select(s, U)
                BY <2>2, <2>3, <2>5, <3>1
            <4> QED BY <2>4, <3>1, <4>1
        <3>2. CASE e \notin S
            BY <2>2, <2>4, <2>5, <3>2
        <3> QED BY <3>1, <3>2
    <2> QED BY <2>1, <2>6
<1> HIDE DEF P
<1>3. es \in P
    BY <1>1, <1>2, EveryHistory
<1> QED BY <1>3 DEF P

LEMMA OrderedPrefix ==
    ASSUME NEW es \in Seq(Event), NEW e \in Event, Ordered(Append(es, e))
    PROVE  Ordered(es) /\ \A i \in DOMAIN es : es[i].at < e.at
<1>1. /\ Append(es, e) \in Seq(Event) /\ Len(es) \in Nat /\ Len(Append(es, e)) = Len(es) + 1
      /\ \A i \in 1..Len(es) : Append(es, e)[i] = es[i]
      /\ Append(es, e)[Len(es) + 1] = e
    BY AppendProperties, LenProperties
<1>2. DOMAIN es = 1..Len(es) /\ DOMAIN Append(es, e) = 1..(Len(es) + 1)
    BY <1>1, LenProperties
<1>3. \A i, j \in 1..(Len(es) + 1) : i < j => Append(es, e)[i].at < Append(es, e)[j].at
    BY <1>2 DEF Ordered
<1>4. \A i \in 1..Len(es) : i \in 1..(Len(es) + 1) /\ i < Len(es) + 1
    BY <1>1
<1>5. Len(es) + 1 \in 1..(Len(es) + 1)
    BY <1>1
<1> QED BY <1>1, <1>2, <1>3, <1>4, <1>5 DEF Ordered

\* "the same half-open range": two that adjoin hold what one over both does.
LEMMA RangesAdjoin ==
    ASSUME NEW es \in Seq(Event), Ordered(es),
           NEW a \in Int, NEW b \in Int, NEW c \in Int, a <= b, b <= c
    PROVE  InRange(es, a, b) \o InRange(es, b, c) = InRange(es, a, c)
<1> DEFINE In(x, y) == {e \in Event : x <= e.at /\ e.at < y}
           P == {s \in Seq(Event) :
                    Ordered(s) => InRange(s, a, b) \o InRange(s, b, c) = InRange(s, a, c)}
<1>1. <<>> \in P
    <2>1. \A x, y : InRange(<<>>, x, y) = <<>>
        BY SelectOneMore DEF InRange
    <2>2. <<>> \in Seq(Event) /\ <<>> \o <<>> = <<>>
        BY ConcatEmptySeq
    <2> QED BY <2>1, <2>2
<1>2. ASSUME NEW s \in Seq(Event), NEW e \in Event, s \in P, Ordered(Append(s, e))
      PROVE  InRange(Append(s, e), a, b) \o InRange(Append(s, e), b, c) = InRange(Append(s, e), a, c)
    <2> DEFINE X == InRange(s, a, b)
               Y == InRange(s, b, c)
    <2>1. Ordered(s) /\ \A i \in DOMAIN s : s[i].at < e.at
        BY <1>2, OrderedPrefix
    <2>2. X \in Seq(Event) /\ Y \in Seq(Event) /\ X \o Y = InRange(s, a, c)
        BY <1>2, <2>1, SelectOneMore DEF InRange
    <2>3. \A x, y : InRange(Append(s, e), x, y) =
                        IF e \in In(x, y) THEN Append(InRange(s, x, y), e) ELSE InRange(s, x, y)
        BY SelectOneMore DEF InRange
    <2>4. e.at \in Nat
        BY DEF Event
    <2> HIDE DEF X, Y
    <2>5. CASE e.at < a \/ c <= e.at
        <3>1. e \notin In(a, b) /\ e \notin In(b, c) /\ e \notin In(a, c)
            BY <2>4, <2>5
        <3> QED BY <2>2, <2>3, <3>1 DEF X, Y
    <2>6. CASE a <= e.at /\ e.at < b
        <3>1. e \in In(a, b) /\ e \notin In(b, c) /\ e \in In(a, c)
            BY <2>4, <2>6
        <3>2. Y = <<>>
            <4>1. ASSUME NEW i \in DOMAIN s PROVE s[i] \notin In(b, c)
                <5>1. s[i] \in Event
                    BY ElementOfSeq, LenProperties
                <5>2. s[i].at \in Nat
                    BY <5>1 DEF Event
                <5> QED BY <2>1, <2>4, <2>6, <5>2
            <4> HIDE DEF In
            <4>2. Select(s, In(b, c)) = <<>>
                BY <4>1, SelectNone
            <4> QED BY <4>2 DEF Y, InRange, In
        <3>3. X \o Y = X /\ Append(X, e) \o Y = Append(X, e)
            BY <2>2, <3>2, AppendProperties, ConcatEmptySeq
        <3> HIDE DEF In
        <3> QED BY <2>2, <2>3, <3>1, <3>3 DEF X, Y
    <2>7. CASE b <= e.at /\ e.at < c
        <3>1. e \notin In(a, b) /\ e \in In(b, c) /\ e \in In(a, c)
            BY <2>4, <2>7
        <3>2. X \o Append(Y, e) = Append(X \o Y, e)
            <4>1. X \o Y \in Seq(Event) /\ <<e>> \in Seq(Event)
                <5>1. X \o Y \in Seq(Event)
                    BY <2>2, RangeType
                <5> QED BY <5>1
            <4>2. Append(Y, e) = Y \o <<e>> /\ Append(X \o Y, e) = (X \o Y) \o <<e>>
                BY <2>2, <4>1, AppendIsConcat
            <4>3. \A u \in Seq(Event) : (X \o Y) \o u = X \o (Y \o u)
                BY <2>2, ConcatOfEvents
            <4> QED BY <4>1, <4>2, <4>3
        <3> HIDE DEF In
        <3> QED BY <2>2, <2>3, <3>1, <3>2 DEF X, Y
    <2> QED BY <2>4, <2>5, <2>6, <2>7
<1>3. ASSUME NEW s \in Seq(Event), NEW e \in Event, s \in P PROVE Append(s, e) \in P
    <2>1. Append(s, e) \in Seq(Event)
        BY AppendProperties
    <2> QED BY <1>2, <1>3, <2>1
<1> HIDE DEF P
<1>4. es \in P
    BY <1>1, <1>3, EveryHistory
<1> QED BY <1>4 DEF P

Day == [date : Int, status : DayStatus, sessions : Seq(SessionType)]

LEMMA GetDayIs ==
    ASSUME NEW es \in Seq(Event), NEW day \in Int
    PROVE  /\ GetDay(es, day) \in Day /\ GetDay(es, day).date = day
           /\ EventsOf(GetDay(es, day).sessions) =
                  InRange(es, day * DayLength, (day + 1) * DayLength)
           /\ GetDay(es, day) = BuildDay(day, InRange(es, day * DayLength, (day + 1) * DayLength))
<1> DEFINE X == InRange(es, day * DayLength, (day + 1) * DayLength)
<1>1. X \in Seq(Event)
    BY SelectOneMore DEF InRange
<1>2. GetDay(es, day) = BuildDay(day, X)
    BY DEF GetDay, DayBounds
<1> HIDE DEF X
<1>3. BuildSessions(X) \in Seq(SessionType) /\ EventsOf(BuildSessions(X)) = X
    BY <1>1, BuildSessionsShowsAll
<1>4. /\ BuildDay(day, X).date = day /\ BuildDay(day, X).sessions = BuildSessions(X)
      /\ BuildDay(day, X) \in Day
    BY <1>3 DEF BuildDay, Day, DayStatus
<1> QED BY <1>2, <1>3, <1>4 DEF X

\* The days of a range, newest first.
DaysOf(es, from, to) == [i \in 1..(to - from + 1) |-> GetDay(es, to - (i - 1))]

LEMMA DaysOfType ==
    ASSUME NEW es \in Seq(Event), NEW from \in Int, NEW to \in Int, from <= to
    PROVE  /\ DaysOf(es, from, to) \in Seq(Day)
           /\ Len(DaysOf(es, from, to)) = to - from + 1
           /\ \A i \in 1..(to - from + 1) : DaysOf(es, from, to)[i] = GetDay(es, to - (i - 1))
<1> DEFINE n == to - from + 1
<1>1. n \in Nat /\ \A i \in 1..n : GetDay(es, to - (i - 1)) \in Day
    BY GetDayIs
<1>2. DaysOf(es, from, to) = [i \in 1..n |-> GetDay(es, to - (i - 1))]
    BY DEF DaysOf
<1> HIDE DEF n
<1>3. DaysOf(es, from, to) \in Seq(Day) /\ DOMAIN DaysOf(es, from, to) = 1..n
    BY <1>1, <1>2
<1>4. Len(DaysOf(es, from, to)) = n
    BY <1>1, <1>3, LenProperties
<1>5. \A i \in 1..n : DaysOf(es, from, to)[i] = GetDay(es, to - (i - 1))
    BY <1>2
<1> QED BY <1>3, <1>4, <1>5 DEF n

LEMMA MinOfTwo ==
    ASSUME NEW a \in Int, NEW b \in Int
    PROVE  Min({a, b}) = IF a <= b THEN a ELSE b
BY DEF Min

LEMMA MaxOfTwo ==
    ASSUME NEW a \in Int, NEW b \in Int
    PROVE  Max({a, b}) = IF a <= b THEN b ELSE a
BY DEF Max

OnDay(day) == {e \in Event : UtcDateOf(e.at) = day}

\* What is loaded for the window, grouped by date: every day gets what the route for
\* one day would have read.
LEMMA GroupedIs ==
    ASSUME NEW es \in Seq(Event), NEW first \in Int, NEW last \in Int, NEW day \in first..last
    PROVE  Select(InRange(es, RangeBounds(first, last)[1], RangeBounds(first, last)[2]),
                  OnDay(day))
           = InRange(es, day * DayLength, (day + 1) * DayLength)
<1> DEFINE S == {e \in Event : first * DayLength <= e.at /\ e.at < (last + 1) * DayLength}
           T == OnDay(day)
           U == {e \in Event : day * DayLength <= e.at /\ e.at < (day + 1) * DayLength}
<1>1. RangeBounds(first, last)[1] = first * DayLength /\ RangeBounds(first, last)[2] = (last + 1) * DayLength
    BY DEF RangeBounds, DayBounds
<1>2. \A e \in Event : e \in U <=> e \in S /\ e \in T
    <2>1. first * DayLength <= day * DayLength /\ (day + 1) * DayLength <= (last + 1) * DayLength
        BY Product, CalendarAssumption
    <2>2. ASSUME NEW e \in Event PROVE e \in U <=> e \in S /\ e \in T
        <3>1. e.at \in Nat
            BY DEF Event
        <3>2. UtcDateOf(e.at) = day <=> day * DayLength <= e.at /\ e.at < (day + 1) * DayLength
            <4>1. day \in Int
                OBVIOUS
            <4> HIDE DEF S, T, U
            <4> QED BY <3>1, <4>1, DayOf
        <3>3. first * DayLength \in Int /\ day * DayLength \in Int
              /\ (day + 1) * DayLength \in Int /\ (last + 1) * DayLength \in Int
            BY CalendarAssumption
        <3> QED BY <2>1, <3>1, <3>2, <3>3 DEF OnDay
    <2> QED BY <2>2
<1>3. Select(Select(es, S), T) = Select(es, U)
    <2> HIDE DEF S, T, U
    <2> QED BY <1>2, SelectTwice
<1> QED BY <1>1, <1>3 DEF InRange

\* The days before a page, and those before the next.
PageStart(page, size) == (page - 1) * size

PageEnd(page, size, n) ==
    IF PageStart(page, size) + size <= n THEN PageStart(page, size) + size ELSE n

\* A page is a stretch of the days.
LEMMA HistoryPage ==
    ASSUME NEW es \in Seq(Event), NEW from \in Int, NEW to \in Int, from <= to,
           NEW page \in Nat \ {0}, NEW size \in Nat \ {0},
           PageStart(page, size) < to - from + 1
    PROVE  GetHistory(es, from, to, page, size) =
               SubSeq(DaysOf(es, from, to), PageStart(page, size) + 1,
                      PageEnd(page, size, to - from + 1))
<1> DEFINE n == to - from + 1
           off == PageStart(page, size)
           m == PageEnd(page, size, n)
           dates == DatesDescending(from, to)
           window == HistoryWindow(from, to, page, size)
           days == DaysOf(es, from, to)
           D(i) == to - (off + i - 1)
<1>1. n \in Nat \ {0} /\ off \in Nat /\ m \in Nat /\ off < m /\ m <= n /\ m - off \in Nat \ {0}
    <2>1. n \in Nat \ {0} /\ off < n
        OBVIOUS
    <2>2. off = (page - 1) * size /\ off \in Nat
        BY Product DEF PageStart
    <2>3. m = IF off + size <= n THEN off + size ELSE n
        BY DEF PageEnd
    <2> HIDE DEF n, off, m
    <2> QED BY <2>1, <2>2, <2>3
<1>2. dates \in Seq(Int) /\ Len(dates) = n /\ \A i \in 1..n : dates[i] = to - (i - 1)
    <2>1. dates = [i \in 1..n |-> to - (i - 1)]
        BY DEF DatesDescending
    <2> HIDE DEF dates
    <2>2. dates \in Seq(Int) /\ DOMAIN dates = 1..n
        BY <1>1, <2>1
    <2> HIDE DEF n
    <2> QED BY <1>1, <2>1, <2>2, LenProperties
<1>3. window = SubSeq(dates, off + 1, m)
    <2>1. Min({off + size, Len(dates)}) = m
        <3>1. m = IF off + size <= n THEN off + size ELSE n
            BY DEF PageEnd
        <3> HIDE DEF n, off, m, dates
        <3>2. off + size \in Int /\ n \in Int /\ Len(dates) = n
            BY <1>1, <1>2
        <3>3. Min({off + size, n}) = IF off + size <= n THEN off + size ELSE n
            BY <3>2, MinOfTwo
        <3> QED BY <3>1, <3>2, <3>3
    <2> QED BY <2>1 DEF HistoryWindow, PageStart
<1> HIDE DEF n, dates, window, off, m
<1>4. /\ window \in Seq(Int) /\ Len(window) = m - off /\ DOMAIN window = 1..(m - off)
      /\ \A i \in 1..(m - off) : window[i] = D(i)
    <2>1. \A i \in (off + 1)..m : dates[i] \in Int
        <3>1. \A i \in (off + 1)..m : i \in 1..n
            BY <1>1
        <3> QED BY <1>2, <3>1
    <2>2. /\ SubSeq(dates, off + 1, m) \in Seq(Int)
          /\ Len(SubSeq(dates, off + 1, m)) =
                 IF off + 1 <= m THEN m - (off + 1) + 1 ELSE 0
          /\ \A i \in 1..(m - (off + 1) + 1) : SubSeq(dates, off + 1, m)[i] = dates[off + 1 + i - 1]
        BY <1>1, <2>1, SubSeqProperties
    <2>3. window \in Seq(Int) /\ Len(window) = m - off
        BY <1>1, <1>3, <2>2
    <2>4. ASSUME NEW i \in 1..(m - off) PROVE window[i] = D(i)
        <3>1. i \in 1..(m - (off + 1) + 1) /\ off + 1 + i - 1 = off + i /\ off + i \in 1..n
            BY <1>1
        <3> QED BY <1>1, <1>2, <1>3, <2>2, <3>1
    <2> QED BY <2>3, <2>4, LenProperties
<1>5. /\ window # <<>> /\ Head(window) = to - off /\ Last(window) = to - (m - 1)
    <2>1. 1 \in 1..(m - off) /\ m - off \in 1..(m - off)
        BY <1>1
    <2> QED BY <1>1, <1>4, <2>1 DEF Last
<1>6. GetHistory(es, from, to, page, size) =
          [i \in 1..(m - off) |->
              BuildDay(window[i],
                       Select(InRange(es, RangeBounds(to - (m - 1), to - off)[1],
                                          RangeBounds(to - (m - 1), to - off)[2]),
                              OnDay(window[i])))]
    BY <1>4, <1>5 DEF GetHistory, window, OnDay
<1>7. ASSUME NEW i \in 1..(m - off)
      PROVE  BuildDay(window[i],
                      Select(InRange(es, RangeBounds(to - (m - 1), to - off)[1],
                                         RangeBounds(to - (m - 1), to - off)[2]),
                             OnDay(window[i])))
             = GetDay(es, D(i))
    <2>1. /\ D(i) \in (to - (m - 1))..(to - off) /\ D(i) \in Int /\ window[i] = D(i)
          /\ to - (m - 1) \in Int /\ to - off \in Int
        BY <1>1, <1>4
    <2> HIDE DEF D
    <2>2. Select(InRange(es, RangeBounds(to - (m - 1), to - off)[1],
                             RangeBounds(to - (m - 1), to - off)[2]),
                 OnDay(D(i)))
          = InRange(es, D(i) * DayLength, (D(i) + 1) * DayLength)
        BY <2>1, GroupedIs
    <2> QED BY <2>1, <2>2, GetDayIs
<1>8. GetHistory(es, from, to, page, size) = [i \in 1..(m - off) |-> GetDay(es, D(i))]
    <2> HIDE DEF D
    <2> QED BY <1>6, <1>7
<1>9. SubSeq(days, off + 1, m) = [i \in 1..(m - off) |-> GetDay(es, D(i))]
    <2>1. days \in Seq(Day) /\ Len(days) = n /\ \A i \in 1..n : days[i] = GetDay(es, to - (i - 1))
        BY DaysOfType DEF n
    <2> HIDE DEF days
    <2>2. \A i \in (off + 1)..m : days[i] \in Day
        BY <1>1, <2>1, ElementOfSeq
    <2>3. /\ SubSeq(days, off + 1, m) \in Seq(Day)
          /\ Len(SubSeq(days, off + 1, m)) = IF off + 1 <= m THEN m - (off + 1) + 1 ELSE 0
          /\ \A i \in 1..(m - (off + 1) + 1) : SubSeq(days, off + 1, m)[i] = days[off + 1 + i - 1]
        BY <1>1, <2>2, SubSeqProperties
    <2>4. ASSUME NEW i \in 1..(m - off) PROVE SubSeq(days, off + 1, m)[i] = GetDay(es, D(i))
        <3>1. /\ i \in 1..(m - (off + 1) + 1) /\ off + 1 + i - 1 = off + i /\ off + i \in 1..n
              /\ to - (off + i - 1) = D(i)
            BY <1>1
        <3> QED BY <1>1, <2>1, <2>3, <3>1
    <2>5. DOMAIN SubSeq(days, off + 1, m) = 1..(m - off)
        BY <1>1, <2>3, LenProperties
    <2> DEFINE sub == SubSeq(days, off + 1, m)
    <2>6. sub = [i \in 1..(m - off) |-> sub[i]]
        BY <1>1, <2>3, <2>5
    <2> HIDE DEF sub, D
    <2> QED BY <2>4, <2>6 DEF sub
<1> QED BY <1>8, <1>9 DEF off, m, n

-----------------------------------------------------------------------------
(* All pages, and all events on them.                                      *)

\* What is flattened piece by piece.
LEMMA FlattenBy ==
    ASSUME NEW E, NEW n \in Nat, NEW F \in [1..n -> Seq(E)],
           NEW G, G[0] = <<>>, \A i \in 1..n : G[i] = G[i - 1] \o F[i]
    PROVE  FlattenSeq(F) = G[n]
<1> DEFINE V == Seq(E)
           First(k) == [i \in 1..k |-> F[i]]
           S == {k \in 0..n : FlattenSeq(First(k)) = G[k]}
<1>1. 0 \in S
    <2>1. First(0) = <<>>
        OBVIOUS
    <2> HIDE DEF First
    <2> QED BY <2>1, FlattenOneMore
<1>2. ASSUME NEW k \in 0..(n - 1), k \in S PROVE k + 1 \in S
    <2>1. k \in Nat /\ k + 1 \in 1..n /\ k + 1 - 1 = k /\ \A i \in 1..k : i \in 1..n
        OBVIOUS
    <2>2. F[k + 1] \in V /\ \A i \in 1..k : F[i] \in V
        BY <2>1
    <2> HIDE DEF V
    <2>3. First(k) \in Seq(V)
        BY <2>1, <2>2
    <2>4. Len(First(k)) = k
        BY <2>1
    <2>5. First(k + 1) = Append(First(k), F[k + 1])
        <3>1. Append(First(k), F[k + 1]) =
                  [i \in 1..(k + 1) |-> IF i = k + 1 THEN F[k + 1] ELSE First(k)[i]]
            BY <2>3, <2>4
        <3>2. \A i \in 1..(k + 1) : F[i] = IF i = k + 1 THEN F[k + 1] ELSE First(k)[i]
            BY <2>1
        <3>3. First(k + 1) = [i \in 1..(k + 1) |-> IF i = k + 1 THEN F[k + 1] ELSE First(k)[i]]
            BY <3>2
        <3> QED BY <3>1, <3>3
    <2> HIDE DEF First
    <2>6. FlattenSeq(First(k + 1)) = FlattenSeq(First(k)) \o F[k + 1]
        BY <2>2, <2>3, <2>5, FlattenOneMore DEF V
    <2>7. G[k + 1] = G[k] \o F[k + 1]
        <3>1. PICK i \in 1..n : i = k + 1 /\ i - 1 = k
            BY <2>1
        <3>2. G[i] = G[i - 1] \o F[i]
            BY <3>1, Zenon
        <3> QED BY <3>1, <3>2
    <2>8. FlattenSeq(First(k)) = G[k]
        BY <1>2
    <2>9. FlattenSeq(First(k + 1)) = G[k + 1]
        BY <2>6, <2>7, <2>8, Zenon
    <2>10. k + 1 \in 0..n
        BY <2>1
    <2> QED BY <2>9, <2>10
<1>3. \A k \in 0..n : k \in S
    <2> HIDE DEF S
    <2> QED BY <1>1, <1>2, UpTo
<1>4. First(n) = F
    OBVIOUS
<1> QED BY <1>3, <1>4

LEMMA AllPages ==
    ASSUME NEW es \in Seq(Event), NEW from \in Int, NEW to \in Int, from <= to,
           NEW size \in Nat \ {0}
    PROVE  FlattenSeq([p \in 1..TotalPages(from, to, size) |->
                          GetHistory(es, from, to, p, size)]) = DaysOf(es, from, to)
<1> DEFINE n == to - from + 1
           t == TotalPages(from, to, size)
           days == DaysOf(es, from, to)
           M(k) == IF k * size <= n THEN k * size ELSE n
           F == [p \in 1..t |-> GetHistory(es, from, to, p, size)]
           G == [k \in 0..t |-> SubSeq(days, 1, M(k))]
<1>1. n \in Nat \ {0} /\ t \in 1..n /\ (t - 1) * size < n /\ n <= t * size
    <2>1. n \in Nat \ {0}
        OBVIOUS
    <2>2. t \in 1..n /\ (t - 1) * size < n /\ n <= t * size
        BY Pages
    <2> QED BY <2>1, <2>2
<1>2. days \in Seq(Day) /\ Len(days) = n
    BY DaysOfType
<1>3. ASSUME NEW p \in 1..t
      PROVE  /\ F[p] \in Seq(Day)
             /\ G[p] = G[p - 1] \o F[p]
    <2> DEFINE off == PageStart(p, size)
    <2>1. /\ p \in Nat \ {0} /\ off \in Nat /\ off < n /\ off + size = p * size
          /\ p - 1 \in 0..t /\ p \in 0..t
        <3>1. p - 1 \in Nat /\ t - 1 \in Nat /\ p - 1 <= t - 1
            BY <1>1
        <3>2. (p - 1) * size <= (t - 1) * size /\ (p - 1) * size \in Nat
            BY <3>1, Product
        <3>3. (p - 1) * size + size = p * size
            BY <1>1
        <3> QED BY <1>1, <3>2, <3>3 DEF PageStart
    <2>2. M(p) \in off..n /\ M(p - 1) = off
          /\ M(p) = IF off + size <= n THEN off + size ELSE n
        BY <1>1, <2>1 DEF PageStart
    <2> HIDE DEF off, M
    <2>3. F[p] = SubSeq(days, off + 1, M(p))
        <3>1. p \in Nat \ {0} /\ PageStart(p, size) < to - from + 1
            BY <2>1 DEF off
        <3>2. GetHistory(es, from, to, p, size) =
                  SubSeq(days, PageStart(p, size) + 1, PageEnd(p, size, to - from + 1))
            BY <3>1, HistoryPage
        <3>3. M(p) = PageEnd(p, size, to - from + 1)
            BY <2>2 DEF PageEnd, off
        <3> HIDE DEF days
        <3> QED BY <3>2, <3>3 DEF off
    <2> HIDE DEF days, n
    <2>4. SubSeq(days, 1, off) \o SubSeq(days, off + 1, M(p)) = SubSeq(days, 1, M(p))
        <3>1. 1 \in 1..(Len(days) + 1) /\ off \in (1 - 1)..Len(days) /\ M(p) \in off..Len(days)
            BY <1>1, <1>2, <2>1, <2>2
        <3> QED BY <1>2, <3>1, ConcatAdjacentSubSeq
    <2>5. F[p] \in Seq(Day)
        <3>1. \A i \in (off + 1)..M(p) : i \in 1..n
            BY <1>1, <2>1, <2>2
        <3>2. \A i \in (off + 1)..M(p) : days[i] \in Day
            BY <1>2, <3>1, ElementOfSeq
        <3>3. off + 1 \in Int /\ M(p) \in Int
            BY <2>1, <2>2
        <3>4. SubSeq(days, off + 1, M(p)) \in Seq(Day)
            BY <3>2, <3>3, SubSeqProperties
        <3> QED BY <2>3, <3>4
    <2> QED BY <2>1, <2>2, <2>3, <2>4, <2>5
<1>4. G[0] = <<>>
    <2>1. 0 \in 0..t /\ M(0) = 0
        BY <1>1
    <2>2. SubSeq(days, 1, 0) = <<>>
        BY SubSeqEmpty
    <2> HIDE DEF M, t, days
    <2> QED BY <2>1, <2>2
<1>5. G[t] = days
    <2>1. t \in 0..t /\ M(t) = n
        BY <1>1
    <2>2. SubSeq(days, 1, n) = days
        BY <1>2, SubSeqFull
    <2> HIDE DEF M, t, days, n
    <2> QED BY <2>1, <2>2
<1>6. F \in [1..t -> Seq(Day)]
    <2> HIDE DEF t, M, days
    <2> QED BY <1>3
<1>7. t \in Nat /\ \A p \in 1..t : G[p] = G[p - 1] \o F[p]
    <2>1. t \in Nat
        BY <1>1
    <2> HIDE DEF t, F, G
    <2> QED BY <1>3, <2>1
<1>8. FlattenSeq(F) = G[t]
    <2> HIDE DEF F, G, t
    <2> QED BY <1>4, <1>6, <1>7, FlattenBy
<1> QED BY <1>5, <1>8

LEMMA AllEvents ==
    ASSUME NEW es \in Seq(Event), Ordered(es), NEW from \in Int, NEW to \in Int, from <= to,
           NEW days, days = DaysOf(es, from, to)
    PROVE  FlattenSeq([i \in DOMAIN days |-> EventsOf(days[Len(days) + 1 - i].sessions)])
           = Select(es, {e \in Event : UtcDateOf(e.at) \in from..to})
<1> DEFINE n == to - from + 1
           F == [i \in 1..n |-> EventsOf(days[n + 1 - i].sessions)]
           G == [i \in 0..n |-> InRange(es, from * DayLength, (from + i) * DayLength)]
<1>1. /\ n \in Nat \ {0} /\ days \in Seq(Day) /\ Len(days) = n /\ DOMAIN days = 1..n
      /\ \A i \in 1..n : days[i] = GetDay(es, to - (i - 1))
    BY DaysOfType, LenProperties
<1>2. ASSUME NEW i \in 1..n
      PROVE  F[i] \in Seq(Event) /\ G[i] = G[i - 1] \o F[i]
    <2>1. /\ n + 1 - i \in 1..n /\ to - ((n + 1 - i) - 1) = from + i - 1 /\ from + i - 1 \in Int
          /\ (from + i - 1) + 1 = from + i /\ from + (i - 1) = from + i - 1
          /\ i \in 0..n /\ i - 1 \in 0..n
        BY <1>1
    <2>2. F[i] = InRange(es, (from + i - 1) * DayLength, (from + i) * DayLength)
        <3>1. PICK d \in Int : d = from + i - 1
            BY <2>1
        <3>2. days[n + 1 - i] = GetDay(es, d)
            BY <1>1, <2>1, <3>1
        <3>3. EventsOf(GetDay(es, d).sessions) = InRange(es, d * DayLength, (d + 1) * DayLength)
            BY GetDayIs
        <3>4. F[i] = EventsOf(GetDay(es, d).sessions) /\ d + 1 = from + i
            BY <2>1, <3>1, <3>2
        <3> QED BY <3>1, <3>3, <3>4
    <2>3. /\ from * DayLength <= (from + i - 1) * DayLength
          /\ (from + i - 1) * DayLength <= (from + i) * DayLength
          /\ from * DayLength \in Int /\ (from + i - 1) * DayLength \in Int
          /\ (from + i) * DayLength \in Int
        BY <1>1, <2>1, Product, CalendarAssumption
    <2>4. InRange(es, from * DayLength, (from + i - 1) * DayLength)
              \o InRange(es, (from + i - 1) * DayLength, (from + i) * DayLength)
          = InRange(es, from * DayLength, (from + i) * DayLength)
        BY <2>3, RangesAdjoin
    <2>5. F[i] \in Seq(Event)
        BY <2>2, RangeType
    <2> QED BY <2>1, <2>2, <2>4, <2>5
<1>3. G[0] = <<>>
    <2>1. from + 0 = from /\ 0 \in 0..n
        BY <1>1
    <2>2. G[0] = InRange(es, from * DayLength, from * DayLength)
        BY <2>1
    <2> DEFINE S == {e \in Event : from * DayLength <= e.at /\ e.at < from * DayLength}
    <2>3. \A i \in DOMAIN es : es[i] \notin S
        <3>1. from * DayLength \in Int
            BY CalendarAssumption
        <3>2. ASSUME NEW e \in S PROVE FALSE
            <4>1. e.at \in Nat
                BY DEF Event
            <4> QED BY <3>1, <4>1
        <3> QED BY <3>2
    <2> HIDE DEF S
    <2>4. Select(es, S) = <<>>
        BY <2>3, SelectNone
    <2> QED BY <2>2, <2>4 DEF InRange, S
<1>4. G[n] = Select(es, {e \in Event : UtcDateOf(e.at) \in from..to})
    <2>1. n \in 0..n /\ from + n = to + 1
        BY <1>1
    <2>2. ASSUME NEW e \in Event
          PROVE  from * DayLength <= e.at /\ e.at < (to + 1) * DayLength <=> UtcDateOf(e.at) \in from..to
        <3>1. e.at \in Nat
            BY DEF Event
        <3>2. /\ UtcDateOf(e.at) \in Nat
              /\ (UtcDateOf(e.at) < from) <=> (e.at < from * DayLength)
              /\ (UtcDateOf(e.at) < to + 1) <=> (e.at < (to + 1) * DayLength)
            <4>1. UtcDateOf(e.at) \in Nat
                  /\ \A d \in Int : (UtcDateOf(e.at) < d) <=> (e.at < d * DayLength)
                BY <3>1, DayOf
            <4>2. from \in Int /\ to + 1 \in Int
                OBVIOUS
            <4> QED BY <4>1, <4>2
        <3>3. from * DayLength \in Int /\ (to + 1) * DayLength \in Int
            BY CalendarAssumption
        <3> QED BY <3>1, <3>2, <3>3
    <2>3. {e \in Event : from * DayLength <= e.at /\ e.at < (to + 1) * DayLength}
              = {e \in Event : UtcDateOf(e.at) \in from..to}
        BY <2>2
    <2>4. G[n] = InRange(es, from * DayLength, (to + 1) * DayLength)
        BY <2>1
    <2> HIDE DEF G
    <2> QED BY <2>3, <2>4 DEF InRange
<1>5. F \in [1..n -> Seq(Event)] /\ n \in Nat /\ \A i \in 1..n : G[i] = G[i - 1] \o F[i]
    <2>1. \A i \in 1..n : F[i] \in Seq(Event)
        BY <1>2
    <2>2. F = [i \in 1..n |-> F[i]]
        OBVIOUS
    <2>3. F \in [1..n -> Seq(Event)]
        <3> HIDE DEF F
        <3> QED BY <2>1, <2>2
    <2> QED BY <1>1, <1>2, <2>3
<1>6. FlattenSeq(F) = G[n]
    <2> HIDE DEF F, G, n
    <2> QED BY <1>3, <1>5, FlattenBy
<1>7. F = [i \in DOMAIN days |-> EventsOf(days[Len(days) + 1 - i].sessions)]
    BY <1>1
<1> HIDE DEF F, G
<1> QED BY <1>4, <1>6, <1>7

\* The pages of get_history (queries.py:263-304) are together the days of the range, newest
\* first and each as the route of one day shows it, and together show every event of it once.
THEOREM EveryDayIsShown == Spec => []PagesShowEveryDay
<1>1. IType => PagesShowEveryDay
    <2> SUFFICES ASSUME IType, NEW u \in User, NEW from \in Date, NEW to \in Date,
                        NEW size \in PageSize, from <= to
                 PROVE  LET days == FlattenSeq([p \in 1..TotalPages(from, to, size) |->
                                                   GetHistory(events[u], from, to, p, size)])
                            shownEvents == FlattenSeq([i \in DOMAIN days |->
                                               EventsOf(days[Len(days) + 1 - i].sessions)])
                        IN  /\ days = [i \in 1..(to - from + 1) |-> GetDay(events[u], to - (i - 1))]
                            /\ shownEvents = Select(events[u],
                                                {e \in Event : UtcDateOf(e.at) \in from..to})
        BY DEF PagesShowEveryDay
    <2>1. /\ events[u] \in Seq(Event) /\ Ordered(events[u])
          /\ from \in Int /\ to \in Int /\ size \in Nat \ {0}
        <3>1. UtcDateOf(MaxTime) \in Nat
            BY DayOf, CalendarAssumption
        <3> QED BY <3>1, PagingAssumption DEF IType, TypeOK, Ordered, Date
    <2> DEFINE days == FlattenSeq([p \in 1..TotalPages(from, to, size) |->
                                      GetHistory(events[u], from, to, p, size)])
    <2>2. days = DaysOf(events[u], from, to)
        BY <2>1, AllPages
    <2> HIDE DEF days
    <2>3. FlattenSeq([i \in DOMAIN days |-> EventsOf(days[Len(days) + 1 - i].sessions)])
          = Select(events[u], {e \in Event : UtcDateOf(e.at) \in from..to})
        BY <2>1, <2>2, AllEvents
    <2> QED BY <2>2, <2>3 DEF days, DaysOf
<1> QED BY <1>1, ITypeAlways, PTL

-----------------------------------------------------------------------------
(* Pages that are asked for one by one.                                    *)

\* A page, day by day.
LEMMA PageDays ==
    ASSUME NEW es \in Seq(Event), NEW from \in Int, NEW to \in Int, from <= to,
           NEW page \in Nat \ {0}, NEW size \in Nat \ {0},
           NEW start, start = PageStart(page, size), start < to - from + 1,
           NEW end, end = PageEnd(page, size, to - from + 1)
    PROVE  /\ start \in Nat /\ end \in Nat /\ start < end /\ end <= to - from + 1
           /\ GetHistory(es, from, to, page, size) \in Seq(Day)
           /\ Len(GetHistory(es, from, to, page, size)) = end - start
           /\ \A i \in 1..(end - start) :
                 GetHistory(es, from, to, page, size)[i] = GetDay(es, to - (start + i - 1))
<1> DEFINE n == to - from + 1
           days == DaysOf(es, from, to)
           history == GetHistory(es, from, to, page, size)
<1>1. start \in Nat /\ end \in Nat /\ start < end /\ end <= n /\ n \in Nat
    BY DEF PageStart, PageEnd
<1>2. days \in Seq(Day) /\ Len(days) = n /\ \A i \in 1..n : days[i] = GetDay(es, to - (i - 1))
    BY DaysOfType
<1>3. history = SubSeq(days, start + 1, end)
    BY HistoryPage
<1> HIDE DEF n, days, history
<1>4. \A i \in (start + 1)..end : days[i] \in Day
    <2>1. \A i \in (start + 1)..end : i \in 1..n
        BY <1>1
    <2> QED BY <1>2, <2>1, ElementOfSeq
<1>5. /\ history \in Seq(Day)
      /\ Len(history) = IF start + 1 <= end THEN end - (start + 1) + 1 ELSE 0
      /\ \A i \in 1..(end - (start + 1) + 1) : history[i] = days[start + 1 + i - 1]
    BY <1>1, <1>3, <1>4, SubSeqProperties
<1>6. ASSUME NEW i \in 1..(end - start) PROVE history[i] = GetDay(es, to - (start + i - 1))
    <2>1. i \in 1..(end - (start + 1) + 1) /\ start + 1 + i - 1 = start + i /\ start + i \in 1..n
        BY <1>1
    <2> QED BY <1>1, <1>2, <1>5, <2>1
<1>7. Len(history) = end - start
    BY <1>1, <1>5
<1> QED BY <1>1, <1>5, <1>6, <1>7 DEF history, n

\* Later, the default range ends later, and no range has become shorter.
LEMMA RangeMoves ==
    ASSUME NEW from \in AskedDate, NEW to \in AskedDate,
           NEW today \in Nat, NEW later \in Nat, today <= later,
           NEW range \in ResolveRange(from, to, today),
           NEW next \in ResolveRange(from, to, later)
    PROVE  range[2] <= next[2] /\ range[2] - range[1] + 1 <= next[2] - next[1] + 1
<1>1. /\ range[1] \in Int /\ range[2] \in Int
      /\ range[2] = (IF to = NoDate THEN today ELSE to)
      /\ range[1] = (IF from = NoDate THEN range[2] - (DefaultHistoryDays - 1) ELSE from)
    BY RangeIs
<1>2. /\ next[1] \in Int /\ next[2] \in Int
      /\ next[2] = (IF to = NoDate THEN later ELSE to)
      /\ next[1] = (IF from = NoDate THEN next[2] - (DefaultHistoryDays - 1) ELSE from)
    BY RangeIs
<1>3. range[2] <= next[2]
    BY <1>1, <1>2
<1> QED BY <1>1, <1>2, <1>3, PagingAssumption

LEMMA ElementsOfAppend ==
    ASSUME NEW es \in Seq(Event), NEW e \in Event
    PROVE  ToSet(Append(es, e)) = ToSet(es) \cup {e}
<1>1. /\ Append(es, e) \in Seq(Event) /\ Len(es) \in Nat /\ Len(Append(es, e)) = Len(es) + 1
      /\ \A i \in 1..Len(es) : Append(es, e)[i] = es[i]
      /\ Append(es, e)[Len(es) + 1] = e
    BY AppendProperties, LenProperties
<1>2. DOMAIN es = 1..Len(es) /\ DOMAIN Append(es, e) = 1..(Len(es) + 1)
    BY <1>1, LenProperties
<1>3. 1..(Len(es) + 1) = (1..Len(es)) \cup {Len(es) + 1}
    BY <1>1
<1> QED BY <1>1, <1>2, <1>3 DEF ToSet

\* What is in the set is chosen.
LEMMA SelectHolds ==
    ASSUME NEW es \in Seq(Event), NEW S
    PROVE  \A e \in ToSet(es) : e \in S => e \in ToSet(Select(es, S))
<1> DEFINE P == {s \in Seq(Event) : \A e \in ToSet(s) : e \in S => e \in ToSet(Select(s, S))}
<1>1. <<>> \in P
    <2>1. <<>> \in Seq(Event) /\ ToSet(<<>>) = {}
        BY DEF ToSet
    <2> QED BY <2>1
<1>2. ASSUME NEW s \in Seq(Event), NEW x \in Event, s \in P PROVE Append(s, x) \in P
    <2>1. Append(s, x) \in Seq(Event) /\ Select(s, S) \in Seq(Event)
        BY AppendProperties, SelectOneMore
    <2>2. Select(Append(s, x), S) = IF x \in S THEN Append(Select(s, S), x) ELSE Select(s, S)
        BY SelectOneMore
    <2>3. /\ ToSet(Append(s, x)) = ToSet(s) \cup {x}
          /\ ToSet(Append(Select(s, S), x)) = ToSet(Select(s, S)) \cup {x}
        BY <2>1, ElementsOfAppend
    <2> QED BY <1>2, <2>1, <2>2, <2>3
<1> HIDE DEF P
<1>3. es \in P
    BY <1>1, <1>2, EveryHistory
<1> QED BY <1>3 DEF P

\* None of the days of a range is passed over.
Adjacent(days) == \A i \in 1..(Len(days) - 1) : days[i + 1].date >= days[i].date - 1

\* Of the events es, the days show those of their dates.
Show(days, es) ==
    \A i \in 1..Len(days) : \A e \in ToSet(es) :
        days[i].date = UtcDateOf(e.at) => e \in ToSet(EventsOf(days[i].sessions))

Good(days, old) == days \in Seq(Day) /\ Adjacent(days) /\ Show(days, old)

\* A page of the range is no earlier than where the days end.
ReadyFor(days, from, to, page, size) ==
    /\ PageStart(page, size) < to - from + 1
    /\ days # <<>> => Last(days).date - 1 <= to - PageStart(page, size)

\* The days end where a page of the range ends.
EndWith(days, from, to, page, size) ==
    /\ PageStart(page, size) < to - from + 1
    /\ Last(days).date = to - (PageEnd(page, size, to - from + 1) - 1)

LEMMA DayShows ==
    ASSUME NEW es \in Seq(Event), NEW day \in Int,
           NEW e \in ToSet(es), UtcDateOf(e.at) = day
    PROVE  e \in ToSet(EventsOf(GetDay(es, day).sessions))
<1> DEFINE S == {x \in Event : day * DayLength <= x.at /\ x.at < (day + 1) * DayLength}
<1>1. e \in Event
    <2>1. \A i \in DOMAIN es : es[i] \in Event
        BY ElementOfSeq, LenProperties
    <2> QED BY <2>1 DEF ToSet
<1>2. e \in S
    <2>1. e.at \in Nat
        BY <1>1 DEF Event
    <2>2. \A d \in Int : UtcDateOf(e.at) = d <=> d * DayLength <= e.at /\ e.at < (d + 1) * DayLength
        BY <2>1, DayOf
    <2> QED BY <1>1, <2>2
<1>3. EventsOf(GetDay(es, day).sessions) = Select(es, S)
    BY GetDayIs DEF InRange
<1> HIDE DEF S
<1> QED BY <1>2, <1>3, SelectHolds

\* A page leaves no gap in itself, and none after days that it follows.
LEMMA PageFollows ==
    ASSUME NEW es \in Seq(Event), NEW from \in Int, NEW to \in Int, from <= to,
           NEW page \in Nat \ {0}, NEW size \in Nat \ {0},
           NEW days, NEW old, Good(days, old), ToSet(old) \subseteq ToSet(es),
           ReadyFor(days, from, to, page, size),
           NEW all, all = days \o GetHistory(es, from, to, page, size)
    PROVE  Good(all, old) /\ EndWith(all, from, to, page, size)
<1> DEFINE history == GetHistory(es, from, to, page, size)
           start == PageStart(page, size)
           end == PageEnd(page, size, to - from + 1)
           l == Len(days)
           m == Len(history)
<1>0. /\ days \in Seq(Day) /\ Adjacent(days) /\ Show(days, old)
      /\ start < to - from + 1
      /\ days # <<>> => Last(days).date - 1 <= to - start
    BY DEF Good, ReadyFor
<1>1. /\ start \in Nat /\ end \in Nat /\ start < end
      /\ history \in Seq(Day) /\ Len(history) = end - start
      /\ \A i \in 1..(end - start) : history[i] = GetDay(es, to - (start + i - 1))
    <2>1. start = PageStart(page, size) /\ end = PageEnd(page, size, to - from + 1)
        OBVIOUS
    <2> HIDE DEF start, end
    <2> QED BY <1>0, <2>1, PageDays
<1> HIDE DEF history, start, end
<1>2. m = end - start /\ m \in Nat \ {0} /\ l \in Nat
    BY <1>0, <1>1, LenProperties
<1>3. ASSUME NEW i \in 1..m PROVE history[i].date = to - (start + i - 1)
    <2>1. PICK d \in Int : d = to - (start + i - 1)
        BY <1>1
    <2>2. history[i] = GetDay(es, d)
        BY <1>1, <1>2, <2>1
    <2> QED BY <2>1, <2>2, GetDayIs
<1>4. /\ all \in Seq(Day) /\ Len(all) = l + m
      /\ \A i \in 1..l : all[i] = days[i]
      /\ \A i \in 1..m : all[l + i] = history[i]
    <2>1. all = days \o history
        BY DEF history
    <2>2. /\ days \o history \in Seq(Day) /\ Len(days \o history) = Len(days) + Len(history)
          /\ \A i \in 1..(Len(days) + Len(history)) :
                (days \o history)[i] = IF i <= Len(days) THEN days[i] ELSE history[i - Len(days)]
        BY <1>0, <1>1, ConcatProperties
    <2>3. \A i \in 1..l : i \in 1..(l + m) /\ i <= l
        BY <1>2
    <2>4. \A i \in 1..m : l + i \in 1..(l + m) /\ ~ (l + i <= l) /\ l + i - l = i
        BY <1>2
    <2> QED BY <1>2, <2>1, <2>2, <2>3, <2>4
<1> HIDE DEF l, m
<1>5. Last(all).date = to - (end - 1)
    <2>1. Last(all) = history[m] /\ m \in 1..m
        <3>1. m \in 1..m
            BY <1>2
        <3>2. all[l + m] = history[m] /\ Len(all) = l + m
            BY <1>4, <3>1
        <3> QED BY <3>1, <3>2 DEF Last
    <2>2. history[m].date = to - (start + m - 1)
        BY <1>3, <2>1
    <2> QED BY <1>1, <1>2, <1>4, <2>1, <2>2
<1>6. Adjacent(all)
    <2> SUFFICES ASSUME NEW i \in 1..(l + m - 1)
                 PROVE  all[i + 1].date >= all[i].date - 1
        <3>1. Len(all) = l + m
            BY <1>4
        <3>2. Len(all) - 1 = l + m - 1
            BY <1>2, <3>1
        <3> QED BY <3>2 DEF Adjacent
    <2>0. i < l \/ i = l \/ i > l
        BY <1>2
    <2>1. CASE i < l
        <3>1. i \in 1..l /\ i + 1 \in 1..l /\ i \in 1..(Len(days) - 1)
            BY <1>2, <2>1 DEF l
        <3>2. days[i + 1].date >= days[i].date - 1
            BY <1>0, <3>1 DEF Adjacent
        <3>3. all[i] = days[i] /\ all[i + 1] = days[i + 1]
            BY <1>4, <3>1
        <3> QED BY <3>2, <3>3
    <2>2. CASE i = l
        <3>1. i \in 1..l /\ 1 \in 1..m /\ i + 1 = l + 1
            BY <1>2, <2>2
        <3>2. all[i + 1] = history[1] /\ all[i] = days[l]
            BY <1>4, <2>2, <3>1
        <3>3. history[1].date = to - start
            BY <1>1, <1>3, <3>1
        <3>4. days # <<>> /\ Last(days) = days[l]
            BY <1>2, <3>1 DEF l, Last
        <3>5. days[l].date - 1 <= to - start
            BY <1>0, <3>4
        <3>6. days[l].date \in Int
            <4>1. days[l] \in Day
                BY <1>0, <3>1, ElementOfSeq DEF l
            <4> QED BY <4>1 DEF Day
        <3>7. all[i + 1].date = to - start /\ all[i].date = days[l].date
            BY <3>2, <3>3
        <3> QED BY <1>1, <3>5, <3>6, <3>7
    <2>3. CASE i > l
        <3>1. PICK j \in 1..(m - 1) : i = l + j
            <4>1. i - l \in 1..(m - 1) /\ i = l + (i - l)
                BY <1>2, <2>3
            <4> QED BY <4>1
        <3>2. j \in 1..m /\ j + 1 \in 1..m /\ i + 1 = l + (j + 1)
            BY <1>2, <3>1
        <3>3. all[i] = history[j] /\ all[i + 1] = history[j + 1]
            BY <1>4, <3>1, <3>2
        <3>4. history[j].date = to - (start + j - 1) /\ history[j + 1].date = to - (start + (j + 1) - 1)
            BY <1>3, <3>2
        <3> QED BY <1>1, <1>2, <3>2, <3>3, <3>4
    <2> QED BY <2>0, <2>1, <2>2, <2>3
<1>7. Show(all, old)
    <2> SUFFICES ASSUME NEW i \in 1..(l + m), NEW e \in ToSet(old), all[i].date = UtcDateOf(e.at)
                 PROVE  e \in ToSet(EventsOf(all[i].sessions))
        BY <1>4 DEF Show
    <2>0. i <= l \/ i > l
        BY <1>2
    <2>1. CASE i <= l
        <3>1. i \in 1..Len(days) /\ all[i] = days[i]
            BY <1>2, <1>4, <2>1 DEF l
        <3>2. \A x \in ToSet(old) :
                 days[i].date = UtcDateOf(x.at) => x \in ToSet(EventsOf(days[i].sessions))
            BY <1>0, <3>1 DEF Show
        <3> QED BY <3>1, <3>2
    <2>2. CASE i > l
        <3>1. PICK j \in 1..m : i = l + j
            <4>1. i - l \in 1..m /\ i = l + (i - l)
                BY <1>2, <2>2
            <4> QED BY <4>1
        <3>2. PICK d \in Int : d = to - (start + j - 1)
            BY <1>1
        <3>3. all[i] = GetDay(es, d)
            BY <1>1, <1>2, <1>4, <3>1, <3>2
        <3>4. UtcDateOf(e.at) = d
            BY <3>3, GetDayIs
        <3>5. e \in ToSet(EventsOf(GetDay(es, d).sessions))
            BY <3>4, DayShows
        <3> QED BY <3>3, <3>5
    <2> QED BY <2>0, <2>1, <2>2
<1> QED BY <1>0, <1>4, <1>5, <1>6, <1>7 DEF start, end, Good, EndWith

-----------------------------------------------------------------------------
(* A history that is read page by page while the range moves.              *)

\* The page that is asked for next.
Resumes(q, days, at) ==
    \E range \in ResolveRange(q.from, q.to, UtcDateOf(at)) :
        ReadyFor(days, range[1], range[2], q.page, q.size)

\* The page that was read last.
Ended(q, days, at) ==
    \E range \in ResolveRange(q.from, q.to, UtcDateOf(at)) :
        EndWith(days, range[1], range[2], q.page, q.size)

\* What a request q for a history has shown: `old' are the events that were there
\* before its first page, `es' those that are there now, `at' when it read the clock.
HistoryOf(state, q, days, old, es, at) ==
    /\ state = "idle" => days = NoDay
    /\ state # "idle" /\ Paged(q) =>
          /\ ToSet(old) \subseteq ToSet(es)
          /\ days = NoDay \/ Good(days, old)
          /\ state \in {"begun", "found"} =>
                \/ q.page = 1 /\ days = NoDay
                \/ Good(days, old) /\ Resumes(q, days, at)
          /\ state = "answered" => Good(days, old) /\ Ended(q, days, at)

LEMMA LaterDate ==
    ASSUME NEW a \in Nat, NEW b \in Nat, a <= b
    PROVE  UtcDateOf(a) \in Nat /\ UtcDateOf(b) \in Nat /\ UtcDateOf(a) <= UtcDateOf(b)
<1> DEFINE d == UtcDateOf(a)
           c == UtcDateOf(b)
<1>1. /\ d \in Nat /\ c \in Nat /\ d * DayLength <= a
      /\ c < d <=> b < d * DayLength
    <2>1. d \in Nat /\ \A x \in Int : UtcDateOf(a) = x <=> x * DayLength <= a /\ a < (x + 1) * DayLength
        BY DayOf
    <2>2. c \in Nat /\ \A x \in Int : UtcDateOf(b) < x <=> b < x * DayLength
        BY DayOf
    <2>3. d \in Int
        BY <2>1
    <2> QED BY <2>1, <2>2, <2>3
<1> HIDE DEF d, c
<1>2. d * DayLength \in Int
    BY <1>1, CalendarAssumption
<1>3. d <= c
    BY <1>1, <1>2
<1> QED BY <1>1, <1>3 DEF d, c

LEMMA HistoryBegins ==
    ASSUME NEW q, q.page = 1, NEW es, NEW old, old = es \/ old = <<>>, NEW at,
           NEW state \in {"begun", "found"}
    PROVE  HistoryOf(state, q, NoDay, old, es, at)
<1>1. ToSet(old) \subseteq ToSet(es)
    BY DEF ToSet
<1> QED BY <1>1 DEF HistoryOf

\* The user has been found, or the request has been refused.
LEMMA HistoryMoves ==
    ASSUME NEW q, NEW days, NEW old, NEW es, NEW at, NEW state, NEW to,
           HistoryOf(state, q, days, old, es, at), state # "idle",
           to = "refused" \/ (to = "found" /\ state = "begun")
    PROVE  HistoryOf(to, q, days, old, es, at)
BY DEF HistoryOf

\* More has been recorded, or the user has been deleted.
LEMMA HistoryStays ==
    ASSUME NEW q, NEW days, NEW old, NEW es, NEW at, NEW state,
           HistoryOf(state, q, days, old, es, at),
           NEW left, NEW more,
           left = <<>> \/ (left = old /\ ToSet(es) \subseteq ToSet(more))
    PROVE  HistoryOf(state, q, days, left, more, at)
<1>1. ToSet(<<>>) = {}
    BY DEF ToSet
<1>2. left = <<>> /\ Good(days, old) => Good(days, left)
    BY <1>1 DEF Good, Show
<1>3. ToSet(old) \subseteq ToSet(es) => ToSet(left) \subseteq ToSet(more)
    BY <1>1
<1>4. Good(days, old) => Good(days, left)
    BY <1>2
<1> QED BY <1>3, <1>4 DEF HistoryOf

LEMMA HistoryGoesOn ==
    ASSUME NEW q \in Request, Paged(q), NEW days, NEW old, NEW es \in Seq(Event),
           NEW last \in Nat, NEW at \in Nat, last <= at,
           HistoryOf("found", q, days, old, es, last),
           NEW range \in ResolveRange(q.from, q.to, UtcDateOf(at)),
           NEW all, all = (IF days = NoDay THEN <<>> ELSE days) \o
                              GetHistory(es, range[1], range[2], q.page, q.size)
    PROVE  HistoryOf("answered", q, all, old, es, at)
<1> DEFINE d == IF days = NoDay THEN <<>> ELSE days
           start == PageStart(q.page, q.size)
<1>1. /\ q.from \in AskedDate /\ q.to \in AskedDate
      /\ q.page \in Nat \ {0} /\ q.size \in Nat \ {0}
    <2>1. /\ q.from \in AskedDate /\ q.to \in AskedDate
          /\ q.page \in 1..MaxRangeDays /\ q.size \in PageSize
        BY RequestIs
    <2>2. q.page \in Nat \ {0}
        BY <2>1, PagingAssumption
    <2>3. q.size \in Nat \ {0}
        BY <2>1, PagingAssumption
    <2> QED BY <2>1, <2>2, <2>3
<1>2. UtcDateOf(last) \in Nat /\ UtcDateOf(at) \in Nat /\ UtcDateOf(last) <= UtcDateOf(at)
    BY LaterDate
<1>3. range[1] \in Int /\ range[2] \in Int /\ range[1] <= range[2]
    BY <1>1, <1>2, RangeIs
<1>4. start \in Int
    BY <1>1 DEF PageStart
<1>5. ToSet(old) \subseteq ToSet(es)
    BY DEF HistoryOf
<1> HIDE DEF start
<1>6. Good(d, old) /\ ReadyFor(d, range[1], range[2], q.page, q.size)
    <2>1. CASE days = NoDay
        <3>1. d = <<>> /\ d \in Seq(Day) /\ Len(d) = 0
            BY <2>1
        <3>2. Good(d, old)
            BY <3>1 DEF Good, Adjacent, Show
        <3>3. CASE q.page = 1
            <4>1. start = 0
                BY <1>1, <3>3 DEF start, PageStart
            <4> QED BY <1>3, <3>1, <3>2, <4>1 DEF ReadyFor, start
        <3>4. CASE Resumes(q, days, last)
            <4>1. PICK old_range \in ResolveRange(q.from, q.to, UtcDateOf(last)) :
                     start < old_range[2] - old_range[1] + 1
                BY <3>4 DEF Resumes, ReadyFor, start
            <4>2. old_range[1] \in Int /\ old_range[2] \in Int
                BY <1>1, <1>2, RangeIs
            <4>3. old_range[2] - old_range[1] + 1 <= range[2] - range[1] + 1
                BY <1>1, <1>2, RangeMoves
            <4>4. start < range[2] - range[1] + 1
                BY <1>3, <1>4, <4>1, <4>2, <4>3
            <4> QED BY <3>1, <3>2, <4>4 DEF ReadyFor, start
        <3> QED BY <3>3, <3>4 DEF HistoryOf
    <2>2. CASE days # NoDay
        <3>1. d = days /\ Good(days, old) /\ Resumes(q, days, last)
            BY <2>2 DEF HistoryOf
        <3>2. PICK old_range \in ResolveRange(q.from, q.to, UtcDateOf(last)) :
                 /\ start < old_range[2] - old_range[1] + 1
                 /\ days # <<>> => Last(days).date - 1 <= old_range[2] - start
            BY <3>1 DEF Resumes, ReadyFor, start
        <3>3. old_range[1] \in Int /\ old_range[2] \in Int
            BY <1>1, <1>2, RangeIs
        <3>4. /\ old_range[2] <= range[2]
              /\ old_range[2] - old_range[1] + 1 <= range[2] - range[1] + 1
            BY <1>1, <1>2, RangeMoves
        <3>5. start < range[2] - range[1] + 1
            BY <1>3, <1>4, <3>2, <3>3, <3>4
        <3>6. ASSUME d # <<>> PROVE Last(d).date - 1 <= range[2] - start
            <4>1. days \in Seq(Day) /\ days # <<>>
                BY <3>1, <3>6 DEF Good
            <4>2. Last(days) \in Day
                <5>1. Len(days) \in 1..Len(days)
                    BY <4>1, LenProperties, EmptySeq
                <5> QED BY <4>1, <5>1, ElementOfSeq DEF Last
            <4>3. Last(days).date \in Int
                BY <4>2 DEF Day
            <4> QED BY <1>3, <1>4, <3>1, <3>2, <3>3, <3>4, <4>1, <4>3
        <3> QED BY <3>1, <3>5, <3>6 DEF ReadyFor, start
    <2> QED BY <2>1, <2>2
<1>7. all = d \o GetHistory(es, range[1], range[2], q.page, q.size)
    OBVIOUS
<1> HIDE DEF d
<1>8. Good(all, old) /\ EndWith(all, range[1], range[2], q.page, q.size)
    BY <1>1, <1>3, <1>5, <1>6, <1>7, PageFollows
<1> QED BY <1>5, <1>8 DEF HistoryOf, Ended

\* There are more pages, so the last one was full.
LEMMA HistoryContinues ==
    ASSUME NEW q \in Request, Paged(q), NEW days, NEW old, NEW es, NEW at \in Nat,
           HistoryOf("answered", q, days, old, es, at),
           \E range \in ResolveRange(q.from, q.to, UtcDateOf(at)) :
               q.page < TotalPages(range[1], range[2], q.size),
           NEW next, next.page = q.page + 1,
           next.from = q.from, next.to = q.to, next.size = q.size,
           NEW state \in {"begun", "found"}
    PROVE  HistoryOf(state, next, days, old, es, at)
<1>1. /\ q.from \in AskedDate /\ q.to \in AskedDate
      /\ q.page \in Nat \ {0} /\ q.size \in Nat \ {0}
    <2>1. /\ q.from \in AskedDate /\ q.to \in AskedDate
          /\ q.page \in 1..MaxRangeDays /\ q.size \in PageSize
        BY RequestIs
    <2>2. q.page \in Nat \ {0}
        BY <2>1, PagingAssumption
    <2>3. q.size \in Nat \ {0}
        BY <2>1, PagingAssumption
    <2> QED BY <2>1, <2>2, <2>3
<1>2. Good(days, old) /\ Ended(q, days, at) /\ ToSet(old) \subseteq ToSet(es)
    BY DEF HistoryOf
<1>3. PICK range \in ResolveRange(q.from, q.to, UtcDateOf(at)) :
          Last(days).date =
              range[2] - (PageEnd(q.page, q.size, range[2] - range[1] + 1) - 1)
    BY <1>2 DEF Ended, EndWith
<1>4. q.page < TotalPages(range[1], range[2], q.size)
    BY DEF ResolveRange
<1>5. UtcDateOf(at) \in Nat
    BY DayOf
<1>6. range[1] \in Int /\ range[2] \in Int /\ range[1] <= range[2]
    BY <1>1, <1>5, RangeIs
<1> DEFINE pages == TotalPages(range[1], range[2], q.size)
           n == range[2] - range[1] + 1
<1>7. pages \in Int /\ (pages - 1) * q.size < n
    <2>1. pages \in 1..n /\ (pages - 1) * q.size < n
        BY <1>1, <1>6, Pages
    <2> QED BY <1>6, <2>1
<1>8. q.page * q.size < n
    <2>1. q.page <= pages - 1 /\ q.page \in Int /\ pages - 1 \in Int /\ q.size \in Nat
        BY <1>1, <1>4, <1>7
    <2> HIDE DEF pages
    <2>2. q.page * q.size <= (pages - 1) * q.size
        BY <2>1, Product
    <2>3. q.page * q.size \in Int /\ (pages - 1) * q.size \in Int /\ n \in Int
        BY <1>6, <2>1
    <2> QED BY <1>7, <2>2, <2>3
<1>9. PageStart(next.page, next.size) = q.page * q.size
    BY <1>1 DEF PageStart
<1>10. PageStart(q.page, q.size) + q.size = q.page * q.size
    BY <1>1 DEF PageStart
<1>11. PageEnd(q.page, q.size, n) = q.page * q.size
    <2>1. q.page * q.size \in Int /\ n \in Int
        BY <1>1, <1>6
    <2> QED BY <1>8, <1>10, <2>1 DEF PageEnd
<1>12. Last(days).date - 1 <= range[2] - q.page * q.size
    <2>1. PICK k \in Int : k = q.page * q.size
        BY <1>1
    <2>2. Last(days).date = range[2] - (k - 1)
        BY <1>3, <1>11, <2>1
    <2> QED BY <1>6, <2>1, <2>2
<1>13. Resumes(next, days, at)
    BY <1>8, <1>9, <1>12 DEF Resumes, ReadyFor
<1> QED BY <1>2, <1>13 DEF HistoryOf

\* No request has read a time that is later than its last step.
IClock == \A r \in Reader : now[r] <= since[r] /\ since[r] <= clock

LEMMA IClockStep == IType /\ IType' /\ IClock /\ [Next]_vars => IClock'
<1> SUFFICES ASSUME IType, IType', IClock, [Next]_vars PROVE IClock'
    OBVIOUS
<1>0. /\ clock \in Nat /\ clock' \in Nat
      /\ \A r \in Reader : since[r] \in Nat /\ now[r] \in Nat
      /\ now \in [Reader -> 0..MaxTime] /\ since \in [Reader -> 0..MaxTime]
    BY DEF IType, TypeOK
<1>1. ASSUME NEW r \in Reader,
             \/ \E q \in FirstRequest : Begin(r, q)
             \/ FindTenantUser(r) \/ ReadDay(r) \/ ReadPage(r) \/ NextPage(r)
             \/ ReadRoster(r) \/ ReadTeamEvents(r) \/ Finish(r)
      PROVE  IClock'
    <2>1. /\ UNCHANGED clock
          /\ \A x \in Reader \ {r} : now'[x] = now[x] /\ since'[x] = since[x]
        BY <1>1, OthersStay
    <2>2. ASSUME NEW to, Move(r, to),
                 UNCHANGED now \/ \E at \in since[r]..clock : now' = [now EXCEPT ![r] = at]
          PROVE  now'[r] <= since'[r] /\ since'[r] <= clock
        <3>1. since'[r] = clock
            BY <1>0, <2>2 DEF Move
        <3>2. CASE UNCHANGED now
            BY <1>0, <3>1, <3>2 DEF IClock
        <3>3. ASSUME NEW at \in since[r]..clock, now' = [now EXCEPT ![r] = at]
              PROVE  now'[r] <= clock
            <4>1. now'[r] = at
                BY <1>0, <3>3
            <4> QED BY <1>0, <4>1
        <3> QED BY <1>0, <2>2, <3>1, <3>2, <3>3
    <2>3. now'[r] <= since'[r] /\ since'[r] <= clock
        <3>1. CASE \E q \in FirstRequest : Begin(r, q)
            BY <2>2, <3>1 DEF Begin
        <3>2. CASE FindTenantUser(r)
            <4>1. \E to : Move(r, to)
                BY <3>2 DEF FindTenantUser
            <4> QED BY <2>2, <3>2, <4>1 DEF FindTenantUser
        <3>3. CASE ReadDay(r)
            BY <2>2, <3>3 DEF ReadDay
        <3>4. CASE ReadPage(r)
            <4>1. /\ \E to : Move(r, to)
                  /\ UNCHANGED now \/ \E at \in since[r]..clock : now' = [now EXCEPT ![r] = at]
                BY <3>4 DEF ReadPage
            <4> QED BY <2>2, <4>1
        <3>5. CASE NextPage(r)
            BY <2>2, <3>5 DEF NextPage
        <3>6. CASE ReadRoster(r)
            BY <2>2, <3>6 DEF ReadRoster
        <3>7. CASE ReadTeamEvents(r)
            BY <2>2, <3>7 DEF ReadTeamEvents
        <3>8. CASE Finish(r)
            BY <1>0, <3>8 DEF Finish
        <3> QED BY <1>1, <3>1, <3>2, <3>3, <3>4, <3>5, <3>6, <3>7, <3>8
    <2> QED BY <2>1, <2>3 DEF IClock
<1>2. ASSUME UNCHANGED <<since, now>>, clock' = clock \/ clock' = clock + 1 PROVE IClock'
    <2> SUFFICES ASSUME NEW r \in Reader PROVE now[r] <= since[r] /\ since[r] <= clock'
        BY <1>2 DEF IClock
    <2> QED BY <1>0, <1>2 DEF IClock
<1>3. CASE \E u \in User : \/ \E e \in Event : Record(u, e)
                           \/ \E new \in {"ACTIVE", "INACTIVE", "GONE"} : SetStatus(u, new)
    BY <1>2, <1>3 DEF Record, SetStatus
<1>4. CASE Tick
    BY <1>2, <1>4 DEF Tick
<1>5. CASE UNCHANGED vars
    BY <1>2, <1>5 DEF vars
<1> QED BY <1>1, <1>3, <1>4, <1>5 DEF Next

LEMMA IClockAlways == Spec => []IClock
<1>1. Init => IClock
    BY DEF Init, IClock
<1> QED BY <1>1, ITypeAlways, IClockStep, PTL DEF Spec

\* The events of which nothing may be missing.
Old(r) ==
    IF status[req[r].target] = "GONE" THEN <<>> ELSE before[r][req[r].target]

\* What each request has shown of its history.
Row(r) == HistoryOf(pc[r], req[r], shown[r], Old(r), events[req[r].target], now[r])

IHistory == \A r \in Reader : Row(r)

LEMMA PagedRequest ==
    ASSUME NEW q \in FirstRequest, Paged(q)
    PROVE  q \in Request /\ q.page = 1
<1>1. q \in [route : {"me/history", "user/history"}, tenant : Tenant, target : User,
             from : AskedDate, to : AskedDate, page : 1..MaxRangeDays, size : PageSize]
    BY DEF FirstRequest, Request, Paged
<1>2. "page" \in DOMAIN q
    BY <1>1
<1> QED BY <1>2 DEF FirstRequest

LEMMA ReaderHistory ==
    ASSUME IType, IType', ILive, IClock, IHistory, NEW r \in Reader,
           \/ \E q \in FirstRequest : Begin(r, q)
           \/ FindTenantUser(r) \/ ReadDay(r) \/ ReadPage(r) \/ NextPage(r)
           \/ ReadRoster(r) \/ ReadTeamEvents(r) \/ Finish(r)
    PROVE  Row(r)'
<1>0. UNCHANGED <<clock, status, events>> /\ Row(r)
    BY OthersStay DEF IHistory
<1>1. ASSUME pc'[r] # "idle", ~ Paged(req'[r]) PROVE Row(r)'
    BY <1>1 DEF Row, HistoryOf
<1>2. ASSUME NEW q \in FirstRequest, Begin(r, q) PROVE Row(r)'
    <2>1. pc'[r] \in {"begun", "found"}
        BY <1>2, MoveTo DEF Begin, AfterAuthentication
    <2>2. req'[r] = q /\ shown'[r] = NoDay
        <3>1. shown[r] = NoDay
            BY <1>0, <1>2 DEF Begin, Row, HistoryOf
        <3> QED BY <1>2, <3>1 DEF Begin, IType, TypeOK
    <2>3. CASE Paged(q)
        <3>1. before'[r] = events
            BY <1>2, <2>3 DEF Begin, IType
        <3>2. Old(r)' = events'[q.target] \/ Old(r)' = <<>>
            BY <1>0, <2>2, <3>1 DEF Old
        <3>3. q.page = 1
            BY <2>3, PagedRequest
        <3>4. HistoryOf(pc'[r], q, NoDay, Old(r)', events'[q.target], now'[r])
            BY <2>1, <3>2, <3>3, HistoryBegins
        <3> QED BY <2>2, <3>4 DEF Row
    <2> QED BY <1>1, <2>1, <2>2, <2>3
<1>3. CASE FindTenantUser(r)
    <2>1. PICK to \in {"found", "refused"} : Move(r, to)
        BY <1>3 DEF FindTenantUser
    <2>2. pc'[r] = to /\ pc[r] = "begun" /\ UNCHANGED <<req, now, shown, before>>
        BY <1>3, <2>1, MoveTo DEF FindTenantUser
    <2>3. HistoryOf(to, req[r], shown[r], Old(r), events[req[r].target], now[r])
        BY <1>0, <2>2, HistoryMoves DEF Row
    <2> QED BY <1>0, <2>2, <2>3 DEF Row, Old
<1>4. CASE ReadDay(r)
    <2>1. pc'[r] = "answered" /\ UNCHANGED req /\ req[r].route \in {"me", "user"}
        BY <1>4, MoveTo DEF ReadDay
    <2> QED BY <1>1, <2>1 DEF Paged
<1>5. CASE ReadPage(r)
    <2>1. pc[r] = "found" /\ Paged(req[r]) /\ UNCHANGED <<req, before>> /\ req[r] \in Request
        BY <1>5 DEF ReadPage, IType
    <2>2. PICK at \in since[r]..clock :
              LET q == req[r]
                  ranges == ResolveRange(q.from, q.to, UtcDateOf(at))
              IN  \/ ranges = {} /\ Move(r, "refused") /\ UNCHANGED <<now, shown>>
                  \/ /\ \E range \in ranges :
                           shown' = [shown EXCEPT ![r] =
                               (IF @ = NoDay THEN <<>> ELSE @) \o
                               GetHistory(events[q.target], range[1], range[2], q.page, q.size)]
                     /\ now' = [now EXCEPT ![r] = at]
                     /\ Move(r, "answered")
        BY <1>5 DEF ReadPage
    <2>3. CASE Move(r, "refused") /\ UNCHANGED <<now, shown>>
        <3>1. pc'[r] = "refused"
            BY <2>3, MoveTo
        <3>2. HistoryOf("refused", req[r], shown[r], Old(r), events[req[r].target], now[r])
            BY <1>0, <2>1, HistoryMoves DEF Row
        <3> QED BY <1>0, <2>1, <2>3, <3>1, <3>2 DEF Row, Old
    <2>4. ASSUME NEW range \in ResolveRange(req[r].from, req[r].to, UtcDateOf(at)),
                 shown' = [shown EXCEPT ![r] =
                     (IF @ = NoDay THEN <<>> ELSE @) \o
                     GetHistory(events[req[r].target], range[1], range[2],
                                req[r].page, req[r].size)],
                 now' = [now EXCEPT ![r] = at], Move(r, "answered")
          PROVE  Row(r)'
        <3>1. pc'[r] = "answered"
            BY <2>4, MoveTo
        <3>2. /\ now'[r] = at /\ at \in Nat /\ now[r] \in Nat /\ now[r] <= at
              /\ events[req[r].target] \in Seq(Event)
            <4>1. now'[r] = at /\ now[r] \in Nat /\ since[r] \in Nat /\ clock \in Nat
                BY <2>4 DEF IType, TypeOK
            <4>2. req[r].target \in User
                BY <2>1, RequestIs
            <4> QED BY <4>1, <4>2 DEF IClock, IType, TypeOK
        <3>3. shown'[r] = (IF shown[r] = NoDay THEN <<>> ELSE shown[r]) \o
                  GetHistory(events[req[r].target], range[1], range[2], req[r].page, req[r].size)
            BY <2>4 DEF IType
        <3>4. HistoryOf("found", req[r], shown[r], Old(r), events[req[r].target], now[r])
            BY <1>0, <2>1 DEF Row
        <3>5. HistoryOf("answered", req[r], shown'[r], Old(r), events[req[r].target], at)
            BY <2>1, <3>2, <3>3, <3>4, HistoryGoesOn
        <3> QED BY <1>0, <2>1, <3>1, <3>2, <3>5 DEF Row, Old
    <2> QED BY <2>2, <2>3, <2>4
<1>6. CASE NextPage(r)
    <2>1. /\ pc[r] = "answered" /\ Paged(req[r]) /\ req[r] \in Request
          /\ UNCHANGED <<now, shown, before>> /\ now[r] \in Nat
          /\ \E range \in ResolveRange(req[r].from, req[r].to, UtcDateOf(now[r])) :
                req[r].page < TotalPages(range[1], range[2], req[r].size)
        <3>1. req[r] \in Request /\ now[r] \in Nat
            BY <1>6 DEF NextPage, IType, TypeOK
        <3> QED BY <1>6, <3>1 DEF NextPage
    <2>2. pc'[r] \in {"begun", "found"}
        BY <1>6, MoveTo DEF NextPage, AfterAuthentication
    <2>3. /\ req'[r].page = req[r].page + 1 /\ req'[r].target = req[r].target
          /\ req'[r].from = req[r].from /\ req'[r].to = req[r].to
          /\ req'[r].size = req[r].size
        <3>1. req'[r] = [req[r] EXCEPT !.page = req[r].page + 1]
            BY <1>6 DEF NextPage, IType, TypeOK
        <3>2. req[r] \in [route : {"me/history", "user/history"}, tenant : Tenant, target : User,
                          from : AskedDate, to : AskedDate, page : 1..MaxRangeDays, size : PageSize]
            BY <2>1 DEF Request, Paged
        <3> QED BY <3>1, <3>2
    <2>4. HistoryOf("answered", req[r], shown[r], Old(r), events[req[r].target], now[r])
        BY <1>0, <2>1 DEF Row
    <2>5. HistoryOf(pc'[r], req'[r], shown[r], Old(r), events[req[r].target], now[r])
        BY <2>1, <2>2, <2>3, <2>4, HistoryContinues
    <2> QED BY <1>0, <2>1, <2>3, <2>5 DEF Row, Old
<1>7. CASE ReadRoster(r)
    <2>1. pc'[r] = "listed" /\ UNCHANGED req /\ req[r].route \in {"team", "hours"}
        BY <1>7, MoveTo DEF ReadRoster
    <2> QED BY <1>1, <2>1 DEF Paged
<1>8. CASE ReadTeamEvents(r)
    <2>1. pc'[r] = "answered" /\ UNCHANGED req /\ req[r].route \in {"team", "hours"}
        BY <1>8, MoveTo DEF ReadTeamEvents, ILive
    <2> QED BY <1>1, <2>1 DEF Paged
<1>9. CASE Finish(r)
    <2>1. pc'[r] = "idle" /\ shown'[r] = NoDay
        BY <1>9 DEF Finish, IType, TypeOK
    <2> QED BY <2>1 DEF Row, HistoryOf
<1> QED BY <1>2, <1>3, <1>4, <1>5, <1>6, <1>7, <1>8, <1>9

LEMMA IHistoryStep == IType /\ IType' /\ ILive /\ IClock /\ IHistory /\ [Next]_vars => IHistory'
<1> SUFFICES ASSUME IType, IType', ILive, IClock, IHistory, [Next]_vars PROVE IHistory'
    OBVIOUS
<1>1. ASSUME NEW r \in Reader,
             \/ \E q \in FirstRequest : Begin(r, q)
             \/ FindTenantUser(r) \/ ReadDay(r) \/ ReadPage(r) \/ NextPage(r)
             \/ ReadRoster(r) \/ ReadTeamEvents(r) \/ Finish(r)
      PROVE  IHistory'
    <2>1. /\ UNCHANGED <<clock, status, events>>
          /\ \A x \in Reader \ {r} :
                /\ pc'[x] = pc[x] /\ req'[x] = req[x] /\ now'[x] = now[x]
                /\ shown'[x] = shown[x] /\ before'[x] = before[x]
        BY <1>1, OthersStay
    <2>2. \A x \in Reader \ {r} : Row(x)'
        BY <2>1 DEF IHistory, Row, Old
    <2>3. Row(r)'
        BY <1>1, ReaderHistory
    <2> QED BY <2>2, <2>3 DEF IHistory
<1>2. ASSUME NEW r \in Reader, UNCHANGED <<pc, req, now, shown, before>>,
             NEW left, NEW more, left = Old(r)', more = events'[req[r].target],
             req[r].target \in User =>
                 \/ left = <<>>
                 \/ left = Old(r) /\ ToSet(events[req[r].target]) \subseteq ToSet(more)
      PROVE  Row(r)'
    <2>1. HistoryOf(pc[r], req[r], shown[r], Old(r), events[req[r].target], now[r])
        BY DEF IHistory, Row
    <2>2. HistoryOf(pc[r], req[r], shown[r], left, more, now[r])
        <3>1. CASE pc[r] = "idle" \/ ~ Paged(req[r])
            BY <2>1, <3>1 DEF HistoryOf
        <3>2. CASE pc[r] # "idle" /\ Paged(req[r])
            <4>1. req[r].target \in User
                BY <3>2, RequestIs DEF IType
            <4> QED BY <1>2, <2>1, <4>1, HistoryStays
        <3> QED BY <3>1, <3>2
    <2> QED BY <1>2, <2>2 DEF Row
<1>3. ASSUME NEW u \in User, NEW e \in Event, Record(u, e), NEW r \in Reader PROVE Row(r)'
    <2>1. /\ UNCHANGED <<status, pc, req, now, shown, before>>
          /\ events' = [events EXCEPT ![u] = Append(events[u], e)]
        BY <1>3 DEF Record
    <2>2. Old(r)' = Old(r)
        BY <2>1 DEF Old
    <2>3. ASSUME NEW x \in User PROVE ToSet(events[x]) \subseteq ToSet(events'[x])
        <3>1. events[u] \in Seq(Event)
            BY DEF IType, TypeOK
        <3>2. ToSet(Append(events[u], e)) = ToSet(events[u]) \cup {e}
            BY <3>1, ElementsOfAppend
        <3> QED BY <2>1, <3>2 DEF IType, TypeOK
    <2> QED BY <1>2, <2>1, <2>2, <2>3
<1>4. ASSUME NEW u \in User, NEW new \in {"ACTIVE", "INACTIVE", "GONE"}, SetStatus(u, new),
             NEW r \in Reader
      PROVE  Row(r)'
    <2>1. /\ UNCHANGED <<pc, req, now, shown, before>> /\ status[u] # "GONE"
          /\ status' = [status EXCEPT ![u] = new]
          /\ events' = IF new = "GONE" THEN [events EXCEPT ![u] = <<>>] ELSE events
        BY <1>4 DEF SetStatus
    <2>2. ASSUME NEW x \in User, x = req[r].target, status'[x] # "GONE"
          PROVE  Old(r)' = Old(r) /\ events'[x] = events[x]
        <3>1. status[x] # "GONE"
            BY <2>1, <2>2 DEF IType, TypeOK
        <3>2. Old(r)' = Old(r)
            BY <2>1, <2>2, <3>1 DEF Old
        <3>3. events'[x] = events[x]
            BY <2>1, <2>2 DEF IType, TypeOK
        <3> QED BY <3>2, <3>3
    <2>3. ASSUME NEW x \in User, x = req[r].target, status'[x] = "GONE" PROVE Old(r)' = <<>>
        BY <2>1, <2>3 DEF Old
    <2>4. req[r].target \in User =>
              \/ Old(r)' = <<>>
              \/ Old(r)' = Old(r) /\ ToSet(events[req[r].target]) \subseteq ToSet(events'[req[r].target])
        BY <2>2, <2>3
    <2> QED BY <1>2, <2>1, <2>4
<1>5. ASSUME UNCHANGED <<status, events, pc, req, now, shown, before>>, NEW r \in Reader
      PROVE  Row(r)'
    BY <1>5 DEF IHistory, Row, Old
<1> QED BY <1>1, <1>3, <1>4, <1>5 DEF Next, Tick, vars, IHistory

LEMMA IHistoryAlways == Spec => []IHistory
<1>1. Init => IHistory
    BY DEF Init, IHistory, Row, HistoryOf
<1> QED BY <1>1, ITypeAlways, ILiveAlways, IClockAlways, IHistoryStep, PTL DEF Spec

\* Pages that are read one after the other, while the default range moves with the days and
\* events are recorded, leave out no day between the first and the last that they show, nor an
\* event of those days that was there before the first page.
THEOREM NoDayIsPassedOver == Spec => []HistoryHasNoGap
<1>1. IType /\ IHistory => HistoryHasNoGap
    <2> SUFFICES ASSUME IType, IHistory, NEW r \in Reader,
                        pc[r] # "idle", shown[r] # NoDay, Paged(req[r]),
                        NEW days, days = shown[r], NEW seen,
                        seen = UNION {ToSet(EventsOf(days[i].sessions)) : i \in DOMAIN days}
                 PROVE  /\ \A i \in 1..(Len(days) - 1) : days[i + 1].date >= days[i].date - 1
                        /\ status[req[r].target] # "GONE" =>
                              \A e \in ToSet(before[r][req[r].target]) :
                                  (\E i \in DOMAIN days : days[i].date = UtcDateOf(e.at)) => e \in seen
        BY DEF HistoryHasNoGap
    <2>1. Good(days, Old(r))
        BY DEF IHistory, Row, HistoryOf
    <2>2. \A i \in 1..(Len(days) - 1) : days[i + 1].date >= days[i].date - 1
        BY <2>1 DEF Good, Adjacent
    <2>3. ASSUME status[req[r].target] # "GONE", NEW e \in ToSet(before[r][req[r].target]),
                 NEW i \in DOMAIN days, days[i].date = UtcDateOf(e.at)
          PROVE  e \in seen
        <3>1. i \in 1..Len(days) /\ e \in ToSet(Old(r))
            <4>1. days \in Seq(Day)
                BY <2>1 DEF Good
            <4> QED BY <2>3, <4>1, LenProperties DEF Old
        <3>2. e \in ToSet(EventsOf(days[i].sessions))
            BY <2>1, <2>3, <3>1 DEF Good, Show
        <3> QED BY <3>2
    <2> QED BY <2>2, <2>3
<1> QED BY <1>1, ITypeAlways, IHistoryAlways, PTL

-----------------------------------------------------------------------------
(* Hours.  What the sessions of a window add up to, and in how many hours  *)
(* of it the user was checked in.                                          *)

Span(a, b) == IF b <= a THEN 0 ELSE b - a

\* Where a session begins and ends in a window.
FirstHour(in, start) ==
    IF in = NoEvent THEN start ELSE IF in.at <= start THEN start ELSE in.at

LastHour(out, end) ==
    IF out = NoEvent THEN end ELSE IF out.at <= end THEN out.at ELSE end

LEMMA SessionHoursIs ==
    ASSUME NEW s \in SessionType, NEW start \in Nat, NEW end \in Nat
    PROVE  /\ SessionHours(s, start, end) =
                  Span(FirstHour(s.check_in, start), LastHour(s.check_out, end))
           /\ SessionHours(s, start, end) \in Nat
<1>1. /\ s.check_in \in Event \cup {NoEvent} /\ s.check_out \in Event \cup {NoEvent}
      /\ \A e \in Event : e.at \in Nat
    BY DEF SessionType, Event
<1> DEFINE first == IF s.check_in = NoEvent THEN start ELSE Max({s.check_in.at, start})
           last == IF s.check_out = NoEvent THEN end ELSE Min({s.check_out.at, end})
<1>2. first = FirstHour(s.check_in, start) /\ first \in Nat
    <2>1. CASE s.check_in = NoEvent
        BY <2>1 DEF FirstHour
    <2>2. CASE s.check_in # NoEvent
        <3>1. PICK a \in Nat : a = s.check_in.at
            BY <1>1, <2>2
        <3>2. Max({a, start}) = IF a <= start THEN start ELSE a
            BY MaxOfTwo
        <3> QED BY <2>2, <3>1, <3>2 DEF FirstHour
    <2> QED BY <2>1, <2>2
<1>3. last = LastHour(s.check_out, end) /\ last \in Nat
    <2>1. CASE s.check_out = NoEvent
        BY <2>1 DEF LastHour
    <2>2. CASE s.check_out # NoEvent
        <3>1. PICK a \in Nat : a = s.check_out.at
            BY <1>1, <2>2
        <3>2. Min({a, end}) = IF a <= end THEN a ELSE end
            BY MinOfTwo
        <3> QED BY <2>2, <3>1, <3>2 DEF LastHour
    <2> QED BY <2>1, <2>2
<1>4. SessionHours(s, start, end) = IF last <= first THEN 0 ELSE last - first
    BY DEF SessionHours
<1> HIDE DEF first, last
<1> QED BY <1>2, <1>3, <1>4 DEF Span

\* A step of the sum, as a function.
HoursStep(s, start, end) == [sum \in Nat |-> sum + SessionHours(s, start, end)]

LEMMA HoursStepIs ==
    ASSUME NEW s \in SessionType, NEW start \in Nat, NEW end \in Nat, NEW v \in Nat
    PROVE  /\ HoursStep(s, start, end)[v] = v + SessionHours(s, start, end)
           /\ HoursStep(s, start, end)[v] \in Nat
<1>1. SessionHours(s, start, end) \in Nat
    BY SessionHoursIs
<1> QED BY <1>1 DEF HoursStep

\* v is what a fold by the steps ends with.
FoldsTo(v, base, V, step, n) ==
    StaysIn(V, step, n) /\ \E g : Folds(g, base, V, step, n) /\ v = g[1..n]

LEMMA FoldsToOneMore ==
    ASSUME NEW n \in Nat, NEW m \in Nat, m = n + 1, NEW V, NEW base \in V, NEW step,
           NEW v, NEW w, FoldsTo(v, base, V, step, n), FoldsTo(w, base, V, step, m)
    PROVE  v \in V /\ w = step[m][v]
<1>1. StaysIn(V, step, m)
    BY DEF FoldsTo
<1>2. PICK g : Folds(g, base, V, step, n) /\ v = g[1..n]
    BY DEF FoldsTo
<1>3. PICK h : Folds(h, base, V, step, m) /\ w = h[1..m]
    BY DEF FoldsTo
<1> QED BY <1>1, <1>2, <1>3, FoldOneMore

LEMMA HoursFolds ==
    ASSUME NEW ss \in Seq(SessionType), NEW start \in Nat, NEW end \in Nat,
           NEW step, \A i \in 1..Len(ss) : step[i] = HoursStep(ss[i], start, end)
    PROVE  FoldsTo(HoursSince(ss, start, end), 0, Nat, step, Len(ss))
<1> DEFINE n == Len(ss)
           IsIt(h) ==
               h = [s \in SUBSET (DOMAIN ss) |->
                       IF s = {} THEN 0
                       ELSE h[s \ {Max(s)}] + SessionHours(ss[Max(s)], start, end)]
           g == CHOOSE h : IsIt(h)
<1>1. n \in Nat /\ DOMAIN ss = 1..n /\ \A i \in 1..n : ss[i] \in SessionType
    BY LenProperties, ElementOfSeq
<1>2. \A i \in 1..n : \A v \in Nat :
          step[i][v] = v + SessionHours(ss[i], start, end) /\ step[i][v] \in Nat
    BY <1>1, HoursStepIs
<1>3. 0 \in Nat
    OBVIOUS
<1>4. HoursSince(ss, start, end) = g[1..n]
    BY <1>1, Zenon DEF HoursSince, FoldLeft, MapThenFoldSet
<1> HIDE DEF n
<1>5. StaysIn(Nat, step, n)
    BY <1>2 DEF StaysIn
<1>6. PICK f : DefinedBy(f, 0, Nat, step, n)
    BY <1>1, <1>3, <1>5, FoldExists
<1>7. IsIt(f)
    <2>1. f \in [SUBSET (1..n) -> Nat]
        BY <1>6 DEF DefinedBy
    <2>2. ASSUME NEW s \in SUBSET (1..n)
          PROVE  f[s] = IF s = {} THEN 0
                        ELSE f[s \ {Max(s)}] + SessionHours(ss[Max(s)], start, end)
        <3>1. f[s] = IF s = {} THEN 0 ELSE step[Max(s)][f[s \ {Max(s)}]]
            BY <1>6 DEF DefinedBy
        <3>2. CASE s # {}
            <4>1. Max(s) \in 1..n /\ s \ {Max(s)} \in SUBSET (1..n)
                BY <1>1, <3>2, MaxOfPart
            <4> QED BY <1>2, <2>1, <3>1, <3>2, <4>1
        <3> QED BY <3>1, <3>2
    <2> QED BY <1>1, <2>1, <2>2
<1>8. IsIt(g)
    BY <1>7, Zenon
<1>9. Folds(g, 0, Nat, step, n)
    <2>1. \A s \in SUBSET (1..n) :
              g[s] = IF s = {} THEN 0
                     ELSE g[s \ {Max(s)}] + SessionHours(ss[Max(s)], start, end)
        <3> HIDE DEF g
        <3> QED BY <1>1, <1>8
    <2> HIDE DEF g
    <2>2. g[{}] = 0
        BY <2>1
    <2>3. ASSUME NEW s \in SUBSET (1..n), s # {}, g[s \ {Max(s)}] \in Nat
          PROVE  g[s] = step[Max(s)][g[s \ {Max(s)}]]
        <3>1. Max(s) \in 1..n
            BY <1>1, <2>3, MaxOfPart
        <3> QED BY <1>2, <2>1, <2>3, <3>1
    <2> QED BY <2>2, <2>3 DEF Folds
<1> QED BY <1>4, <1>5, <1>9 DEF n, FoldsTo

LEMMA HoursOneMore ==
    ASSUME NEW start \in Nat, NEW end \in Nat
    PROVE  /\ HoursSince(<<>>, start, end) = 0
           /\ \A ss \in Seq(SessionType) : \A s \in SessionType :
                 /\ HoursSince(ss, start, end) \in Nat
                 /\ HoursSince(Append(ss, s), start, end) =
                        HoursSince(ss, start, end) + SessionHours(s, start, end)
<1>1. HoursSince(<<>>, start, end) = 0
    <2>1. <<>> \in Seq(SessionType) /\ Len(<<>>) = 0 /\ 1..0 = {}
        OBVIOUS
    <2>2. FoldsTo(HoursSince(<<>>, start, end), 0, Nat, <<>>, Len(<<>>))
        BY <2>1, HoursFolds
    <2> QED BY <2>1, <2>2 DEF FoldsTo, Folds
<1>2. ASSUME NEW ss \in Seq(SessionType), NEW s \in SessionType
      PROVE  /\ HoursSince(ss, start, end) \in Nat
             /\ HoursSince(Append(ss, s), start, end) =
                    HoursSince(ss, start, end) + SessionHours(s, start, end)
    <2> DEFINE more == Append(ss, s)
               n == Len(ss)
               m == Len(more)
               step == [i \in 1..m |-> HoursStep(more[i], start, end)]
    <2>1. /\ more \in Seq(SessionType) /\ n \in Nat /\ m \in Nat /\ m = n + 1 /\ more[m] = s
          /\ \A i \in 1..n : more[i] = ss[i]
        BY AppendProperties, LenProperties
    <2>2. /\ \A i \in 1..n : step[i] = HoursStep(ss[i], start, end)
          /\ \A i \in 1..m : step[i] = HoursStep(more[i], start, end)
          /\ step[m] = HoursStep(s, start, end)
        BY <2>1
    <2> HIDE DEF step, more
    <2>3. FoldsTo(HoursSince(ss, start, end), 0, Nat, step, n)
        BY <2>2, HoursFolds
    <2>4. FoldsTo(HoursSince(more, start, end), 0, Nat, step, m)
        BY <2>1, <2>2, HoursFolds
    <2> HIDE DEF n, m
    <2>5. /\ HoursSince(ss, start, end) \in Nat
          /\ HoursSince(more, start, end) = step[m][HoursSince(ss, start, end)]
        <3>1. 0 \in Nat
            OBVIOUS
        <3>2. PICK V, v, w : /\ V = Nat /\ v = HoursSince(ss, start, end)
                             /\ w = HoursSince(more, start, end)
            OBVIOUS
        <3>3. 0 \in V /\ FoldsTo(v, 0, V, step, n) /\ FoldsTo(w, 0, V, step, m)
            BY <2>3, <2>4, <3>1, <3>2
        <3>4. v \in V /\ w = step[m][v]
            BY <2>1, <3>3, FoldsToOneMore
        <3> QED BY <3>2, <3>4
    <2>6. HoursSince(more, start, end) = HoursSince(ss, start, end) + SessionHours(s, start, end)
        BY <2>2, <2>5, HoursStepIs
    <2> QED BY <2>5, <2>6 DEF more
<1> QED BY <1>1, <1>2

\* A stretch in which nothing changes adds all of its hours, or none.
LEMMA WorkedOneMore ==
    ASSUME NEW es, NEW start \in Nat, NEW a \in Nat, NEW b \in Nat, a <= b,
           NEW V \in BOOLEAN, \A x \in start..(b - 1) : a <= x => (CheckedInAt(es, x) <=> V)
    PROVE  /\ Worked(es, start, a) \in Nat
           /\ Worked(es, start, b) = Worked(es, start, a) +
                  (IF V THEN Span(IF a <= start THEN start ELSE a, b) ELSE 0)
<1> DEFINE c == IF a <= start THEN start ELSE a
           before_a == {x \in start..(a - 1) : CheckedInAt(es, x)}
           before_b == {x \in start..(b - 1) : CheckedInAt(es, x)}
           more == IF V THEN c..(b - 1) ELSE {}
<1>1. c \in Nat /\ Worked(es, start, a) = Cardinality(before_a)
      /\ Worked(es, start, b) = Cardinality(before_b)
    BY DEF Worked
<1>2. IsFiniteSet(before_a)
    <2>1. IsFiniteSet(start..(a - 1)) /\ before_a \in SUBSET (start..(a - 1))
        BY FS_Interval
    <2> HIDE DEF before_a
    <2> QED BY <2>1, FS_Subset
<1>3. IsFiniteSet(more) /\ Cardinality(more) = IF V THEN Span(c, b) ELSE 0
    <2>1. CASE V
        <3>1. IsFiniteSet(c..(b - 1)) /\ Cardinality(c..(b - 1)) = IF c > b - 1 THEN 0 ELSE (b - 1) - c + 1
            <4>1. c \in Int /\ b - 1 \in Int
                BY <1>1
            <4> HIDE DEF c
            <4> QED BY <4>1, FS_Interval
        <3> QED BY <1>1, <2>1, <3>1 DEF Span
    <2>2. CASE ~ V
        BY <2>2, FS_EmptySet
    <2> QED BY <2>1, <2>2
<1>4. before_b = before_a \cup more /\ before_a \cap more = {}
    <2>1. ASSUME NEW x \in Int
          PROVE  /\ x \in before_b <=> x \in before_a \/ x \in more
                 /\ ~ (x \in before_a /\ x \in more)
        OBVIOUS
    <2>2. before_a \subseteq Int /\ before_b \subseteq Int /\ more \subseteq Int
        OBVIOUS
    <2> HIDE DEF before_a, before_b, more
    <2> QED BY <2>1, <2>2
<1> HIDE DEF before_a, before_b, more, c
<1>5. Cardinality(before_b) = Cardinality(before_a) + Cardinality(more)
    <2>1. Cardinality(before_a \cup more) = Cardinality(before_a) + Cardinality(more) - Cardinality({})
        BY <1>2, <1>3, <1>4, FS_Union
    <2> QED BY <1>2, <1>3, <1>4, <2>1, FS_EmptySet, FS_CardinalityType
<1>6. Cardinality(before_a) \in Nat
    BY <1>2, FS_CardinalityType
<1> QED BY <1>1, <1>3, <1>5, <1>6 DEF c

\* No hours before the window begins.
LEMMA WorkedNothing ==
    ASSUME NEW es, NEW start \in Nat, NEW a \in Nat, a <= start
    PROVE  Worked(es, start, a) = 0
<1>1. {x \in start..(a - 1) : CheckedInAt(es, x)} = {}
    OBVIOUS
<1> QED BY <1>1, FS_EmptySet DEF Worked

Working(es) == State(es) = "CHECKED_IN"

\* How far the events of a window have come.
Reached(es, month) ==
    IF es = <<>> THEN month ELSE IF Last(es).at < month THEN month ELSE Last(es).at

Before(es, time) == es # <<>> => Last(es).at < time

\* The loop of build_sessions has accounted for the hours up to the last event; the
\* session that is open began with it, unless that was before the month.
Settled(es, month, start, end) ==
    /\ Paired(InRange(es, month, end)).open =
           IF Working(es) /\ month <= Last(es).at THEN Last(es) ELSE NoEvent
    /\ HoursSince(Paired(InRange(es, month, end)).sessions, start, end) =
           Worked(es, start, Reached(es, month))
    /\ \A x \in Nat : (es # <<>> => Last(es).at <= x) => (CheckedInAt(es, x) <=> Working(es))
    /\ Before(es, month) => InRange(es, month, end) = <<>>

\* The hours of the window, unless they are those of a session of an earlier month of
\* which the month has no event.
Accounted(es, month, start, end) ==
    \/ CheckedInAt(es, month) /\ InRange(es, month, end) = <<>>
    \/ HoursSince(BuildSessions(InRange(es, month, end)), start, end) = Worked(es, start, end)

LEMMA LastOfAppend ==
    ASSUME NEW es \in Seq(Event), NEW e \in Event
    PROVE  /\ Append(es, e) \in Seq(Event) /\ Append(es, e) # <<>> /\ Last(Append(es, e)) = e
           /\ Working(Append(es, e)) <=> e.type = "CHECK_IN"
<1>1. Append(es, e) \in Seq(Event) /\ Append(es, e) # <<>> /\ Last(Append(es, e)) = e
    BY AppendProperties, LenProperties DEF Last
<1> QED BY <1>1 DEF Working, State

LEMMA LastEvent ==
    ASSUME NEW es \in Seq(Event), es # <<>>
    PROVE  Last(es) \in Event /\ Last(es).at \in Nat
<1>1. Len(es) \in 1..Len(es)
    BY LenProperties, EmptySeq
<1>2. Last(es) \in Event
    BY <1>1, ElementOfSeq DEF Last
<1> QED BY <1>2 DEF Event

LEMMA CheckedInOneMore ==
    ASSUME NEW es \in Seq(Event), NEW e \in Event, NEW x \in Nat
    PROVE  CheckedInAt(Append(es, e), x) <=>
               IF e.at <= x THEN e.type = "CHECK_IN" ELSE CheckedInAt(es, x)
<1> DEFINE S == {y \in Event : y.at <= x}
<1>1. /\ Select(es, S) \in Seq(Event)
      /\ Select(Append(es, e), S) = IF e \in S THEN Append(Select(es, S), e) ELSE Select(es, S)
    BY SelectOneMore
<1>2. Working(Append(Select(es, S), e)) <=> e.type = "CHECK_IN"
    BY <1>1, LastOfAppend
<1> QED BY <1>1, <1>2 DEF CheckedInAt, Working

LEMMA InRangeOneMore ==
    ASSUME NEW es \in Seq(Event), NEW e \in Event, NEW month \in Nat, NEW end \in Nat
    PROVE  /\ InRange(es, month, end) \in Seq(Event)
           /\ InRange(Append(es, e), month, end) =
                  IF month <= e.at /\ e.at < end
                  THEN Append(InRange(es, month, end), e) ELSE InRange(es, month, end)
<1> DEFINE S == {y \in Event : month <= y.at /\ y.at < end}
<1>1. /\ Select(es, S) \in Seq(Event)
      /\ Select(Append(es, e), S) = IF e \in S THEN Append(Select(es, S), e) ELSE Select(es, S)
    BY SelectOneMore
<1> QED BY <1>1 DEF InRange

LEMMA SettledNothing ==
    ASSUME NEW month \in Nat, NEW start \in Nat, NEW end \in Nat, month <= start
    PROVE  Settled(<<>>, month, start, end)
<1>1. InRange(<<>>, month, end) = <<>>
    BY SelectOneMore DEF InRange
<1>2. Paired(<<>>).open = NoEvent /\ Paired(<<>>).sessions = <<>>
    BY PairOneMore DEF PairStart
<1>3. ASSUME NEW x PROVE ~ CheckedInAt(<<>>, x)
    <2>1. Select(<<>>, {e \in Event : e.at <= x}) = <<>>
        BY SelectOneMore
    <2> QED BY <2>1 DEF CheckedInAt, State
<1>4. ~ Working(<<>>)
    BY DEF Working, State
<1>5. HoursSince(<<>>, start, end) = 0 /\ Worked(<<>>, start, month) = 0
    BY HoursOneMore, WorkedNothing
<1> QED BY <1>1, <1>2, <1>3, <1>4, <1>5 DEF Settled, Reached

\* Since the last event nothing has changed, or since the month began.
LEMMA WorkedSince ==
    ASSUME NEW es \in Seq(Event), NEW month \in Nat, NEW start \in Nat, NEW end \in Nat,
           month <= start, Settled(es, month, start, end),
           NEW b \in Nat, Reached(es, month) <= b
    PROVE  /\ Reached(es, month) \in Nat
           /\ Worked(es, start, Reached(es, month)) \in Nat
           /\ Worked(es, start, b) = Worked(es, start, Reached(es, month)) +
                  (IF Working(es)
                   THEN Span(IF Reached(es, month) <= start THEN start ELSE Reached(es, month), b)
                   ELSE 0)
<1>1. PICK a \in Nat : a = Reached(es, month) /\ a <= b
    BY LastEvent DEF Reached
<1>2. PICK V \in BOOLEAN : V = Working(es)
    BY DEF Working
<1>3. ASSUME NEW x \in start..(b - 1), a <= x PROVE CheckedInAt(es, x) <=> V
    <2>1. x \in Nat
        OBVIOUS
    <2>2. es # <<>> => Last(es).at <= x
        <3>1. CASE es # <<>>
            <4>1. Last(es).at \in Nat
                BY <3>1, LastEvent
            <4> QED BY <1>1, <1>3, <2>1, <3>1, <4>1 DEF Reached
        <3> QED BY <3>1
    <2> QED BY <1>2, <2>1, <2>2 DEF Settled
<1>4. /\ Worked(es, start, a) \in Nat
      /\ Worked(es, start, b) = Worked(es, start, a) +
             (IF V THEN Span(IF a <= start THEN start ELSE a, b) ELSE 0)
    BY <1>1, <1>3, WorkedOneMore
<1> QED BY <1>1, <1>2, <1>4

\* Before an event there is what there was without it.
LEMMA WorkedBefore ==
    ASSUME NEW es \in Seq(Event), NEW e \in Event, NEW start \in Nat, NEW b \in Nat, b <= e.at
    PROVE  Worked(Append(es, e), start, b) = Worked(es, start, b)
<1>1. ASSUME NEW x \in start..(b - 1)
      PROVE  CheckedInAt(Append(es, e), x) <=> CheckedInAt(es, x)
    <2>1. e.at \in Nat /\ x \in Nat /\ ~ (e.at <= x)
        BY DEF Event
    <2> QED BY <2>1, CheckedInOneMore
<1>2. {x \in start..(b - 1) : CheckedInAt(Append(es, e), x)} =
      {x \in start..(b - 1) : CheckedInAt(es, x)}
    BY <1>1
<1> QED BY <1>2 DEF Worked

LEMMA SettledOneMore ==
    ASSUME NEW es \in Seq(Event), NEW e \in Event,
           NEW month \in Nat, NEW start \in Nat, NEW end \in Nat, month <= start, start <= end,
           Settled(es, month, start, end), Before(es, e.at), e.at < end,
           e.type = IF Working(es) THEN "CHECK_OUT" ELSE "CHECK_IN"
    PROVE  Settled(Append(es, e), month, start, end)
<1> DEFINE more == Append(es, e)
           part == InRange(es, month, end)
           acc == Paired(part)
<1>1. /\ more \in Seq(Event) /\ more # <<>> /\ Last(more) = e /\ e.at \in Nat
      /\ Working(more) <=> ~ Working(es)
      /\ es # <<>> => Last(es) \in Event /\ Last(es).at \in Nat /\ Last(es).at < e.at
      /\ Working(es) => es # <<>>
    <2>1. Working(more) <=> e.type = "CHECK_IN"
        BY LastOfAppend
    <2> QED BY <2>1, LastOfAppend, LastEvent DEF Event, Before, Working, State
<1>2. ASSUME NEW x \in Nat, e.at <= x PROVE CheckedInAt(more, x) <=> Working(more)
    <2>1. CheckedInAt(more, x) <=> e.type = "CHECK_IN"
        BY <1>2, CheckedInOneMore
    <2> QED BY <1>1, <2>1
<1>3. /\ part \in Seq(Event)
      /\ InRange(more, month, end) = IF month <= e.at THEN Append(part, e) ELSE part
    BY InRangeOneMore
<1>4. /\ acc.open = IF Working(es) /\ month <= Last(es).at THEN Last(es) ELSE NoEvent
      /\ HoursSince(acc.sessions, start, end) = Worked(es, start, Reached(es, month))
      /\ Before(es, month) => part = <<>>
    BY DEF Settled
<1>5. acc \in PairState /\ Paired(Append(part, e)) = Pair(acc, e)
    BY <1>3, PairOneMore
<1>6. acc.sessions \in Seq(SessionType) /\ acc.open \in Event \cup {NoEvent}
    BY <1>5 DEF PairState
<1> HIDE DEF more, part, acc
<1>7. CASE e.at < month
    <2>1. Before(es, month)
        BY <1>1, <1>7 DEF Before
    <2>2. InRange(more, month, end) = <<>>
        BY <1>1, <1>3, <1>4, <1>7, <2>1
    <2>3. Paired(<<>>).open = NoEvent /\ Paired(<<>>).sessions = <<>>
        BY PairOneMore DEF PairStart
    <2>4. Reached(more, month) = month
        BY <1>1, <1>7 DEF Reached
    <2>5. HoursSince(<<>>, start, end) = 0 /\ Worked(more, start, month) = 0
        BY HoursOneMore, WorkedNothing
    <2>6. ~ (month <= Last(more).at)
        BY <1>1, <1>7
    <2> QED BY <1>1, <1>2, <2>2, <2>3, <2>4, <2>5, <2>6 DEF Settled, more
<1>8. CASE month <= e.at
    <2>1. Paired(InRange(more, month, end)) = Pair(acc, e)
        BY <1>3, <1>5, <1>8
    <2>2. Reached(more, month) = e.at /\ ~ Before(more, month)
        BY <1>1, <1>8 DEF Reached, Before
    <2>3. Reached(es, month) <= e.at
        BY <1>1, <1>8 DEF Reached
    <2>4. Worked(more, start, e.at) = Worked(es, start, e.at)
        BY <1>1, WorkedBefore DEF more
    <2>5. /\ Reached(es, month) \in Nat /\ Worked(es, start, Reached(es, month)) \in Nat
          /\ Worked(es, start, e.at) = Worked(es, start, Reached(es, month)) +
                (IF Working(es)
                 THEN Span(IF Reached(es, month) <= start THEN start ELSE Reached(es, month), e.at)
                 ELSE 0)
        BY <1>1, <2>3, WorkedSince
    <2>6. /\ Pair(acc, e).open = IF Working(more) THEN e ELSE NoEvent
          /\ HoursSince(Pair(acc, e).sessions, start, end) = Worked(es, start, e.at)
        <3>1. CASE ~ Working(es)
            <4>1. acc.open = NoEvent /\ e.type = "CHECK_IN"
                BY <1>4, <3>1
            <4>2. Pair(acc, e).open = e /\ Pair(acc, e).sessions = acc.sessions
                BY <4>1 DEF Pair
            <4> QED BY <1>1, <1>4, <2>5, <3>1, <4>2
        <3>2. CASE Working(es)
            <4> DEFINE s == Session(acc.open, e)
            <4>1. e.type = "CHECK_OUT" /\ es # <<>>
                BY <1>1, <3>2
            <4>2. Pair(acc, e).open = NoEvent /\ Pair(acc, e).sessions = Append(acc.sessions, s)
                BY <4>1 DEF Pair
            <4>3. s \in SessionType /\ s.check_in = acc.open /\ s.check_out = e
                BY <1>6 DEF SessionType, Session
            <4>4. LastHour(e, end) = e.at
                BY <1>1, MissingAssumption DEF LastHour
            <4>5. FirstHour(acc.open, start) =
                      IF Reached(es, month) <= start THEN start ELSE Reached(es, month)
                BY <1>1, <1>4, <3>2, <4>1, MissingAssumption DEF FirstHour, Reached
            <4> HIDE DEF s
            <4>6. SessionHours(s, start, end) = Span(FirstHour(acc.open, start), e.at)
                <5>1. SessionHours(s, start, end) =
                          Span(FirstHour(s.check_in, start), LastHour(s.check_out, end))
                    BY <4>3, SessionHoursIs
                <5> QED BY <4>3, <4>4, <5>1
            <4>7. HoursSince(Append(acc.sessions, s), start, end) =
                      HoursSince(acc.sessions, start, end) + SessionHours(s, start, end)
                BY <1>6, <4>3, HoursOneMore
            <4> QED BY <1>1, <1>4, <2>5, <3>2, <4>2, <4>5, <4>6, <4>7
        <3> QED BY <3>1, <3>2
    <2> QED BY <1>1, <1>2, <1>8, <2>1, <2>2, <2>4, <2>6 DEF Settled, more
<1> QED BY <1>1, <1>7, <1>8

\* The session that is left open lasts until the end of the window.
LEMMA SettledIsAccounted ==
    ASSUME NEW es \in Seq(Event),
           NEW month \in Nat, NEW start \in Nat, NEW end \in Nat, month <= start, start <= end,
           Settled(es, month, start, end), Before(es, end)
    PROVE  Accounted(es, month, start, end)
<1> DEFINE part == InRange(es, month, end)
           acc == Paired(part)
<1>1. /\ es # <<>> => Last(es) \in Event /\ Last(es).at \in Nat /\ Last(es).at < end
      /\ Working(es) => es # <<>>
    BY LastEvent DEF Before, Working, State
<1>2. /\ acc.open = IF Working(es) /\ month <= Last(es).at THEN Last(es) ELSE NoEvent
      /\ HoursSince(acc.sessions, start, end) = Worked(es, start, Reached(es, month))
      /\ Before(es, month) => part = <<>>
    BY DEF Settled
<1>3. acc.sessions \in Seq(SessionType) /\ acc.open \in Event \cup {NoEvent}
    <2>1. part \in Seq(Event)
        BY SelectOneMore DEF InRange
    <2>2. acc \in PairState
        BY <2>1, PairOneMore
    <2> QED BY <2>2 DEF PairState
<1>4. BuildSessions(part) = IF acc.open = NoEvent THEN acc.sessions
                            ELSE Append(acc.sessions, Session(acc.open, NoEvent))
    BY DEF BuildSessions, Paired, PairStart
<1> HIDE DEF part, acc
<1>5. Reached(es, month) <= end
    BY <1>1 DEF Reached
<1>6. /\ Reached(es, month) \in Nat /\ Worked(es, start, Reached(es, month)) \in Nat
      /\ Worked(es, start, end) = Worked(es, start, Reached(es, month)) +
            (IF Working(es)
             THEN Span(IF Reached(es, month) <= start THEN start ELSE Reached(es, month), end)
             ELSE 0)
    BY <1>5, WorkedSince
<1>7. CASE ~ Working(es)
    BY <1>2, <1>4, <1>6, <1>7 DEF Accounted, part
<1>8. CASE Working(es) /\ month <= Last(es).at
    <2> DEFINE s == Session(acc.open, NoEvent)
    <2>1. acc.open = Last(es) /\ acc.open # NoEvent
        BY <1>1, <1>2, <1>8, MissingAssumption
    <2>2. s \in SessionType /\ s.check_in = acc.open /\ s.check_out = NoEvent
        BY <1>3 DEF SessionType, Session
    <2>3. FirstHour(acc.open, start) =
              IF Reached(es, month) <= start THEN start ELSE Reached(es, month)
        BY <1>1, <1>8, <2>1 DEF FirstHour, Reached
    <2>4. LastHour(NoEvent, end) = end
        BY DEF LastHour
    <2>5. BuildSessions(part) = Append(acc.sessions, s)
        BY <1>4, <2>1
    <2> HIDE DEF s
    <2>6. SessionHours(s, start, end) = Span(FirstHour(acc.open, start), end)
        <3>1. SessionHours(s, start, end) =
                  Span(FirstHour(s.check_in, start), LastHour(s.check_out, end))
            BY <2>2, SessionHoursIs
        <3> QED BY <2>2, <2>4, <3>1
    <2>7. HoursSince(Append(acc.sessions, s), start, end) =
              HoursSince(acc.sessions, start, end) + SessionHours(s, start, end)
        BY <1>3, <2>2, HoursOneMore
    <2> QED BY <1>2, <1>6, <1>8, <2>3, <2>5, <2>6, <2>7 DEF Accounted, part
<1>9. CASE Working(es) /\ ~ (month <= Last(es).at)
    <2>1. Last(es).at < month
        BY <1>1, <1>9
    <2>2. part = <<>>
        BY <1>2, <2>1 DEF Before
    <2>3. CheckedInAt(es, month)
        <3>1. Last(es).at <= month
            BY <1>1, <1>9, <2>1
        <3> QED BY <1>9, <3>1 DEF Settled
    <2> QED BY <2>2, <2>3 DEF Accounted, part
<1> QED BY <1>7, <1>8, <1>9

\* What comes after a window changes nothing in it.
LEMMA AccountedLater ==
    ASSUME NEW es \in Seq(Event), NEW e \in Event,
           NEW month \in Nat, NEW start \in Nat, NEW end \in Nat, month <= start, start <= end,
           end <= e.at, Accounted(es, month, start, end)
    PROVE  Accounted(Append(es, e), month, start, end)
<1> DEFINE more == Append(es, e)
<1>1. e.at \in Nat /\ more \in Seq(Event)
    BY AppendProperties DEF Event
<1>2. InRange(more, month, end) = InRange(es, month, end)
    <2>1. ~ (e.at < end)
        BY <1>1
    <2> QED BY <2>1, InRangeOneMore
<1>3. Worked(more, start, end) = Worked(es, start, end)
    BY WorkedBefore
<1>4. CASE month < end
    <2>1. ~ (e.at <= month)
        BY <1>1, <1>4
    <2>2. CheckedInAt(more, month) <=> CheckedInAt(es, month)
        BY <2>1, CheckedInOneMore
    <2> QED BY <1>2, <1>3, <2>2 DEF Accounted
<1>5. CASE month = end
    <2>1. start = end
        BY <1>5
    <2>2. InRange(more, month, end) = <<>>
        <3> HIDE DEF more
        <3>1. \A i \in DOMAIN more : more[i] \notin {x \in Event : month <= x.at /\ x.at < end}
            <4>1. \A i \in DOMAIN more : more[i] \in Event
                BY <1>1, ElementOfSeq, LenProperties
            <4>2. \A x \in Event : x.at \in Nat
                BY DEF Event
            <4> QED BY <1>5, <4>1, <4>2
        <3> QED BY <1>1, <3>1, SelectNone DEF InRange
    <2>3. HoursSince(<<>>, start, end) = 0 /\ Worked(more, start, end) = 0
        BY <2>1, HoursOneMore, WorkedNothing
    <2> QED BY <2>2, <2>3, NoSessionsOfNothing DEF Accounted
<1> QED BY <1>4, <1>5

\* Whatever window is looked at.
Hourly(es) ==
    \A month, start, end \in Nat :
        month <= start /\ start <= end =>
            /\ Accounted(es, month, start, end)
            /\ Before(es, end) => Settled(es, month, start, end)

LEMMA HourlyNothing == Hourly(<<>>)
<1> SUFFICES ASSUME NEW month \in Nat, NEW start \in Nat, NEW end \in Nat,
                    month <= start, start <= end
             PROVE  /\ Accounted(<<>>, month, start, end)
                    /\ Settled(<<>>, month, start, end)
    BY DEF Hourly
<1>1. Settled(<<>>, month, start, end)
    BY SettledNothing
<1>2. <<>> \in Seq(Event) /\ Before(<<>>, end)
    BY DEF Before
<1> QED BY <1>1, <1>2, SettledIsAccounted

LEMMA HourlyOneMore ==
    ASSUME NEW es \in Seq(Event), NEW e \in Event, Hourly(es), Before(es, e.at),
           e.type = IF Working(es) THEN "CHECK_OUT" ELSE "CHECK_IN"
    PROVE  Hourly(Append(es, e))
<1> DEFINE more == Append(es, e)
<1>1. more \in Seq(Event) /\ more # <<>> /\ Last(more) = e /\ e.at \in Nat
    <2>1. e.at \in Nat
        BY DEF Event
    <2>2. more \in Seq(Event) /\ more # <<>> /\ Last(more) = e
        BY LastOfAppend
    <2> QED BY <2>1, <2>2
<1> SUFFICES ASSUME NEW month \in Nat, NEW start \in Nat, NEW end \in Nat,
                    month <= start, start <= end
             PROVE  /\ Accounted(more, month, start, end)
                    /\ Before(more, end) => Settled(more, month, start, end)
    BY DEF Hourly
<1>2. /\ Accounted(es, month, start, end)
      /\ Before(es, end) => Settled(es, month, start, end)
    BY DEF Hourly
<1>3. CASE e.at < end
    <2>1. Before(es, end)
        <3>1. es # <<>> => Last(es).at \in Nat
            BY LastEvent
        <3> QED BY <1>1, <1>3, <3>1 DEF Before
    <2>2. Settled(more, month, start, end)
        BY <1>2, <1>3, <2>1, SettledOneMore
    <2>3. Before(more, end)
        BY <1>1, <1>3 DEF Before
    <2> HIDE DEF more
    <2> QED BY <1>1, <2>2, <2>3, SettledIsAccounted
<1>4. CASE ~ (e.at < end)
    <2>1. ~ Before(more, end)
        BY <1>1, <1>4 DEF Before
    <2>2. Accounted(more, month, start, end)
        BY <1>1, <1>2, <1>4, AccountedLater
    <2> QED BY <2>1, <2>2
<1> QED BY <1>3, <1>4

IHours == \A u \in User : Hourly(events[u])

LEMMA IHoursStep == IType /\ IHours /\ [Next]_vars => IHours'
<1> SUFFICES ASSUME IType, IHours, [Next]_vars PROVE IHours'
    OBVIOUS
<1>1. CASE UNCHANGED events
    BY <1>1 DEF IHours
<1>2. ASSUME NEW u \in User, NEW e \in Event, Record(u, e) PROVE IHours'
    <2>1. /\ events[u] \in Seq(Event) /\ Hourly(events[u])
          /\ events' = [events EXCEPT ![u] = Append(events[u], e)]
          /\ e.type = IF Working(events[u]) THEN "CHECK_OUT" ELSE "CHECK_IN"
        BY <1>2 DEF Record, IType, TypeOK, IHours, Working
    <2>2. Before(events[u], e.at)
        <3> SUFFICES ASSUME events[u] # <<>> PROVE Last(events[u]).at < e.at
            BY DEF Before
        <3>1. Len(events[u]) \in DOMAIN events[u]
            BY <2>1, LenProperties, EmptySeq
        <3> QED BY <1>2, <3>1 DEF Record, Last
    <2>3. Hourly(Append(events[u], e))
        BY <2>1, <2>2, HourlyOneMore
    <2> QED BY <2>1, <2>3 DEF IHours, IType, TypeOK
<1>3. ASSUME NEW u \in User, NEW new \in {"ACTIVE", "INACTIVE", "GONE"}, SetStatus(u, new)
      PROVE  IHours'
    <2>1. \A x \in User : events'[x] = events[x] \/ events'[x] = <<>>
        BY <1>3 DEF SetStatus, IType, TypeOK
    <2> QED BY <2>1, HourlyNothing DEF IHours
<1>4. ASSUME NEW r \in Reader,
             \/ \E q \in FirstRequest : Begin(r, q)
             \/ FindTenantUser(r) \/ ReadDay(r) \/ ReadPage(r) \/ NextPage(r)
             \/ ReadRoster(r) \/ ReadTeamEvents(r) \/ Finish(r)
      PROVE  UNCHANGED events
    BY <1>4, OthersStay
<1> QED BY <1>1, <1>2, <1>3, <1>4 DEF Next, Tick, vars

LEMMA IHoursAlways == Spec => []IHours
<1>1. Init => IHours
    BY HourlyNothing DEF Init, IHours
<1> QED BY <1>1, ITypeAlways, IHoursStep, PTL DEF Spec

\* Months and weeks begin no later than their days, and month 0 no later than any.
LEMMA MonthIs ==
    ASSUME NEW day \in Nat
    PROVE  MonthStartOf(day) \in Nat /\ MonthStartOf(day) <= day
<1> DEFINE S == {m \in MonthStart : m <= day}
           Down == {day - m : m \in S}
<1>1. S \subseteq Nat /\ 0 \in S
    <2>1. MonthStart \subseteq Nat /\ 0 \in MonthStart /\ 0 <= day
        BY CalendarAssumption
    <2> QED BY <2>1
<1>2. \A m \in S : day - m \in Nat
    BY <1>1
<1>3. Down \in SUBSET Nat /\ Down # {}
    BY <1>1, <1>2
<1>4. PICK d \in Down : \A i \in Down : d <= i
    <2> HIDE DEF Down
    <2> QED BY <1>3, LeastOfNaturals
<1>5. PICK m \in S : d = day - m
    OBVIOUS
<1>6. ASSUME NEW i \in S PROVE m >= i
    <2>1. day - i \in Down /\ i \in Nat /\ m \in Nat
        BY <1>1
    <2>2. day - m <= day - i
        <3> HIDE DEF Down
        <3> QED BY <1>4, <1>5, <2>1
    <2> QED BY <2>1, <2>2
<1>7. \E x \in S : \A y \in S : x >= y
    BY <1>6
<1>8. Max(S) \in S
    <2> HIDE DEF S
    <2> QED BY <1>7 DEF Max
<1> QED BY <1>1, <1>8 DEF MonthStartOf

\* The clipped sessions of get_team_hours (queries.py:381-470) add up to the hours in which the
\* user was checked in: today, this month, and this week if it lies in the month.
THEOREM HoursAreHoursWorked == Spec => []HoursAreWorked
<1>1. IType /\ IHours => HoursAreWorked
    <2> SUFFICES ASSUME IType, IHours, NEW u \in User
                 PROVE  LET hours == TeamHours(events[u], clock)
                        IN  \/ OutOfSight(events[u])
                            \/ /\ hours.today_hours =
                                     Worked(events[u], DayBounds(UtcDateOf(clock))[1], clock)
                               /\ hours.month_hours = Worked(events[u], MonthBegan, clock)
                               /\ WeekBegan >= MonthBegan =>
                                     hours.week_hours = Worked(events[u], WeekBegan, clock)
        BY DEF HoursAreWorked
    <2> DEFINE es == events[u]
               today == UtcDateOf(clock)
               day == DayBounds(today)[1]
    <2>1. clock \in Nat /\ today \in Nat /\ day \in Nat /\ day <= clock
        <3>1. clock \in Nat
            BY DEF IType, TypeOK
        <3>2. today \in Nat /\ today * DayLength <= clock
            <4>1. /\ today \in Nat
                  /\ \A d \in Int : today = d <=> d * DayLength <= clock /\ clock < (d + 1) * DayLength
                BY <3>1, DayOf
            <4> HIDE DEF today
            <4>2. today \in Int
                BY <4>1
            <4> QED BY <4>1, <4>2
        <3> HIDE DEF today
        <3>3. day = today * DayLength /\ today * DayLength \in Nat
            BY <3>2, CalendarAssumption DEF DayBounds
        <3> QED BY <3>1, <3>2, <3>3
    <2>2. MonthBegan \in Nat /\ MonthBegan <= day
        <3>1. MonthStartOf(today) \in Nat /\ MonthStartOf(today) <= today
            BY <2>1, MonthIs
        <3>2. MonthBegan = MonthStartOf(today) * DayLength /\ day = today * DayLength
            BY DEF MonthBegan, DayBounds
        <3> HIDE DEF today, day
        <3>3. PICK m \in Nat : m = MonthStartOf(today)
            BY <3>1
        <3>4. m * DayLength <= today * DayLength /\ m * DayLength \in Nat
            BY <2>1, <3>1, <3>3, Product, CalendarAssumption
        <3> QED BY <3>2, <3>3, <3>4
    <2>3. WeekBegan \in Int /\ WeekBegan <= day
        <3>1. WeekStartOf(today) \in Int /\ WeekStartOf(today) <= today
            <4>1. today % WeekLength \in Nat
                BY <2>1, CalendarAssumption
            <4> HIDE DEF today
            <4> QED BY <2>1, <4>1 DEF WeekStartOf
        <3>2. WeekBegan = WeekStartOf(today) * DayLength /\ day = today * DayLength
            BY DEF WeekBegan, DayBounds
        <3> HIDE DEF today, day
        <3>3. PICK w \in Int : w = WeekStartOf(today)
            BY <3>1
        <3>4. w * DayLength <= today * DayLength /\ w * DayLength \in Int
            BY <2>1, <3>1, <3>3, Product, CalendarAssumption
        <3> QED BY <3>2, <3>3, <3>4
    <2>4. /\ TeamHours(es, clock).today_hours =
                 HoursSince(BuildSessions(InRange(es, MonthBegan, clock)), day, clock)
          /\ TeamHours(es, clock).month_hours =
                 HoursSince(BuildSessions(InRange(es, MonthBegan, clock)), MonthBegan, clock)
          /\ TeamHours(es, clock).week_hours =
                 HoursSince(BuildSessions(InRange(es, MonthBegan, clock)), WeekBegan, clock)
        BY DEF TeamHours, MonthBegan, WeekBegan
    <2> HIDE DEF es, today, day
    <2>5. ASSUME NEW start \in Nat, MonthBegan <= start, start <= clock, ~ OutOfSight(es)
          PROVE  HoursSince(BuildSessions(InRange(es, MonthBegan, clock)), start, clock)
                 = Worked(es, start, clock)
        <3>1. Accounted(es, MonthBegan, start, clock)
            BY <2>1, <2>2, <2>5 DEF IHours, Hourly, es
        <3> QED BY <2>5, <3>1 DEF Accounted, OutOfSight
    <2>6. ASSUME ~ OutOfSight(es)
          PROVE  /\ TeamHours(es, clock).today_hours = Worked(es, day, clock)
                 /\ TeamHours(es, clock).month_hours = Worked(es, MonthBegan, clock)
                 /\ WeekBegan >= MonthBegan =>
                       TeamHours(es, clock).week_hours = Worked(es, WeekBegan, clock)
        <3>1. MonthBegan <= MonthBegan /\ MonthBegan <= clock
            BY <2>1, <2>2
        <3>2. WeekBegan >= MonthBegan =>
                  WeekBegan \in Nat /\ MonthBegan <= WeekBegan /\ WeekBegan <= clock
            BY <2>1, <2>2, <2>3
        <3> QED BY <2>1, <2>2, <2>4, <2>5, <2>6, <3>1, <3>2
    <2> QED BY <2>6 DEF es, day, today
<1> QED BY <1>1, ITypeAlways, IHoursAlways, PTL
=============================================================================
