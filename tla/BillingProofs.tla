---------------------------- MODULE BillingProofs ----------------------------
(***************************************************************************)
(* What the billing jobs promise: BillingHistory for every window, however *)
(* long the clock runs and however often the process restarts;             *)
(* BillingEstimates for every length of a month and all snapshots;         *)
(* ResourcePacks for every account, page size and number of pages.         *)
(***************************************************************************)
EXTENDS MCBilling, SafeBucketProofs, SequencesExt


\* Months are numbers; a run is of a month that was final when it began, and so is all
\* that it and the runs before it fetched or published.
MonthsInv ==
  /\ now \in Nat /\ cache \subseteq Int /\ fetched \subseteq Int /\ cache \subseteq fetched
  /\ round \in [step : {"idle", "latest", "history"}, month : Int, got : BOOLEAN]
  /\ round.step # "idle" => round.month <= Finalized(now)
  /\ \A m \in fetched : m <= Finalized(now) /\ (round.step # "idle" => m <= round.month)

\* What the process fetched and no longer has is before the window of this run and of those
\* to come.
LeftInv ==
  \A m \in fetched \ cache :
    m <= Finalized(now) - Window /\ (round.step # "idle" => m <= round.month - Window)

\* Until a run fetches something the cache is part of one window.
WindowInv == round.step # "history" => \E m \in Int : cache \subseteq Last12(m)

\* What is published.
PublishedInv ==
  /\ latest \subseteq Int /\ \A m \in latest : m <= Finalized(now)
  /\ \A months \in last12 : \E m \in Int : months = Last12(m) /\ m <= Finalized(now)

IInv == MonthsInv /\ LeftInv /\ WindowInv /\ PublishedInv

\* A month is final in the third half after its own begins, at the earliest, and stays so.
LEMMA FinalizedFacts ==
  ASSUME NEW t \in Nat
  PROVE  Finalized(t) \in Int /\ 2 * Finalized(t) + 2 < t /\ Finalized(t) <= Finalized(t + 1)
  BY DEF Finalized

LEMMA Initially == Init => IInv
  BY DEF Init, IInv, MonthsInv, LeftInv, WindowInv, PublishedInv, Resting, Last12

LEMMA Last12Facts ==
  ASSUME NEW m \in Int
  PROVE  /\ Last12(m) \subseteq Int /\ m \in Last12(m)
         /\ \A n \in Last12(m) : n <= m
         /\ \A n \in Int : n <= m /\ n \notin Last12(m) => n <= m - Window
  BY HistoryAssumption DEF Last12

LEMMA StepMonths == IInv /\ [Next]_vars => MonthsInv'
<1> SUFFICES ASSUME IInv, [Next]_vars PROVE MonthsInv'
    OBVIOUS
<1> USE DEF IInv, MonthsInv
<1>1. Finalized(now) \in Int /\ Finalized(now) <= Finalized(now + 1) /\ Finalized(now + 1) \in Int
    BY FinalizedFacts
<1>2. CASE Tick
    <2>1. now' = now + 1 /\ UNCHANGED <<cache, fetched, round>>
        BY <1>2 DEF Tick
    <2>2. Finalized(now)' = Finalized(now + 1)
        BY <2>1
    <2> QED BY <1>1, <2>1, <2>2
<1>3. CASE Begin
    BY <1>1, <1>3 DEF Begin
<1>4. ASSUME NEW m \in Int, Fetch(m), m <= round.month, round.step # "idle", round'.month = round.month,
             round' \in [step : {"idle", "latest", "history"}, month : Int, got : BOOLEAN]
      PROVE  MonthsInv'
    <2>1. cache' = cache \cup {m} /\ fetched' = fetched \cup {m} /\ now' = now
        BY <1>4 DEF Fetch
    <2>2. Finalized(now)' = Finalized(now)
        BY <2>1
    <2>3. round.month \in Int /\ round.month <= Finalized(now)
        BY <1>4
    <2> QED BY <1>1, <1>4, <2>1, <2>2, <2>3
<1>5. CASE FetchLatest
    <2>1. ASSUME NEW m \in Missing({round.month}), Fetch(m),
                 round' = [round EXCEPT !.step = "history", !.got = TRUE], round.step = "latest"
          PROVE  MonthsInv'
        <3>1. m = round.month /\ m \in Int
            BY <2>1 DEF Missing
        <3>2. round' = [step |-> "history", month |-> round.month, got |-> TRUE]
            BY <2>1
        <3>3. round' \in [step : {"idle", "latest", "history"}, month : Int, got : BOOLEAN]
            BY <3>1, <3>2
        <3>4. round'.month = round.month /\ m <= round.month
            BY <3>1, <3>2
        <3> QED BY <1>4, <2>1, <3>1, <3>3, <3>4
    <2>2. ASSUME round' = [round EXCEPT !.step = "history"], UNCHANGED <<now, cache, fetched>>,
                 round.step = "latest"
          PROVE  MonthsInv'
        <3>1. round' = [step |-> "history", month |-> round.month, got |-> round.got]
            BY <2>2
        <3> QED BY <1>1, <2>2, <3>1
    <2> QED BY <1>5, <2>1, <2>2 DEF FetchLatest
<1>6. CASE LatestFails
    BY <1>6 DEF LatestFails, Resting
<1>7. CASE FetchHistory
    <2>1. PICK m \in Missing(Last12(round.month)) : Fetch(m) /\ round' = [round EXCEPT !.got = TRUE]
        BY <1>7 DEF FetchHistory
    <2>2. round.step = "history" /\ round.month \in Int
        BY <1>7 DEF FetchHistory
    <2>3. m \in Int /\ m <= round.month
        BY <2>1, <2>2, Last12Facts DEF Missing
    <2>4. round' = [step |-> "history", month |-> round.month, got |-> TRUE]
        BY <2>1, <2>2
    <2> QED BY <1>4, <2>1, <2>2, <2>3, <2>4
<1>8. ASSUME NEW complete \in BOOLEAN, End(complete) PROVE MonthsInv'
    <2>1. cache' \subseteq cache /\ round' = Resting /\ UNCHANGED <<now, fetched>>
        BY <1>8 DEF End, Kept
    <2> QED BY <1>1, <2>1 DEF Resting
<1>9. CASE Restart
    BY <1>9 DEF Restart, Resting
<1>10. CASE UNCHANGED vars
    BY <1>10 DEF vars
<1> QED BY <1>2, <1>3, <1>5, <1>6, <1>7, <1>8, <1>9, <1>10 DEF Next, Complete, HistoryFails

LEMMA StepLeft == IInv /\ [Next]_vars => LeftInv'
<1> SUFFICES ASSUME IInv, [Next]_vars PROVE LeftInv'
    OBVIOUS
<1> USE DEF IInv, MonthsInv, LeftInv
<1>1. Finalized(now) \in Int /\ Finalized(now) <= Finalized(now + 1) /\ Finalized(now + 1) \in Int
    BY FinalizedFacts
<1>w. Window \in Int
    BY HistoryAssumption
<1>2. CASE Tick
    BY <1>1, <1>w, <1>2 DEF Tick
<1>3. CASE Begin
    BY <1>1, <1>3 DEF Begin
<1>4. CASE FetchLatest
    BY <1>1, <1>4 DEF FetchLatest, Fetch, Missing
<1>5. CASE LatestFails
    BY <1>5 DEF LatestFails, Resting
<1>6. CASE FetchHistory
    BY <1>1, <1>6 DEF FetchHistory, Fetch, Missing
<1>7. ASSUME NEW complete \in BOOLEAN, End(complete) PROVE LeftInv'
    <2>1. SUFFICES ASSUME NEW m \in fetched', m \notin cache' PROVE m <= Finalized(now) - Window
        BY <1>7 DEF End, Resting
    <2>2. m \in fetched /\ round.month \in Int /\ round.step = "history"
        BY <1>7 DEF End
    <2>3. CASE m \notin cache
        BY <2>2, <2>3
    <2>4. CASE m \in cache
        <3>1. m \notin Last12(round.month)
            BY <1>7, <2>1, <2>4 DEF End, Kept
        <3>2. m <= round.month - Window
            BY <2>2, <3>1, Last12Facts
        <3> QED BY <1>1, <1>w, <2>2, <3>2
    <2> QED BY <2>3, <2>4
<1>8. CASE Restart
    BY <1>8 DEF Restart, Resting
<1>9. CASE UNCHANGED vars
    BY <1>9 DEF vars
<1> QED BY <1>2, <1>3, <1>4, <1>5, <1>6, <1>7, <1>8, <1>9 DEF Next, Complete, HistoryFails

LEMMA StepWindow == IInv /\ [Next]_vars => WindowInv'
<1> SUFFICES ASSUME IInv, [Next]_vars PROVE WindowInv'
    OBVIOUS
<1> USE DEF IInv, MonthsInv, WindowInv
<1>1. CASE Tick \/ Begin \/ LatestFails \/ UNCHANGED vars
    BY <1>1 DEF Tick, Begin, LatestFails, Resting, vars
<1>2. CASE FetchLatest
    BY <1>2 DEF FetchLatest, Fetch, Missing
<1>3. CASE FetchHistory
    BY <1>3 DEF FetchHistory, Fetch
<1>4. ASSUME NEW complete \in BOOLEAN, End(complete) PROVE WindowInv'
    BY <1>4, Last12Facts DEF End, Kept
<1>5. CASE Restart
    BY <1>5 DEF Restart
<1> QED BY <1>1, <1>2, <1>3, <1>4, <1>5 DEF Next, Complete, HistoryFails

LEMMA StepPublished == IInv /\ [Next]_vars => PublishedInv'
<1> SUFFICES ASSUME IInv, [Next]_vars PROVE PublishedInv'
    OBVIOUS
<1> USE DEF IInv, MonthsInv, PublishedInv
<1>1. Finalized(now) \in Int /\ Finalized(now) <= Finalized(now + 1) /\ Finalized(now + 1) \in Int
    BY FinalizedFacts
<1>2. CASE Tick
    BY <1>1, <1>2 DEF Tick
<1>3. CASE Begin \/ LatestFails \/ UNCHANGED vars
    BY <1>3 DEF Begin, LatestFails, vars
<1>4. CASE FetchLatest \/ FetchHistory
    BY <1>4 DEF FetchLatest, FetchHistory, Fetch
<1>5. CASE Restart
    BY <1>5 DEF Restart
<1>6. CASE Complete
    <2>1. cache \cap Last12(round.month) = Last12(round.month)
        BY <1>6 DEF Complete, Missing
    <2>2. round.month \in Int /\ round.month <= Finalized(now)
        BY <1>6 DEF Complete, End
    <2> QED BY <1>6, <2>1, <2>2 DEF Complete, End, Published
<1>7. CASE HistoryFails
    BY <1>7 DEF HistoryFails, End, Published
<1> QED BY <1>2, <1>3, <1>4, <1>5, <1>6, <1>7 DEF Next

LEMMA Inductive == Spec => []IInv
<1>1. IInv /\ [Next]_vars => IInv'
    BY StepMonths, StepLeft, StepWindow, StepPublished DEF IInv
<1> QED BY Initially, <1>1, PTL DEF Spec

\* The rolling history is always a full window, whichever runs failed.
THEOREM HistoryAlwaysWhole == Spec => []HistoryIsWhole
<1>1. IInv => HistoryIsWhole
    BY Last12Facts DEF IInv, PublishedInv, HistoryIsWhole, Last12
<1> QED BY Inductive, <1>1, PTL

\* No bill is exposed as final before the fifth day of the month after it.
THEOREM OnlyFinalAreExposed == Spec => []OnlyFinalBills
<1>1. ASSUME IInv PROVE OnlyFinalBills
    <2> SUFFICES ASSUME NEW m \in latest \cup UNION last12 PROVE now > 2 * m + 2
        BY DEF OnlyFinalBills
    <2>1. Finalized(now) \in Int /\ 2 * Finalized(now) + 2 < now /\ now \in Nat
        BY <1>1, FinalizedFacts DEF IInv, MonthsInv
    <2>2. m \in Int /\ m <= Finalized(now)
        BY <1>1, <2>1, Last12Facts DEF IInv, PublishedInv
    <2> QED BY <2>1, <2>2
<1> QED BY Inductive, <1>1, PTL

\* Between runs the cache holds a window at most.
THEOREM CacheAlwaysBounded == Spec => []CacheIsBounded
<1>1. ASSUME IInv PROVE CacheIsBounded
    <2> SUFFICES ASSUME round.step = "idle" PROVE Cardinality(cache) <= Window
        BY DEF CacheIsBounded
    <2>1. PICK m \in Int : cache \subseteq Last12(m)
        BY <1>1 DEF IInv, WindowInv
    <2>2. IsFiniteSet(Last12(m)) /\ Cardinality(Last12(m)) = Window
        BY FS_Interval, HistoryAssumption DEF Last12
    <2>3. IsFiniteSet(cache) /\ Cardinality(cache) <= Cardinality(Last12(m))
        BY <2>1, <2>2, FS_Subset
    <2> QED BY <2>2, <2>3
<1> QED BY Inductive, <1>1, PTL

\* A month is fetched once in the life of a process.
THEOREM FetchedOnceOnly == Spec => FetchedOnce
<1>1. ASSUME IInv, [Next]_vars PROVE \A m \in cache' \ cache : m \notin fetched
    <2> SUFFICES ASSUME NEW m \in cache', m \notin cache PROVE m \notin fetched
        OBVIOUS
    <2>w. Window \in Nat /\ Window > 0
        BY HistoryAssumption
    <2>1. CASE FetchLatest
        <3>1. m = round.month /\ round.month \in Int /\ round.step = "latest"
            BY <1>1, <2>1 DEF FetchLatest, Fetch, Missing, IInv, MonthsInv
        <3> QED BY <1>1, <2>w, <3>1 DEF IInv, LeftInv
    <2>2. CASE FetchHistory
        <3>1. m \in Last12(round.month) /\ round.month \in Int /\ round.step = "history"
            BY <1>1, <2>2 DEF FetchHistory, Fetch, Missing, IInv, MonthsInv
        <3>2. m \in Int /\ m > round.month - Window
            BY <2>w, <3>1 DEF Last12
        <3> QED BY <1>1, <2>w, <3>1, <3>2 DEF IInv, LeftInv
    <2>3. CASE Tick \/ Begin \/ LatestFails \/ UNCHANGED vars
        BY <2>3 DEF Tick, Begin, LatestFails, vars
    <2>4. CASE Complete \/ HistoryFails \/ Restart
        BY <2>4 DEF Complete, HistoryFails, End, Kept, Restart
    <2> QED BY <1>1, <2>1, <2>2, <2>3, <2>4 DEF Next
<1>2. IInv /\ [Next]_vars => [\A m \in cache' \ cache : m \notin fetched]_vars
    BY <1>1
<1> QED BY Inductive, <1>2, PTL DEF Spec, FetchedOnce

-----------------------------------------------------------------------------
(* The sum of a sequence, a fold. *)

Sum(s) == FoldLeft(LAMBDA a, b : a + b, 0, s)

\* The function of the sets of positions that the fold of s defines by recursion.
IsSum(g, s, n) ==
  g = [t \in SUBSET (1 .. n) |-> IF t = {} THEN 0 ELSE g[t \ {Max(t)}] + s[Max(t)]]

LEMMA SumIs ==
  ASSUME NEW s, NEW n, DOMAIN s = 1 .. n
  PROVE  Sum(s) = (CHOOSE g : IsSum(g, s, n))[1 .. n]
BY DEF Sum, FoldLeft, MapThenFoldSet, IsSum

LEMMA MaxOfInterval == ASSUME NEW n \in Nat \ {0} PROVE Max(1 .. n) = n
BY MaxIs

LEMMA IntervalLess == ASSUME NEW n \in Nat \ {0} PROVE n \in 1 .. n /\ (1 .. n) \ {n} = 1 .. n - 1
<1>1. ASSUME NEW i PROVE i \in (1 .. n) \ {n} <=> i \in 1 .. n - 1
  OBVIOUS
<1> QED BY <1>1

\* There is one for every number of positions: that of one position more is made of it.
LEMMA SumExists ==
  ASSUME NEW s, NEW n \in Nat
  PROVE  \E g : IsSum(g, s, n)
<1> DEFINE T == {m \in Nat : ~\E g : IsSum(g, s, m)}
<1>1. ASSUME T # {} PROVE FALSE
  <2>1. PICK m \in T : \A k \in T : m <= k
    BY <1>1, LeastNatural
  <2>2. m \in Nat /\ ~\E g : IsSum(g, s, m)
    BY <2>1
  <2>3. m # 0
    <3> DEFINE z == [t \in SUBSET (1 .. 0) |-> 0]
    <3>1. \A t \in SUBSET (1 .. 0) : t = {}
      OBVIOUS
    <3>2. IsSum(z, s, 0)
      BY <3>1 DEF IsSum
    <3> QED BY <2>2, <3>2
  <2>4. m - 1 \in Nat /\ m - 1 \notin T
    BY <2>1, <2>2, <2>3
  <2>5. PICK g : IsSum(g, s, m - 1)
    BY <2>4
  <2> DEFINE f == [t \in SUBSET (1 .. m) |-> IF m \in t THEN g[t \ {m}] + s[m] ELSE g[t]]
             Of(t) == IF t = {} THEN 0 ELSE f[t \ {Max(t)}] + s[Max(t)]
  <2>6. ASSUME NEW t \in SUBSET (1 .. m) PROVE f[t] = Of(t)
    <3>1. CASE m \in t
      <4>1. t \in SUBSET Int /\ \A y \in t : y <= m
        BY <2>2
      <4>2. Max(t) = m
        BY <3>1, <4>1, MaxIs
      <4>3. t \ {m} \in SUBSET (1 .. m) /\ m \notin t \ {m}
        OBVIOUS
      <4>4. f[t \ {m}] = g[t \ {m}]
        BY <4>3
      <4> QED BY <3>1, <4>2, <4>4
    <3>2. CASE m \notin t
      <4>1. t \in SUBSET (1 .. m - 1)
        BY <2>2, <3>2
      <4>2. g[t] = IF t = {} THEN 0 ELSE g[t \ {Max(t)}] + s[Max(t)]
        BY <2>5, <4>1 DEF IsSum
      <4>3. t \ {Max(t)} \in SUBSET (1 .. m) /\ m \notin t \ {Max(t)}
        BY <3>2
      <4>4. f[t \ {Max(t)}] = g[t \ {Max(t)}] /\ f[t] = g[t]
        BY <3>2, <4>3
      <4> QED BY <4>2, <4>4
    <3> QED BY <3>1, <3>2
  <2>7. f = [t \in SUBSET (1 .. m) |-> Of(t)]
    <3>1. f = [t \in SUBSET (1 .. m) |-> f[t]]
      OBVIOUS
    <3> QED BY <2>6, <3>1
  <2>8. IsSum(f, s, m)
    BY <2>7 DEF IsSum
  <2> QED BY <2>2, <2>8
<1> QED BY <1>1

\* Of the first k positions it depends on nothing else.
LEMMA SumsAgree ==
  ASSUME NEW n \in Nat, NEW m \in Nat, n <= m, NEW s, NEW r, NEW g, NEW f, IsSum(g, s, n), IsSum(f, r, m),
         \A i \in 1 .. n : s[i] \in Int /\ r[i] = s[i]
  PROVE  g[1 .. n] = f[1 .. n] /\ g[1 .. n] \in Int
<1> DEFINE T == {k \in Nat : k <= n /\ ~(g[1 .. k] = f[1 .. k] /\ g[1 .. k] \in Int)}
<1>1. ASSUME NEW k \in Nat, k <= n
      PROVE  /\ g[1 .. k] = IF k = 0 THEN 0 ELSE g[1 .. k - 1] + s[k]
             /\ f[1 .. k] = IF k = 0 THEN 0 ELSE f[1 .. k - 1] + r[k]
  <2>1. 1 .. k \in SUBSET (1 .. n) /\ 1 .. k \in SUBSET (1 .. m)
    BY <1>1
  <2>2. /\ g[1 .. k] = IF 1 .. k = {} THEN 0 ELSE g[(1 .. k) \ {Max(1 .. k)}] + s[Max(1 .. k)]
        /\ f[1 .. k] = IF 1 .. k = {} THEN 0 ELSE f[(1 .. k) \ {Max(1 .. k)}] + r[Max(1 .. k)]
    BY <2>1 DEF IsSum
  <2>3. k = 0 => 1 .. k = {}
    OBVIOUS
  <2>4. ASSUME k # 0 PROVE 1 .. k # {} /\ Max(1 .. k) = k /\ (1 .. k) \ {k} = 1 .. k - 1
    BY <2>4, MaxOfInterval, IntervalLess
  <2> QED BY <2>2, <2>3, <2>4
<1>2. ASSUME T # {} PROVE FALSE
  <2>1. PICK k \in T : \A j \in T : k <= j
    BY <1>2, LeastNatural
  <2>2. k \in Nat /\ k <= n /\ ~(g[1 .. k] = f[1 .. k] /\ g[1 .. k] \in Int)
    BY <2>1
  <2>3. k # 0
    BY <1>1, <2>2
  <2>4. k - 1 \in Nat /\ k - 1 <= n /\ k \in 1 .. n /\ k - 1 \notin T
    BY <2>1, <2>2, <2>3
  <2>5. g[1 .. k - 1] = f[1 .. k - 1] /\ g[1 .. k - 1] \in Int
    BY <2>4
  <2>6. s[k] \in Int /\ r[k] = s[k]
    BY <2>4
  <2>7. g[1 .. k] = g[1 .. k - 1] + s[k] /\ f[1 .. k] = f[1 .. k - 1] + s[k]
    BY <1>1, <2>2, <2>3, <2>6
  <2> QED BY <2>2, <2>5, <2>6, <2>7
<1>3. n \notin T
  BY <1>2
<1> QED BY <1>3

\* A sum is what its last number adds to the sum of the others.
LEMMA SumOf ==
  /\ Sum(<<>>) = 0
  /\ \A s \in Seq(Int), x \in Int : Sum(s) \in Int /\ Sum(Append(s, x)) = Sum(s) + x
<1>1. ASSUME NEW s \in Seq(Int)
      PROVE  IsSum(CHOOSE g : IsSum(g, s, Len(s)), s, Len(s)) /\ DOMAIN s = 1 .. Len(s) /\ Len(s) \in Nat
  BY SumExists
<1>2. Sum(<<>>) = 0
  <2> DEFINE s == <<>>
             g == CHOOSE h : IsSum(h, s, 0)
  <2>1. IsSum(g, s, 0)
    BY SumExists
  <2>2. 1 .. 0 = {} /\ DOMAIN s = 1 .. 0
    OBVIOUS
  <2>3. Sum(s) = g[1 .. 0]
    BY <2>2, SumIs
  <2> HIDE DEF g
  <2>4. g[{}] = 0
    BY <2>1 DEF IsSum
  <2> QED BY <2>2, <2>3, <2>4
<1>3. ASSUME NEW s \in Seq(Int), NEW x \in Int PROVE Sum(s) \in Int /\ Sum(Append(s, x)) = Sum(s) + x
  <2> DEFINE n == Len(s)
             r == Append(s, x)
             g == CHOOSE h : IsSum(h, s, n)
             f == CHOOSE h : IsSum(h, r, n + 1)
  <2>1. /\ n \in Nat /\ DOMAIN s = 1 .. n /\ DOMAIN r = 1 .. n + 1 /\ r[n + 1] = x
        /\ \A i \in 1 .. n : s[i] \in Int /\ r[i] = s[i]
    OBVIOUS
  <2>2. IsSum(g, s, n) /\ IsSum(f, r, n + 1)
    <3>1. n + 1 \in Nat
      BY <2>1
    <3>2. (\E h : IsSum(h, s, n)) /\ \E h : IsSum(h, r, n + 1)
      BY <2>1, <3>1, SumExists
    <3> QED BY <3>2
  <2>3. Sum(s) = g[1 .. n] /\ Sum(r) = f[1 .. n + 1]
    BY <2>1, SumIs
  <2> HIDE DEF n, r, g, f
  <2>4. g[1 .. n] = f[1 .. n] /\ g[1 .. n] \in Int
    BY <2>1, <2>2, SumsAgree
  <2>5. f[1 .. n + 1] = f[1 .. n] + x
    <3> DEFINE m == n + 1
    <3>1. m \in Nat \ {0} /\ m - 1 = n
      BY <2>1
    <3> HIDE DEF m
    <3>2. m \in 1 .. m /\ (1 .. m) \ {m} = 1 .. n /\ Max(1 .. m) = m
      BY <3>1, IntervalLess, MaxOfInterval
    <3>3. f = [t \in SUBSET (1 .. m) |-> IF t = {} THEN 0 ELSE f[t \ {Max(t)}] + r[Max(t)]]
      BY <2>2 DEF IsSum, m
    <3>4. 1 .. m \in SUBSET (1 .. m) /\ 1 .. m # {}
      BY <3>2
    <3>5. f[1 .. m] = f[(1 .. m) \ {Max(1 .. m)}] + r[Max(1 .. m)]
      BY <3>3, <3>4
    <3> QED BY <2>1, <3>2, <3>5 DEF m
  <2> QED BY <2>3, <2>4, <2>5 DEF r
<1> QED BY <1>2, <1>3
-----------------------------------------------------------------------------
(* BillingEstimates *)

Estimated == {"daily", "publish", "publish daily"}

\* The days that are added up so far are those from the second on, one after the other, and
\* their costs add up to the last of their snapshots.
RunInv ==
  /\ run = [pc |-> run.pc, date |-> run.date, next |-> run.next, total |-> run.total,
            previous |-> run.previous, costs |-> run.costs]
  /\ run.pc \in {"idle", "total"} \cup Estimated
  /\ run.date \in Nat /\ run.next \in Int /\ run.total \in Int /\ run.costs \in Seq(Int)
  /\ \A d \in DOMAIN snapshots : snapshots[d].money \in Int
  /\ run.costs = <<>> => run.previous = <<>>
  /\ run.costs # <<>> =>
       /\ run.previous = <<run.previous[1]>> /\ run.previous[1].money = Sum(run.costs)

ProgressInv ==
  /\ run.pc = "total" => run.costs = <<>>
  /\ run.pc = "daily" =>
       /\ E!DayOf(run.date) > 1 /\ run.next <= run.date
       /\ Len(run.costs) = run.next - (run.date - E!DayOf(run.date) + 2)
       /\ run.date \in DOMAIN snapshots /\ snapshots[run.date].money = run.total
  /\ run.pc \in {"publish", "publish daily"} =>
       /\ Len(run.costs) = E!DayOf(run.date) - 1
       /\ E!DayOf(run.date) > 1 => Sum(run.costs) = run.total
  /\ run.pc = "publish daily" => estimate = {[date |-> run.date, money |-> run.total]}

\* DailyAddsUp.
DailySums ==
  run.pc # "publish daily" =>
    \A e \in estimate, d \in daily :
      /\ d.date = e.date /\ Len(d.costs) = E!DayOf(d.date) - 1
      /\ E!DayOf(d.date) > 1 => Sum(d.costs) = e.money

EstimatesInv == time \in Nat /\ RunInv /\ ProgressInv /\ DailySums

LEMMA EstimatesInitially == E!Init => EstimatesInv
<1> SUFFICES ASSUME E!Init PROVE EstimatesInv
  OBVIOUS
<1> USE DEF E!Init, E!Resting
<1>1. MonthDays \in Nat
  BY ComponentAssumptions DEF E!EstimatesAssumption
<1>2. time \in Nat
  BY <1>1
<1>3. RunInv
  BY DEF RunInv
<1>4. ProgressInv
  BY DEF ProgressInv
<1>5. DailySums
  BY DEF DailySums
<1> QED BY <1>2, <1>3, <1>4, <1>5 DEF EstimatesInv

\* A snapshot is of a day that has begun.
LEMMA SnapshotDates == ASSUME NEW t \in Nat, NEW date \in E!SnapshotDate(t) PROVE date \in Nat
<1>1. MonthDays \in Nat \ {0, 1}
  BY ComponentAssumptions DEF E!EstimatesAssumption
<1>2. t \div 2 \in Nat
  OBVIOUS
<1>3. t \div 2 = 0 => E!DayOf(t \div 2) = 1
  BY <1>1 DEF E!DayOf
<1> QED BY <1>2, <1>3 DEF E!SnapshotDate

LEMMA TotalStep ==
  ASSUME EstimatesInv, NEW answer \in Answers, E!TakeTotal(answer)
  PROVE  EstimatesInv'
<1>1. answer.money \in Int
  BY ComponentAssumptions DEF E!EstimatesAssumption
<1>2. run.pc = "total" /\ run.costs = <<>> /\ run.previous = <<>> /\ time' = time
  BY DEF EstimatesInv, RunInv, ProgressInv, E!TakeTotal
<1>3. /\ run' = [pc |-> IF E!DayOf(run.date) = 1 THEN "publish" ELSE "daily", date |-> run.date,
                 next |-> E!First, total |-> answer.money, previous |-> <<>>, costs |-> <<>>]
  BY <1>2 DEF EstimatesInv, RunInv, E!TakeTotal
<1>4. E!DayOf(run.date) \in 1 .. MonthDays /\ E!First = run.date - E!DayOf(run.date) + 2
  <2>1. MonthDays \in Nat \ {0, 1} /\ run.date \in Nat
    BY ComponentAssumptions DEF E!EstimatesAssumption, EstimatesInv, RunInv
  <2>2. run.date % MonthDays \in 0 .. MonthDays - 1
    BY <2>1
  <2> QED BY <2>1, <2>2 DEF E!DayOf, E!First
<1>5. snapshots' = E!With(run.date, answer, E!Kept) /\ UNCHANGED <<time, estimate, daily>>
  BY DEF E!TakeTotal
<1>6. \A d \in DOMAIN E!Kept : E!Kept[d].money \in Int
  BY DEF E!Kept, EstimatesInv, RunInv
<1>7. /\ run.date \in DOMAIN snapshots' /\ snapshots'[run.date] = answer
      /\ \A d \in DOMAIN snapshots' : snapshots'[d].money \in Int
  <2> DEFINE kept == E!Kept
  <2>1. /\ snapshots' = E!With(run.date, answer, kept)
        /\ \A d \in DOMAIN kept : kept[d].money \in Int
    BY <1>5, <1>6
  <2> HIDE DEF kept
  <2>2. /\ DOMAIN snapshots' = DOMAIN kept \cup {run.date} /\ snapshots'[run.date] = answer
        /\ \A d \in DOMAIN kept : d # run.date => snapshots'[d] = kept[d]
    BY <2>1 DEF E!With
  <2> QED BY <1>1, <2>1, <2>2
<1>8. run.date \in Nat
  BY DEF EstimatesInv, RunInv
<1>9. RunInv'
  <2>1. run'.pc \in Estimated /\ run'.costs = <<>> /\ run'.previous = <<>> /\ <<>> \in Seq(Int)
    <3>1. run'.pc = IF E!DayOf(run.date) = 1 THEN "publish" ELSE "daily"
      BY <1>3
    <3>2. run'.costs = <<>> /\ run'.previous = <<>>
      BY <1>3
    <3> QED BY <3>1, <3>2 DEF Estimated
  <2>2. run'.date \in Nat /\ run'.next \in Int /\ run'.total \in Int
    BY <1>1, <1>3, <1>4, <1>8
  <2>3. \A d \in DOMAIN snapshots' : snapshots'[d].money \in Int
    BY <1>7
  <2>4. run' = [pc |-> run'.pc, date |-> run'.date, next |-> run'.next, total |-> run'.total,
                previous |-> run'.previous, costs |-> run'.costs]
    BY <1>3
  <2> QED BY <2>1, <2>2, <2>3, <2>4 DEF RunInv
<1>10. ProgressInv'
  <2>1. /\ run'.date = run.date /\ run'.next = E!First /\ run'.total = answer.money
        /\ run'.costs = <<>> /\ run'.pc = IF E!DayOf(run.date) = 1 THEN "publish" ELSE "daily"
    BY <1>3
  <2>2. E!DayOf(run'.date) = E!DayOf(run.date) /\ E!DayOf(run.date) \in Nat
    BY <1>4, <2>1 DEF E!DayOf
  <2>3. Len(run'.costs) = 0
    BY <2>1
  <2> QED BY <1>4, <1>7, <1>8, <2>1, <2>2, <2>3 DEF ProgressInv, E!DayOf
<1>11. DailySums'
  <2>1. run'.pc # "publish daily" /\ DailySums /\ run.pc # "publish daily"
    BY <1>2, <1>3 DEF EstimatesInv
  <2> QED BY <1>5, <2>1 DEF DailySums, E!DayOf
<1> QED BY <1>2, <1>9, <1>10, <1>11 DEF EstimatesInv

\* A day is added: its cost over the day before, so that the sum of the costs is its snapshot.
LEMMA DayStep ==
  ASSUME EstimatesInv, NEW answer \in Answers, E!AddDay(answer)
  PROVE  EstimatesInv'
<1> DEFINE last == IF run.previous = <<>> THEN 0 ELSE run.previous[1].money
           cost == answer.money - last
           fits == E!Valid(answer) /\ \A i \in DOMAIN run.previous : run.previous[i].currency = answer.currency
<1>1. answer.money \in Int
  BY ComponentAssumptions DEF E!EstimatesAssumption
<1>2. /\ run.pc = "daily" /\ UNCHANGED <<time, estimate, daily>>
      /\ IF run.next \in DOMAIN snapshots
         THEN answer = snapshots[run.next] /\ snapshots' = snapshots
         ELSE snapshots' = E!With(run.next, answer, snapshots)
  BY DEF E!AddDay
<1>3. fits => run' = [run EXCEPT !.costs = Append(run.costs, cost), !.previous = <<answer>>,
                               !.next = run.next + 1, !.pc = IF run.next = run.date THEN "publish" ELSE "daily"]
  BY DEF E!AddDay, E!AddUp
<1>4. ~fits => run' = E!Resting
  BY DEF E!AddDay
<1>5. /\ run.date \in Nat /\ run.next \in Int /\ run.total \in Int /\ run.costs \in Seq(Int)
      /\ E!DayOf(run.date) > 1 /\ run.next <= run.date
      /\ Len(run.costs) = run.next - (run.date - E!DayOf(run.date) + 2)
      /\ run.date \in DOMAIN snapshots /\ snapshots[run.date].money = run.total
      /\ \A d \in DOMAIN snapshots : snapshots[d].money \in Int
      /\ time \in Nat /\ DailySums
  BY <1>2 DEF EstimatesInv, RunInv, ProgressInv
<1>6. last \in Int /\ Sum(run.costs) = last
  <2>1. run.costs = <<>> => run.previous = <<>> /\ Sum(run.costs) = 0
    BY SumOf DEF EstimatesInv, RunInv
  <2>2. run.costs # <<>> => run.previous = <<run.previous[1]>> /\ run.previous[1].money = Sum(run.costs)
    BY DEF EstimatesInv, RunInv
  <2>3. run.costs # <<>> => run.previous # <<>>
    BY <2>2
  <2>4. Sum(run.costs) \in Int
    BY <1>5, SumOf
  <2> QED BY <2>1, <2>2, <2>3, <2>4
<1>7. /\ run.date \in DOMAIN snapshots' /\ snapshots'[run.date].money = run.total
      /\ \A d \in DOMAIN snapshots' : snapshots'[d].money \in Int
      /\ run.next = run.date => answer.money = run.total
  <2>1. CASE run.next \in DOMAIN snapshots
    BY <1>2, <1>5, <2>1
  <2>2. CASE run.next \notin DOMAIN snapshots
    BY <1>1, <1>2, <1>5, <2>2 DEF E!With
  <2> QED BY <2>1, <2>2
<1>8. run' = [pc |-> run'.pc, date |-> run'.date, next |-> run'.next, total |-> run'.total,
              previous |-> run'.previous, costs |-> run'.costs]
  <2>1. run = [pc |-> run.pc, date |-> run.date, next |-> run.next, total |-> run.total,
               previous |-> run.previous, costs |-> run.costs]
    BY DEF EstimatesInv, RunInv
  <2>2. CASE fits
    <3> HIDE DEF fits, cost, last
    <3> QED BY <1>3, <2>1, <2>2
  <2>3. CASE ~fits
    <3> HIDE DEF fits, cost, last
    <3> QED BY <1>4, <2>3 DEF E!Resting
  <2> QED BY <2>2, <2>3
<1>9. CASE fits
  <2> HIDE DEF fits, cost
  <2>1. /\ run'.date = run.date /\ run'.next = run.next + 1 /\ run'.total = run.total
        /\ run'.costs = Append(run.costs, cost) /\ run'.previous = <<answer>>
        /\ run'.pc = IF run.next = run.date THEN "publish" ELSE "daily"
    <3>1. run = [pc |-> run.pc, date |-> run.date, next |-> run.next, total |-> run.total,
                 previous |-> run.previous, costs |-> run.costs]
      BY DEF EstimatesInv, RunInv
    <3> HIDE DEF last
    <3> QED BY <1>3, <1>9, <3>1
  <2>2. cost \in Int /\ Sum(run.costs) + cost = answer.money
    <3> HIDE DEF last
    <3> QED BY <1>1, <1>6 DEF cost
  <2> HIDE DEF last
  <2>3. /\ run'.costs \in Seq(Int) /\ run'.costs # <<>> /\ Len(run'.costs) = Len(run.costs) + 1
    <3>1. Append(run.costs, cost) \in Seq(Int) /\ Len(Append(run.costs, cost)) = Len(run.costs) + 1
      BY <1>5, <2>2
    <3>2. Len(run.costs) \in Nat /\ Len(<<>>) = 0
      BY <1>5
    <3>3. Append(run.costs, cost) # <<>>
      BY <3>1, <3>2
    <3> QED BY <2>1, <3>1, <3>3
  <2>4. Sum(run'.costs) = answer.money
    BY <1>5, <2>1, <2>2, SumOf
  <2>5. RunInv'
    <3>1. run'.pc \in {"idle", "total"} \cup Estimated
      BY <2>1 DEF Estimated
    <3>2. run'.previous = <<run'.previous[1]>> /\ run'.previous[1].money = Sum(run'.costs)
      BY <2>1, <2>4
    <3>3. run'.date \in Nat /\ run'.next \in Int /\ run'.total \in Int
      BY <1>5, <2>1
    <3> QED BY <1>7, <1>8, <2>3, <3>1, <3>2, <3>3 DEF RunInv
  <2>6. ProgressInv'
    <3>1. E!DayOf(run'.date) = E!DayOf(run.date) /\ E!DayOf(run.date) \in Int
      <4>1. MonthDays \in Nat \ {0, 1}
        BY ComponentAssumptions DEF E!EstimatesAssumption
      <4> QED BY <1>5, <2>1, <4>1 DEF E!DayOf
    <3>2. /\ run'.pc # "total" /\ run'.pc # "publish daily"
          /\ run'.pc = "daily" => run.next # run.date
          /\ run'.pc = "publish" => run.next = run.date
      BY <2>1
    <3>3. Len(run'.costs) = run.next + 1 - (run.date - E!DayOf(run.date) + 2)
      BY <1>5, <2>3, <3>1
    <3>4. run'.pc = "daily" => run'.next <= run'.date
      BY <1>5, <2>1, <3>2
    <3>5. run'.pc = "publish" => Len(run'.costs) = E!DayOf(run.date) - 1 /\ Sum(run'.costs) = run'.total
      BY <1>5, <1>7, <2>1, <2>4, <3>1, <3>2, <3>3
    <3> QED BY <1>5, <1>7, <2>1, <3>1, <3>2, <3>3, <3>4, <3>5 DEF ProgressInv
  <2>7. DailySums'
    <3>1. run'.pc # "publish daily"
      BY <2>1
    <3> QED BY <1>2, <1>5, <3>1 DEF DailySums
  <2> QED BY <1>2, <1>5, <2>5, <2>6, <2>7 DEF EstimatesInv
<1>10. CASE ~fits
  <2>1. run' = E!Resting
    BY <1>4, <1>10
  <2> HIDE DEF fits
  <2>2. RunInv'
    BY <1>7, <2>1 DEF RunInv, E!Resting
  <2>3. ProgressInv'
    BY <2>1 DEF ProgressInv, E!Resting
  <2>4. DailySums'
    BY <1>2, <1>5, <2>1 DEF DailySums, E!Resting
  <2> QED BY <1>2, <1>5, <2>2, <2>3, <2>4 DEF EstimatesInv
<1> QED BY <1>9, <1>10

\* The steps at which a run begins, ends or publishes.
LEMMA OtherSteps ==
  ASSUME EstimatesInv, E!Tick \/ E!Begin \/ E!Fail \/ E!PublishTotal \/ E!PublishDaily
  PROVE  EstimatesInv'
<1> USE DEF EstimatesInv
<1>1. CASE E!Tick
  <2>1. time' = time + 1 /\ UNCHANGED <<snapshots, run, estimate, daily>>
    BY <1>1 DEF E!Tick
  <2>2. RunInv'
    BY <2>1 DEF RunInv
  <2>3. ProgressInv'
    BY <2>1 DEF ProgressInv
  <2>4. DailySums'
    BY <2>1 DEF DailySums
  <2> QED BY <2>1, <2>2, <2>3, <2>4
<1>2. CASE E!Begin
  <2>1. PICK date \in E!SnapshotDate(time) :
          run' = [pc |-> "total", date |-> date, next |-> 0, total |-> 0, previous |-> <<>>, costs |-> <<>>]
    BY <1>2 DEF E!Begin, E!Resting
  <2>2. UNCHANGED <<time, snapshots, estimate, daily>> /\ run.pc = "idle"
    BY <1>2 DEF E!Begin
  <2>3. date \in Nat
    BY SnapshotDates
  <2>4. RunInv'
    BY <2>1, <2>2, <2>3 DEF RunInv
  <2>5. ProgressInv'
    BY <2>1 DEF ProgressInv
  <2>6. DailySums'
    BY <2>1, <2>2 DEF DailySums
  <2> QED BY <2>2, <2>4, <2>5, <2>6
<1>3. CASE E!Fail
  <2>1. run' = E!Resting /\ UNCHANGED <<time, snapshots, estimate, daily>> /\ run.pc # "publish daily"
    BY <1>3 DEF E!Fail
  <2>2. RunInv'
    <3>1. run' = [pc |-> run'.pc, date |-> run'.date, next |-> run'.next, total |-> run'.total,
                  previous |-> run'.previous, costs |-> run'.costs]
      BY <2>1 DEF E!Resting
    <3>2. /\ run'.pc = "idle" /\ run'.date = 0 /\ run'.next = 0 /\ run'.total = 0
          /\ run'.previous = <<>> /\ run'.costs = <<>>
      <4>1. run' = [pc |-> "idle", date |-> 0, next |-> 0, total |-> 0, previous |-> <<>>, costs |-> <<>>]
        BY <2>1 DEF E!Resting
      <4> QED BY <4>1
    <3>3. \A d \in DOMAIN snapshots' : snapshots'[d].money \in Int
      BY <2>1 DEF RunInv
    <3> QED BY <3>1, <3>2, <3>3 DEF RunInv
  <2>3. ProgressInv'
    BY <2>1 DEF ProgressInv, E!Resting
  <2>4. DailySums'
    BY <2>1 DEF DailySums, E!Resting
  <2> QED BY <2>1, <2>2, <2>3, <2>4
<1>4. CASE E!PublishTotal
  <2>1. /\ run.pc = "publish" /\ run' = [run EXCEPT !.pc = "publish daily"]
        /\ estimate' = {[date |-> run.date, money |-> run.total]} /\ UNCHANGED <<time, snapshots, daily>>
    BY <1>4 DEF E!PublishTotal
  <2>2. run' = [pc |-> "publish daily", date |-> run.date, next |-> run.next, total |-> run.total,
                previous |-> run.previous, costs |-> run.costs]
    BY <2>1 DEF RunInv
  <2>3. /\ run'.pc = "publish daily" /\ run'.date = run.date /\ run'.next = run.next
        /\ run'.total = run.total /\ run'.previous = run.previous /\ run'.costs = run.costs
    BY <2>2
  <2>4. RunInv'
    BY <2>1, <2>2, <2>3 DEF RunInv, Estimated
  <2>5. ProgressInv'
    BY <2>1, <2>3 DEF ProgressInv
  <2>6. DailySums'
    BY <2>3 DEF DailySums
  <2> QED BY <2>1, <2>4, <2>5, <2>6
<1>5. CASE E!PublishDaily
  <2>1. /\ run.pc = "publish daily" /\ run' = E!Resting
        /\ daily' = {[date |-> run.date, costs |-> run.costs]} /\ UNCHANGED <<time, snapshots, estimate>>
    BY <1>5 DEF E!PublishDaily
  <2>2. RunInv'
    <3>1. run' = [pc |-> run'.pc, date |-> run'.date, next |-> run'.next, total |-> run'.total,
                  previous |-> run'.previous, costs |-> run'.costs]
      BY <2>1 DEF E!Resting
    <3>2. /\ run'.pc = "idle" /\ run'.date = 0 /\ run'.next = 0 /\ run'.total = 0
          /\ run'.previous = <<>> /\ run'.costs = <<>>
      <4>1. run' = [pc |-> "idle", date |-> 0, next |-> 0, total |-> 0, previous |-> <<>>, costs |-> <<>>]
        BY <2>1 DEF E!Resting
      <4> QED BY <4>1
    <3>3. \A d \in DOMAIN snapshots' : snapshots'[d].money \in Int
      BY <2>1 DEF RunInv
    <3> QED BY <3>1, <3>2, <3>3 DEF RunInv
  <2>3. ProgressInv'
    BY <2>1 DEF ProgressInv, E!Resting
  <2>4. DailySums'
    <3>1. /\ estimate = {[date |-> run.date, money |-> run.total]} /\ Len(run.costs) = E!DayOf(run.date) - 1
          /\ E!DayOf(run.date) > 1 => Sum(run.costs) = run.total
      BY <2>1 DEF ProgressInv
    <3>2. ASSUME NEW e \in estimate', NEW d \in daily'
          PROVE  /\ d.date = e.date /\ Len(d.costs) = E!DayOf(d.date) - 1
                 /\ E!DayOf(d.date) > 1 => Sum(d.costs) = e.money
      <4>1. e = [date |-> run.date, money |-> run.total] /\ d = [date |-> run.date, costs |-> run.costs]
        BY <2>1, <3>1, <3>2
      <4>2. e.date = run.date /\ e.money = run.total /\ d.date = run.date /\ d.costs = run.costs
        BY <4>1
      <4> QED BY <3>1, <4>2
    <3> QED BY <3>2 DEF DailySums
  <2> QED BY <2>1, <2>2, <2>3, <2>4
<1> QED BY <1>1, <1>2, <1>3, <1>4, <1>5

LEMMA EstimatesStep == EstimatesInv /\ [E!Next]_(E!vars) => EstimatesInv'
<1>1. ASSUME EstimatesInv, UNCHANGED (E!vars) PROVE EstimatesInv'
  <2>1. UNCHANGED <<time, snapshots, run, estimate, daily>>
    BY <1>1 DEF E!vars
  <2> QED BY <1>1, <2>1 DEF EstimatesInv, RunInv, ProgressInv, DailySums
<1>2. ASSUME EstimatesInv, E!Next PROVE EstimatesInv'
  BY <1>2, OtherSteps, TotalStep, DayStep DEF E!Next
<1> QED BY <1>1, <1>2

\* The daily costs that are exposed are one for each day up to the estimate's date and add up
\* to it, whatever was cached by earlier runs, fetched late or missed, for every month's length.
THEOREM DailyCostsAddUp == E!Init /\ [][E!Next]_(E!vars) => []DailyAddsUp
<1>1. DailySums => DailyAddsUp
  BY DEF DailySums, DailyAddsUp, E!DailyAddsUp, Sum, E!FoldLeft, FoldLeft, E!MapThenFoldSet, MapThenFoldSet,
         E!Max, Max
<1>2. EstimatesInv => DailyAddsUp
  BY <1>1 DEF EstimatesInv
<1> QED BY EstimatesInitially, EstimatesStep, <1>2, PTL
-----------------------------------------------------------------------------
(* ResourcePacks *)

\* What a call has is what the full pages before hold.
PagesInv ==
  /\ page \in 0 .. MaxPages /\ \E S : all \in Seq(S)
  /\ page # 0 => Len(all) = (page - 1) * PageSize

PacksInv == PagesInv /\ SeriesAreUnique

\* An answer has no more packs than a page.
LEMMA AnswerFits ==
  ASSUME page \in Nat
  PROVE  Len(R!Answered) \in 0 .. PageSize /\ \E S : R!Answered \in Seq(S)
<1> DEFINE from == (page - 1) * PageSize
           some == DOMAIN account \cap (from + 1 .. from + PageSize)
           n == Cardinality(some)
<1>1. PageSize \in Nat \ {0} /\ from \in Int
  BY ComponentAssumptions DEF R!PacksAssumption
<1>2. n \in 0 .. PageSize
  <2> HIDE DEF from
  <2>1. /\ IsFiniteSet(from + 1 .. from + PageSize)
        /\ Cardinality(from + 1 .. from + PageSize) = PageSize
    <3>1. from + 1 \in Int /\ from + PageSize \in Int /\ ~(from + 1 > from + PageSize)
      BY <1>1
    <3> DEFINE low == from + 1
               high == from + PageSize
    <3>2. low \in Int /\ high \in Int /\ ~(low > high) /\ high - low + 1 = PageSize
      BY <1>1, <3>1
    <3> HIDE DEF low, high
    <3>3. IsFiniteSet(low .. high) /\ Cardinality(low .. high) = PageSize
      BY <3>2, FS_Interval
    <3> QED BY <3>3 DEF low, high
  <2>2. some \subseteq from + 1 .. from + PageSize
    OBVIOUS
  <2> HIDE DEF some
  <2>3. IsFiniteSet(some) /\ Cardinality(some) <= PageSize
    BY <2>1, <2>2, FS_Subset
  <2>4. Cardinality(some) \in Nat
    BY <2>3, FS_CardinalityType
  <2> QED BY <1>1, <2>3, <2>4
<1>3. R!Answered = [i \in 1 .. n |-> account[from + i]]
  BY DEF R!Answered, R!Cardinality, Cardinality
<1> HIDE DEF n, from
<1>4. R!Answered \in Seq({account[from + i] : i \in 1 .. n}) /\ Len(R!Answered) = n
  BY <1>2, <1>3
<1> QED BY <1>2, <1>4

LEMMA Joined ==
  ASSUME NEW S, NEW s \in Seq(S), NEW U, NEW u \in Seq(U)
  PROVE  s \o u \in Seq(S \cup U) /\ Len(s \o u) = Len(s) + Len(u)
  OBVIOUS

LEMMA PageStep == PacksInv /\ R!Page => PacksInv'
<1> SUFFICES ASSUME PacksInv, R!Page PROVE PacksInv'
  OBVIOUS
<1> DEFINE got == R!Answered
<1>1. /\ page # 0 /\ all' = all \o got
      /\ IF Len(got) = PageSize
         THEN page' = (IF page < MaxPages THEN page + 1 ELSE 0) /\ UNCHANGED packs
         ELSE page' = 0 /\ packs' = IF R!Valid(all') THEN {all'} ELSE packs
  BY DEF R!Page
<1>2. PageSize \in Nat \ {0} /\ MaxPages \in Nat \ {0} /\ page \in 1 .. MaxPages
  BY <1>1, ComponentAssumptions DEF R!PacksAssumption, PacksInv, PagesInv
<1>3. Len(got) \in 0 .. PageSize /\ \E S : got \in Seq(S)
  BY <1>2, AnswerFits
<1>4. (\E S : all \in Seq(S)) /\ Len(all) = (page - 1) * PageSize
  BY <1>1 DEF PacksInv, PagesInv
<1> HIDE DEF got
<1>5. (\E S : all' \in Seq(S)) /\ Len(all') = (page - 1) * PageSize + Len(got)
  <2>1. PICK S : all \in Seq(S)
    BY <1>4
  <2>2. PICK S2 : got \in Seq(S2)
    BY <1>3
  <2> QED BY <1>1, <1>4, <2>1, <2>2, Joined
<1>6. /\ (page + 1 - 1) * PageSize = (page - 1) * PageSize + PageSize
      /\ (page - 1) * PageSize + PageSize <= MaxPages * PageSize
      /\ (page - 1) * PageSize \in Int /\ MaxPages * PageSize \in Int
  <2>1. (page - 1) * PageSize + PageSize = page * PageSize
    BY <1>2
  <2>2. (MaxPages - page) * PageSize >= 0
    BY <1>2
  <2>3. (MaxPages - page) * PageSize = MaxPages * PageSize - page * PageSize
    BY <1>2
  <2> QED BY <1>2, <2>1, <2>2, <2>3
<1>7. PagesInv'
  <2>1. CASE Len(got) = PageSize
    <3>1. page' \in 0 .. MaxPages
      BY <1>1, <1>2, <2>1
    <3>2. page' # 0 => page' = page + 1
      BY <1>1, <2>1
    <3>3. ASSUME page' # 0 PROVE Len(all') = (page' - 1) * PageSize
      <4>1. page' = page + 1
        BY <3>2, <3>3
      <4>2. page' - 1 = page + 1 - 1
        BY <1>2, <4>1
      <4>3. Len(all') = (page - 1) * PageSize + PageSize
        BY <1>5, <2>1
      <4> QED BY <1>6, <4>2, <4>3
    <3> QED BY <1>5, <3>1, <3>3 DEF PagesInv
  <2>2. CASE Len(got) # PageSize
    <3>1. page' = 0 /\ 0 \in 0 .. MaxPages
      BY <1>1, <1>2, <2>2
    <3> QED BY <1>5, <3>1 DEF PagesInv
  <2> QED BY <2>1, <2>2
<1>8. SeriesAreUnique'
  <2>1. SeriesAreUnique
    BY DEF PacksInv
  <2>2. CASE UNCHANGED packs
    BY <2>1, <2>2 DEF SeriesAreUnique, R!SeriesAreUnique
  <2>3. CASE packs' = {all'} /\ R!Valid(all') /\ Len(got) # PageSize
    <3>1. Len(all') < MaxPages * PageSize
      BY <1>2, <1>3, <1>5, <1>6, <2>3
    <3>2. \A i, j \in DOMAIN (all') : (all')[i] = (all')[j] => i = j
      BY <2>3 DEF R!Valid, R!IsInjective
    <3>3. R!ToSet(all') \subseteq Allowed
      BY <2>3 DEF R!Valid
    <3> QED BY <2>3, <3>1, <3>2, <3>3 DEF SeriesAreUnique, R!SeriesAreUnique
  <2> QED BY <1>1, <2>2, <2>3
<1> QED BY <1>7, <1>8 DEF PacksInv

LEMMA PacksStep == PacksInv /\ [R!Next]_(R!vars) => PacksInv'
<1> SUFFICES ASSUME PacksInv, [R!Next]_(R!vars) PROVE PacksInv'
  OBVIOUS
<1>1. CASE R!Page
  BY <1>1, PageStep
<1>2. CASE R!Begin
  <2>1. page' = 1 /\ all' = <<>> /\ UNCHANGED packs
    BY <1>2 DEF R!Begin
  <2>2. MaxPages \in Nat \ {0} /\ PageSize \in Nat
    BY ComponentAssumptions DEF R!PacksAssumption
  <2>3. all' \in Seq({}) /\ Len(all') = 0 /\ (page' - 1) * PageSize = 0 /\ page' \in 0 .. MaxPages
    BY <2>1, <2>2
  <2> QED BY <2>1, <2>3 DEF PacksInv, PagesInv, SeriesAreUnique, R!SeriesAreUnique
<1>3. CASE R!Fail
  <2>1. page' = 0 /\ UNCHANGED <<all, packs>> /\ 0 \in 0 .. MaxPages
    BY <1>3, ComponentAssumptions DEF R!Fail, R!PacksAssumption
  <2> QED BY <2>1 DEF PacksInv, PagesInv, SeriesAreUnique, R!SeriesAreUnique
<1>4. CASE UNCHANGED <<page, all, packs>>
  BY <1>4 DEF PacksInv, PagesInv, SeriesAreUnique, R!SeriesAreUnique
<1> QED BY <1>1, <1>2, <1>3, <1>4 DEF R!Next, R!vars, R!Change

\* However the account changes between two pages, no pack is exposed twice, none that is not
\* allowed, and never as many as the pages have room for.
THEOREM PacksAreUnique == R!Init /\ [][R!Next]_(R!vars) => []SeriesAreUnique
<1>1. R!Init => PacksInv
  <2>1. <<>> \in Seq({}) /\ 0 \in 0 .. MaxPages
    BY ComponentAssumptions DEF R!PacksAssumption
  <2> QED BY <2>1 DEF R!Init, PacksInv, PagesInv, SeriesAreUnique, R!SeriesAreUnique
<1>2. PacksInv => SeriesAreUnique
  BY DEF PacksInv
<1> QED BY <1>1, <1>2, PacksStep, PTL
=============================================================================
