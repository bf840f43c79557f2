---------------------------- MODULE CDNDataProofs ----------------------------
(***************************************************************************)
(* What CDN rounds make of their answers: the month's peak for any         *)
(* domains, lengths of days, months and windows, and any sequence of       *)
(* rounds that fail after any number of windows; the isolation of rejected *)
(* domains for any batch; the buckets of an analytics domain for any       *)
(* answers; the totals of usage for any lengths of hours, days and months; *)
(* the list of top IPs for any batches, answers and limit.                 *)
(***************************************************************************)
EXTENDS MCCDNData, SafeBucketProofs, SequenceTheorems

-----------------------------------------------------------------------------
(* Days and months are multiples of their lengths *)

Floor(t, n) == (t \div n) * n

LEMMA Ordered == ASSUME NEW a \in Int, NEW b \in Int, NEW n \in Nat, a <= b PROVE a * n <= b * n
<1>1. b - a \in Nat /\ b * n = a * n + (b - a) * n
    OBVIOUS
<1>2. (b - a) * n \in Nat
    BY <1>1
<1> QED BY <1>1, <1>2

LEMMA FloorFacts ==
  ASSUME NEW t \in Nat, NEW n \in Nat \ {0}
  PROVE  t \div n \in Nat /\ Floor(t, n) \in Nat /\ Floor(t, n) <= t /\ t < Floor(t, n) + n
  BY DEF Floor

\* The greatest multiple that is not beyond t.
LEMMA FloorIsGreatest ==
  ASSUME NEW t \in Nat, NEW n \in Nat \ {0}, NEW k \in Int, k * n <= t
  PROVE  k * n <= Floor(t, n)
<1>1. t < (t \div n) * n + n /\ t \div n \in Nat
    BY FloorFacts DEF Floor
<1>2. CASE k <= t \div n
    BY <1>1, <1>2, Ordered DEF Floor
<1>3. CASE k > t \div n
  <2>1. (t \div n + 1) * n <= k * n
      BY <1>1, <1>3, Ordered
  <2> QED BY <1>1, <2>1
<1> QED BY <1>1, <1>2, <1>3

LEMMA FloorOfFloor ==
  ASSUME NEW t \in Nat, NEW n \in Nat \ {0}, NEW s \in Nat, Floor(t, n) <= s, s <= t
  PROVE  Floor(s, n) = Floor(t, n)
<1>1. Floor(t, n) <= Floor(s, n)
    BY FloorFacts, FloorIsGreatest DEF Floor
<1>2. Floor(s, n) <= Floor(t, n)
    BY FloorFacts, FloorIsGreatest DEF Floor
<1> QED BY <1>1, <1>2, FloorFacts

MonthTicks == DayTicks * MonthDays

LEMMA Lengths ==
  /\ DayTicks \in Nat \ {0} /\ MonthTicks \in Nat \ {0} /\ BackfillDays * DayTicks \in Nat \ {0}
<1>1. ASSUME NEW a \in Nat \ {0}, NEW b \in Nat \ {0} PROVE a * b \in Nat \ {0}
  <2>1. 1 * b <= a * b
      BY Ordered
  <2> QED BY <2>1
<1> QED BY <1>1, MonthAssumption DEF MonthTicks

\* What the proofs need of the clock: the day and the month that t is of.
LEMMA Calendar ==
  ASSUME NEW t \in Nat
  PROVE  /\ DayStart(t) \in Nat /\ MonthStart(t) \in Nat
         /\ MonthStart(t) <= DayStart(t) /\ DayStart(t) <= t /\ t < MonthStart(t) + MonthTicks
         /\ MonthStart(DayStart(t)) = MonthStart(t) /\ MonthStart(MonthStart(t)) = MonthStart(t)
         /\ DayStart(t) <= DayStart(t + 1)
<1> DEFINE d == DayTicks
           m == MonthTicks
<1>1. d \in Nat \ {0} /\ m \in Nat \ {0}
    BY Lengths
<1>2. DayStart(t) = Floor(t, d) /\ \A s \in Nat : MonthStart(s) = Floor(s, m)
    BY DEF DayStart, MonthStart, Floor, MonthTicks
<1>3. DayStart(t + 1) = Floor(t + 1, d)
    BY DEF DayStart, Floor
<1> HIDE DEF d, m
<1>4. Floor(t, d) \in Nat /\ Floor(t, d) <= t /\ Floor(t, m) \in Nat /\ Floor(t, m) <= t /\ t < Floor(t, m) + m
    BY <1>1, FloorFacts
<1>5. Floor(t, m) <= Floor(t, d)
  <2> DEFINE k == (t \div m) * MonthDays
  <2>1. t \div m \in Nat /\ MonthDays \in Nat /\ d \in Nat
      BY <1>1, FloorFacts, MonthAssumption DEF d
  <2>2. Floor(t, m) = k * d
    <3>1. m = d * MonthDays
        BY DEF d, m, MonthTicks
    <3>2. ASSUME NEW q \in Nat, NEW x \in Nat, NEW y \in Nat PROVE q * (x * y) = (q * y) * x
        OBVIOUS
    <3>3. (t \div m) * (d * MonthDays) = ((t \div m) * MonthDays) * d
        BY <2>1, <3>2
    <3> QED BY <3>1, <3>3 DEF Floor
  <2>3. k \in Int
      BY <2>1
  <2> HIDE DEF k
  <2> QED BY <1>1, <1>4, <2>2, <2>3, FloorIsGreatest
<1>6. Floor(Floor(t, d), m) = Floor(t, m) /\ Floor(Floor(t, m), m) = Floor(t, m)
    BY <1>1, <1>4, <1>5, FloorOfFloor
<1>7. Floor(t, d) <= Floor(t + 1, d)
    BY <1>1, <1>4, FloorFacts, FloorIsGreatest DEF Floor
<1> QED BY <1>2, <1>3, <1>4, <1>5, <1>6, <1>7 DEF m
-----------------------------------------------------------------------------
(* The inductive invariant *)

\* Buckets from one to another, each counted once.
Contiguous(m) == m.buckets = m.start .. m.end - 1 /\ m.count = m.end - m.start

CacheInv ==
  /\ cache.periodEnd \in Int /\ cache.monthStart \in Int
  /\ cache.monthStart <= cache.periodEnd /\ cache.periodEnd <= DayStart(now)
  /\ cache.aggregate.start = cache.monthStart /\ cache.aggregate.end = cache.periodEnd
  /\ cache.aggregate.domains = cache.domains
  /\ Contiguous(cache.aggregate)

\* A round goes on with a cache of its own month and domains, which it has not taken
\* beyond its day.
RoundInv ==
  round.pc = "load" =>
    /\ round.today \in Nat /\ round.dataEnd \in Int
    /\ round.today <= DayStart(now)
    /\ round.domains = cache.domains /\ MonthStart(round.today) = cache.monthStart
    /\ MonthStart(cache.monthStart) = cache.monthStart
    /\ round.today < cache.monthStart + MonthTicks /\ round.dataEnd <= cache.monthStart + MonthTicks
    /\ cache.periodEnd <= round.today

\* What was fetched is what is cached.
HadInv ==
  /\ had.monthStart = cache.monthStart /\ had.domains = cache.domains
  /\ had.buckets \subseteq cache.monthStart .. cache.periodEnd - 1

MonthInv ==
  \A m \in month :
    /\ m.start \in Int /\ m.end \in Int /\ m.start <= m.end
    /\ m.start = MonthStart(m.start) /\ m.end <= m.start + MonthTicks
    /\ Contiguous(m)

IInv == now \in Nat /\ CacheInv /\ RoundInv /\ HadInv /\ MonthInv

LEMMA ZeroFacts ==
  ASSUME NEW domains, NEW at \in Int
  PROVE  /\ Zero(domains, at).start = at /\ Zero(domains, at).end = at
         /\ Zero(domains, at).domains = domains /\ Contiguous(Zero(domains, at))
<1>1. at .. at - 1 = {} /\ at - at = 0
    OBVIOUS
<1> QED BY <1>1 DEF Zero, Contiguous

LEMMA InitInv == Init => IInv
<1> SUFFICES ASSUME Init PROVE IInv
    OBVIOUS
<1>1. now \in Nat
    BY MonthAssumption DEF Init
<1>2. cache = [monthStart |-> -1, periodEnd |-> -1, domains |-> {}, aggregate |-> Zero({}, -1)]
    BY DEF Init, NewCache
<1>3. CacheInv
  <2>1. DayStart(now) \in Nat /\ -1 \in Int
      BY <1>1, Calendar
  <2> QED BY <1>2, <2>1, ZeroFacts DEF CacheInv
<1>4. RoundInv /\ MonthInv
    BY DEF Init, RoundInv, NoRound, MonthInv
<1>5. HadInv
    BY <1>2 DEF Init, HadInv, Nothing
<1> QED BY <1>1, <1>3, <1>4, <1>5 DEF IInv

LEMMA TickInv == IInv /\ Tick => IInv'
<1> SUFFICES ASSUME IInv, Tick PROVE IInv'
    OBVIOUS
<1>1. DayStart(now) <= DayStart(now') /\ now' \in Nat /\ DayStart(now) \in Int /\ DayStart(now') \in Int
    BY Calendar, MonthAssumption DEF IInv, Tick
<1> QED
    BY <1>1 DEF IInv, CacheInv, RoundInv, HadInv, MonthInv, Tick, Contiguous, MonthStart

LEMMA BeginInv == IInv /\ Begin => IInv'
<1> SUFFICES ASSUME IInv, Begin PROVE IInv'
    OBVIOUS
<1> DEFINE day == DayStart(now)
           start == MonthStart(now)
<1>1. /\ now \in Nat /\ day \in Nat /\ start \in Nat /\ start <= day /\ day <= now
      /\ now < start + MonthTicks /\ MonthStart(day) = start /\ MonthStart(start) = start
    BY Calendar DEF IInv
<1>2. PICK domains \in SUBSET Domain \ {{}}, dataEnd \in (now - Lag - Late) .. (now - Lag) :
        /\ round' = [pc |-> "load", domains |-> domains, today |-> day, dataEnd |-> dataEnd]
        /\ cache' = Reset(domains, day)
        /\ had' = IF had.monthStart = start /\ had.domains = domains THEN had
                  ELSE Nothing(domains, start)
        /\ UNCHANGED <<now, month>>
    BY DEF Begin
<1>3. dataEnd \in Int /\ dataEnd <= now
    BY <1>1, MonthAssumption
<1>4. UNCHANGED <<now, month>> /\ DayStart(now') = day
    BY <1>2
<1>5. CASE cache.monthStart = start /\ cache.domains = domains
  <2>1. cache' = cache
      BY <1>1, <1>2, <1>5 DEF Reset, IInv, CacheInv
  <2>2. had' = had
      BY <1>2, <1>5 DEF IInv, HadInv
  <2> HIDE DEF day, start
  <2>3. CacheInv' /\ HadInv' /\ MonthInv'
      BY <1>4, <2>1, <2>2 DEF IInv, CacheInv, HadInv, MonthInv, Contiguous, MonthStart, day
  <2>4. round'.today = day /\ round'.dataEnd = dataEnd /\ round'.domains = domains
      BY <1>2
  <2>5. cache.periodEnd <= day
      BY DEF IInv, CacheInv, day
  <2>6. RoundInv'
      BY <1>1, <1>3, <1>4, <1>5, <2>1, <2>4, <2>5, Lengths DEF RoundInv, MonthStart
  <2> QED BY <1>1, <1>4, <2>3, <2>6 DEF IInv
<1>6. CASE ~(cache.monthStart = start /\ cache.domains = domains)
  <2>1. cache' = NewCache(domains, start)
      BY <1>1, <1>2, <1>6 DEF Reset
  <2>2. had' = Nothing(domains, start)
      BY <1>2, <1>6 DEF IInv, HadInv
  <2>3. start .. start - 1 = {}
      BY <1>1
  <2> HIDE DEF day, start
  <2>4. cache' = [monthStart |-> start, periodEnd |-> start, domains |-> domains,
                  aggregate |-> Zero(domains, start)]
      BY <2>1 DEF NewCache
  <2>5. CacheInv'
    <3>1. /\ Zero(domains, start).start = start /\ Zero(domains, start).end = start
          /\ Zero(domains, start).domains = domains /\ Contiguous(Zero(domains, start))
        BY <1>1, ZeroFacts
    <3>2. start <= DayStart(now')
        BY <1>1, <1>4
    <3>3. cache'.aggregate = Zero(domains, start) /\ cache'.periodEnd = start
          /\ cache'.monthStart = start /\ cache'.domains = domains
        BY <2>4
    <3> QED BY <1>1, <3>1, <3>2, <3>3 DEF CacheInv, Contiguous
  <2>6. HadInv' /\ MonthInv'
      BY <1>4, <2>2, <2>4 DEF IInv, HadInv, MonthInv, Contiguous, MonthStart, Nothing
  <2>7. round'.today = day /\ round'.dataEnd = dataEnd /\ round'.domains = domains
      BY <1>2
  <2>8. RoundInv'
      BY <1>1, <1>3, <1>4, <2>4, <2>7, Lengths DEF RoundInv, MonthStart
  <2> QED BY <1>1, <1>4, <2>5, <2>6, <2>8 DEF IInv
<1> QED BY <1>5, <1>6

LEMMA ChunkFacts ==
  ASSUME IInv, round.pc = "load", cache.periodEnd < round.today
  PROVE  ChunkEnd \in Int /\ cache.periodEnd < ChunkEnd /\ ChunkEnd <= round.today
<1> DEFINE length == BackfillDays * DayTicks
<1>1. length \in Nat \ {0}
    BY Lengths
<1> HIDE DEF length
<1>2. ChunkEnd = IF cache.periodEnd + length > round.today THEN round.today ELSE cache.periodEnd + length
    BY DEF ChunkEnd, length
<1> QED BY <1>1, <1>2 DEF IInv, CacheInv, RoundInv

\* Merging what follows, of the same domains, is what both have together.
LEMMA MergeFacts ==
  ASSUME NEW prior, NEW domains, NEW end \in Int, NEW t, NEW merged \in Merge(prior, Aggregate(domains, prior.end, end, t)),
         prior.start \in Int, prior.end \in Int, prior.start <= prior.end, prior.end < end,
         Contiguous(prior), prior.domains = domains
  PROVE  /\ merged.start = prior.start /\ merged.end = end /\ merged.domains = domains
         /\ Contiguous(merged)
<1>1. CASE prior.count = 0
  <2>1. /\ merged.start = prior.start /\ merged.end = end /\ merged.domains = domains
        /\ merged.count = end - prior.end /\ merged.buckets = prior.end .. end - 1
      BY <1>1 DEF Merge, Aggregate
  <2>2. prior.start = prior.end
      BY <1>1 DEF Contiguous
  <2> QED BY <2>1, <2>2 DEF Contiguous
<1>2. CASE prior.count # 0
  <2>1. merged = [start |-> prior.start, end |-> end, domains |-> prior.domains,
                  count |-> prior.count + (end - prior.end),
                  buckets |-> prior.buckets \cup (prior.end .. end - 1),
                  early |-> prior.early \cup Aggregate(domains, prior.end, end, t).early]
      BY <1>2 DEF Merge, Aggregate
  <2>2. (prior.start .. prior.end - 1) \cup (prior.end .. end - 1) = prior.start .. end - 1
      OBVIOUS
  <2> QED BY <2>1, <2>2 DEF Contiguous
<1> QED BY <1>1, <1>2

LEMMA FetchInv == IInv /\ Fetch => IInv'
<1> SUFFICES ASSUME IInv, Fetch PROVE IInv'
    OBVIOUS
<1>1. round.pc = "load" /\ cache.periodEnd < round.today /\ UNCHANGED <<now, month, round>>
    BY DEF Fetch
<1>2. PICK merged \in Merge(cache.aggregate, Aggregate(round.domains, cache.periodEnd, ChunkEnd, now)) :
        cache' = [monthStart |-> cache.monthStart, periodEnd |-> ChunkEnd,
                  domains |-> cache.domains, aggregate |-> merged]
    BY DEF Fetch
<1>3. ChunkEnd \in Int /\ cache.periodEnd < ChunkEnd /\ ChunkEnd <= round.today
    BY <1>1, ChunkFacts
<1>4. /\ merged.start = cache.monthStart /\ merged.end = ChunkEnd
      /\ merged.domains = cache.domains /\ Contiguous(merged)
  <2> DEFINE prior == cache.aggregate
  <2>1. /\ prior.start = cache.monthStart /\ prior.end = cache.periodEnd /\ Contiguous(prior)
        /\ prior.domains = round.domains /\ round.domains = cache.domains
        /\ cache.monthStart \in Int /\ cache.periodEnd \in Int /\ cache.monthStart <= cache.periodEnd
      BY <1>1 DEF IInv, CacheInv, RoundInv
  <2>2. merged \in Merge(prior, Aggregate(round.domains, prior.end, ChunkEnd, now))
      BY <1>2, <2>1
  <2> HIDE DEF prior
  <2> QED BY <1>3, <2>1, <2>2, MergeFacts
<1>5. CacheInv'
  <2>1. round.today <= DayStart(now) /\ round.today \in Nat /\ DayStart(now) \in Nat
      BY <1>1, Calendar DEF IInv, RoundInv
  <2>2. DayStart(now') = DayStart(now)
      BY <1>1
  <2> HIDE DEF DayStart
  <2> QED BY <1>2, <1>3, <1>4, <2>1, <2>2 DEF IInv, CacheInv, Contiguous
<1>6. RoundInv' /\ MonthInv'
    BY <1>1, <1>2, <1>3 DEF IInv, RoundInv, MonthInv, CacheInv, Contiguous, MonthStart
<1>7. HadInv'
  <2>1. had'.monthStart = had.monthStart /\ had'.domains = had.domains
        /\ had'.buckets = had.buckets \cup (cache.periodEnd .. ChunkEnd - 1)
      BY DEF Fetch
  <2> QED BY <1>2, <1>3, <2>1 DEF IInv, HadInv, CacheInv
<1> QED BY <1>1, <1>5, <1>6, <1>7 DEF IInv
LEMMA FetchFailInv == IInv /\ FetchFail => IInv'
  BY DEF FetchFail, NoRound, IInv, CacheInv, RoundInv, HadInv, MonthInv, Contiguous, DayStart

\* What a round publishes, of its domains and its month.
LEMMA PublishFacts ==
  ASSUME IInv, Publish, NEW m \in month'
  PROVE  /\ m.domains = round.domains /\ m.start = MonthStart(round.today)
         /\ m.end = Max({round.today, round.dataEnd})
         /\ m.start = cache.monthStart /\ m.start <= m.end /\ m.end <= m.start + MonthTicks
         /\ m.end \in Int /\ Contiguous(m)
<1>1. /\ round.pc = "load" /\ cache.periodEnd = round.today /\ m \in Month
      /\ round.today \in Nat /\ round.dataEnd \in Int
      /\ round.domains = cache.domains /\ MonthStart(round.today) = cache.monthStart
      /\ round.today < cache.monthStart + MonthTicks /\ round.dataEnd <= cache.monthStart + MonthTicks
      /\ cache.monthStart \in Int /\ cache.monthStart <= round.today
    BY DEF Publish, IInv, CacheInv, RoundInv
<1>2. /\ cache.aggregate.start = cache.monthStart /\ cache.aggregate.end = round.today
      /\ cache.aggregate.domains = round.domains /\ Contiguous(cache.aggregate)
    BY <1>1 DEF IInv, CacheInv
<1>3. ASSUME NEW x \in Int, NEW y \in Int PROVE Max({x, y}) = IF x < y THEN y ELSE x
    BY DEF Max
<1>4. CASE round.today < round.dataEnd
  <2> DEFINE prior == cache.aggregate
  <2>1. m \in Merge(prior, Aggregate(round.domains, prior.end, round.dataEnd, now))
      BY <1>1, <1>2, <1>4 DEF Month
  <2> HIDE DEF prior
  <2>2. /\ prior.start = cache.monthStart /\ prior.end = round.today
        /\ prior.domains = round.domains /\ Contiguous(prior)
      BY <1>2 DEF prior
  <2>3. /\ m.start = prior.start /\ m.end = round.dataEnd /\ m.domains = round.domains
        /\ Contiguous(m)
      BY <1>1, <1>4, <2>1, <2>2, MergeFacts
  <2> QED BY <1>1, <1>3, <1>4, <2>2, <2>3
<1>5. CASE ~(round.today < round.dataEnd)
  <2>1. m = cache.aggregate
      BY <1>1, <1>5 DEF Month
  <2>2. MonthTicks \in Nat
      BY Lengths
  <2> QED BY <1>1, <1>2, <1>3, <1>5, <2>1, <2>2
<1> QED BY <1>4, <1>5

LEMMA PublishInv == IInv /\ Publish => IInv'
<1> SUFFICES ASSUME IInv, Publish PROVE IInv'
    OBVIOUS
<1>1. UNCHANGED <<now, cache, had>> /\ round' = NoRound /\ round.pc = "load"
    BY DEF Publish
<1>2. CacheInv' /\ HadInv' /\ RoundInv'
    BY <1>1 DEF IInv, CacheInv, HadInv, RoundInv, NoRound, Contiguous, DayStart
<1>3. MonthStart(cache.monthStart) = cache.monthStart /\ cache.monthStart \in Int
    BY <1>1 DEF IInv, CacheInv, RoundInv
<1>4. MonthInv'
  <2> SUFFICES ASSUME NEW m \in month'
               PROVE  /\ m.start \in Int /\ m.end \in Int /\ m.start <= m.end
                      /\ m.start = MonthStart(m.start) /\ m.end <= m.start + MonthTicks
                      /\ Contiguous(m)
      BY DEF MonthInv, MonthStart, Contiguous
  <2> QED BY <1>3, PublishFacts
<1> QED BY <1>1, <1>2, <1>4 DEF IInv

THEOREM StepInv == IInv /\ [Next]_vars => IInv'
<1>1. IInv /\ UNCHANGED vars => IInv'
    BY DEF vars, IInv, CacheInv, RoundInv, HadInv, MonthInv, Contiguous, DayStart, MonthStart
<1> QED BY <1>1, TickInv, BeginInv, FetchInv, FetchFailInv, PublishInv DEF Next

\* The cache, the round and what was fetched stay in agreement.
THEOREM AlwaysConsistent == Spec => []IInv
<1> QED BY InitInv, StepInv, PTL DEF Spec

-----------------------------------------------------------------------------
LEMMA Counted ==
  ASSUME NEW m, m.start \in Int, m.end \in Int, m.start <= m.end, Contiguous(m)
  PROVE  m.count = Cardinality(m.buckets)
<1>1. Cardinality(m.start .. m.end - 1) = IF m.start > m.end - 1 THEN 0 ELSE m.end - 1 - m.start + 1
    BY FS_Interval
<1> QED BY <1>1 DEF Contiguous

\* The cache holds each bucket from the start of its month to its end once, for its domains
\* (loadCompletedMonthBandwidth): rounds that fail leave no window out and count none twice.
THEOREM AlwaysAPrefix == Spec => []CacheIsAPrefix
<1>1. IInv => CacheIsAPrefix
  <2> SUFFICES ASSUME IInv PROVE CacheIsAPrefix
      OBVIOUS
  <2>1. cache.aggregate.count = Cardinality(cache.aggregate.buckets)
      BY Counted DEF IInv, CacheInv
  <2> QED BY <2>1 DEF IInv, CacheInv, CacheIsAPrefix, Contiguous
<1> QED BY <1>1, AlwaysConsistent, PTL

\* The peak that is published is over consecutive buckets of one month from its start.
THEOREM NeverGaps == Spec => []MonthHasNoGaps
<1>1. IInv => MonthHasNoGaps
  <2> SUFFICES ASSUME IInv, NEW m \in month
               PROVE  /\ m.start = MonthStart(m.start) /\ m.buckets = m.start .. m.end - 1
                      /\ m.end <= m.start + DayTicks * MonthDays /\ m.count = Cardinality(m.buckets)
      BY DEF MonthHasNoGaps
  <2>1. m.count = Cardinality(m.buckets)
      BY Counted DEF IInv, MonthInv
  <2> QED BY <2>1 DEF IInv, MonthInv, Contiguous, MonthTicks
<1> QED BY <1>1, AlwaysConsistent, PTL

\* A round publishes the month and the domains it began with, whatever the cache held.
THEOREM AlwaysItsScope == Spec => PublishesItsScope
<1>1. IInv /\ [Next]_vars =>
        [Publish => \A m \in month' :
           /\ m.domains = round.domains /\ m.start = MonthStart(round.today)
           /\ m.end = Max({round.today, round.dataEnd})]_vars
    BY PublishFacts
<1> QED BY <1>1, AlwaysConsistent, PTL DEF Spec, PublishesItsScope

\* No round asks for a window again that one before it was answered for the same month and
\* domains.
THEOREM AlwaysResumes == Spec => BackfillResumes
<1>1. IInv /\ [Next]_vars =>
        [Fetch => had.buckets \cap (cache.periodEnd .. ChunkEnd - 1) = {}]_vars
  <2> SUFFICES ASSUME IInv, Fetch PROVE had.buckets \cap (cache.periodEnd .. ChunkEnd - 1) = {}
      OBVIOUS
  <2>1. had.buckets \subseteq cache.monthStart .. cache.periodEnd - 1 /\ cache.periodEnd \in Int
      BY DEF IInv, HadInv, CacheInv
  <2>2. ChunkEnd \in Int
      BY ChunkFacts DEF Fetch
  <2> QED BY <2>1, <2>2
<1> QED BY <1>1, AlwaysConsistent, PTL DEF Spec, BackfillResumes
-----------------------------------------------------------------------------
(* Sequences of parts of a batch *)

Members(s) == UNION I!ToSet(s)
Precede(S, Q) == \A c \in S, d \in Q : c < d
InSequence(s) == \A i, j \in DOMAIN s : i < j => Precede(s[i], s[j])

LEMMA MemberOf == \A s, x : x \in Members(s) <=> \E i \in DOMAIN s : x \in s[i]
BY DEF Members, I!ToSet

\* What is left when the first part is taken off.
LEMMA TakenOff ==
  ASSUME NEW s \in Seq(SUBSET Nat), s # <<>>, InSequence(s)
  PROVE  /\ Head(s) \in SUBSET Nat /\ Tail(s) \in Seq(SUBSET Nat) /\ Len(Tail(s)) = Len(s) - 1
         /\ \A i \in DOMAIN Tail(s) : i + 1 \in DOMAIN s /\ Tail(s)[i] = s[i + 1]
         /\ Head(s) = s[1] /\ 1 \in DOMAIN s
         /\ InSequence(Tail(s)) /\ Precede(Head(s), Members(Tail(s)))
         /\ Members(s) = Head(s) \cup Members(Tail(s))
<1>1. /\ Head(s) \in SUBSET Nat /\ Tail(s) \in Seq(SUBSET Nat) /\ Len(Tail(s)) = Len(s) - 1
      /\ Len(s) \in Nat \ {0} /\ DOMAIN s = 1 .. Len(s) /\ DOMAIN Tail(s) = 1 .. Len(s) - 1
      /\ \A i \in DOMAIN Tail(s) : Tail(s)[i] = s[i + 1]
      /\ Head(s) = s[1]
  BY HeadTailProperties, LenProperties, EmptySeq
<1>2. /\ \A i \in DOMAIN Tail(s) : i + 1 \in DOMAIN s /\ i \in Int /\ 1 < i + 1
      /\ 1 \in DOMAIN s
      /\ \A i \in DOMAIN s : i # 1 => i - 1 \in DOMAIN Tail(s) /\ (i - 1) + 1 = i
  BY <1>1
<1>3. InSequence(Tail(s))
  <2> SUFFICES ASSUME NEW i \in DOMAIN Tail(s), NEW j \in DOMAIN Tail(s), i < j
               PROVE  Precede(Tail(s)[i], Tail(s)[j])
    BY DEF InSequence
  <2>1. i + 1 < j + 1
    BY <1>2
  <2> QED BY <1>1, <1>2, <2>1 DEF InSequence
<1>4. Precede(Head(s), Members(Tail(s)))
  <2> SUFFICES ASSUME NEW c \in Head(s), NEW d \in Members(Tail(s)) PROVE c < d
    BY DEF Precede
  <2>1. PICK i \in DOMAIN Tail(s) : d \in Tail(s)[i]
    BY MemberOf
  <2>2. Precede(s[1], s[i + 1])
    BY <1>2 DEF InSequence
  <2> QED BY <1>1, <2>1, <2>2 DEF Precede
<1>5. Members(s) = Head(s) \cup Members(Tail(s))
  <2>1. ASSUME NEW x \in Members(s) PROVE x \in Head(s) \cup Members(Tail(s))
    <3>1. PICK i \in DOMAIN s : x \in s[i]
      BY <2>1, MemberOf
    <3>2. CASE i = 1
      BY <1>1, <3>1, <3>2
    <3>3. CASE i # 1
      <4>1. i - 1 \in DOMAIN Tail(s) /\ Tail(s)[i - 1] = s[i]
        BY <1>1, <1>2, <3>3
      <4> QED BY <3>1, <4>1, MemberOf
    <3> QED BY <3>2, <3>3
  <2>2. ASSUME NEW x \in Head(s) PROVE x \in Members(s)
    BY <1>1, <1>2, MemberOf
  <2>3. ASSUME NEW x \in Members(Tail(s)) PROVE x \in Members(s)
    <3>1. PICK i \in DOMAIN Tail(s) : x \in Tail(s)[i]
      BY <2>3, MemberOf
    <3> QED BY <1>1, <1>2, <3>1, MemberOf
  <2> QED BY <2>1, <2>2, <2>3
<1> QED BY <1>1, <1>2, <1>3, <1>4, <1>5

\* A part is added at the end.
LEMMA AddedLast ==
  ASSUME NEW s \in Seq(SUBSET Nat), InSequence(s), NEW S \in SUBSET Nat, Precede(Members(s), S)
  PROVE  /\ Append(s, S) \in Seq(SUBSET Nat) /\ InSequence(Append(s, S))
         /\ Members(Append(s, S)) = Members(s) \cup S
<1> DEFINE t == Append(s, S)
           n == Len(s)
<1>1. /\ t \in Seq(SUBSET Nat) /\ n \in Nat /\ DOMAIN s = 1 .. n /\ DOMAIN t = 1 .. n + 1
      /\ \A i \in 1 .. n : t[i] = s[i]
      /\ t[n + 1] = S
  OBVIOUS
<1> HIDE DEF t, n
<1>2. InSequence(t)
  <2> SUFFICES ASSUME NEW i \in 1 .. n + 1, NEW j \in 1 .. n + 1, i < j PROVE Precede(t[i], t[j])
    BY <1>1 DEF InSequence
  <2>1. i \in 1 .. n
    BY <1>1
  <2>2. CASE j = n + 1
    <3>1. \A x \in s[i] : x \in Members(s)
      BY <1>1, <2>1, MemberOf
    <3> QED BY <1>1, <2>1, <2>2, <3>1 DEF Precede
  <2>3. CASE j # n + 1
    <3>1. j \in 1 .. n
      BY <1>1, <2>3
    <3> QED BY <1>1, <2>1, <3>1 DEF InSequence
  <2> QED BY <2>2, <2>3
<1>3. Members(t) = Members(s) \cup S
  <2>1. \A i \in 1 .. n : i \in 1 .. n + 1
    BY <1>1
  <2>2. \A i \in 1 .. n + 1 : i \in 1 .. n \/ i = n + 1
    BY <1>1
  <2>3. n + 1 \in 1 .. n + 1
    BY <1>1
  <2> QED BY <1>1, <2>1, <2>2, <2>3, MemberOf
<1> QED BY <1>1, <1>2, <1>3 DEF t

\* Two parts come before the others.
LEMMA PutFirst ==
  ASSUME NEW t \in Seq(SUBSET Nat), NEW s \in Seq(SUBSET Nat), InSequence(s), Len(t) = Len(s) + 2,
         \A i \in 3 .. Len(t) : t[i] = s[i - 2],
         Precede(t[1], t[2]), Precede(t[1], Members(s)), Precede(t[2], Members(s))
  PROVE  InSequence(t) /\ Members(t) = t[1] \cup t[2] \cup Members(s)
<1> DEFINE L == t[1]
           R == t[2]
           n == Len(s)
<1>1. /\ n \in Nat /\ DOMAIN s = 1 .. n /\ DOMAIN t = 1 .. n + 2 /\ Len(t) = n + 2
      /\ t[1] = L /\ t[2] = R /\ \A i \in 3 .. n + 2 : t[i] = s[i - 2]
  OBVIOUS
<1>2. Precede(L, R) /\ Precede(L \cup R, Members(s))
  BY DEF Precede
<1> HIDE DEF L, R, n
<1>3. /\ \A i \in 1 .. n + 2 : i \in Int /\ (i = 1 \/ i = 2 \/ (i \in 3 .. n + 2 /\ i - 2 \in 1 .. n))
      /\ \A i \in 1 .. n : i + 2 \in 3 .. n + 2 /\ i + 2 \in 1 .. n + 2 /\ (i + 2) - 2 = i
      /\ {1, 2} \subseteq 1 .. n + 2
  BY <1>1
<1>4. \A i \in 3 .. n + 2 : \A x \in t[i] : x \in Members(s)
  <2>1. \A i \in 3 .. n + 2 : i - 2 \in 1 .. n
    BY <1>1
  <2> QED BY <1>1, <2>1, MemberOf
<1>5. InSequence(t)
  <2> SUFFICES ASSUME NEW i \in 1 .. n + 2, NEW j \in 1 .. n + 2, i < j PROVE Precede(t[i], t[j])
    BY <1>1 DEF InSequence
  <2>1. CASE i \in {1, 2} /\ j \in 3 .. n + 2
    BY <1>1, <1>2, <1>4, <2>1 DEF Precede
  <2>2. CASE i = 1 /\ j = 2
    BY <1>1, <1>2, <2>2
  <2>3. CASE i \in 3 .. n + 2 /\ j \in 3 .. n + 2
    <3>1. i - 2 < j - 2 /\ i - 2 \in 1 .. n /\ j - 2 \in 1 .. n
      BY <1>1, <2>3
    <3> QED BY <1>1, <2>3, <3>1 DEF InSequence
  <2>4. (i \in {1, 2} /\ j \in 3 .. n + 2) \/ (i = 1 /\ j = 2) \/ (i \in 3 .. n + 2 /\ j \in 3 .. n + 2)
    BY <1>1
  <2> QED BY <2>1, <2>2, <2>3, <2>4
<1>6. Members(t) = L \cup R \cup Members(s)
  <2>1. ASSUME NEW x \in Members(s) PROVE x \in Members(t)
    <3>1. PICK i \in 1 .. n : x \in s[i]
      BY <1>1, <2>1, MemberOf
    <3>2. i + 2 \in DOMAIN t /\ t[i + 2] = s[i]
      BY <1>1, <1>3
    <3> QED BY <3>1, <3>2, MemberOf
  <2>2. ASSUME NEW x \in L \cup R PROVE x \in Members(t)
    BY <1>1, <1>3, <2>2, MemberOf
  <2>3. ASSUME NEW x \in Members(t) PROVE x \in L \cup R \cup Members(s)
    <3>1. PICK i \in 1 .. n + 2 : x \in t[i]
      BY <1>1, <2>3, MemberOf
    <3> QED BY <1>1, <1>3, <1>4, <3>1
  <2> QED BY <2>1, <2>2, <2>3
<1> QED BY <1>5, <1>6 DEF L, R

-----------------------------------------------------------------------------
(* The halves of a call *)

LEMMA BeforeOf ==
  ASSUME NEW S \in SUBSET Nat, IsFiniteSet(S), NEW d \in Nat
  PROVE  /\ I!Before(S, d) = Cardinality({c \in S : c < d}) /\ I!Before(S, d) \in Nat
         /\ IsFiniteSet({c \in S : c < d})
<1>1. {c \in S : c < d} \in SUBSET S
  OBVIOUS
<1>2. IsFiniteSet({c \in S : c < d}) /\ Cardinality({c \in S : c < d}) \in Nat
  BY <1>1, FS_Subset, FS_CardinalityType
<1> QED BY <1>2 DEF I!Before, I!Cardinality, Cardinality

\* As many of the others are before a domain as are before a smaller one, and that one too.
LEMMA BeforeIncreases ==
  ASSUME NEW S \in SUBSET Nat, IsFiniteSet(S), NEW c \in S, NEW d \in Nat, c < d
  PROVE  I!Before(S, c) < I!Before(S, d)
<1> DEFINE Q == {x \in S : x < c}
           V == {x \in S : x < d}
<1>1. IsFiniteSet(Q) /\ IsFiniteSet(V) /\ I!Before(S, c) = Cardinality(Q) /\ I!Before(S, d) = Cardinality(V)
  BY BeforeOf
<1>2. Q \cup {c} \in SUBSET V /\ c \notin Q
  <2>1. c \in Nat /\ \A x \in S : x \in Nat /\ (x < c => x < d)
    OBVIOUS
  <2>2. Q \in SUBSET S /\ c \in V /\ ~(c < c)
    BY <2>1
  <2> QED BY <2>1, <2>2
<1> HIDE DEF Q, V
<1>3. Cardinality(Q \cup {c}) = Cardinality(Q) + 1 /\ Cardinality(Q \cup {c}) <= Cardinality(V)
  BY <1>1, <1>2, FS_AddElement, FS_Subset
<1>4. Cardinality(Q) \in Nat /\ Cardinality(V) \in Nat
  BY <1>1, FS_CardinalityType
<1> QED BY <1>1, <1>3, <1>4

\* The first n domains are n.
LEMMA FirstAreAsMany ==
  ASSUME NEW S \in SUBSET Nat, IsFiniteSet(S), NEW n \in Nat, n <= Cardinality(S)
  PROVE  Cardinality({d \in S : I!Before(S, d) < n}) = n
<1> DEFINE F(k) == {d \in S : I!Before(S, d) < k}
           Q == {k \in Nat : k <= Cardinality(S) /\ Cardinality(F(k)) # k}
<1>1. \A d \in S : d \in Nat /\ I!Before(S, d) \in Nat
  BY BeforeOf
<1>2. ASSUME Q # {} PROVE FALSE
  <2>1. PICK k \in Q : \A m \in Q : k <= m
    BY <1>2, LeastNatural
  <2>2. k \in Nat /\ k <= Cardinality(S) /\ Cardinality(F(k)) # k
    BY <2>1
  <2>3. k # 0
    <3>1. \A d \in S : ~(I!Before(S, d) < 0)
      BY <1>1
    <3>2. F(0) = {}
      BY <3>1
    <3> QED BY <2>2, <3>2, FS_EmptySet
  <2> DEFINE p == k - 1
  <2>4. p \in Nat /\ p + 1 = k /\ p < Cardinality(S) /\ Cardinality(S) \in Nat
    BY <2>2, <2>3, FS_CardinalityType
  <2>5. Cardinality(F(p)) = p
    <3>1. p \notin Q
      BY <2>1, <2>4
    <3> QED BY <2>4, <3>1
  <2> HIDE DEF p
  <2>6. F(p) \in SUBSET S /\ IsFiniteSet(F(p))
    BY FS_Subset
  <2>7. S \ F(p) # {}
    <3>1. F(p) # S
      BY <2>4, <2>5
    <3> QED BY <2>6, <3>1
  <2>8. PICK m \in S \ F(p) : \A d \in S \ F(p) : m <= d
    <3>1. S \ F(p) \in SUBSET Nat
      OBVIOUS
    <3> QED BY <2>7, <3>1, LeastNatural
  <2>9. m \in S /\ m \in Nat /\ I!Before(S, m) \in Nat /\ p <= I!Before(S, m)
    BY <1>1, <2>4, <2>8
  <2>10. {c \in S : c < m} = F(p)
    <3>1. ASSUME NEW c \in S, c < m PROVE c \in F(p)
      BY <1>1, <2>8, <2>9, <3>1
    <3>2. ASSUME NEW c \in F(p) PROVE c < m
      <4>1. I!Before(S, c) < p /\ c \in S /\ c \in Nat /\ I!Before(S, c) \in Nat
        BY <1>1
      <4>2. c # m
        BY <2>4, <2>9, <4>1
      <4>3. ~(m < c)
        <5>1. m < c => I!Before(S, m) < I!Before(S, c)
          BY <2>9, <4>1, BeforeIncreases
        <5> QED BY <2>4, <2>9, <4>1, <5>1
      <4> QED BY <2>9, <4>1, <4>2, <4>3
    <3> QED BY <3>1, <3>2
  <2>11. I!Before(S, m) = p
    BY <2>5, <2>9, <2>10, BeforeOf
  <2>12. F(k) = F(p) \cup {m}
    <3>1. ASSUME NEW d \in S, I!Before(S, d) < k, d \notin F(p) PROVE d = m
      <4>1. d \in Nat /\ I!Before(S, d) \in Nat /\ m <= d
        BY <1>1, <2>8, <3>1
      <4>2. m < d => I!Before(S, m) < I!Before(S, d)
        BY <2>9, <4>1, BeforeIncreases
      <4> QED BY <2>4, <2>9, <2>11, <3>1, <4>1, <4>2
    <3>2. \A d \in F(p) : I!Before(S, d) < k /\ d \in S
      BY <1>1, <2>4
    <3>3. m \in F(k)
      BY <2>4, <2>9, <2>11
    <3> QED BY <3>1, <3>2, <3>3
  <2>13. m \notin F(p)
    BY <2>8
  <2> HIDE DEF F
  <2>14. Cardinality(F(k)) = Cardinality(F(p)) + 1
    BY <2>6, <2>12, <2>13, FS_AddElement
  <2> QED BY <2>2, <2>4, <2>5, <2>14
<1>3. n \notin Q
  BY <1>2
<1> QED BY <1>3

\* The halves of a call are its domains, the smaller ones first; as many, or one more.
LEMMA HalvesOf ==
  ASSUME NEW S \in SUBSET Nat, IsFiniteSet(S)
  PROVE  LET L == I!Halves(S)[1]
             R == I!Halves(S)[2]
         IN  /\ I!Halves(S) = <<L, R>> /\ L \cup R = S /\ Precede(L, R) /\ L \cap R = {}
             /\ L \in SUBSET S /\ R \in SUBSET S
             /\ Cardinality(L) = Cardinality(S) \div 2
             /\ Cardinality(R) = Cardinality(S) - Cardinality(S) \div 2
<1> DEFINE n == Cardinality(S) \div 2
           L == {d \in S : I!Before(S, d) < n}
           R == S \ L
<1>1. I!Halves(S) = <<L, R>>
  BY DEF I!Halves, I!Cardinality, Cardinality
<1>2. n \in Nat /\ n <= Cardinality(S) /\ Cardinality(S) \in Nat
  BY FS_CardinalityType
<1>3. Precede(L, R)
  <2> SUFFICES ASSUME NEW c \in L, NEW d \in R PROVE c < d
    BY DEF Precede
  <2>1. /\ c \in S /\ d \in S /\ c \in Nat /\ d \in Nat /\ I!Before(S, c) < n /\ ~(I!Before(S, d) < n)
        /\ I!Before(S, c) \in Nat /\ I!Before(S, d) \in Nat
    BY BeforeOf
  <2>2. d < c => I!Before(S, d) < I!Before(S, c)
    BY <2>1, BeforeIncreases
  <2> HIDE DEF L, R
  <2>3. ~(d < c) /\ c # d
    BY <1>2, <2>1, <2>2
  <2> QED BY <2>1, <2>3
<1>4. Cardinality(L) = n
  BY <1>2, FirstAreAsMany
<1>5. L \cup R = S /\ L \cap R = {} /\ L \in SUBSET S /\ R \in SUBSET S
  OBVIOUS
<1> HIDE DEF L
<1>6. Cardinality(R) = Cardinality(S) - n
  <2>1. S \cap L = L
    BY <1>5
  <2>2. Cardinality(R) = Cardinality(S) - Cardinality(S \cap L)
    BY FS_Difference
  <2> QED BY <1>4, <2>1, <2>2
<1> QED BY <1>1, <1>3, <1>4, <1>5, <1>6

-----------------------------------------------------------------------------
(* A pass of isolation *)

\* Nothing is lost: what is not failed is in a usage batch or still to be asked for.
PartsInv ==
  /\ kind \in {"monitoring", "metering"}
  /\ \E n \in 1 .. 50 : batch = 1 .. n
  /\ rejected \subseteq batch
  /\ pc \in {"idle", "collect", "answered", "ended"}
  /\ stack \in Seq(SUBSET Nat) /\ covered \in Seq(SUBSET Nat)
  /\ pc \in {"idle", "ended"} => stack = <<>>
  /\ pc = "answered" => stack # <<>>
  /\ InSequence(covered) /\ InSequence(stack) /\ Precede(Members(covered), Members(stack))
  /\ pc # "idle" => Members(covered) \cup Members(stack) = batch \ failed

LEMMA PartsInit == I!Init => PartsInv
<1> SUFFICES ASSUME I!Init PROVE PartsInv
  OBVIOUS
<1>1. PICK s \in Scenarios : kind = s.kind /\ batch = 1 .. s.size /\ rejected = s.rejected
  BY DEF I!Init
<1>2. s.kind \in {"monitoring", "metering"} /\ s.size \in 1 .. 50 /\ s.rejected \subseteq 1 .. s.size
  BY DataAssumptions DEF I!IsolationAssumption
<1>3. <<>> \in Seq(SUBSET Nat) /\ InSequence(<<>>) /\ Members(<<>>) = {} /\ Precede({}, {})
  BY DEF InSequence, Members, I!ToSet, Precede
<1> QED BY <1>1, <1>2, <1>3 DEF I!Init, PartsInv

\* The batch is a finite set of naturals, and so is every part of it.
LEMMA PartsAreFinite ==
  ASSUME PartsInv
  PROVE  /\ batch \in SUBSET Nat /\ IsFiniteSet(batch) /\ Cardinality(batch) \in 1 .. 50
         /\ pc # "idle" => \A i \in DOMAIN stack : stack[i] \in SUBSET batch /\ IsFiniteSet(stack[i])
<1>1. PICK n \in 1 .. 50 : batch = 1 .. n
  BY DEF PartsInv
<1>2. batch \in SUBSET Nat /\ IsFiniteSet(batch) /\ Cardinality(batch) = n
  BY <1>1, FS_Interval
<1>3. ASSUME pc # "idle", NEW i \in DOMAIN stack PROVE stack[i] \in SUBSET batch
  <2>1. \A x \in stack[i] : x \in Members(stack)
    BY MemberOf
  <2> QED BY <1>3, <2>1 DEF PartsInv
<1> QED BY <1>2, <1>3, FS_Subset

\* The current call, and what remains when it is done with.
LEMMA CurrentOf ==
  ASSUME PartsInv, stack # <<>>
  PROVE  /\ I!Current = stack[1] /\ I!Current \in SUBSET batch /\ IsFiniteSet(I!Current)
         /\ I!Current \in SUBSET Nat /\ Cardinality(I!Current) \in Nat
         /\ I!Cardinality(I!Current) = Cardinality(I!Current)
         /\ Tail(stack) \in Seq(SUBSET Nat) /\ Len(Tail(stack)) = Len(stack) - 1
         /\ InSequence(Tail(stack)) /\ Precede(I!Current, Members(Tail(stack)))
         /\ Members(stack) = I!Current \cup Members(Tail(stack))
         /\ Precede(Members(covered), I!Current) /\ Precede(Members(covered), Members(Tail(stack)))
         /\ I!Current \cap Members(Tail(stack)) = {} /\ I!Current \cap Members(covered) = {}
<1>1. pc # "idle"
  BY DEF PartsInv
<1>2. /\ Head(stack) = stack[1] /\ 1 \in DOMAIN stack /\ Head(stack) \in SUBSET Nat
      /\ Tail(stack) \in Seq(SUBSET Nat) /\ Len(Tail(stack)) = Len(stack) - 1
      /\ InSequence(Tail(stack)) /\ Precede(Head(stack), Members(Tail(stack)))
      /\ Members(stack) = Head(stack) \cup Members(Tail(stack))
  BY TakenOff DEF PartsInv
<1>3. stack[1] \in SUBSET batch /\ IsFiniteSet(stack[1])
  BY <1>1, <1>2, PartsAreFinite
<1>4. Precede(Members(covered), Head(stack)) /\ Precede(Members(covered), Members(Tail(stack)))
  BY <1>2 DEF PartsInv, Precede
<1>5. \A c \in Head(stack) : ~(c < c)
  BY <1>2
<1>6. Head(stack) \cap Members(Tail(stack)) = {} /\ Head(stack) \cap Members(covered) = {}
  BY <1>2, <1>4, <1>5 DEF Precede
<1>7. Cardinality(stack[1]) \in Nat /\ I!Cardinality(stack[1]) = Cardinality(stack[1])
  BY <1>3, FS_CardinalityType DEF I!Cardinality, Cardinality
<1> QED BY <1>2, <1>3, <1>4, <1>6, <1>7 DEF I!Current

\* The halves of a call come before the rest of the calls.
LEMMA SplitOf ==
  ASSUME PartsInv, stack # <<>>
  PROVE  LET L == I!Halves(I!Current)[1]
             R == I!Halves(I!Current)[2]
             t == I!Halves(I!Current) \o Tail(stack)
         IN  /\ L \cup R = I!Current /\ L \cap R = {} /\ L \in SUBSET I!Current /\ R \in SUBSET I!Current
             /\ Cardinality(L) = Cardinality(I!Current) \div 2
             /\ Cardinality(R) = Cardinality(I!Current) - Cardinality(I!Current) \div 2
             /\ t \in Seq(SUBSET Nat) /\ InSequence(t) /\ Members(t) = Members(stack)
             /\ Len(t) = Len(stack) + 1 /\ t[1] = L /\ t[2] = R /\ t # <<>>
             /\ \A i \in DOMAIN t : i = 1 \/ i = 2 \/ (i - 1 \in DOMAIN stack /\ i - 1 # 1 /\ t[i] = stack[i - 1])
<1> DEFINE L == I!Halves(I!Current)[1]
           R == I!Halves(I!Current)[2]
           s == Tail(stack)
           t == <<L, R>> \o s
<1>1. /\ I!Halves(I!Current) = <<L, R>> /\ L \cup R = I!Current /\ Precede(L, R) /\ L \cap R = {}
      /\ L \in SUBSET I!Current /\ R \in SUBSET I!Current
      /\ Cardinality(L) = Cardinality(I!Current) \div 2
      /\ Cardinality(R) = Cardinality(I!Current) - Cardinality(I!Current) \div 2
  BY CurrentOf, HalvesOf
<1>2. /\ s \in Seq(SUBSET Nat) /\ InSequence(s) /\ Precede(L \cup R, Members(s))
      /\ L \in SUBSET Nat /\ R \in SUBSET Nat /\ Len(s) = Len(stack) - 1
      /\ Members(stack) = I!Current \cup Members(s)
  BY <1>1, CurrentOf
<1>3. stack \in Seq(SUBSET Nat) /\ Len(stack) \in Nat \ {0} /\ DOMAIN stack = 1 .. Len(stack)
  BY DEF PartsInv
<1>4. \A i \in DOMAIN s : i \in 1 .. Len(stack) - 1 /\ i + 1 \in DOMAIN stack /\ s[i] = stack[i + 1]
  BY <1>2, <1>3, TakenOff DEF PartsInv
<1> HIDE DEF L, R, s
<1>5. /\ t \in Seq(SUBSET Nat) /\ Len(t) = Len(s) + 2 /\ t[1] = L /\ t[2] = R /\ t # <<>>
      /\ \A i \in 3 .. Len(t) : i - 2 \in DOMAIN s /\ t[i] = s[i - 2]
  BY <1>2
<1> HIDE DEF t
<1>6. DOMAIN t = 1 .. Len(t) /\ \A i \in DOMAIN t : i \in Int /\ (i = 1 \/ i = 2 \/ i \in 3 .. Len(t))
  BY <1>5
<1>10. InSequence(t) /\ Members(t) = L \cup R \cup Members(s)
  <2>1. Precede(L, Members(s)) /\ Precede(R, Members(s)) /\ Precede(L, R)
    BY <1>1, <1>2 DEF Precede
  <2>2. Precede(t[1], t[2]) /\ Precede(t[1], Members(s)) /\ Precede(t[2], Members(s))
    BY <1>5, <2>1
  <2>3. s \in Seq(SUBSET Nat) /\ InSequence(s)
    BY <1>2
  <2>4. InSequence(t) /\ Members(t) = t[1] \cup t[2] \cup Members(s)
    BY <1>5, <2>2, <2>3, PutFirst
  <2> QED BY <1>5, <2>4
<1>7. ASSUME NEW i \in DOMAIN t, i # 1, i # 2
      PROVE  i - 1 \in DOMAIN stack /\ i - 1 # 1 /\ t[i] = stack[i - 1]
  <2>1. i - 2 \in DOMAIN s /\ t[i] = s[i - 2] /\ i \in Int
    BY <1>5, <1>6, <1>7
  <2>2. (i - 2) + 1 = i - 1 /\ i - 1 # 1
    BY <1>7, <2>1
  <2> QED BY <1>4, <2>1, <2>2
<1>8. Len(t) = Len(stack) + 1
  BY <1>2, <1>3, <1>5
<1>9. t = I!Halves(I!Current) \o Tail(stack)
  BY <1>1 DEF t, s
<1> QED BY <1>1, <1>2, <1>5, <1>7, <1>8, <1>9, <1>10 DEF L, R

LEMMA PartsStep == PartsInv /\ [I!Next]_(I!vars) => PartsInv'
<1> SUFFICES ASSUME PartsInv, [I!Next]_(I!vars) PROVE PartsInv'
  OBVIOUS
<1>1. CASE I!Begin
  <2>1. pc' = "collect" /\ covered' = <<>> /\ failed' = batch \ I!Asked /\ UNCHANGED <<kind, batch, env, rejected>>
    BY <1>1 DEF I!Begin, I!scenario
  <2>2. stack' = IF I!Asked = {} THEN <<>> ELSE <<I!Asked>>
    BY <1>1 DEF I!Begin
  <2>3. I!Asked \in SUBSET batch /\ batch \in SUBSET Nat
    BY PartsAreFinite DEF I!Asked
  <2>4. stack' \in Seq(SUBSET Nat) /\ Members(stack') = I!Asked /\ InSequence(stack')
    <3>1. CASE I!Asked = {}
      BY <2>2, <3>1 DEF Members, I!ToSet, InSequence
    <3>2. CASE I!Asked # {}
      <4>1. stack' = <<I!Asked>> /\ DOMAIN stack' = {1} /\ stack'[1] = I!Asked
        BY <2>2, <3>2
      <4>2. \A i, j \in DOMAIN stack' : ~(i < j)
        BY <4>1
      <4>3. \A x : x \in Members(stack') <=> x \in I!Asked
        BY <4>1, MemberOf
      <4> QED BY <2>3, <4>1, <4>2, <4>3 DEF InSequence
    <3> QED BY <3>1, <3>2
  <2>5. covered' \in Seq(SUBSET Nat) /\ Members(covered') = {} /\ InSequence(covered')
    BY <2>1 DEF Members, I!ToSet, InSequence
  <2>6. Precede({}, I!Asked) /\ batch \ (batch \ I!Asked) = I!Asked
    BY <2>3 DEF Precede
  <2> QED BY <2>1, <2>4, <2>5, <2>6 DEF PartsInv
<1>2. CASE I!Exhausted \/ I!Fail
  <2>1. /\ stack # <<>> /\ stack' = Tail(stack) /\ failed' = failed \cup I!Current /\ pc \in {"collect", "answered"}
        /\ pc' = "collect" /\ UNCHANGED <<kind, batch, env, rejected, covered>>
    BY <1>2 DEF I!Exhausted, I!Fail, I!scenario, PartsInv
  <2>2. Members(covered) \cup Members(Tail(stack)) = batch \ failed'
    BY <2>1, CurrentOf DEF PartsInv
  <2> QED BY <2>1, <2>2, CurrentOf DEF PartsInv
<1>3. CASE I!Request
  BY <1>3 DEF I!Request, I!scenario, PartsInv
<1>4. CASE I!Publish
  <2>1. /\ stack # <<>> /\ stack' = Tail(stack) /\ covered' = Append(covered, I!Current) /\ pc = "answered"
        /\ pc' = "collect" /\ UNCHANGED <<kind, batch, env, rejected, failed>>
    BY <1>4 DEF I!Publish, I!scenario, PartsInv
  <2>2. /\ covered' \in Seq(SUBSET Nat) /\ InSequence(covered') /\ Members(covered') = Members(covered) \cup I!Current
    BY <2>1, CurrentOf, AddedLast DEF PartsInv
  <2>3. Precede(Members(covered'), Members(Tail(stack)))
    BY <2>1, <2>2, CurrentOf DEF Precede
  <2> QED BY <2>1, <2>2, <2>3, CurrentOf DEF PartsInv
<1>5. CASE I!Split
  <2>1. /\ stack # <<>> /\ stack' = I!Halves(I!Current) \o Tail(stack) /\ pc = "answered"
        /\ pc' = "collect" /\ UNCHANGED <<kind, batch, env, rejected, covered, failed>>
    BY <1>5 DEF I!Split, I!scenario, I!progress, PartsInv
  <2>2. stack' \in Seq(SUBSET Nat) /\ InSequence(stack') /\ Members(stack') = Members(stack)
    BY <2>1, SplitOf
  <2> QED BY <2>1, <2>2 DEF PartsInv
<1>6. CASE I!End
  BY <1>6 DEF I!End, I!scenario, I!progress, PartsInv
<1>7. CASE I!Clear
  BY <1>7 DEF I!Clear, I!scenario, I!progress, PartsInv
<1>8. CASE I!Accept
  BY <1>8 DEF I!Accept, I!scenario, I!progress, PartsInv
<1>9. CASE UNCHANGED I!vars
  BY <1>9 DEF I!vars, I!scenario, I!progress, PartsInv
<1> QED BY <1>1, <1>2, <1>3, <1>4, <1>5, <1>6, <1>7, <1>8, <1>9 DEF I!Next, I!Pass

\* Whatever is rejected, fails otherwise or is accepted again during a pass, each domain of
\* the batch ends in one usage batch, in order, or is reported failed.
THEOREM DomainsAreAnswered == I!Init /\ [][I!Next]_(I!vars) => []EveryDomainAnswered
<1>1. PartsInv => EveryDomainAnswered
  <2> SUFFICES ASSUME PartsInv, pc = "ended"
               PROVE  /\ Members(covered) = batch \ failed
                      /\ \A i, j \in DOMAIN covered :
                           i < j => \A c \in covered[i], d \in covered[j] : c < d
    BY DEF EveryDomainAnswered, I!EveryDomainAnswered, Members
  <2>1. Members(stack) = {}
    BY DEF PartsInv, Members, I!ToSet
  <2> QED BY <2>1 DEF PartsInv, InSequence, Precede
<1> QED BY <1>1, PartsInit, PartsStep, PTL

-----------------------------------------------------------------------------
(* The negative cache *)

\* Only the upstream says that a part is rejected, and only of one with a rejected domain.
LEMMA RejectedHasOne ==
  ASSUME NEW S, NEW r \in I!Replies(S), I!Outcome(r) = "rejected"
  PROVE  S \cap rejected # {}
<1>1. CASE r \in I!Fault
  <2>1. r.status # 200 \/ r.code = 400000 \/ (r.code = 200 /\ ~r.fits)
    BY <1>1 DEF I!Fault
  <2>2. 400000 # 400032 /\ 200 # 400032 /\ 400000 # 200
    OBVIOUS
  <2>3. I!Outcome(r) = "error"
    BY <2>1, <2>2 DEF I!Outcome
  <2> QED BY <2>3
<1>2. CASE r = [status |-> 200, code |-> IF S \cap rejected = {} THEN 200 ELSE 400032, fits |-> TRUE]
  BY <1>2 DEF I!Outcome
<1> QED BY <1>1, <1>2 DEF I!Replies

\* What is in the cache, or about to enter it, was not accepted at a discovery since.
NegativeInv ==
  /\ settled \cap rejected = {} /\ bad \cap settled = {}
  /\ "changes" \notin env => bad \subseteq rejected
  /\ pc = "answered" /\ answer = "rejected" /\ Cardinality(I!Current) = 1 =>
       /\ I!Current \cap settled = {}
       /\ "changes" \notin env => I!Current \subseteq rejected

LEMMA NegativeInit == I!Init => NegativeInv
BY DEF I!Init, NegativeInv

LEMMA RequestOf ==
  ASSUME PartsInv, I!Request
  PROVE  /\ stack # <<>> /\ I!Current' = I!Current /\ pc = "collect" /\ pc' = "answered"
         /\ attempts < I!Budget /\ attempts' = attempts + 1
         /\ UNCHANGED <<kind, batch, env, rejected, bad, stack, failed, covered, known, settled>>
         /\ answer' \in {"ok", "rejected", "error"}
         /\ \E a, b \in {I!Outcome(r) : r \in I!Replies(I!Current)} : answer' \in {a, b}
<1>1. \A r : I!Outcome(r) \in {"ok", "rejected", "error"}
  BY DEF I!Outcome
<1> QED BY <1>1 DEF I!Request, I!FirstNotOk, I!Current, I!scenario, I!history

LEMMA NegativeStep == PartsInv /\ NegativeInv /\ [I!Next]_(I!vars) => NegativeInv'
<1> SUFFICES ASSUME PartsInv, NegativeInv, [I!Next]_(I!vars) PROVE NegativeInv'
  OBVIOUS
<1>1. CASE I!Begin \/ I!Exhausted \/ I!Publish \/ I!Split \/ I!End
  <2>1. /\ pc' # "answered" /\ UNCHANGED <<env, rejected, bad, settled>>
    BY <1>1 DEF I!Begin, I!Exhausted, I!Publish, I!Split, I!End, I!scenario, I!progress, I!history
  <2> QED BY <2>1 DEF NegativeInv
<1>2. CASE I!Fail
  <2>1. /\ pc = "answered" /\ stack # <<>> /\ pc' = "collect" /\ UNCHANGED <<env, rejected, settled>>
        /\ bad' = bad \cup I!Isolated /\ (answer = "rejected" => I!Cardinality(I!Current) = 1)
    BY <1>2 DEF I!Fail, I!scenario, I!history, PartsInv
  <2>2. /\ I!Isolated \cap settled = {}
        /\ "changes" \notin env => I!Isolated \subseteq rejected
    BY <2>1, CurrentOf DEF I!Isolated, NegativeInv
  <2> QED BY <2>1, <2>2 DEF NegativeInv
<1>3. CASE I!Request
  <2>1. ASSUME answer' = "rejected", Cardinality(I!Current) = 1
        PROVE  I!Current \subseteq rejected
    <3>1. I!Current \cap rejected # {}
      BY <1>3, <2>1, RequestOf, RejectedHasOne
    <3>2. \E d : I!Current = {d}
      BY <1>3, <2>1, RequestOf, CurrentOf, FS_Singleton
    <3> QED BY <3>1, <3>2
  <2>2. /\ I!Current' = I!Current /\ UNCHANGED <<env, rejected, bad, settled>>
    BY <1>3, RequestOf
  <2> QED BY <2>1, <2>2 DEF NegativeInv
<1>4. CASE I!Clear
  <2>1. /\ bad' = {} /\ settled' = settled \cup I!Accepted /\ UNCHANGED <<env, rejected, pc, answer, stack>>
    BY <1>4 DEF I!Clear, I!scenario
  <2>2. I!Accepted \cap rejected = {} /\ (pc = "answered" => I!Accepted = {})
    BY DEF I!Accepted
  <2>3. I!Current' = I!Current
    BY <2>1 DEF I!Current
  <2> QED BY <2>1, <2>2, <2>3 DEF NegativeInv
<1>5. CASE I!Accept
  <2>1. /\ "changes" \in env /\ rejected' \subseteq rejected /\ UNCHANGED <<env, bad, pc, answer, stack, settled>>
    BY <1>5 DEF I!Accept, I!scenario, I!history
  <2>2. I!Current' = I!Current
    BY <2>1 DEF I!Current
  <2> QED BY <2>1, <2>2 DEF NegativeInv
<1>6. CASE UNCHANGED I!vars
  BY <1>6 DEF I!vars, I!scenario, I!history, I!Current, NegativeInv
<1> QED BY <1>1, <1>2, <1>3, <1>4, <1>5, <1>6 DEF I!Next, I!Pass

\* No answer in flight, fault or exhausted budget brings a domain into the negative cache that
\* was not rejected alone; and a discovery is the end of those that were accepted by then.
THEOREM CachedWereRejected == I!Init /\ [][I!Next]_(I!vars) => []OnlyRejectedAreCached
<1>1. NegativeInv => OnlyRejectedAreCached
  BY DEF NegativeInv, OnlyRejectedAreCached, I!OnlyRejectedAreCached
<1> QED BY <1>1, PartsInit, PartsStep, NegativeInit, NegativeStep, PTL

-----------------------------------------------------------------------------
(* The budget *)

\* How often n domains can be halved.
Depth(n) ==
  IF n <= 1 THEN 0 ELSE IF n <= 2 THEN 1 ELSE IF n <= 4 THEN 2 ELSE IF n <= 8 THEN 3
  ELSE IF n <= 16 THEN 4 ELSE IF n <= 32 THEN 5 ELSE 6

LEMMA DepthOf == \A n \in Nat : Depth(n) \in 0 .. 6
BY DEF Depth

LEMMA HalvesAreShallower ==
  ASSUME NEW n \in 2 .. 50
  PROVE  /\ Depth(n) \in 1 .. 6
         /\ Depth(n \div 2) <= Depth(n) - 1 /\ Depth(n - n \div 2) <= Depth(n) - 1
<1> DEFINE h == n \div 2
           g == n - n \div 2
<1>1. h \in Nat /\ g \in Nat /\ 2 * h <= n /\ g = n - h /\ n <= 2 * h + 1
  OBVIOUS
<1> HIDE DEF h, g
<1>2. 2 * g <= n + 1
  BY <1>1
<1>3. Depth(h) <= Depth(n) - 1
  BY <1>1 DEF Depth
<1>4. Depth(g) <= Depth(n) - 1
  BY <1>1, <1>2 DEF Depth
<1> QED BY <1>3, <1>4 DEF Depth, h, g

\* The attempts whose answers have been dealt with.
Spent == IF pc = "answered" THEN attempts - 1 ELSE attempts

\* Without faults an answer says what it was asked for.
CalmInv ==
  /\ attempts \in Nat
  /\ env = {} =>
       /\ Members(covered) \cap rejected = {}
       /\ pc = "answered" => answer = IF I!Current \cap rejected = {} THEN "ok" ELSE "rejected"
       /\ known \subseteq bad
       /\ kind = "monitoring" /\ pc # "idle" => Members(stack) \cap known = {}

LEMMA CalmInit == I!Init => CalmInv
<1>1. Members(<<>>) = {}
  BY DEF Members, I!ToSet
<1> QED BY <1>1 DEF I!Init, CalmInv

LEMMA CalmOutcome ==
  ASSUME env = {}, NEW S, NEW r \in I!Replies(S)
  PROVE  I!Outcome(r) = IF S \cap rejected = {} THEN "ok" ELSE "rejected"
<1>1. r = [status |-> 200, code |-> IF S \cap rejected = {} THEN 200 ELSE 400032, fits |-> TRUE]
  BY DEF I!Replies
<1> QED BY <1>1 DEF I!Outcome

LEMMA CalmStep == PartsInv /\ CalmInv /\ [I!Next]_(I!vars) => CalmInv'
<1> SUFFICES ASSUME PartsInv, CalmInv, [I!Next]_(I!vars) PROVE CalmInv'
  OBVIOUS
<1>1. CASE I!Begin
  <2>1. /\ pc' = "collect" /\ covered' = <<>> /\ known' = bad /\ attempts' = 0
        /\ UNCHANGED <<kind, env, rejected, bad>> /\ stack' = IF I!Asked = {} THEN <<>> ELSE <<I!Asked>>
    BY <1>1 DEF I!Begin, I!scenario
  <2>2. Members(covered') = {} /\ Members(stack') \subseteq I!Asked
    BY <2>1 DEF Members, I!ToSet
  <2>3. kind = "monitoring" => I!Asked \cap bad = {}
    BY DEF I!Asked
  <2> QED BY <2>1, <2>2, <2>3 DEF CalmInv
<1>2. CASE I!Exhausted
  <2>1. /\ stack # <<>> /\ stack' = Tail(stack) /\ pc = "collect" /\ pc' = "collect"
        /\ UNCHANGED <<kind, env, rejected, bad, covered, known, attempts>>
    BY <1>2 DEF I!Exhausted, I!scenario, I!history
  <2> QED BY <2>1, CurrentOf DEF CalmInv
<1>3. CASE I!Fail
  <2>1. /\ stack # <<>> /\ stack' = Tail(stack) /\ pc = "answered" /\ pc' = "collect"
        /\ bad \subseteq bad' /\ UNCHANGED <<kind, env, rejected, covered, known, attempts>>
    BY <1>3 DEF I!Fail, I!scenario, I!history, PartsInv
  <2> QED BY <2>1, CurrentOf DEF CalmInv
<1>4. CASE I!Request
  <2>1. env = {} => answer' = IF I!Current \cap rejected = {} THEN "ok" ELSE "rejected"
    BY <1>4, RequestOf, CalmOutcome
  <2>2. attempts' \in Nat
    BY <1>4, RequestOf DEF CalmInv
  <2> QED BY <1>4, <2>1, <2>2, RequestOf DEF CalmInv
<1>5. CASE I!Publish
  <2>1. /\ stack # <<>> /\ stack' = Tail(stack) /\ covered' = Append(covered, I!Current) /\ pc = "answered"
        /\ answer = "ok" /\ pc' = "collect" /\ UNCHANGED <<kind, env, rejected, bad, known, attempts>>
    BY <1>5 DEF I!Publish, I!scenario, I!history, PartsInv
  <2>2. Members(covered') = Members(covered) \cup I!Current
    BY <2>1, CurrentOf, AddedLast DEF PartsInv
  <2>3. env = {} => I!Current \cap rejected = {}
    BY <2>1 DEF CalmInv
  <2> QED BY <2>1, <2>2, <2>3, CurrentOf DEF CalmInv
<1>6. CASE I!Split
  <2>1. /\ stack # <<>> /\ stack' = I!Halves(I!Current) \o Tail(stack) /\ pc = "answered" /\ pc' = "collect"
        /\ UNCHANGED <<kind, env, rejected, bad, known, covered, attempts>>
    BY <1>6 DEF I!Split, I!scenario, I!history, I!progress, PartsInv
  <2>2. Members(stack') = Members(stack)
    BY <2>1, SplitOf
  <2> QED BY <2>1, <2>2 DEF CalmInv
<1>7. CASE I!End
  BY <1>7 DEF I!End, I!scenario, I!progress, I!history, CalmInv
<1>8. CASE I!Clear \/ I!Accept
  <2>1. env # {} /\ env' = env /\ attempts' = attempts
    BY <1>8 DEF I!Clear, I!Accept, I!scenario, I!progress
  <2> QED BY <2>1 DEF CalmInv
<1>9. CASE UNCHANGED I!vars
  BY <1>9 DEF I!vars, I!scenario, I!progress, I!history, I!Current, CalmInv
<1> QED BY <1>1, <1>2, <1>3, <1>4, <1>5, <1>6, <1>7, <1>8, <1>9 DEF I!Next, I!Pass

\* The requests a part is worth when it is the only one with domains of R.
Cost(S, R) == IF S \cap R = {} THEN 1 ELSE 1 + 2 * Depth(Cardinality(S))

\* One rejected domain at most: all that is due can be asked for.
SingleInv ==
  env = {} /\ (\A c, d \in rejected : c = d) /\ pc # "idle" =>
    /\ failed \subseteq rejected
    /\ \A i \in DOMAIN stack : Spent + Len(stack) - 1 + Cost(stack[i], rejected) <= 13

\* No pass of monitoring spends more than that before it has isolated a domain: the part it is
\* at has a rejected one, or the next one has, unless it is all that is due.
FirstInv ==
  env = {} /\ kind = "monitoring" /\ pc # "idle" /\ bad \subseteq known =>
    /\ failed \subseteq rejected
    /\ stack # <<>> =>
         /\ Spent + 1 + 2 * Depth(Cardinality(stack[1])) <= 13
         /\ \/ Len(stack) = 1
            \/ stack[1] \cap rejected # {}
            \/ /\ 2 \in DOMAIN stack /\ stack[2] \cap rejected # {}
               /\ Spent + 2 + 2 * Depth(Cardinality(stack[2])) <= 13

LEMMA CostOf == ASSUME NEW S, IsFiniteSet(S), NEW R PROVE Cost(S, R) \in 1 .. 13
BY DepthOf, FS_CardinalityType DEF Cost

\* A pass begins with one call, and what it leaves out is rejected.
LEMMA BeginOf ==
  ASSUME PartsInv, NegativeInv, I!Begin, env = {}
  PROVE  /\ failed' \subseteq rejected /\ attempts' = 0 /\ pc' = "collect" /\ known' = bad
         /\ UNCHANGED <<kind, batch, env, rejected, bad>>
         /\ stack' = <<>> \/ (stack' = <<I!Asked>> /\ IsFiniteSet(I!Asked))
<1>1. I!Asked \in SUBSET batch /\ batch \ I!Asked \subseteq bad
  BY DEF I!Asked
<1>2. IsFiniteSet(I!Asked)
  BY <1>1, PartsAreFinite, FS_Subset
<1>3. bad \subseteq rejected
  BY DEF NegativeInv
<1> QED BY <1>1, <1>2, <1>3 DEF I!Begin, I!scenario

\* A call that ends takes its attempt and its place on the stack.
LEMMA EndedOf ==
  ASSUME PartsInv, CalmInv, pc = "answered", stack # <<>>, stack' = Tail(stack), pc' = "collect",
         UNCHANGED attempts
  PROVE  /\ Spent' = Spent + 1 /\ Spent \in Int /\ Len(stack') = Len(stack) - 1 /\ Len(stack) \in Nat \ {0}
         /\ stack' # <<>> <=> Len(stack) # 1
         /\ DOMAIN stack' = 1 .. Len(stack) - 1 /\ DOMAIN stack = 1 .. Len(stack)
         /\ \A i \in DOMAIN stack' : i + 1 \in DOMAIN stack /\ stack'[i] = stack[i + 1]
<1>1. stack \in Seq(SUBSET Nat) /\ InSequence(stack) /\ attempts \in Nat
  BY DEF PartsInv, CalmInv
<1>2. /\ Tail(stack) \in Seq(SUBSET Nat) /\ Len(Tail(stack)) = Len(stack) - 1
      /\ \A i \in DOMAIN Tail(stack) : i + 1 \in DOMAIN stack /\ Tail(stack)[i] = stack[i + 1]
  BY <1>1, TakenOff
<1>3. /\ Len(stack) \in Nat \ {0} /\ DOMAIN stack = 1 .. Len(stack)
      /\ DOMAIN Tail(stack) = 1 .. Len(Tail(stack)) /\ (Tail(stack) = <<>> <=> Len(Tail(stack)) = 0)
  BY <1>1, <1>2, LenProperties, EmptySeq
<1>4. Spent' = Spent + 1 /\ Spent \in Int
  BY <1>1 DEF Spent
<1> QED BY <1>2, <1>3, <1>4

\* Without faults a call that fails is alone and rejected.
LEMMA FailOf ==
  ASSUME PartsInv, CalmInv, I!Fail, env = {}
  PROVE  /\ pc = "answered" /\ stack # <<>> /\ stack' = Tail(stack) /\ pc' = "collect"
         /\ UNCHANGED <<attempts, kind, batch, env, rejected, known>>
         /\ answer = "rejected" /\ failed' = failed \cup I!Current /\ I!Current \subseteq rejected
         /\ I!Current # {} /\ bad' = bad \cup I!Isolated
<1>1. /\ pc = "answered" /\ stack # <<>> /\ stack' = Tail(stack) /\ pc' = "collect" /\ answer # "ok"
      /\ UNCHANGED <<attempts, kind, batch, env, rejected, known>> /\ failed' = failed \cup I!Current
      /\ bad' = bad \cup I!Isolated /\ (answer = "rejected" => I!Cardinality(I!Current) = 1)
  BY DEF I!Fail, I!scenario, I!history, PartsInv
<1>2. answer = "rejected" /\ I!Current \cap rejected # {}
  BY <1>1 DEF CalmInv
<1>3. \E d : I!Current = {d}
  BY <1>1, <1>2, CurrentOf, FS_Singleton
<1> QED BY <1>1, <1>2, <1>3

\* A call that is split has more than one domain, and at least one is rejected; its halves
\* have less depth.
LEMMA SplitIn ==
  ASSUME PartsInv, CalmInv, I!Split, env = {}
  PROVE  /\ pc = "answered" /\ stack # <<>> /\ pc' = "collect"
         /\ UNCHANGED <<attempts, failed, kind, batch, env, rejected, bad, known>>
         /\ stack[1] \cap rejected # {} /\ stack[1] = stack'[1] \cup stack'[2]
         /\ Spent' = Spent + 1 /\ Spent \in Int /\ Len(stack) \in Nat \ {0} /\ Len(stack') = Len(stack) + 1
         /\ DOMAIN stack' = 1 .. Len(stack) + 1 /\ {1, 2} \subseteq DOMAIN stack' /\ 1 \in DOMAIN stack
         /\ Depth(Cardinality(stack[1])) \in 1 .. 6
         /\ \A i \in {1, 2} : /\ IsFiniteSet(stack'[i])
                              /\ Depth(Cardinality(stack'[i])) \in Nat
                              /\ Depth(Cardinality(stack'[i])) <= Depth(Cardinality(stack[1])) - 1
         /\ \A i \in DOMAIN stack' : i \in {1, 2} \/ stack'[i] \cap stack[1] = {}
<1> DEFINE S == I!Current
<1>1. /\ pc = "answered" /\ stack # <<>> /\ pc' = "collect" /\ stack' = I!Halves(S) \o Tail(stack)
      /\ answer = "rejected" /\ I!Cardinality(S) > 1
      /\ UNCHANGED <<attempts, failed, kind, batch, env, rejected, bad, known>>
  BY DEF I!Split, I!scenario, I!history, I!progress, PartsInv
<1>2. /\ S = stack[1] /\ IsFiniteSet(S) /\ S \in SUBSET batch /\ Cardinality(S) \in Nat /\ Cardinality(S) > 1
      /\ S \cap rejected # {}
  BY <1>1, CurrentOf DEF CalmInv
<1>3. Cardinality(S) \in 2 .. 50
  <2>1. Cardinality(S) <= Cardinality(batch) /\ Cardinality(batch) \in 1 .. 50
    BY <1>2, PartsAreFinite, FS_Subset
  <2> QED BY <1>2, <2>1
<1>4. /\ S = stack'[1] \cup stack'[2] /\ stack'[1] \in SUBSET S /\ stack'[2] \in SUBSET S
      /\ Cardinality(stack'[1]) = Cardinality(S) \div 2
      /\ Cardinality(stack'[2]) = Cardinality(S) - Cardinality(S) \div 2
      /\ stack' \in Seq(SUBSET Nat) /\ Len(stack') = Len(stack) + 1
      /\ \A i \in DOMAIN stack' :
           i = 1 \/ i = 2 \/ (i - 1 \in DOMAIN stack /\ i - 1 # 1 /\ stack'[i] = stack[i - 1])
  BY <1>1, SplitOf
<1>5. stack \in Seq(SUBSET Nat) /\ InSequence(stack) /\ attempts \in Nat
  BY DEF PartsInv, CalmInv
<1>6. /\ Len(stack) \in Nat \ {0} /\ DOMAIN stack = 1 .. Len(stack) /\ DOMAIN stack' = 1 .. Len(stack) + 1
      /\ 1 \in DOMAIN stack /\ {1, 2} \subseteq DOMAIN stack'
  <2>1. Len(stack) \in Nat \ {0} /\ DOMAIN stack = 1 .. Len(stack)
    BY <1>1, <1>5, LenProperties, EmptySeq
  <2>2. DOMAIN stack' = 1 .. Len(stack')
    BY <1>4, LenProperties
  <2> QED BY <1>4, <2>1, <2>2
<1>7. Spent' = Spent + 1 /\ Spent \in Int
  BY <1>1, <1>5 DEF Spent
<1>8. /\ Depth(Cardinality(S)) \in 1 .. 6
      /\ \A i \in {1, 2} : /\ IsFiniteSet(stack'[i])
                           /\ Depth(Cardinality(stack'[i])) \in Nat
                           /\ Depth(Cardinality(stack'[i])) <= Depth(Cardinality(S)) - 1
  <2>1. IsFiniteSet(stack'[1]) /\ IsFiniteSet(stack'[2])
    BY <1>2, <1>4, FS_Subset
  <2>2. Depth(Cardinality(stack'[1])) \in Nat /\ Depth(Cardinality(stack'[2])) \in Nat
    BY <2>1, FS_CardinalityType, DepthOf
  <2>3. /\ Depth(Cardinality(S)) \in 1 .. 6
        /\ Depth(Cardinality(S) \div 2) <= Depth(Cardinality(S)) - 1
        /\ Depth(Cardinality(S) - Cardinality(S) \div 2) <= Depth(Cardinality(S)) - 1
    BY <1>3, HalvesAreShallower
  <2> QED BY <1>4, <2>1, <2>2, <2>3
<1>9. ASSUME NEW i \in DOMAIN stack', i \notin {1, 2} PROVE stack'[i] \cap stack[1] = {}
  <2>1. i - 1 \in DOMAIN stack /\ 1 < i - 1 /\ stack'[i] = stack[i - 1]
    BY <1>4, <1>6, <1>9
  <2>2. Precede(stack[1], stack[i - 1])
    BY <1>5, <1>6, <2>1 DEF InSequence
  <2>3. \A c \in stack[1] : ~(c < c)
    BY <1>5, <1>6
  <2> QED BY <2>1, <2>2, <2>3 DEF Precede
<1> HIDE DEF S
<1> QED BY <1>1, <1>2, <1>4, <1>6, <1>7, <1>8, <1>9

LEMMA SingleStep ==
  ASSUME PartsInv, NegativeInv, CalmInv, SingleInv, [I!Next]_(I!vars)
  PROVE  SingleInv'
<1> SUFFICES ASSUME env' = {}, (\A c, d \in rejected : c = d)', (pc # "idle")'
             PROVE  /\ failed' \subseteq rejected'
                    /\ \A i \in DOMAIN stack' : Spent' + Len(stack') - 1 + Cost(stack'[i], rejected') <= 13
  BY DEF SingleInv
<1>1. env = {}
  BY DEF I!Next, I!Pass, I!Begin, I!Exhausted, I!Request, I!Publish, I!Split, I!Fail, I!End, I!Clear, I!Accept,
         I!vars, I!scenario
<1>2. rejected' = rejected
  BY <1>1 DEF I!Next, I!Pass, I!Begin, I!Exhausted, I!Request, I!Publish, I!Split, I!Fail, I!End, I!Clear,
         I!Accept, I!vars
<1>4. \A c, d \in rejected : c = d
  BY <1>2
<1>5. CASE I!Begin
  <2>1. failed' \subseteq rejected /\ attempts' = 0 /\ pc' = "collect"
    BY <1>1, <1>5, BeginOf
  <2>2. ASSUME NEW i \in DOMAIN stack'
        PROVE  /\ stack' = <<I!Asked>> /\ IsFiniteSet(I!Asked)
               /\ Len(stack') = 1 /\ i = 1 /\ stack'[i] = I!Asked
    BY <1>1, <1>5, <2>2, BeginOf
  <2>3. \A i \in DOMAIN stack' : Cost(stack'[i], rejected') \in 1 .. 13 /\ Len(stack') = 1
    BY <2>2, CostOf
  <2>4. Spent' = 0
    BY <2>1 DEF Spent
  <2>5. ASSUME NEW i \in DOMAIN stack' PROVE Spent' + Len(stack') - 1 + Cost(stack'[i], rejected') <= 13
    <3> DEFINE x == Cost(stack'[i], rejected')
    <3>1. x \in 1 .. 13 /\ Len(stack') = 1
      BY <2>3
    <3> HIDE DEF x
    <3>2. Spent' + Len(stack') - 1 + x <= 13
      BY <2>4, <3>1
    <3> QED BY <3>2 DEF x
  <2> QED BY <1>2, <2>1, <2>5
<1>6. ASSUME pc # "idle", failed' \subseteq rejected,
             \/ /\ stack' = stack /\ Spent' = Spent
             \/ stack' = <<>>
             \/ pc = "answered" /\ stack # <<>> /\ stack' = Tail(stack) /\ pc' = "collect" /\ UNCHANGED attempts
      PROVE  \A i \in DOMAIN stack' : Spent' + Len(stack') - 1 + Cost(stack'[i], rejected') <= 13
  <2>1. \A i \in DOMAIN stack : Spent + Len(stack) - 1 + Cost(stack[i], rejected) <= 13
    BY <1>1, <1>4, <1>6 DEF SingleInv
  <2>2. CASE stack' = stack /\ Spent' = Spent
    BY <1>2, <2>1, <2>2
  <2>3. CASE stack' = <<>>
    BY <2>3
  <2>4. CASE pc = "answered" /\ stack # <<>> /\ stack' = Tail(stack) /\ pc' = "collect" /\ UNCHANGED attempts
    <3> SUFFICES ASSUME NEW i \in DOMAIN stack'
                 PROVE  Spent' + Len(stack') - 1 + Cost(stack'[i], rejected') <= 13
      OBVIOUS
    <3>1. /\ Spent' = Spent + 1 /\ Spent \in Int /\ Len(stack') = Len(stack) - 1 /\ Len(stack) \in Nat
          /\ i + 1 \in DOMAIN stack /\ stack'[i] = stack[i + 1]
      BY <2>4, EndedOf
    <3>2. Cost(stack[i + 1], rejected) \in 1 .. 13
      BY <1>6, <3>1, PartsAreFinite, CostOf
    <3>3. Spent + Len(stack) - 1 + Cost(stack[i + 1], rejected) <= 13
      BY <2>1, <3>1
    <3>4. Cost(stack'[i], rejected') = Cost(stack[i + 1], rejected)
      BY <1>2, <3>1
    <3> QED BY <3>1, <3>2, <3>3, <3>4
  <2> QED BY <1>6, <2>2, <2>3, <2>4
<1>7. pc # "idle" => failed \subseteq rejected
  BY <1>1, <1>4 DEF SingleInv
<1>8. CASE I!Exhausted
  <2>1. stack # <<>> /\ attempts >= 16 /\ pc = "collect" /\ attempts \in Nat
    BY <1>8 DEF I!Exhausted, I!Budget, CalmInv
  <2>2. 1 \in DOMAIN stack /\ Len(stack) \in Nat \ {0} /\ IsFiniteSet(stack[1])
    BY <2>1, PartsAreFinite, TakenOff, LenProperties, EmptySeq DEF PartsInv
  <2>3. Cost(stack[1], rejected) \in 1 .. 13 /\ Spent + Len(stack) - 1 + Cost(stack[1], rejected) <= 13 /\ Spent = attempts
    BY <1>1, <1>4, <2>1, <2>2, CostOf DEF SingleInv, Spent
  <2> QED BY <2>1, <2>2, <2>3
<1>9. CASE I!Request
  <2>1. /\ pc = "collect" /\ pc' = "answered" /\ attempts' = attempts + 1 /\ attempts \in Nat
        /\ UNCHANGED <<stack, failed>>
    BY <1>9, RequestOf DEF CalmInv
  <2>2. Spent' = Spent
    BY <2>1 DEF Spent
  <2> QED BY <1>2, <1>6, <1>7, <2>1, <2>2
<1>10. CASE I!Publish
  <2>1. /\ pc = "answered" /\ stack # <<>> /\ stack' = Tail(stack) /\ pc' = "collect"
        /\ UNCHANGED <<attempts, failed>>
    BY <1>10 DEF I!Publish, PartsInv
  <2> QED BY <1>2, <1>6, <1>7, <2>1
<1>11. CASE I!Fail
  BY <1>1, <1>2, <1>6, <1>7, <1>11, FailOf
<1>12. CASE I!Split
  <2>1. /\ pc = "answered" /\ stack # <<>> /\ pc' = "collect" /\ UNCHANGED failed
        /\ stack[1] \cap rejected # {} /\ stack[1] = stack'[1] \cup stack'[2]
        /\ Spent' = Spent + 1 /\ Spent \in Int /\ Len(stack) \in Nat \ {0} /\ Len(stack') = Len(stack) + 1
        /\ 1 \in DOMAIN stack /\ Depth(Cardinality(stack[1])) \in 1 .. 6
    BY <1>1, <1>12, SplitIn
  <2>2. Spent + Len(stack) - 1 + 1 + 2 * Depth(Cardinality(stack[1])) <= 13
    <3>1. Cost(stack[1], rejected) = 1 + 2 * Depth(Cardinality(stack[1]))
      BY <2>1 DEF Cost
    <3>2. Spent + Len(stack) - 1 + Cost(stack[1], rejected) <= 13
      BY <1>1, <1>4, <2>1 DEF SingleInv
    <3> QED BY <2>1, <3>1, <3>2
  <2>3. ASSUME NEW i \in DOMAIN stack' 
        PROVE  /\ Cost(stack'[i], rejected) <= 2 * Depth(Cardinality(stack[1])) - 1
               /\ Cost(stack'[i], rejected) \in Int
    <3>1. CASE i \in {1, 2}
      <4>1. Depth(Cardinality(stack'[i])) \in Nat /\ Depth(Cardinality(stack'[i])) <= Depth(Cardinality(stack[1])) - 1
        BY <1>1, <1>12, <3>1, SplitIn
      <4> QED BY <2>1, <4>1 DEF Cost
    <3>2. CASE i \notin {1, 2}
      <4>1. stack'[i] \cap stack[1] = {}
        BY <1>1, <1>12, <3>2, SplitIn
      <4>2. rejected \subseteq stack[1]
        BY <1>4, <2>1
      <4>3. Cost(stack'[i], rejected) = 1
        BY <4>1, <4>2 DEF Cost
      <4> QED BY <2>1, <4>3
    <3> QED BY <3>1, <3>2
  <2>4. ASSUME NEW i \in DOMAIN stack' PROVE Spent' + Len(stack') - 1 + Cost(stack'[i], rejected') <= 13
    <3> DEFINE d == Depth(Cardinality(stack[1]))
               x == Cost(stack'[i], rejected)
               l == Len(stack)
               p == Spent
    <3>1. d \in Int /\ l \in Int /\ p \in Int
      BY <2>1
    <3>2. x \in Int /\ x <= 2 * d - 1 /\ p + l - 1 + 1 + 2 * d <= 13
      BY <2>2, <2>3
    <3>3. Cost(stack'[i], rejected') = x /\ Spent' = p + 1 /\ Len(stack') = l + 1
      BY <1>2, <2>1
    <3> HIDE DEF d, x, l, p
    <3> QED BY <3>1, <3>2, <3>3
  <2> QED BY <1>2, <1>7, <2>1, <2>4
<1>13. CASE I!End
  BY <1>2, <1>6, <1>7, <1>13 DEF I!End, I!progress
<1>14. CASE I!Clear \/ I!Accept
  BY <1>1, <1>14 DEF I!Clear, I!Accept
<1>15. CASE UNCHANGED I!vars
  <2>1. UNCHANGED <<pc, stack, failed, attempts>>
    BY <1>15 DEF I!vars, I!progress
  <2>2. Spent' = Spent
    BY <2>1 DEF Spent
  <2> QED BY <1>2, <1>6, <1>7, <2>1, <2>2
<1> QED BY <1>5, <1>8, <1>9, <1>10, <1>11, <1>12, <1>13, <1>14, <1>15 DEF I!Next, I!Pass

LEMMA FirstStep ==
  ASSUME PartsInv, NegativeInv, CalmInv, FirstInv, [I!Next]_(I!vars)
  PROVE  FirstInv'
<1> DEFINE Bound(s, n) ==
             s # <<>> =>
               /\ n + 1 + 2 * Depth(Cardinality(s[1])) <= 13
               /\ \/ Len(s) = 1
                  \/ s[1] \cap rejected # {}
                  \/ /\ 2 \in DOMAIN s /\ s[2] \cap rejected # {}
                     /\ n + 2 + 2 * Depth(Cardinality(s[2])) <= 13
<1>1. env' = env
  BY DEF I!Next, I!Pass, I!Begin, I!Exhausted, I!Request, I!Publish, I!Split, I!Fail, I!End, I!Clear, I!Accept,
         I!vars, I!scenario
<1>2. env = {} => rejected' = rejected
  BY DEF I!Next, I!Pass, I!Begin, I!Exhausted, I!Request, I!Publish, I!Split, I!Fail, I!End, I!Clear,
         I!Accept, I!vars
<1> SUFFICES ASSUME env = {}, kind' = "monitoring", pc' # "idle", bad' \subseteq known', rejected' = rejected
             PROVE  failed' \subseteq rejected /\ Bound(stack', Spent')
  BY <1>1, <1>2 DEF FirstInv
<1>3. ASSUME UNCHANGED <<kind, known>>, bad \subseteq bad', pc # "idle"
      PROVE  kind = "monitoring" /\ bad \subseteq known /\ failed \subseteq rejected /\ Bound(stack, Spent)
  BY <1>3 DEF FirstInv
<1>4. CASE I!Begin
  <2>1. failed' \subseteq rejected /\ Spent' = 0
    BY <1>4, BeginOf DEF Spent
  <2>2. ASSUME stack' # <<>> PROVE Len(stack') = 1 /\ Depth(Cardinality(stack'[1])) \in 0 .. 6
    BY <1>4, <2>2, BeginOf, DepthOf, FS_CardinalityType
  <2> QED BY <2>1, <2>2
<1>5. CASE I!Exhausted
  <2>1. /\ stack # <<>> /\ attempts >= 16 /\ pc = "collect" /\ attempts \in Nat /\ UNCHANGED <<kind, known, bad>>
    BY <1>5 DEF I!Exhausted, I!Budget, I!scenario, I!history, CalmInv
  <2>2. Spent + 1 + 2 * Depth(Cardinality(stack[1])) <= 13 /\ Spent = attempts
    BY <1>3, <2>1 DEF Spent
  <2>3. Depth(Cardinality(stack[1])) \in Nat
    <3>1. Cardinality(stack[1]) \in Nat
      BY <2>1, CurrentOf
    <3> QED BY <3>1, DepthOf
  <2> QED BY <2>1, <2>2, <2>3
<1>6. CASE I!Request
  <2>1. /\ pc = "collect" /\ pc' = "answered" /\ attempts' = attempts + 1 /\ attempts \in Nat
        /\ UNCHANGED <<stack, failed, kind, known, bad>>
    BY <1>6, RequestOf DEF CalmInv
  <2>2. Spent' = Spent
    BY <2>1 DEF Spent
  <2> QED BY <1>3, <2>1, <2>2
<1>7. CASE I!Publish
  <2>1. /\ pc = "answered" /\ stack # <<>> /\ stack' = Tail(stack) /\ pc' = "collect" /\ answer = "ok"
        /\ UNCHANGED <<attempts, failed, kind, known, bad>>
    BY <1>7 DEF I!Publish, I!scenario, I!history, PartsInv
  <2>2. failed \subseteq rejected /\ Bound(stack, Spent)
    BY <1>3, <2>1
  <2>3. stack[1] \cap rejected = {}
    BY <2>1, CurrentOf DEF CalmInv
  <2>4. ASSUME stack' # <<>> PROVE Bound(stack', Spent')
    <3>1. /\ Spent' = Spent + 1 /\ Spent \in Int /\ Len(stack) # 1 /\ Len(stack) \in Nat \ {0}
          /\ DOMAIN stack' = 1 .. Len(stack) - 1
          /\ \A i \in DOMAIN stack' : stack'[i] = stack[i + 1]
      BY <2>1, <2>4, EndedOf
    <3>2. stack'[1] = stack[2]
      <4>1. 1 \in DOMAIN stack'
        BY <3>1
      <4> QED BY <3>1, <4>1
    <3>3. /\ stack[2] \cap rejected # {} /\ Spent + 2 + 2 * Depth(Cardinality(stack[2])) <= 13
          /\ 2 \in DOMAIN stack
      BY <2>1, <2>2, <2>3, <3>1
    <3>4. Depth(Cardinality(stack[2])) \in Nat
      BY <2>1, <3>3, PartsAreFinite, FS_CardinalityType, DepthOf
    <3> QED BY <3>1, <3>2, <3>3, <3>4
  <2> QED BY <2>1, <2>2, <2>4
<1>8. CASE I!Fail
  <2>1. /\ pc = "answered" /\ stack # <<>> /\ answer = "rejected" /\ I!Current # {}
        /\ bad' = bad \cup I!Isolated /\ UNCHANGED <<kind, known>>
    BY <1>8, FailOf
  <2>2. I!Current \subseteq bad'
    BY <2>1 DEF I!Isolated
  <2>3. I!Current \subseteq Members(stack) /\ Members(stack) \cap known = {}
    BY <2>1, CurrentOf DEF CalmInv
  <2> QED BY <2>1, <2>2, <2>3
<1>9. CASE I!Split
  <2> DEFINE d == Depth(Cardinality(stack[1]))
             a == Depth(Cardinality(stack'[1]))
             b == Depth(Cardinality(stack'[2]))
             p == Spent
  <2>1. /\ pc = "answered" /\ stack # <<>> /\ UNCHANGED <<failed, kind, known, bad>>
        /\ stack[1] \cap rejected # {} /\ stack[1] = stack'[1] \cup stack'[2]
        /\ Spent' = p + 1 /\ p \in Int /\ 2 \in DOMAIN stack' /\ d \in 1 .. 6
        /\ a \in Nat /\ a <= d - 1 /\ b \in Nat /\ b <= d - 1
    BY <1>9, SplitIn
  <2>2. failed \subseteq rejected /\ p + 1 + 2 * d <= 13
    BY <1>3, <2>1
  <2>3. stack'[1] \cap rejected # {} \/ stack'[2] \cap rejected # {}
    BY <2>1
  <2>4. (p + 1) + 1 + 2 * a <= 13 /\ (p + 1) + 2 + 2 * b <= 13
    <3>1. d \in Int /\ a \in Int /\ b \in Int /\ p \in Int
      BY <2>1
    <3>2. a <= d - 1 /\ b <= d - 1 /\ p + 1 + 2 * d <= 13
      BY <2>1, <2>2
    <3> HIDE DEF d, a, b, p
    <3> QED BY <3>1, <3>2
  <2> QED BY <2>1, <2>2, <2>3, <2>4
<1>10. CASE I!End
  <2>1. stack' = stack /\ stack = <<>> /\ pc # "idle" /\ UNCHANGED <<failed, kind, known, bad>>
    BY <1>10 DEF I!End, I!scenario, I!progress, I!history
  <2> QED BY <1>3, <2>1
<1>11. CASE I!Clear \/ I!Accept
  BY <1>11 DEF I!Clear, I!Accept
<1>12. CASE UNCHANGED I!vars
  <2>1. UNCHANGED <<pc, stack, failed, attempts, kind, known, bad>>
    BY <1>12 DEF I!vars, I!scenario, I!progress, I!history
  <2>2. Spent' = Spent
    BY <2>1 DEF Spent
  <2> QED BY <1>3, <2>1, <2>2
<1> QED BY <1>4, <1>5, <1>6, <1>7, <1>8, <1>9, <1>10, <1>11, <1>12 DEF I!Next, I!Pass

\* Sixteen attempts are enough for a batch of fifty, whichever domains are rejected: of one
\* nobody else has to suffer, and of many a pass of monitoring isolates one more, so that what
\* the budget did not reach is served by a later pass.
THEOREM PassesMakeProgress == I!Init /\ [][I!Next]_(I!vars) => []BudgetMakesProgress
<1>1. I!Init => SingleInv /\ FirstInv
  BY DEF I!Init, SingleInv, FirstInv
<1>2. PartsInv /\ CalmInv /\ SingleInv /\ FirstInv => BudgetMakesProgress
  <2> SUFFICES ASSUME PartsInv, CalmInv, SingleInv, FirstInv, pc = "ended", env = {}
               PROVE  /\ (\A c, d \in rejected : c = d) => failed = rejected
                      /\ kind = "monitoring" /\ ~(failed \subseteq rejected) => bad \ known # {}
    BY DEF BudgetMakesProgress, I!BudgetMakesProgress
  <2>1. Members(stack) = {}
    BY DEF PartsInv, Members, I!ToSet
  <2>2. Members(covered) = batch \ failed /\ Members(covered) \cap rejected = {} /\ rejected \subseteq batch
    BY <2>1 DEF PartsInv, CalmInv
  <2>3. (\A c, d \in rejected : c = d) => failed = rejected
    BY <2>2 DEF SingleInv
  <2>4. kind = "monitoring" /\ ~(failed \subseteq rejected) => bad \ known # {}
    BY DEF FirstInv
  <2> QED BY <2>3, <2>4
<1>3. PartsInv /\ NegativeInv /\ CalmInv /\ SingleInv /\ FirstInv /\ [I!Next]_(I!vars) =>
        SingleInv' /\ FirstInv'
  BY SingleStep, FirstStep
<1> QED BY <1>1, <1>2, <1>3, PartsInit, PartsStep, NegativeInit, NegativeStep, CalmInit, CalmStep, PTL
-----------------------------------------------------------------------------
(* The buckets of an analytics domain *)

LEMMA AnalyticsConstants ==
  /\ DayBuckets \in Nat \ {0} /\ Lag \in Nat /\ LastHour \in Nat
  /\ \A points \in Answers : points \in Seq(Int)
BY DataAssumptions DEF A!AnalyticsAssumption

\* What was selected so far is safe, and the newest safe bucket of its answer each.
AnalyticsInv ==
  /\ hour \in Nat /\ step \in 0 .. 3 /\ safe \in Int
  /\ ends \in Seq(Int) /\ ends = newest
  /\ step # 0 => safe + Lag <= hour /\ \A i \in DOMAIN ends : ends[i] <= safe
  /\ \A s \in shown :
       /\ s.dataAt \in Int /\ s.dataAt + Lag <= hour
       /\ \A i \in DOMAIN s.ends : s.ends[i] = s.dataAt

\* The choice of an answer is the newest of what the history says was safe in it.
LEMMA AnalyticsSelects ==
  ASSUME NEW points \in Answers, safe \in Int, NEW e \in A!CDNBucketEnd(points, safe)
  PROVE  e \in Int /\ e <= safe /\ e = A!Max(A!SafeEnds(points))
<1>1. points \in Seq(Int)
  BY AnalyticsConstants
<1>2. A!CDNBucketEnd(points, safe) = CDNBucketEnd(points, safe)
  BY DEF A!CDNBucketEnd, CDNBucketEnd, A!Continuous, Continuous, A!NewestSafe, NewestSafe
<1>3. Selected(e, points, safe)
  BY <1>1, <1>2, CDNSelects
<1>4. A!SafeEnds(points) = SafeEnds(points, safe)
  BY DEF A!SafeEnds, SafeEnds
<1>5. \A S : A!Max(S) = Max(S)
  BY DEF A!Max, Max
<1> QED BY <1>3, <1>4, <1>5 DEF Selected

\* A snapshot that is published has one bucket end for all of its answers.
LEMMA AnalyticsPublished ==
  ASSUME NEW bucketEnds \in Seq(Int), A!Published(bucketEnds), safe \in Int,
         \A i \in DOMAIN bucketEnds : bucketEnds[i] <= safe
  PROVE  \A s \in shown' :
           /\ s.dataAt \in Int /\ s.dataAt <= safe
           /\ \A i \in DOMAIN s.ends : s.ends[i] = s.dataAt
<1>1. A!MatchingBucketEnd(bucketEnds) = MatchingBucketEnd(bucketEnds)
  BY DEF A!MatchingBucketEnd, MatchingBucketEnd
<1>2. ASSUME NEW e \in MatchingBucketEnd(bucketEnds)
      PROVE  e \in Int /\ e <= safe /\ \A i \in DOMAIN bucketEnds : bucketEnds[i] = e
  <2>1. PICK i \in DOMAIN bucketEnds : e = bucketEnds[i]
    BY DEF MatchingBucketEnd
  <2> QED BY <2>1, MatchingAreEqual
<1>3. ASSUME NEW s \in shown'
      PROVE  \E e \in MatchingBucketEnd(bucketEnds) : s = [dataAt |-> e, ends |-> bucketEnds]
  BY <1>1, <1>3 DEF A!Published
<1> QED BY <1>2, <1>3

LEMMA AnalyticsStep == AnalyticsInv /\ [A!Next]_(A!vars) => AnalyticsInv'
<1> SUFFICES ASSUME AnalyticsInv, [A!Next]_(A!vars) PROVE AnalyticsInv'
  OBVIOUS
<1> USE AnalyticsConstants
<1>1. CASE A!Tick
  BY <1>1 DEF AnalyticsInv, A!Tick
<1>2. CASE A!Begin
  BY <1>2 DEF AnalyticsInv, A!Begin
<1>3. CASE A!Error
  BY <1>3 DEF AnalyticsInv, A!Error, A!Finish
<1>4. CASE A!Clear
  BY <1>4 DEF AnalyticsInv, A!Clear
<1>5. CASE A!Idle
  <2>1. CASE A!IdleBucketEnd = {}
    BY <1>5, <2>1 DEF AnalyticsInv, A!Idle, A!Finish
  <2>2. CASE A!IdleBucketEnd # {}
    <3>1. /\ A!Published(<<safe>>) /\ ends' = <<safe>> /\ newest' = <<safe>>
          /\ step = 1 /\ step' = 0 /\ UNCHANGED <<hour, safe>>
      BY <1>5, <2>2 DEF A!Idle, A!Finish
    <3>2. /\ safe \in Int /\ safe + Lag <= hour /\ hour \in Nat
          /\ <<safe>> \in Seq(Int) /\ \A i \in DOMAIN <<safe>> : <<safe>>[i] <= safe
      BY <3>1 DEF AnalyticsInv
    <3>3. \A s \in shown' :
            s.dataAt \in Int /\ s.dataAt <= safe /\ \A i \in DOMAIN s.ends : s.ends[i] = s.dataAt
      BY <3>1, <3>2, AnalyticsPublished
    <3> QED BY <3>1, <3>2, <3>3 DEF AnalyticsInv
  <2> QED BY <2>1, <2>2
<1>6. ASSUME NEW points \in Answers, A!Select(points) PROVE AnalyticsInv'
  <2>1. PICK e \in A!CDNBucketEnd(points, safe) :
          ends' = Append(ends, e) /\ newest' = Append(newest, A!Max(A!SafeEnds(points)))
    BY <1>6 DEF A!Select
  <2>2. e \in Int /\ e <= safe /\ e = A!Max(A!SafeEnds(points))
    BY <2>1, AnalyticsSelects DEF AnalyticsInv
  <2>3. step \in 1 .. 2 /\ step' = step + 1 /\ UNCHANGED <<hour, safe, shown>>
    BY <1>6 DEF A!Select
  <2>4. /\ ends' \in Seq(Int) /\ ends' = newest' /\ \A i \in DOMAIN ends' : ends'[i] <= safe
    BY <2>1, <2>2, <2>3 DEF AnalyticsInv
  <2> QED BY <2>3, <2>4 DEF AnalyticsInv
<1>7. ASSUME NEW points \in Answers, A!SelectLast(points) PROVE AnalyticsInv'
  <2>1. PICK e \in A!CDNBucketEnd(points, safe) :
          /\ ends' = Append(ends, e) /\ newest' = Append(newest, A!Max(A!SafeEnds(points)))
          /\ IF A!MatchingBucketEnd(ends') = {} THEN UNCHANGED shown ELSE A!Published(ends')
    BY <1>7 DEF A!SelectLast
  <2>2. e \in Int /\ e <= safe /\ e = A!Max(A!SafeEnds(points))
    BY <2>1, AnalyticsSelects DEF AnalyticsInv
  <2>3. step = 3 /\ step' = 0 /\ UNCHANGED <<hour, safe>>
    BY <1>7 DEF A!SelectLast, A!Finish
  <2>4. /\ ends' \in Seq(Int) /\ ends' = newest' /\ \A i \in DOMAIN ends' : ends'[i] <= safe
    BY <2>1, <2>2, <2>3 DEF AnalyticsInv
  <2>5. CASE UNCHANGED shown
    BY <2>3, <2>4, <2>5 DEF AnalyticsInv
  <2>6. CASE A!Published(ends')
    <3>1. \A s \in shown' :
            s.dataAt \in Int /\ s.dataAt <= safe /\ \A i \in DOMAIN s.ends : s.ends[i] = s.dataAt
      BY <2>4, <2>6, AnalyticsPublished DEF AnalyticsInv
    <3>2. safe \in Int /\ safe + Lag <= hour /\ hour \in Nat
      BY <2>3 DEF AnalyticsInv
    <3> QED BY <2>3, <2>4, <3>1, <3>2 DEF AnalyticsInv
  <2> QED BY <2>1, <2>5, <2>6
<1>8. CASE UNCHANGED A!vars
  BY <1>8 DEF AnalyticsInv, A!vars
<1> QED BY <1>1, <1>2, <1>3, <1>4, <1>5, <1>6, <1>7, <1>8 DEF A!Next

\* What collectCDNAnalytics exports for a domain is one bucket, the newest safe one of each of
\* its answers, whatever and how far apart they are.
THEOREM AnalyticsIsOneBucket == A!Init /\ [][A!Next]_(A!vars) => []OneSafeBucket
<1>1. A!Init => AnalyticsInv
  <2>1. <<>> \in Seq(Int) /\ \A n \in 0 .. DayBuckets : n \in Nat
    BY AnalyticsConstants
  <2> QED BY <2>1 DEF A!Init, AnalyticsInv
<1>2. AnalyticsInv /\ [A!Next]_(A!vars) => AnalyticsInv'
  BY AnalyticsStep
<1>3. AnalyticsInv => OneSafeBucket
  BY DEF AnalyticsInv, OneSafeBucket, A!OneSafeBucket
<1> QED BY <1>1, <1>2, <1>3, PTL
-----------------------------------------------------------------------------
(* CDNUsage: the fold that adds up the days *)

LEMMA UsageConstants ==
  /\ {HourTicks, UsageDay, UsageMonth} \subseteq Nat \ {0} /\ {Lag, Late} \subseteq Nat
  /\ \A S : U!Cardinality(S) = Cardinality(S)
BY DataAssumptions DEF U!UsageAssumption, U!Cardinality, Cardinality

DayStarts == {n * UsageDay : n \in Nat}
BucketsOf(days) == UNION {start .. start + UsageDay - 1 : start \in days}

\* Different days have no bucket in common.
LEMMA DaysApart ==
  ASSUME NEW s \in DayStarts, NEW r \in DayStarts, s < r
  PROVE  s \in Nat /\ r \in Nat /\ s + UsageDay <= r
<1>1. PICK m \in Nat : s = m * UsageDay
  BY DEF DayStarts
<1>2. PICK n \in Nat : r = n * UsageDay
  BY DEF DayStarts
<1>3. UsageDay \in Nat
  BY UsageConstants
<1>4. m < n
  <2>1. n <= m => n * UsageDay <= m * UsageDay
    BY <1>3, Ordered
  <2> QED BY <1>1, <1>2, <1>3, <2>1
<1>5. (m + 1) * UsageDay <= n * UsageDay
  BY <1>3, <1>4, Ordered
<1>6. (m + 1) * UsageDay = m * UsageDay + UsageDay
  BY <1>3
<1> QED BY <1>1, <1>2, <1>3, <1>5, <1>6

LEMMA DayIs ==
  ASSUME NEW s \in Nat
  PROVE  /\ IsFiniteSet(s .. s + UsageDay - 1)
         /\ U!Day(s) = [buckets |-> s .. s + UsageDay - 1, count |-> UsageDay]
         /\ Cardinality(s .. s + UsageDay - 1) = UsageDay
<1>1. UsageDay \in Nat \ {0} /\ s + UsageDay - 1 \in Int /\ s <= s + UsageDay - 1
  BY UsageConstants
<1>2. IsFiniteSet(s .. s + UsageDay - 1) /\ Cardinality(s .. s + UsageDay - 1) = UsageDay
  <2> DEFINE e == s + UsageDay - 1
  <2>1. e \in Int /\ s \in Int /\ ~(s > e) /\ e - s + 1 = UsageDay
    BY <1>1
  <2> HIDE DEF e
  <2>2. IsFiniteSet(s .. e) /\ Cardinality(s .. e) = UsageDay
    BY <2>1, FS_Interval
  <2> QED BY <2>2 DEF e
<1> QED BY <1>2, UsageConstants DEF U!Day, U!Total

Added(days) == [buckets |-> BucketsOf(days), count |-> Cardinality(BucketsOf(days))]

\* A day more adds its buckets, which none of the others has.
LEMMA DayMore ==
  ASSUME NEW days \in SUBSET DayStarts, IsFiniteSet(BucketsOf(days)), NEW s \in DayStarts \ days
  PROVE  /\ Added(days \cup {s}) = U!Merge(Added(days), U!Day(s))
         /\ IsFiniteSet(BucketsOf(days \cup {s}))
<1> DEFINE old == BucketsOf(days)
           new == s .. s + UsageDay - 1
<1>1. s \in Nat /\ UsageDay \in Nat \ {0}
  BY UsageConstants DEF DayStarts
<1>2. BucketsOf(days \cup {s}) = old \cup new
  BY DEF BucketsOf
<1>3. old \cap new = {}
  <2> SUFFICES ASSUME NEW r \in days, NEW b \in r .. r + UsageDay - 1, b \in new PROVE FALSE
    BY DEF BucketsOf
  <2>1. r \in Nat /\ (r < s \/ s < r)
    BY <1>1 DEF DayStarts
  <2>2. r + UsageDay <= s \/ s + UsageDay <= r
    BY <2>1, DaysApart
  <2> QED BY <1>1, <2>1, <2>2
<1>4. IsFiniteSet(new) /\ Cardinality(new) = UsageDay /\ U!Day(s) = [buckets |-> new, count |-> UsageDay]
  BY <1>1, DayIs
<1> HIDE DEF old, new
<1>5. IsFiniteSet(old)
  BY DEF old
<1>6. IsFiniteSet(old \cup new) /\ Cardinality(old \cup new) = Cardinality(old) + Cardinality(new)
  <2>1. Cardinality(old \cap new) = 0
    BY <1>3, FS_EmptySet
  <2>2. Cardinality(old) \in Nat /\ Cardinality(new) \in Nat
    BY <1>4, <1>5, FS_CardinalityType
  <2>3. /\ IsFiniteSet(old \cup new)
        /\ Cardinality(old \cup new) = Cardinality(old) + Cardinality(new) - Cardinality(old \cap new)
    BY <1>4, <1>5, FS_Union
  <2> QED BY <2>1, <2>2, <2>3
<1>7. Added(days) = [buckets |-> old, count |-> Cardinality(old)]
  BY DEF Added, old
<1>8. Added(days \cup {s}) = [buckets |-> old \cup new, count |-> Cardinality(old) + UsageDay]
  BY <1>2, <1>4, <1>6 DEF Added
<1>9. U!Merge(Added(days), U!Day(s)) = [buckets |-> old \cup new, count |-> Cardinality(old) + UsageDay]
  BY <1>4, <1>7 DEF U!Merge
<1> QED BY <1>2, <1>6, <1>8, <1>9

\* The function that the fold over days defines by recursion.
IsFold(g, days) ==
  g = [t \in SUBSET days |->
         IF t = {} THEN U!Total({})
         ELSE U!Merge(g[t \ {CHOOSE x \in t : TRUE}], U!Day(CHOOSE x \in t : TRUE))]

LEMMA PriorIsFold == U!Prior = (CHOOSE g : IsFold(g, U!Days))[U!Days]
BY DEF U!Prior, U!FoldSet, U!MapThenFoldSet, IsFold

LEMMA NoDays == U!Total({}) = Added({}) /\ IsFiniteSet(BucketsOf({}))
<1>1. BucketsOf({}) = {}
  BY DEF BucketsOf
<1> QED BY <1>1, FS_EmptySet, UsageConstants DEF U!Total, Added

\* It has one value at most for every set of days, by induction on their number ...
LEMMA FoldAdds ==
  ASSUME NEW days \in SUBSET DayStarts, IsFiniteSet(days), NEW g, IsFold(g, days)
  PROVE  \A t \in SUBSET days : g[t] = Added(t) /\ IsFiniteSet(BucketsOf(t))
<1> DEFINE Bad == {t \in SUBSET days : ~(g[t] = Added(t) /\ IsFiniteSet(BucketsOf(t)))}
           Sizes == {Cardinality(t) : t \in Bad}
<1>1. \A t \in SUBSET days : IsFiniteSet(t) /\ Cardinality(t) \in Nat
  BY FS_Subset, FS_CardinalityType
<1>2. ASSUME Bad # {} PROVE FALSE
  <2>1. Sizes \in SUBSET Nat /\ Sizes # {}
    BY <1>1, <1>2
  <2>2. PICK n \in Sizes : \A m \in Sizes : n <= m
    BY <2>1, LeastNatural
  <2>3. PICK t \in Bad : n = Cardinality(t)
    BY <2>2
  <2>4. t \in SUBSET days /\ ~(g[t] = Added(t) /\ IsFiniteSet(BucketsOf(t)))
    BY <2>3
  <2>5. g[t] = IF t = {} THEN U!Total({})
               ELSE U!Merge(g[t \ {CHOOSE x \in t : TRUE}], U!Day(CHOOSE x \in t : TRUE))
    BY <2>4 DEF IsFold
  <2>6. t # {}
    BY <2>4, <2>5, NoDays
  <2> DEFINE s == CHOOSE x \in t : TRUE
             r == t \ {s}
  <2>7. s \in t
    BY <2>6
  <2> HIDE DEF s
  <2>8. r \in SUBSET days /\ s \in DayStarts \ r /\ r \cup {s} = t
    BY <2>4, <2>7
  <2>9. Cardinality(r) < n
    <3>1. IsFiniteSet(t) /\ Cardinality(t) = n /\ n \in Nat
      BY <1>1, <2>3, <2>4
    <3>2. Cardinality(r) = n - 1
      BY <2>7, <3>1, FS_RemoveElement
    <3> QED BY <3>1, <3>2
  <2>10. r \notin Bad
    <3>1. n \in Nat /\ Cardinality(r) \in Nat
      BY <1>1, <2>1, <2>2, <2>8
    <3> QED BY <2>2, <2>9, <3>1
  <2>11. g[r] = Added(r) /\ IsFiniteSet(BucketsOf(r))
    BY <2>8, <2>10
  <2>12. g[t] = U!Merge(Added(r), U!Day(s))
    BY <2>5, <2>6, <2>11 DEF s
  <2> HIDE DEF r
  <2>13. Added(r \cup {s}) = U!Merge(Added(r), U!Day(s)) /\ IsFiniteSet(BucketsOf(r \cup {s}))
    BY <2>8, <2>11, DayMore
  <2> QED BY <2>4, <2>8, <2>12, <2>13
<1> QED BY <1>2

\* ... and this one has it.
LEMMA FoldExists ==
  ASSUME NEW days \in SUBSET DayStarts, NEW n \in Nat, days \subseteq 0 .. n
  PROVE  IsFold([t \in SUBSET days |-> Added(t)], days)
<1> DEFINE g == [t \in SUBSET days |-> Added(t)]
           Of(t) == IF t = {} THEN U!Total({})
                    ELSE U!Merge(g[t \ {CHOOSE x \in t : TRUE}], U!Day(CHOOSE x \in t : TRUE))
<1>1. ASSUME NEW t \in SUBSET days PROVE g[t] = Of(t)
  <2>1. g[t] = Added(t)
    OBVIOUS
  <2>2. CASE t = {}
    BY <2>1, <2>2, NoDays
  <2>3. CASE t # {}
    <3> DEFINE s == CHOOSE x \in t : TRUE
               r == t \ {s}
    <3>1. s \in t
      BY <2>3
    <3> HIDE DEF s
    <3>2. r \in SUBSET days /\ s \in DayStarts \ r /\ r \cup {s} = t
      BY <3>1
    <3>3. g[r] = Added(r)
      BY <3>2
    <3>4. IsFiniteSet(BucketsOf(r))
      <4>1. n + UsageDay \in Int /\ UsageDay \in Nat
        BY UsageConstants
      <4>2. IsFiniteSet(0 .. n + UsageDay)
        BY <4>1, FS_Interval
      <4>3. BucketsOf(r) \subseteq 0 .. n + UsageDay
        <5> SUFFICES ASSUME NEW start \in r, NEW b \in start .. start + UsageDay - 1
                     PROVE  b \in 0 .. n + UsageDay
          BY DEF BucketsOf
        <5>1. start \in 0 .. n
          BY <3>2
        <5> QED BY <4>1, <5>1
      <4> QED BY <4>2, <4>3, FS_Subset
    <3> HIDE DEF r
    <3>5. Added(r \cup {s}) = U!Merge(Added(r), U!Day(s))
      BY <3>2, <3>4, DayMore
    <3>6. Of(t) = U!Merge(g[r], U!Day(s))
      BY <2>3 DEF r, s
    <3> QED BY <2>1, <3>2, <3>3, <3>5, <3>6
  <2> QED BY <2>2, <2>3
<1>2. g = [t \in SUBSET days |-> Of(t)]
  BY <1>1
<1> QED BY <1>2 DEF IsFold

-----------------------------------------------------------------------------
(* CDNUsage: what is published *)

\* The month's days before today, which the fold adds up.
LEMMA PriorAdds ==
  ASSUME monitoring.today \in DayStarts
  PROVE  /\ U!Prior = Added(U!Days) /\ IsFiniteSet(BucketsOf(U!Days))
         /\ U!Days \subseteq DayStarts
         /\ \A s \in U!Days : U!MonthStart(monitoring.today) <= s /\ s < monitoring.today
<1> DEFINE today == monitoring.today
           first == U!MonthStart(today)
           m == UsageDay * UsageMonth
<1>1. today \in Nat /\ UsageDay \in Nat \ {0} /\ UsageMonth \in Nat \ {0}
  BY UsageConstants DEF DayStarts
<1>2. m \in Nat \ {0}
  <2>1. 1 * UsageMonth <= UsageDay * UsageMonth
    BY <1>1, Ordered
  <2> QED BY <1>1, <2>1
<1>3. first = Floor(today, m)
  BY DEF U!MonthStart, Floor
<1> HIDE DEF today, first, m
<1>4. first \in Nat
  BY <1>1, <1>2, <1>3, FloorFacts
<1>5. U!Days = {t \in first .. today - 1 : t % UsageDay = 0}
  BY DEF U!Days, U!PriorMonth, today, first
<1>6. U!Days \subseteq DayStarts
  <2> SUFFICES ASSUME NEW t \in first .. today - 1, t % UsageDay = 0 PROVE t \in DayStarts
    BY <1>5
  <2>1. t \in Nat
    BY <1>1, <1>4
  <2>2. t \div UsageDay \in Nat /\ t = (t \div UsageDay) * UsageDay
    BY <1>1, <2>1
  <2> QED BY <2>2 DEF DayStarts
<1>7. U!Days \subseteq 0 .. today /\ \A s \in U!Days : first <= s /\ s < today
  BY <1>1, <1>4, <1>5
<1> DEFINE days == U!Days
<1>8. days \in SUBSET DayStarts /\ days \subseteq 0 .. today /\ U!Prior = (CHOOSE g : IsFold(g, days))[days]
  BY <1>6, <1>7, PriorIsFold
<1> HIDE DEF days
<1>9. IsFiniteSet(days)
  <2>1. IsFiniteSet(0 .. today)
    BY <1>1, FS_Interval
  <2> QED BY <1>8, <2>1, FS_Subset
<1> DEFINE g == CHOOSE g : IsFold(g, days)
<1>10. IsFold(g, days)
  BY <1>1, <1>8, FoldExists
<1> HIDE DEF g
<1>11. g[days] = Added(days) /\ IsFiniteSet(BucketsOf(days))
  BY <1>8, <1>9, <1>10, FoldAdds
<1>12. U!Prior = Added(days)
  BY <1>8, <1>11 DEF g
<1> QED BY <1>6, <1>7, <1>11, <1>12 DEF days, today, first

\* The times of one month.
LEMMA SameFloor ==
  ASSUME NEW t \in Nat, NEW n \in Nat \ {0}, NEW s \in Nat, Floor(t, n) <= s, s < Floor(t, n) + n
  PROVE  Floor(s, n) = Floor(t, n)
<1> DEFINE p == t \div n
           q == s \div n
<1>1. p \in Nat /\ q \in Nat /\ Floor(t, n) = p * n /\ Floor(s, n) = q * n
  BY FloorFacts DEF Floor
<1>2. q * n <= s /\ s < q * n + n
  BY <1>1, FloorFacts
<1> HIDE DEF p, q
<1>3. p < q => (p + 1) * n <= q * n
  BY <1>1, Ordered
<1>4. q < p => (q + 1) * n <= p * n
  BY <1>1, Ordered
<1>5. (p + 1) * n = p * n + n /\ (q + 1) * n = q * n + n /\ p * n \in Int /\ q * n \in Int
  BY <1>1
<1> QED BY <1>1, <1>2, <1>3, <1>4, <1>5

LEMMA MonthAddsUp ==
  ASSUME monitoring.today \in DayStarts, U!DataEnd \in Int, U!DataEnd <= monitoring.today + UsageDay
  PROVE  LET m == U!Merge(U!Prior, U!Total(U!Today)) IN
         /\ m.count = Cardinality(m.buckets) /\ m.buckets = BucketsOf(U!Days) \cup U!Today
         /\ \A a, b \in m.buckets : U!MonthStart(a) = U!MonthStart(b)
<1> DEFINE today == monitoring.today
           end == U!DataEnd
           n == UsageDay * UsageMonth
           first == Floor(today, n)
           old == BucketsOf(U!Days)
           new == today .. end - 1
<1>1. today \in Nat /\ UsageDay \in Nat \ {0} /\ UsageMonth \in Nat \ {0} /\ end \in Int /\ end <= today + UsageDay
  BY UsageConstants DEF DayStarts
<1>2. n \in Nat \ {0}
  <2>1. 1 * UsageMonth <= UsageDay * UsageMonth
    BY <1>1, Ordered
  <2> QED BY <1>1, <2>1
<1>3. \A t : U!MonthStart(t) = Floor(t, n)
  BY DEF U!MonthStart, Floor
<1>4. U!Prior = Added(U!Days) /\ IsFiniteSet(old) /\ U!Days \subseteq DayStarts
      /\ \A s \in U!Days : first <= s /\ s < today
  BY <1>3, PriorAdds
<1>5. U!Today = new
  BY DEF U!Today
<1>6. first \in Nat /\ first <= today /\ today < first + n
  BY <1>1, <1>2, FloorFacts
\* The month ends with a day.
<1>7. today + UsageDay <= first + n
  <2> DEFINE k == (today \div n) * UsageMonth + UsageMonth
  <2>1. today \div n \in Nat /\ k \in Nat
    <3>1. today \div n \in Nat
      BY <1>1, <1>2, FloorFacts
    <3>2. ASSUME NEW a \in Nat, NEW c \in Nat PROVE a * c + c \in Nat
      OBVIOUS
    <3> QED BY <1>1, <3>1, <3>2
  <2>2. first + n = k * UsageDay
    <3>1. ASSUME NEW a \in Nat, NEW b \in Nat, NEW c \in Nat PROVE a * (b * c) + b * c = (a * c + c) * b
      OBVIOUS
    <3> QED BY <1>1, <2>1, <3>1 DEF Floor
  <2> HIDE DEF k, first
  <2>3. first + n \in DayStarts
    BY <2>1, <2>2 DEF DayStarts
  <2> QED BY <1>6, <2>3, DaysApart
<1>8. \A b \in old : b \in Nat /\ first <= b /\ b < today
  <2> SUFFICES ASSUME NEW s \in U!Days, NEW b \in s .. s + UsageDay - 1
               PROVE  b \in Nat /\ first <= b /\ b < today
    BY DEF BucketsOf
  <2>1. s \in DayStarts /\ s < today /\ first <= s
    BY <1>4
  <2>2. s \in Nat /\ s + UsageDay <= today
    BY <2>1, DaysApart
  <2> HIDE DEF first, today
  <2> QED BY <1>1, <1>6, <2>1, <2>2
<1> HIDE DEF today, end, n, first, old
<1>9. \A b \in old \cup new : b \in Nat /\ first <= b /\ b < first + n
  BY <1>1, <1>2, <1>6, <1>7, <1>8
<1>10. \A b \in old \cup new : Floor(b, n) = first
  <2> SUFFICES ASSUME NEW b \in old \cup new PROVE Floor(b, n) = first
    OBVIOUS
  <2>1. b \in Nat /\ first <= b /\ b < first + n
    BY <1>9
  <2> QED BY <1>1, <1>2, <2>1, SameFloor DEF first
<1>11. IsFiniteSet(new)
  BY <1>1, FS_Interval
<1>12. old \cap new = {}
  BY <1>1, <1>8
<1> HIDE DEF new
<1>13. Cardinality(old \cup new) = Cardinality(old) + Cardinality(new)
  <2>1. Cardinality(old \cap new) = 0
    BY <1>12, FS_EmptySet
  <2>2. Cardinality(old) \in Nat /\ Cardinality(new) \in Nat
    BY <1>4, <1>11, FS_CardinalityType
  <2>3. Cardinality(old \cup new) = Cardinality(old) + Cardinality(new) - Cardinality(old \cap new)
    BY <1>4, <1>11, FS_Union
  <2> QED BY <2>1, <2>2, <2>3
<1>14. U!Merge(U!Prior, U!Total(U!Today)) = [buckets |-> old \cup new, count |-> Cardinality(old) + Cardinality(new)]
  <2>1. U!Prior = [buckets |-> old, count |-> Cardinality(old)]
    BY <1>4 DEF Added, old
  <2>2. U!Total(U!Today) = [buckets |-> new, count |-> Cardinality(new)]
    BY <1>5, UsageConstants DEF U!Total
  <2> QED BY <2>1, <2>2 DEF U!Merge
<1> QED BY <1>3, <1>5, <1>10, <1>13, <1>14 DEF old

\* The hour that t is in, and the one before.
LEMMA HourFacts ==
  ASSUME NEW t \in Int
  PROVE  U!HourStart(t) \in Int /\ U!HourStart(t) <= t /\ t < U!HourStart(t) + HourTicks
         /\ U!HourStart(t) % HourTicks = 0
<1>1. HourTicks \in Nat \ {0}
  BY UsageConstants
<1>2. t \div HourTicks \in Int /\ (t \div HourTicks) * HourTicks <= t /\ t < (t \div HourTicks) * HourTicks + HourTicks
  BY <1>1
<1>3. ASSUME NEW k \in Int PROVE (k * HourTicks) % HourTicks = 0
  BY <1>1
<1> QED BY <1>1, <1>2, <1>3 DEF U!HourStart

\* PeriodsAddUp of one snapshot at time t, the hour by its end.
AddsUp(u, t) ==
  /\ u.dataAt \in Int /\ u.dataAt + Lag <= t
  /\ \E end \in Int :
       /\ u.hour = [buckets |-> end - HourTicks .. end - 1, count |-> HourTicks]
       /\ end % HourTicks = 0 /\ end <= u.dataAt /\ u.dataAt < end + HourTicks
  /\ \A b \in u.today.buckets : b < u.dataAt
  /\ \A m \in u.month :
       /\ m.count = Cardinality(m.buckets) /\ u.today.buckets \subseteq m.buckets
       /\ u.daily # {} => m.buckets = UNION {d.buckets : d \in u.daily}
       /\ \A a, b \in m.buckets : U!MonthStart(a) = U!MonthStart(b)

\* What a round collects is of the window that it began with.
WindowInv ==
  /\ monitoring.safe \in Int /\ monitoring.today \in DayStarts
  /\ monitoring.safe + Lag <= time /\ monitoring.safe <= monitoring.today + UsageDay
  /\ \A d \in U!Served :
       monitoring.answers[d].end \in monitoring.safe - Late .. monitoring.safe

UsageInv ==
  /\ time \in Nat /\ monitoring.pc \in {"idle", "monitor", "build"}
  /\ monitoring = [pc |-> monitoring.pc, safe |-> monitoring.safe, today |-> monitoring.today,
                   todo |-> monitoring.todo, answers |-> monitoring.answers,
                   priorFailed |-> monitoring.priorFailed]
  /\ monitoring.pc # "idle" => WindowInv
  /\ monitoring.pc = "build" => U!Served # {}
  /\ \A u \in usage : AddsUp(u, time)

\* The cut is the oldest of the ends.
LEMMA DataEndIs ==
  ASSUME WindowInv, U!Served # {}
  PROVE  U!DataEnd \in Int /\ U!DataEnd <= monitoring.safe
<1> DEFINE stops == {monitoring.answers[d].end : d \in U!Served}
           low == monitoring.safe - Late
           above == {e - low : e \in stops}
<1>1. low \in Int /\ stops # {} /\ \A e \in stops : e \in Int /\ low <= e /\ e <= monitoring.safe
  BY UsageConstants DEF WindowInv
<1> HIDE DEF stops, low
<1>2. above \in SUBSET Nat /\ above # {}
  BY <1>1
<1>3. PICK n \in above : \A k \in above : n <= k
  BY <1>2, LeastNatural
<1>4. PICK e \in stops : n = e - low
  BY <1>3
<1>5. \A f \in stops : e <= f
  <2> SUFFICES ASSUME NEW f \in stops PROVE e <= f
    OBVIOUS
  <2>1. f - low \in above
    OBVIOUS
  <2>2. e - low <= f - low
    BY <1>3, <1>4, <2>1
  <2> QED BY <1>1, <2>2
<1>6. U!Min(stops) \in stops
  BY <1>5 DEF U!Min
<1>7. U!DataEnd = U!Min(stops)
  BY DEF U!DataEnd, stops
<1> QED BY <1>1, <1>6, <1>7

LEMMA SnapshotAddsUp ==
  ASSUME time \in Nat, WindowInv, U!Served # {}
  PROVE  AddsUp(U!Snapshot, time)
<1> DEFINE u == U!Snapshot
           end == U!HourStart(U!DataEnd)
           whole == U!Merge(U!Prior, U!Total(U!Today))
<1>1. U!DataEnd \in Int /\ U!DataEnd <= monitoring.safe
  BY DataEndIs
<1>2. /\ monitoring.safe \in Int /\ monitoring.today \in DayStarts
      /\ monitoring.safe + Lag <= time /\ monitoring.safe <= monitoring.today + UsageDay
      /\ Lag \in Nat /\ HourTicks \in Nat \ {0} /\ monitoring.today \in Nat /\ UsageDay \in Nat
  BY UsageConstants DEF WindowInv, DayStarts
<1>3. U!DataEnd <= monitoring.today + UsageDay
  BY <1>1, <1>2
<1>4. /\ whole.count = Cardinality(whole.buckets) /\ whole.buckets = BucketsOf(U!Days) \cup U!Today
      /\ \A a, b \in whole.buckets : U!MonthStart(a) = U!MonthStart(b)
  BY <1>1, <1>2, <1>3, MonthAddsUp
<1>5. end \in Int /\ end <= U!DataEnd /\ U!DataEnd < end + HourTicks /\ end % HourTicks = 0
  BY <1>1, HourFacts
<1>6. /\ u.dataAt = U!DataEnd /\ u.hour = U!Total(U!Hour) /\ u.today = U!Total(U!Today)
      /\ u.month \subseteq {whole}
      /\ u.daily # {} => u.daily = {U!Day(start) : start \in U!Days} \cup {U!Total(U!Today)}
  BY DEF U!Snapshot
<1> HIDE DEF u, whole
<1>7. u.hour = [buckets |-> end - HourTicks .. end - 1, count |-> HourTicks]
  <2> HIDE DEF end
  <2> DEFINE low == end - HourTicks
             high == end - 1
  <2>1. low \in Int /\ high \in Int /\ ~(low > high) /\ high - low + 1 = HourTicks
    BY <1>2, <1>5
  <2>2. U!Hour = low .. high
    BY DEF U!Hour, end
  <2> HIDE DEF low, high
  <2>3. Cardinality(low .. high) = HourTicks
    BY <2>1, FS_Interval
  <2>4. u.hour = [buckets |-> low .. high, count |-> HourTicks]
    BY <1>6, <2>2, <2>3, UsageConstants DEF U!Total
  <2> QED BY <2>4 DEF low, high
<1> HIDE DEF end
<1>8. u.today.buckets = U!Today /\ \A b \in U!Today : b < U!DataEnd
  <2>1. u.today.buckets = U!Today
    BY <1>6 DEF U!Total
  <2> QED BY <1>1, <1>2, <2>1 DEF U!Today
<1>9. u.daily # {} => whole.buckets = UNION {d.buckets : d \in u.daily}
  <2> SUFFICES ASSUME u.daily # {} PROVE whole.buckets = UNION {d.buckets : d \in u.daily}
    OBVIOUS
  <2>1. u.daily = {U!Day(start) : start \in U!Days} \cup {U!Total(U!Today)}
    BY <1>6
  <2>2. \A start \in U!Days : U!Day(start).buckets = start .. start + UsageDay - 1
    BY DEF U!Day, U!Total
  <2>3. U!Total(U!Today).buckets = U!Today
    BY DEF U!Total
  <2>4. ASSUME NEW b PROVE b \in UNION {d.buckets : d \in u.daily} <=> b \in BucketsOf(U!Days) \cup U!Today
    BY <2>1, <2>2, <2>3 DEF BucketsOf
  <2> QED BY <1>4, <2>4
<1>10. u.dataAt \in Int /\ u.dataAt + Lag <= time
  BY <1>1, <1>2, <1>6
<1>11. \A m \in u.month :
         /\ m.count = Cardinality(m.buckets) /\ u.today.buckets \subseteq m.buckets
         /\ u.daily # {} => m.buckets = UNION {d.buckets : d \in u.daily}
         /\ \A a, b \in m.buckets : U!MonthStart(a) = U!MonthStart(b)
  BY <1>4, <1>6, <1>8, <1>9
<1>12. AddsUp(u, time)
  BY <1>5, <1>6, <1>7, <1>8, <1>10, <1>11 DEF AddsUp
<1> QED BY <1>12 DEF u

LEMMA UsageInitially == U!Init => UsageInv
<1> SUFFICES ASSUME U!Init PROVE UsageInv
  OBVIOUS
<1>1. UsageDay \in Nat /\ UsageMonth \in Nat
  BY UsageConstants
<1>2. UsageDay * (UsageMonth + 1) \in Int
  BY <1>1
<1>3. time \in UsageDay .. UsageDay * (UsageMonth + 1)
  BY DEF U!Init
<1>4. time \in Nat
  BY <1>1, <1>2, <1>3
<1> QED BY <1>4 DEF U!Init, U!Resting, UsageInv

LEMMA UsageStep == UsageInv /\ [U!Next]_(U!vars) => UsageInv'
<1> SUFFICES ASSUME UsageInv, [U!Next]_(U!vars) PROVE UsageInv'
  OBVIOUS
<1> USE DEF UsageInv
<1>1. CASE U!Tick
  <2>1. time' = time + 1 /\ UNCHANGED <<monitoring, usage>>
    BY <1>1 DEF U!Tick
  <2>2. ASSUME NEW u \in usage PROVE AddsUp(u, time + 1)
    <3>1. AddsUp(u, time) /\ time \in Nat /\ Lag \in Nat
      BY <2>2, UsageConstants
    <3> QED BY <3>1 DEF AddsUp
  <2>3. monitoring.pc # "idle" => WindowInv'
    <3>1. Lag \in Nat /\ time \in Nat
      BY UsageConstants
    <3> QED BY <2>1, <3>1 DEF WindowInv, U!Served
  <2> QED BY <2>1, <2>2, <2>3 DEF U!Served
<1>2. CASE U!Begin
  <2>1. /\ monitoring' = [pc |-> "monitor", safe |-> time - Lag, today |-> U!DayStart(time), todo |-> Domain,
                          answers |-> <<>>, priorFailed |-> {}]
        /\ UNCHANGED <<time, usage>>
    BY <1>2 DEF U!Begin, U!Resting
  <2>2. U!DayStart(time) \in DayStarts /\ time <= U!DayStart(time) + UsageDay
    <3>1. UsageDay \in Nat \ {0} /\ time \in Nat
      BY UsageConstants
    <3>2. time \div UsageDay \in Nat /\ time < Floor(time, UsageDay) + UsageDay /\ Floor(time, UsageDay) \in Nat
      BY <3>1, FloorFacts
    <3>3. U!DayStart(time) = Floor(time, UsageDay) /\ U!DayStart(time) = (time \div UsageDay) * UsageDay
      BY DEF U!DayStart, Floor
    <3> QED BY <3>1, <3>2, <3>3 DEF DayStarts
  <2>3. /\ monitoring'.pc = "monitor" /\ monitoring'.safe = time - Lag /\ monitoring'.today = U!DayStart(time)
        /\ DOMAIN monitoring'.answers = {}
    BY <2>1
  <2>4. WindowInv'
    <3>1. Lag \in Nat /\ time \in Nat /\ UsageDay \in Nat
      BY UsageConstants
    <3>2. U!DayStart(time) \in Nat
      BY <2>2, <3>1 DEF DayStarts
    <3> QED BY <2>1, <2>2, <2>3, <3>1, <3>2 DEF WindowInv, U!Served
  <2> QED BY <2>1, <2>3, <2>4
<1>3. ASSUME NEW d \in Domain, U!Monitored(d) PROVE UsageInv'
  <2>1. PICK end \in (monitoring.safe - Late) .. monitoring.safe :
          monitoring' = [monitoring EXCEPT !.todo = @ \ {d},
                           !.answers = U!With(d, [begin |-> U!QueryStart, end |-> end])]
    BY <1>3 DEF U!Monitored
  <2>2. monitoring.pc = "monitor" /\ UNCHANGED <<time, usage>>
    BY <1>3 DEF U!Monitored
  <2> DEFINE more == U!With(d, [begin |-> U!QueryStart, end |-> end])
  <2>3. /\ DOMAIN more = U!Served \cup {d}
        /\ \A e \in DOMAIN more : more[e].end \in monitoring.safe - Late .. monitoring.safe
    BY <2>2 DEF U!With, U!Served, WindowInv
  <2> HIDE DEF more
  <2>4. /\ monitoring'.pc = "monitor" /\ monitoring'.safe = monitoring.safe /\ monitoring'.today = monitoring.today
        /\ monitoring'.answers = more
        /\ monitoring' = [pc |-> monitoring'.pc, safe |-> monitoring'.safe, today |-> monitoring'.today,
                   todo |-> monitoring'.todo, answers |-> monitoring'.answers,
                   priorFailed |-> monitoring'.priorFailed]
    BY <2>1, <2>2 DEF more
  <2>5. WindowInv'
    BY <2>2, <2>3, <2>4 DEF WindowInv, U!Served
  <2> QED BY <2>2, <2>4, <2>5
<1>4. ASSUME NEW d \in Domain, U!MonitorFails(d) PROVE UsageInv'
  <2>1. monitoring' = [monitoring EXCEPT !.todo = @ \ {d}] /\ monitoring.pc = "monitor" /\ UNCHANGED <<time, usage>>
    BY <1>4 DEF U!MonitorFails
  <2>2. /\ monitoring'.pc = "monitor" /\ monitoring'.safe = monitoring.safe /\ monitoring'.today = monitoring.today
        /\ monitoring'.answers = monitoring.answers
        /\ monitoring' = [pc |-> monitoring'.pc, safe |-> monitoring'.safe, today |-> monitoring'.today,
                   todo |-> monitoring'.todo, answers |-> monitoring'.answers,
                   priorFailed |-> monitoring'.priorFailed]
    BY <2>1
  <2>3. WindowInv'
    BY <2>1, <2>2 DEF WindowInv, U!Served
  <2> QED BY <2>1, <2>2, <2>3
<1>5. CASE U!Meter
  <2>1. monitoring.pc = "monitor" /\ UNCHANGED <<time, usage>>
    BY <1>5 DEF U!Meter
  <2>2. CASE U!Served = {}
    BY <1>5, <2>1, <2>2 DEF U!Meter, U!Resting
  <2>3. CASE U!Served # {}
    <3>1. PICK lost \in SUBSET (IF U!PriorMonth = {} THEN {} ELSE U!Served) :
            monitoring' = [monitoring EXCEPT !.pc = "build", !.priorFailed = lost]
      BY <1>5, <2>3 DEF U!Meter
    <3>2. /\ monitoring'.pc = "build" /\ monitoring'.safe = monitoring.safe /\ monitoring'.today = monitoring.today
          /\ monitoring'.answers = monitoring.answers
          /\ monitoring' = [pc |-> monitoring'.pc, safe |-> monitoring'.safe, today |-> monitoring'.today,
                   todo |-> monitoring'.todo, answers |-> monitoring'.answers,
                   priorFailed |-> monitoring'.priorFailed]
      BY <3>1
    <3>3. WindowInv'
      BY <2>1, <3>2 DEF WindowInv, U!Served
    <3> QED BY <2>1, <2>3, <3>2, <3>3 DEF U!Served
  <2> QED BY <2>2, <2>3
<1>6. CASE U!Publish
  <2>1. monitoring.pc = "build" /\ monitoring' = U!Resting /\ time' = time /\ usage' \in {usage, {U!Snapshot}}
    BY <1>6 DEF U!Publish
  <2>2. AddsUp(U!Snapshot, time)
    BY <2>1, SnapshotAddsUp
  <2>3. \A u \in usage' : AddsUp(u, time)
    BY <2>1, <2>2
  <2> QED BY <2>1, <2>3 DEF U!Resting
<1>7. CASE UNCHANGED U!vars
  BY <1>7 DEF U!vars, WindowInv, U!Served
<1> QED BY <1>1, <1>2, <1>3, <1>4, <1>5, <1>6, <1>7 DEF U!Next

\* The hour is the newest whole one that every answer has to its end, and the month is what its
\* days add up to, today among them, without a bucket twice: for any lengths of hours, days and
\* months, however far the answers are behind and whichever domains fail.
THEOREM TotalsAddUp == U!Init /\ [][U!Next]_(U!vars) => []PeriodsAddUp
<1>1. ASSUME UsageInv PROVE PeriodsAddUp
  <2> SUFFICES ASSUME NEW u \in usage
               PROVE  LET end == U!Max(u.hour.buckets) + 1
                      IN /\ end % HourTicks = 0 /\ end <= u.dataAt /\ u.dataAt < end + HourTicks
                         /\ u.hour.buckets = end - HourTicks .. end - 1 /\ u.hour.count = HourTicks
                         /\ u.dataAt + Lag <= time /\ \A b \in u.today.buckets : b < u.dataAt
                         /\ \A m \in u.month :
                              /\ m.count = U!Cardinality(m.buckets) /\ u.today.buckets \subseteq m.buckets
                              /\ u.daily # {} => m.buckets = UNION {d.buckets : d \in u.daily}
                              /\ \A a, b \in m.buckets : U!MonthStart(a) = U!MonthStart(b)
    BY DEF PeriodsAddUp, U!PeriodsAddUp
  <2>1. AddsUp(u, time)
    BY <1>1 DEF UsageInv
  <2>2. PICK end \in Int :
          /\ u.hour = [buckets |-> end - HourTicks .. end - 1, count |-> HourTicks]
          /\ end % HourTicks = 0 /\ end <= u.dataAt /\ u.dataAt < end + HourTicks
    BY <2>1 DEF AddsUp
  <2>3. HourTicks \in Nat \ {0} /\ \A S : U!Cardinality(S) = Cardinality(S)
    BY UsageConstants
  <2>4. U!Max(u.hour.buckets) + 1 = end
    <3> DEFINE buckets == end - HourTicks .. end - 1
    <3>1. buckets \in SUBSET Int /\ end - 1 \in buckets /\ \A y \in buckets : y <= end - 1
      BY <2>3
    <3>2. Max(buckets) = end - 1
      BY <3>1, MaxIs
    <3>3. U!Max(u.hour.buckets) = Max(buckets)
      BY <2>2 DEF U!Max, Max
    <3> QED BY <3>2, <3>3
  <2>5. u.hour.buckets = end - HourTicks .. end - 1 /\ u.hour.count = HourTicks
    BY <2>2
  <2> QED BY <2>1, <2>2, <2>3, <2>4, <2>5 DEF AddsUp
<1> QED BY <1>1, UsageInitially, UsageStep, PTL
-----------------------------------------------------------------------------
(* Sums over finite sets, in the order in which the folds take their members *)

\* Of sets of subsets of a finite one, some are smallest.
LEMMA LeastSet ==
  ASSUME NEW S, IsFiniteSet(S), NEW B \in SUBSET (SUBSET S), B # {}
  PROVE  \E b \in B : \A c \in SUBSET b : c # b => c \notin B
<1>1. B \subseteq FiniteSubsetsOf(S)
  BY FS_FiniteSubsetsOfFinite
<1>2. \E b \in B : \A c \in B : ~ (<<c, b>> \in StrictSubsetOrdering(S))
  BY <1>1, FS_StrictSubsetOrderingWellFounded, WFMin
<1>3. PICK b \in B : \A c \in B : ~ (<<c, b>> \in StrictSubsetOrdering(S))
  BY <1>2
<1>4. ASSUME NEW c \in SUBSET b, c # b, c \in B PROVE FALSE
  <2> DEFINE pair == <<c, b>>
  <2>1. pair \in (SUBSET S) \X (SUBSET S) /\ pair[1] = c /\ pair[2] = b
    BY <1>4
  <2> HIDE DEF pair
  <2>2. pair \in StrictSubsetOrdering(S)
    BY <1>4, <2>1 DEF StrictSubsetOrdering
  <2> QED BY <1>3, <1>4, <2>2 DEF pair
<1> QED BY <1>4

First(s) == CHOOSE x \in s : TRUE

LEMMA FirstIn == ASSUME NEW s, s # {} PROVE First(s) \in s
BY DEF First

\* The function that a fold of f from b on defines by recursion.
IsSigma(g, f, S, b) ==
  g = [s \in SUBSET S |-> IF s = {} THEN b ELSE g[s \ {First(s)}] + f[First(s)]]

Sigma(f, S, b) == (CHOOSE g : IsSigma(g, f, S, b))[S]

LEMMA FoldsAgree ==
  ASSUME NEW S, IsFiniteSet(S), NEW Y, NEW B, S \subseteq Y, S \subseteq B, NEW b, NEW f, NEW h,
         \A x \in S : f[x] = h[x], NEW g, IsSigma(g, f, Y, b), NEW k, IsSigma(k, h, B, b)
  PROVE  g[S] = k[S]
<1> DEFINE Bad == {W \in SUBSET S : g[W] # k[W]}
<1>1. ASSUME Bad # {} PROVE FALSE
  <2>1. PICK W \in Bad : \A c \in SUBSET W : c # W => c \notin Bad
    <3>1. Bad \in SUBSET (SUBSET S)
      OBVIOUS
    <3> HIDE DEF Bad
    <3> QED BY <1>1, <3>1, LeastSet
  <2>2. W \in SUBSET Y /\ W \in SUBSET B /\ W \in SUBSET S
    BY <2>1
  <2>3. /\ g[W] = IF W = {} THEN b ELSE g[W \ {First(W)}] + f[First(W)]
        /\ k[W] = IF W = {} THEN b ELSE k[W \ {First(W)}] + h[First(W)]
    BY <2>2 DEF IsSigma
  <2>4. W # {}
    BY <2>1, <2>3
  <2>5. First(W) \in W
    BY <2>4, FirstIn
  <2>6. W \ {First(W)} \notin Bad
    BY <2>1, <2>5
  <2>7. g[W \ {First(W)}] = k[W \ {First(W)}] /\ f[First(W)] = h[First(W)]
    BY <2>2, <2>5, <2>6
  <2> QED BY <2>1, <2>3, <2>4, <2>7
<1>2. S \notin Bad
  BY <1>1
<1> QED BY <1>2

\* There is one for every finite set: it is made of those of the sets that are smaller.
LEMMA SigmaExists ==
  ASSUME NEW S, IsFiniteSet(S), NEW f, NEW b
  PROVE  \E g : IsSigma(g, f, S, b)
<1> DEFINE Bad == {W \in SUBSET S : ~\E g : IsSigma(g, f, W, b)}
<1>1. ASSUME Bad # {} PROVE FALSE
  <2>1. PICK W \in Bad : \A c \in SUBSET W : c # W => c \notin Bad
    <3>1. Bad \in SUBSET (SUBSET S)
      OBVIOUS
    <3> HIDE DEF Bad
    <3> QED BY <1>1, <3>1, LeastSet
  <2>2. W \in SUBSET S /\ IsFiniteSet(W)
    BY <2>1, FS_Subset
  <2> DEFINE Of(s) == IF s = {} THEN b ELSE Sigma(f, s \ {First(s)}, b) + f[First(s)]
             g == [s \in SUBSET W |-> Of(s)]
  <2>3. ASSUME NEW s \in SUBSET W, s # W PROVE Sigma(f, s, b) = Of(s)
    <3> DEFINE G(u) == CHOOSE k : IsSigma(k, f, u, b)
    <3>1. \A u \in SUBSET W : u # W => IsSigma(G(u), f, u, b)
      BY <2>1, <2>2
    <3>2. IsSigma(G(s), f, s, b) /\ Sigma(f, s, b) = G(s)[s]
      BY <2>3, <3>1 DEF Sigma
    <3> HIDE DEF G
    <3>3. G(s)[s] = IF s = {} THEN b ELSE G(s)[s \ {First(s)}] + f[First(s)]
      BY <3>2 DEF IsSigma
    <3>4. ASSUME s # {} PROVE G(s)[s \ {First(s)}] = Sigma(f, s \ {First(s)}, b)
      <4> DEFINE u == s \ {First(s)}
      <4>1. u \in SUBSET W /\ u # W /\ u \subseteq s
        BY <3>4, FirstIn
      <4>2. IsSigma(G(u), f, u, b) /\ IsFiniteSet(u) /\ Sigma(f, u, b) = G(u)[u]
        BY <2>2, <3>1, <4>1, FS_Subset DEF Sigma, G
      <4> HIDE DEF u
      <4>3. G(s)[u] = G(u)[u]
        BY <3>2, <4>1, <4>2, FoldsAgree
      <4> QED BY <4>2, <4>3 DEF u
    <3> QED BY <3>2, <3>3, <3>4
  <2> HIDE DEF Of
  <2>4. ASSUME NEW s \in SUBSET W, s # {} PROVE g[s \ {First(s)}] = Sigma(f, s \ {First(s)}, b)
    <3> DEFINE u == s \ {First(s)}
    <3>1. u \in SUBSET W /\ u # W
      BY <2>4, FirstIn
    <3> HIDE DEF u
    <3>2. g[u] = Sigma(f, u, b)
      BY <2>3, <3>1
    <3> QED BY <3>2 DEF u
  <2>5. \A s \in SUBSET W : Of(s) = IF s = {} THEN b ELSE g[s \ {First(s)}] + f[First(s)]
    BY <2>4 DEF Of
  <2>6. IsSigma(g, f, W, b)
    BY <2>5 DEF IsSigma
  <2> QED BY <2>1, <2>6
<1>2. S \notin Bad
  BY <1>1
<1> QED BY <1>2

LEMMA SigmaStep ==
  ASSUME NEW S, IsFiniteSet(S), NEW f, NEW b
  PROVE  /\ Sigma(f, {}, b) = b
         /\ S # {} => Sigma(f, S, b) = Sigma(f, S \ {First(S)}, b) + f[First(S)]
<1> DEFINE G(u) == CHOOSE k : IsSigma(k, f, u, b)
<1>1. \A u : IsFiniteSet(u) => IsSigma(G(u), f, u, b) /\ Sigma(f, u, b) = G(u)[u]
  BY SigmaExists DEF Sigma
<1> HIDE DEF G
<1>2. Sigma(f, {}, b) = b
  BY <1>1, FS_EmptySet DEF IsSigma
<1>3. ASSUME S # {} PROVE Sigma(f, S, b) = Sigma(f, S \ {First(S)}, b) + f[First(S)]
  <2> DEFINE u == S \ {First(S)}
  <2>1. IsFiniteSet(u) /\ u \subseteq S
    BY FS_Subset
  <2>2. IsSigma(G(S), f, S, b) /\ IsSigma(G(u), f, u, b)
    BY <1>1, <2>1
  <2>3. G(S)[u] = G(u)[u]
    BY <2>1, <2>2, FoldsAgree
  <2>4. G(S)[S] = G(S)[u] + f[First(S)]
    BY <1>3, <2>2 DEF IsSigma
  <2> QED BY <1>1, <2>1, <2>3, <2>4
<1> QED BY <1>2, <1>3

\* What f says of the members of S are numbers.
Ints(f, S) == \A x \in S : f[x] \in Int

\* What g says of a set is what it says of the others and f of its first member.
Recursion(g, f, S, b) ==
  /\ g[{}] = b
  /\ \A s \in SUBSET S : s # {} /\ g[s \ {First(s)}] \in Int => g[s] = g[s \ {First(s)}] + f[First(s)]

\* The order does not matter.
LEMMA SigmaRemove ==
  ASSUME NEW S, IsFiniteSet(S), NEW f, Ints(f, S), NEW b \in Int
  PROVE  /\ Sigma(f, S, b) \in Int
         /\ \A x \in S : Sigma(f, S, b) = Sigma(f, S \ {x}, b) + f[x] /\ Sigma(f, S \ {x}, b) \in Int
<1> DEFINE Good(W) == /\ Sigma(f, W, b) \in Int
                      /\ \A x \in W : Sigma(f, W, b) = Sigma(f, W \ {x}, b) + f[x] /\ Sigma(f, W \ {x}, b) \in Int
           Bad == {W \in SUBSET S : ~Good(W)}
<1>1. ASSUME Bad # {} PROVE FALSE
  <2>1. PICK W \in Bad : \A c \in SUBSET W : c # W => c \notin Bad
    <3>1. Bad \in SUBSET (SUBSET S)
      OBVIOUS
    <3> HIDE DEF Bad
    <3> QED BY <1>1, <3>1, LeastSet
  <2>2. W \in SUBSET S /\ IsFiniteSet(W) /\ Ints(f, W)
    BY <2>1, FS_Subset DEF Ints
  <2>3. ASSUME NEW x \in W PROVE Good(W \ {x}) /\ IsFiniteSet(W \ {x})
    <3>1. W \ {x} \in SUBSET W /\ W \ {x} # W /\ W \ {x} \in SUBSET S
      BY <2>2
    <3> QED BY <2>1, <2>2, <3>1, FS_Subset
  <2> DEFINE c == First(W)
  <2>4. CASE W = {}
    <3>1. Good(W)
      BY <2>4, SigmaStep, FS_EmptySet
    <3> QED BY <2>1, <3>1
  <2>5. CASE W # {}
    <3>1. c \in W
      BY <2>5, FirstIn
    <3>2. Sigma(f, W, b) = Sigma(f, W \ {c}, b) + f[c]
      BY <2>2, <2>5, SigmaStep
    <3> HIDE DEF c
    <3>3. Sigma(f, W \ {c}, b) \in Int /\ f[c] \in Int
      BY <2>2, <2>3, <3>1 DEF Ints
    <3>4. ASSUME NEW x \in W PROVE Sigma(f, W, b) = Sigma(f, W \ {x}, b) + f[x] /\ Sigma(f, W \ {x}, b) \in Int
      <4>1. CASE x = c
        BY <3>2, <3>3, <4>1
      <4>2. CASE x # c
        <5>1. x \in W \ {c} /\ c \in W \ {x} /\ (W \ {c}) \ {x} = (W \ {x}) \ {c}
          BY <3>1, <4>2
        <5>2. /\ Sigma(f, W \ {c}, b) = Sigma(f, (W \ {c}) \ {x}, b) + f[x]
              /\ Sigma(f, (W \ {c}) \ {x}, b) \in Int
          BY <2>3, <3>1, <5>1
        <5>3. /\ Sigma(f, W \ {x}, b) = Sigma(f, (W \ {x}) \ {c}, b) + f[c]
              /\ Sigma(f, W \ {x}, b) \in Int
          BY <2>3, <5>1
        <5>4. f[x] \in Int
          BY <2>2 DEF Ints
        <5> DEFINE u == Sigma(f, (W \ {c}) \ {x}, b)
        <5>5. Sigma(f, (W \ {x}) \ {c}, b) = u /\ u \in Int
          BY <5>1, <5>2
        <5> HIDE DEF u
        <5>6. Sigma(f, W \ {c}, b) = u + f[x] /\ Sigma(f, W \ {x}, b) = u + f[c]
          BY <5>2, <5>3, <5>5 DEF u
        <5> QED BY <3>2, <3>3, <5>3, <5>4, <5>5, <5>6
      <4> QED BY <4>1, <4>2
    <3>5. Sigma(f, W, b) \in Int
      BY <3>2, <3>3
    <3>6. Good(W)
      BY <3>4, <3>5
    <3> QED BY <2>1, <3>6
  <2> QED BY <2>4, <2>5
<1>2. S \notin Bad
  BY <1>1
<1> QED BY <1>2

LEMMA SigmaZero ==
  ASSUME NEW S, IsFiniteSet(S), NEW f, Ints(f, S)
  PROVE  /\ Sigma(f, {}, 0) = 0 /\ Sigma(f, S, 0) \in Int
         /\ \A x \in S : Sigma(f, S, 0) = Sigma(f, S \ {x}, 0) + f[x] /\ Sigma(f, S \ {x}, 0) \in Int
<1>1. PICK b \in Int : b = 0
  OBVIOUS
<1>2. /\ Sigma(f, S, b) \in Int
      /\ \A x \in S : Sigma(f, S, b) = Sigma(f, S \ {x}, b) + f[x] /\ Sigma(f, S \ {x}, b) \in Int
  BY SigmaRemove
<1>3. Sigma(f, {}, b) = b
  BY SigmaStep
<1> QED BY <1>1, <1>2, <1>3

\* Whatever obeys the recursion, where numbers are added, is the sum.
LEMMA SigmaUnique ==
  ASSUME NEW S, IsFiniteSet(S), NEW f, Ints(f, S), NEW b \in Int, NEW g, Recursion(g, f, S, b)
  PROVE  g[S] = Sigma(f, S, b)
<1> DEFINE Bad == {W \in SUBSET S : g[W] # Sigma(f, W, b)}
<1>1. ASSUME Bad # {} PROVE FALSE
  <2>1. PICK W \in Bad : \A c \in SUBSET W : c # W => c \notin Bad
    <3>1. Bad \in SUBSET (SUBSET S)
      OBVIOUS
    <3> HIDE DEF Bad
    <3> QED BY <1>1, <3>1, LeastSet
  <2>2. W \in SUBSET S /\ IsFiniteSet(W) /\ Ints(f, W)
    BY <2>1, FS_Subset DEF Ints
  <2>3. W # {}
    <3>1. Sigma(f, {}, b) = g[{}]
      BY SigmaStep DEF Recursion
    <3> QED BY <2>1, <3>1
  <2> DEFINE c == First(W)
  <2>4. c \in W
    BY <2>3, FirstIn
  <2>5. Sigma(f, W, b) = Sigma(f, W \ {c}, b) + f[c]
    BY <2>2, <2>3, SigmaStep
  <2>6. Sigma(f, W \ {c}, b) \in Int
    BY <2>2, <2>4, SigmaRemove
  <2>7. W \ {c} \notin Bad /\ W \ {c} \in SUBSET S
    BY <2>1, <2>2, <2>4
  <2>8. g[W \ {c}] = Sigma(f, W \ {c}, b)
    BY <2>7
  <2>9. g[W] = g[W \ {c}] + f[c]
    BY <2>2, <2>3, <2>6, <2>8 DEF Recursion
  <2> QED BY <2>1, <2>5, <2>8, <2>9
<1>2. S \notin Bad
  BY <1>1
<1> QED BY <1>2

LEMMA SigmaBase ==
  ASSUME NEW S, IsFiniteSet(S), NEW f, Ints(f, S), NEW b \in Int
  PROVE  Sigma(f, S, b) = b + Sigma(f, S, 0)
<1> DEFINE g == [s \in SUBSET S |-> b + Sigma(f, s, 0)]
<1>1. g[{}] = b
  <2>1. Sigma(f, {}, 0) = 0
    BY SigmaZero
  <2> QED BY <2>1
<1>2. ASSUME NEW s \in SUBSET S, s # {} PROVE g[s] = g[s \ {First(s)}] + f[First(s)]
  <2>1. IsFiniteSet(s) /\ Ints(f, s) /\ First(s) \in s
    BY <1>2, FS_Subset, FirstIn DEF Ints
  <2>2. /\ Sigma(f, s, 0) = Sigma(f, s \ {First(s)}, 0) + f[First(s)]
        /\ Sigma(f, s \ {First(s)}, 0) \in Int /\ f[First(s)] \in Int
    BY <2>1, SigmaZero DEF Ints
  <2>3. g[s] = b + Sigma(f, s, 0) /\ g[s \ {First(s)}] = b + Sigma(f, s \ {First(s)}, 0)
    OBVIOUS
  <2> HIDE DEF g
  <2> QED BY <2>2, <2>3
<1>3. g[S] = b + Sigma(f, S, 0)
  OBVIOUS
<1> HIDE DEF g
<1>4. Recursion(g, f, S, b)
  BY <1>1, <1>2 DEF Recursion
<1>5. g[S] = Sigma(f, S, b)
  BY <1>4, SigmaUnique
<1> QED BY <1>3, <1>5

LEMMA SigmaFromZero ==
  ASSUME NEW S, IsFiniteSet(S), NEW f, Ints(f, S), NEW g, Recursion(g, f, S, 0)
  PROVE  g[S] = Sigma(f, S, 0)
<1>1. PICK b \in Int : b = 0
  OBVIOUS
<1>2. Recursion(g, f, S, b)
  BY <1>1 DEF Recursion
<1>3. g[S] = Sigma(f, S, b)
  BY <1>2, SigmaUnique
<1> QED BY <1>1, <1>3

\* The function that the map-and-sum of the entries defines by recursion.
IsMapSum(g, from, S) ==
  g = [s \in SUBSET S |-> IF s = {} THEN 0 ELSE from[First(s)[1]][First(s)[2]] + g[s \ {First(s)}]]

LEMMA MapSumIs ==
  ASSUME NEW from, NEW S
  PROVE  T!MapThenSumSet(LAMBDA e : from[e[1]][e[2]], S) = (CHOOSE g : IsMapSum(g, from, S))[S]
BY DEF T!MapThenSumSet, T!MapThenFoldSet, IsMapSum, First

\* As a map and a sum of f has it: the sum of the others on the right.
IsFlipped(g, f, S) ==
  g = [s \in SUBSET S |-> IF s = {} THEN 0 ELSE f[First(s)] + g[s \ {First(s)}]]

LEMMA FlippedIsSigma ==
  ASSUME NEW S, IsFiniteSet(S), NEW f, Ints(f, S)
  PROVE  (CHOOSE g : IsFlipped(g, f, S))[S] = Sigma(f, S, 0)
<1> DEFINE h == [s \in SUBSET S |-> Sigma(f, s, 0)]
           g == CHOOSE k : IsFlipped(k, f, S)
<1> HIDE DEF g
<1>2. ASSUME NEW s \in SUBSET S, s # {}
      PROVE  h[s] = f[First(s)] + h[s \ {First(s)}]
  <2>1. IsFiniteSet(s) /\ Ints(f, s) /\ First(s) \in s
    BY <1>2, FS_Subset, FirstIn DEF Ints
  <2>2. /\ Sigma(f, s, 0) = Sigma(f, s \ {First(s)}, 0) + f[First(s)]
        /\ Sigma(f, s \ {First(s)}, 0) \in Int /\ f[First(s)] \in Int
    BY <2>1, SigmaZero DEF Ints
  <2>3. h[s] = Sigma(f, s, 0) /\ h[s \ {First(s)}] = Sigma(f, s \ {First(s)}, 0)
    OBVIOUS
  <2> HIDE DEF h
  <2> QED BY <2>2, <2>3
<1>3. h[{}] = 0
  <2>1. Sigma(f, {}, 0) = 0
    BY SigmaZero
  <2> QED BY <2>1
<1>4. IsFlipped(h, f, S)
  <2>1. h = [s \in SUBSET S |-> h[s]]
    OBVIOUS
  <2> HIDE DEF h
  <2>2. \A s \in SUBSET S : h[s] = IF s = {} THEN 0 ELSE f[First(s)] + h[s \ {First(s)}]
    BY <1>2, <1>3
  <2> QED BY <2>1, <2>2 DEF IsFlipped
<1>5. IsFlipped(g, f, S)
  BY <1>4 DEF g
<1> HIDE DEF h
<1>6. g[{}] = 0
  BY <1>5 DEF IsFlipped
<1>7. ASSUME NEW s \in SUBSET S, s # {}, g[s \ {First(s)}] \in Int
      PROVE  g[s] = g[s \ {First(s)}] + f[First(s)]
  <2>1. f[First(s)] \in Int
    BY <1>7, FirstIn DEF Ints
  <2>2. g[s] = f[First(s)] + g[s \ {First(s)}]
    BY <1>5, <1>7 DEF IsFlipped
  <2> QED BY <1>7, <2>1, <2>2
<1>8. Recursion(g, f, S, 0)
  BY <1>6, <1>7 DEF Recursion
<1>9. g[S] = Sigma(f, S, 0)
  BY <1>8, SigmaFromZero
<1> QED BY <1>9 DEF g

LEMMA MapSumIsSigma ==
  ASSUME NEW from, NEW S, IsFiniteSet(S), \A e \in S : from[e[1]][e[2]] \in Int
  PROVE  T!MapThenSumSet(LAMBDA e : from[e[1]][e[2]], S) = Sigma([e \in S |-> from[e[1]][e[2]]], S, 0)
<1> DEFINE f == [e \in S |-> from[e[1]][e[2]]]
<1>1. ASSUME NEW g PROVE IsMapSum(g, from, S) = IsFlipped(g, f, S)
  <2>1. ASSUME NEW s \in SUBSET S, s # {} PROVE f[First(s)] = from[First(s)[1]][First(s)[2]]
    <3>1. First(s) \in S
      BY <2>1, FirstIn
    <3> QED BY <3>1
  <2> HIDE DEF f
  <2>2. [s \in SUBSET S |-> IF s = {} THEN 0 ELSE from[First(s)[1]][First(s)[2]] + g[s \ {First(s)}]]
          = [s \in SUBSET S |-> IF s = {} THEN 0 ELSE f[First(s)] + g[s \ {First(s)}]]
    BY <2>1
  <2> QED BY <2>2 DEF IsMapSum, IsFlipped
<1>2. Ints(f, S)
  BY DEF Ints
<1> HIDE DEF f
<1>3. (CHOOSE g : IsMapSum(g, from, S)) = CHOOSE g : IsFlipped(g, f, S)
  BY <1>1
<1>4. (CHOOSE g : IsFlipped(g, f, S))[S] = Sigma(f, S, 0)
  BY <1>2, FlippedIsSigma
<1>5. T!MapThenSumSet(LAMBDA e : from[e[1]][e[2]], S) = (CHOOSE g : IsMapSum(g, from, S))[S]
  BY MapSumIs
<1>6. T!MapThenSumSet(LAMBDA e : from[e[1]][e[2]], S) = Sigma(f, S, 0)
  BY <1>3, <1>4, <1>5
<1> QED BY <1>6 DEF f

\* What an answer calls one address.
Spelled(values, ip) == {s \in DOMAIN values : Parse[s] = ip}

\* The function that the fold of the answers defines by recursion.
IsTotal(g, as, ip) ==
  g = [K \in SUBSET (DOMAIN as) |->
         IF K = {} THEN 0
         ELSE Sigma(as[First(K)], Spelled(as[First(K)], ip), g[K \ {First(K)}])]

LEMMA TotalIs ==
  ASSUME NEW as, NEW ip
  PROVE  T!Total(as, ip) = (CHOOSE g : IsTotal(g, as, ip))[DOMAIN as]
BY DEF T!Total, T!FoldSeq, T!FoldFunction, T!FoldFunctionOnSet, T!FoldSet, T!MapThenFoldSet, First, Spelled,
       IsTotal, Sigma, IsSigma

\* What f says of the entries of answer i, of which Y has none, is what v says of S.
Apart(Y, S, i, f, v) == \A s \in S : <<i, s>> \notin Y /\ f[<<i, s>>] = v[s]

\* Of entries, what answer i says of an address is a sum of its own.
LEMMA AnswerAdds ==
  ASSUME NEW Y, IsFiniteSet(Y), NEW S, IsFiniteSet(S), NEW i, NEW f, NEW v, Ints(f, Y), Ints(v, S), Apart(Y, S, i, f, v)
  PROVE  /\ Sigma(f, Y \cup ({i} \X S), 0) = Sigma(f, Y, 0) + Sigma(v, S, 0)
         /\ Sigma(f, Y, 0) \in Int /\ Sigma(v, S, 0) \in Int
<1> DEFINE With(u) == Y \cup ({i} \X u)
           g == [u \in SUBSET S |-> Sigma(f, With(u), 0)]
<1>1. PICK b \in Int : b = Sigma(f, Y, 0)
  BY SigmaZero
<1>2. Sigma(v, S, 0) \in Int
  BY SigmaZero
<1>3. ASSUME NEW u \in SUBSET S
      PROVE  /\ IsFiniteSet(With(u)) /\ Ints(f, With(u))
             /\ \A c \in u : <<i, c>> \in With(u) /\ With(u) \ {<<i, c>>} = With(u \ {c})
  <2>1. IsFiniteSet({i} \X u)
    BY FS_Subset, FS_Singleton, FS_Product
  <2>2. IsFiniteSet(With(u))
    BY <2>1, FS_Union
  <2>3. Ints(f, With(u))
    BY DEF Ints, Apart
  <2>4. ASSUME NEW c \in u PROVE <<i, c>> \in With(u) /\ With(u) \ {<<i, c>>} = With(u \ {c})
    <3>1. <<i, c>> \notin Y
      BY DEF Apart
    <3>2. ({i} \X u) \ {<<i, c>>} = {i} \X (u \ {c})
      OBVIOUS
    <3> QED BY <3>1, <3>2
  <2> QED BY <2>2, <2>3, <2>4
<1>4. With({}) = Y
  OBVIOUS
<1> HIDE DEF With
<1>5. g[{}] = b
  BY <1>1, <1>4
<1>6. ASSUME NEW u \in SUBSET S, u # {} PROVE g[u] = g[u \ {First(u)}] + v[First(u)]
  <2> DEFINE c == First(u)
  <2>1. c \in u
    BY <1>6, FirstIn
  <2> HIDE DEF c
  <2>2. <<i, c>> \in With(u) /\ With(u) \ {<<i, c>>} = With(u \ {c}) /\ f[<<i, c>>] = v[c]
    BY <1>3, <2>1 DEF Apart
  <2>3. Sigma(f, With(u), 0) = Sigma(f, With(u) \ {<<i, c>>}, 0) + f[<<i, c>>]
    <3>1. IsFiniteSet(With(u)) /\ Ints(f, With(u))
      BY <1>3
    <3> QED BY <2>2, <3>1, SigmaZero
  <2>4. g[u] = Sigma(f, With(u), 0) /\ g[u \ {c}] = Sigma(f, With(u \ {c}), 0)
    OBVIOUS
  <2> HIDE DEF g
  <2> QED BY <2>2, <2>3, <2>4 DEF c
<1>7. g[S] = Sigma(f, With(S), 0)
  OBVIOUS
<1> HIDE DEF g
<1>8. g[S] = Sigma(v, S, b)
  <2>1. Recursion(g, v, S, b)
    BY <1>5, <1>6 DEF Recursion
  <2> QED BY <2>1, SigmaUnique
<1>9. Sigma(v, S, b) = b + Sigma(v, S, 0)
  BY SigmaBase
<1> QED BY <1>1, <1>2, <1>7, <1>8, <1>9 DEF With

\* The entries of the answers K that name one address.
Entries(as, K, ip) == UNION {{i} \X Spelled(as[i], ip) : i \in K}

\* The answers of a round.
AnswersOf(as) ==
  /\ IsFiniteSet(DOMAIN as)
  /\ \A i \in DOMAIN as : IsFiniteSet(DOMAIN as[i]) /\ Ints(as[i], DOMAIN as[i])

LEMMA TotalRecursion ==
  ASSUME NEW as, AnswersOf(as), NEW ip, NEW K \in SUBSET (DOMAIN as), K # {}
  PROVE  LET f == [e \in Entries(as, DOMAIN as, ip) |-> as[e[1]][e[2]]]
             c == First(K)
         IN  /\ Sigma(f, Entries(as, K, ip), 0)
                  = Sigma(f, Entries(as, K \ {c}, ip), 0) + Sigma(as[c], Spelled(as[c], ip), 0)
             /\ Sigma(f, Entries(as, K \ {c}, ip), 0) \in Int
<1> DEFINE f == [e \in Entries(as, DOMAIN as, ip) |-> as[e[1]][e[2]]]
           c == First(K)
           Y == Entries(as, K \ {c}, ip)
           S == Spelled(as[c], ip)
           v == as[c]
<1>1. c \in K /\ c \in DOMAIN as
  BY FirstIn
<1> HIDE DEF c
<1>2. \A i \in DOMAIN as : IsFiniteSet(Spelled(as[i], ip)) /\ Ints(as[i], Spelled(as[i], ip))
  BY FS_Subset DEF AnswersOf, Spelled, Ints
<1>3. IsFiniteSet(Y)
  <2> DEFINE parts == {{i} \X Spelled(as[i], ip) : i \in K \ {c}}
             pairs == [i \in K \ {c} |-> {i} \X Spelled(as[i], ip)]
  <2>1. \A i \in K \ {c} : IsFiniteSet({i} \X Spelled(as[i], ip))
    BY <1>2, FS_Singleton, FS_Product
  <2>2. IsFiniteSet(K \ {c})
    BY FS_Subset DEF AnswersOf
  <2>3. IsFiniteSet(parts)
    <3>1. pairs \in Surjection(K \ {c}, parts)
      BY DEF Surjection
    <3> QED BY <2>2, <3>1, FS_Surjection
  <2> QED BY <2>1, <2>3, FS_UNION DEF Entries
<1>4. Ints(f, Y)
  <2> SUFFICES ASSUME NEW e \in Y PROVE f[e] \in Int
    BY DEF Ints
  <2>1. PICK i \in K \ {c} : e \in {i} \X Spelled(as[i], ip)
    BY DEF Entries
  <2>2. e[1] = i /\ e[2] \in Spelled(as[i], ip) /\ e \in Entries(as, DOMAIN as, ip)
    BY <2>1 DEF Entries
  <2> QED BY <1>2, <2>2 DEF Ints
<1>5. Apart(Y, S, c, f, v)
  <2> SUFFICES ASSUME NEW s \in S PROVE <<c, s>> \notin Y /\ f[<<c, s>>] = v[s]
    BY DEF Apart
  <2>1. <<c, s>> \in Entries(as, DOMAIN as, ip)
    <3>1. <<c, s>> \in {c} \X Spelled(as[c], ip)
      OBVIOUS
    <3> HIDE DEF S, Y, f
    <3> QED BY <1>1, <3>1 DEF Entries
  <2>2. f[<<c, s>>] = as[c][s]
    BY <2>1
  <2>3. ASSUME <<c, s>> \in Y PROVE FALSE
    <3>1. PICK i \in K \ {c} : <<c, s>> \in {i} \X Spelled(as[i], ip)
      BY <2>3 DEF Entries
    <3> QED BY <3>1
  <2> QED BY <2>2, <2>3
<1>6. Entries(as, K, ip) = Y \cup ({c} \X S)
  BY <1>1 DEF Entries
<1>7. IsFiniteSet(S) /\ Ints(v, S)
  BY <1>1, <1>2
<1> HIDE DEF Y, S, v, f
<1>8. /\ Sigma(f, Y \cup ({c} \X S), 0) = Sigma(f, Y, 0) + Sigma(v, S, 0)
      /\ Sigma(f, Y, 0) \in Int /\ Sigma(v, S, 0) \in Int
  BY <1>3, <1>4, <1>5, <1>7, AnswerAdds
<1> QED BY <1>6, <1>8 DEF f, c, Y, S, v
\* All that the answers said of an address, one after the other, is the sum of its entries.
LEMMA TotalIsFlat ==
  ASSUME NEW as, AnswersOf(as), NEW ip
  PROVE  LET entries == Entries(as, DOMAIN as, ip)
         IN  T!Total(as, ip) = Sigma([e \in entries |-> as[e[1]][e[2]]], entries, 0)
<1> DEFINE D == DOMAIN as
           f == [e \in Entries(as, D, ip) |-> as[e[1]][e[2]]]
           of == [i \in D |-> Sigma(as[i], Spelled(as[i], ip), 0)]
           h == [K \in SUBSET D |-> Sigma(f, Entries(as, K, ip), 0)]
           g == CHOOSE k : IsTotal(k, as, ip)
<1>1. ASSUME NEW i \in D
      PROVE  IsFiniteSet(Spelled(as[i], ip)) /\ Ints(as[i], Spelled(as[i], ip)) /\ of[i] \in Int
  <2>1. IsFiniteSet(Spelled(as[i], ip)) /\ Ints(as[i], Spelled(as[i], ip))
    BY FS_Subset DEF AnswersOf, Spelled, Ints
  <2>2. of[i] = Sigma(as[i], Spelled(as[i], ip), 0)
    OBVIOUS
  <2> HIDE DEF of, f, h, g
  <2>3. Sigma(as[i], Spelled(as[i], ip), 0) \in Int
    BY <2>1, SigmaZero
  <2> QED BY <2>1, <2>2, <2>3
<1>2. ASSUME NEW K \in SUBSET D, K # {}
      PROVE  /\ h[K] = h[K \ {First(K)}] + of[First(K)]
             /\ h[K] = Sigma(as[First(K)], Spelled(as[First(K)], ip), h[K \ {First(K)}])
             /\ First(K) \in D
  <2> DEFINE c == First(K)
             x == Sigma(f, Entries(as, K \ {c}, ip), 0)
  <2>1. c \in D
    BY <1>2, FirstIn
  <2>2. /\ Sigma(f, Entries(as, K, ip), 0) = x + Sigma(as[c], Spelled(as[c], ip), 0)
        /\ x \in Int
    BY <1>2, TotalRecursion
  <2>3. h[K] = Sigma(f, Entries(as, K, ip), 0) /\ h[K \ {c}] = x
    OBVIOUS
  <2>4. of[c] = Sigma(as[c], Spelled(as[c], ip), 0)
    BY <2>1
  <2> HIDE DEF c, f, of, h, x
  <2>5. Sigma(as[c], Spelled(as[c], ip), x) = x + of[c]
    BY <1>1, <2>1, <2>2, <2>4, SigmaBase
  <2> QED BY <2>1, <2>2, <2>3, <2>4, <2>5 DEF c
<1>3. h[{}] = 0
  <2>1. Entries(as, {}, ip) = {}
    BY DEF Entries
  <2>2. IsFiniteSet({}) /\ Ints(f, {})
    BY FS_EmptySet DEF Ints
  <2>3. Sigma(f, {}, 0) = 0
    BY <2>2, SigmaZero
  <2> QED BY <2>1, <2>3
<1>4. h = [K \in SUBSET D |-> h[K]] /\ h[D] = Sigma(f, Entries(as, D, ip), 0)
  OBVIOUS
<1>5. T!Total(as, ip) = g[D]
  BY TotalIs
<1> HIDE DEF f, of, h
<1>6. IsTotal(h, as, ip)
  <2>1. \A K \in SUBSET D : h[K] = IF K = {} THEN 0
                                   ELSE Sigma(as[First(K)], Spelled(as[First(K)], ip), h[K \ {First(K)}])
    BY <1>2, <1>3
  <2> QED BY <1>4, <2>1 DEF IsTotal
<1>7. IsTotal(g, as, ip)
  BY <1>6
<1> HIDE DEF g
<1>8. Ints(of, D) /\ IsFiniteSet(D)
  BY <1>1 DEF Ints, AnswersOf
<1>9. Recursion(h, of, D, 0)
  BY <1>2, <1>3 DEF Recursion
<1>10. Recursion(g, of, D, 0)
  <2>1. g[{}] = 0
    BY <1>7 DEF IsTotal
  <2>2. ASSUME NEW K \in SUBSET D, K # {}, g[K \ {First(K)}] \in Int
        PROVE  g[K] = g[K \ {First(K)}] + of[First(K)]
    <3> DEFINE c == First(K)
               x == g[K \ {c}]
    <3>1. c \in D
      BY <2>2, FirstIn
    <3>2. g[K] = Sigma(as[c], Spelled(as[c], ip), x)
      BY <1>7, <2>2 DEF IsTotal
    <3>3. of[c] = Sigma(as[c], Spelled(as[c], ip), 0)
      BY <3>1 DEF of
    <3>4. x \in Int
      BY <2>2
    <3> HIDE DEF c, x
    <3>5. IsFiniteSet(Spelled(as[c], ip)) /\ Ints(as[c], Spelled(as[c], ip))
      BY <1>1, <3>1
    <3>6. Sigma(as[c], Spelled(as[c], ip), x) = x + Sigma(as[c], Spelled(as[c], ip), 0)
      BY <3>4, <3>5, SigmaBase
    <3> QED BY <3>2, <3>3, <3>6 DEF c, x
  <2> QED BY <2>1, <2>2 DEF Recursion
<1>11. g[D] = Sigma(of, D, 0) /\ h[D] = Sigma(of, D, 0)
  BY <1>8, <1>9, <1>10, SigmaFromZero
<1> QED BY <1>4, <1>5, <1>11 DEF f
-----------------------------------------------------------------------------
(* TopIPs *)

LEMMA TopConstants ==
  /\ Batches \in Nat \ {0} /\ TopIPLimit \in Nat \ {0} /\ Value \subseteq Nat
  /\ IsFiniteSet(Spelling) /\ Parse \in [Spelling -> Nat]
  /\ \A S : T!Cardinality(S) = Cardinality(S)
  /\ \A a, b \in Nat : T!Min({a, b}) = IF a <= b THEN a ELSE b
<1>1. T!TopIPsAssumption
  BY DataAssumptions
<1>2. \A S : T!Cardinality(S) = Cardinality(S)
  BY DEF T!Cardinality, Cardinality, T!IsFiniteSet, IsFiniteSet
<1>3. \A S : T!IsFiniteSet(S) = IsFiniteSet(S)
  BY DEF T!IsFiniteSet, IsFiniteSet
<1>4. ASSUME NEW a \in Nat, NEW b \in Nat PROVE T!Min({a, b}) = IF a <= b THEN a ELSE b
  BY DEF T!Min
<1> QED BY <1>1, <1>2, <1>3, <1>4 DEF T!TopIPsAssumption

\* Totals of different addresses.
Totals(V) ==
  /\ IsFiniteSet(V)
  /\ \A v \in V : v = [ip |-> v.ip, value |-> v.value] /\ v.ip \in Nat /\ v.value \in Int
  /\ \A v, w \in V : v.ip = w.ip => v = w

\* How many are before one.
Rank(V, v) == Cardinality({w \in V : T!Before(w, v)})

LEMMA RankOf ==
  ASSUME NEW V, Totals(V), NEW v \in V
  PROVE  /\ Rank(V, v) \in Nat /\ Rank(V, v) < Cardinality(V)
         /\ \A w \in V : T!Before(w, v) => Rank(V, w) < Rank(V, v)
         /\ \A w \in V : w # v => T!Before(w, v) \/ T!Before(v, w)
<1> DEFINE Ahead(u) == {w \in V : T!Before(w, u)}
<1>1. ASSUME NEW u \in V
      PROVE  /\ IsFiniteSet(Ahead(u)) /\ Cardinality(Ahead(u)) \in Nat /\ Rank(V, u) = Cardinality(Ahead(u))
             /\ u \notin Ahead(u) /\ Ahead(u) \in SUBSET V
  <2>1. IsFiniteSet(Ahead(u)) /\ Cardinality(Ahead(u)) \in Nat
    BY FS_Subset, FS_CardinalityType DEF Totals
  <2>2. u \notin Ahead(u)
    BY DEF T!Before, Totals
  <2> QED BY <2>1, <2>2 DEF Rank
<1>2. Cardinality(Ahead(v)) < Cardinality(V)
  <2>1. Cardinality(Ahead(v)) <= Cardinality(V) /\ (Cardinality(V) = Cardinality(Ahead(v)) => V = Ahead(v))
    BY <1>1, FS_Subset DEF Totals
  <2>2. Cardinality(V) \in Nat /\ Cardinality(Ahead(v)) \in Nat /\ V # Ahead(v)
    BY <1>1, FS_CardinalityType DEF Totals
  <2> HIDE DEF Ahead
  <2> QED BY <2>1, <2>2
<1>3. ASSUME NEW w \in V, T!Before(w, v) PROVE Rank(V, w) < Rank(V, v)
  <2>1. ASSUME NEW u \in Ahead(w) PROVE u \in Ahead(v)
    BY <1>3 DEF T!Before, Totals
  <2>2. w \in Ahead(v) /\ w \notin Ahead(w)
    BY <1>1, <1>3
  <2>3. Ahead(w) \in SUBSET Ahead(v) /\ Ahead(v) # Ahead(w)
    BY <2>1, <2>2
  <2> HIDE DEF Ahead
  <2>4. /\ Cardinality(Ahead(w)) <= Cardinality(Ahead(v))
        /\ Cardinality(Ahead(v)) = Cardinality(Ahead(w)) => Ahead(v) = Ahead(w)
    BY <1>1, <2>3, FS_Subset
  <2> QED BY <1>1, <2>3, <2>4
<1>4. ASSUME NEW w \in V, w # v PROVE T!Before(w, v) \/ T!Before(v, w)
  BY <1>4 DEF T!Before, Totals
<1> QED BY <1>1, <1>2, <1>3, <1>4

LEMMA RankIsOne ==
  ASSUME NEW V, Totals(V), NEW v \in V, NEW w \in V, Rank(V, v) = Rank(V, w)
  PROVE  v = w
BY RankOf

LEMMA RanksAreAll ==
  ASSUME NEW V, Totals(V), NEW n \in 1 .. Cardinality(V)
  PROVE  \E v \in V : Rank(V, v) = n - 1
<1> DEFINE N == Cardinality(V)
           place == [v \in V |-> Rank(V, v) + 1]
<1>1. N \in Nat /\ IsFiniteSet(1 .. N) /\ Cardinality(1 .. N) = N
  <2>1. N \in Nat
    BY FS_CardinalityType DEF Totals
  <2> HIDE DEF N
  <2>2. IsFiniteSet(1 .. N) /\ Cardinality(1 .. N) = IF 1 > N THEN 0 ELSE N - 1 + 1
    BY <2>1, FS_Interval
  <2> QED BY <2>1, <2>2
<1>2. \A v \in V : place[v] = Rank(V, v) + 1 /\ Rank(V, v) \in Nat /\ Rank(V, v) < N
  BY RankOf
<1>3. place \in [V -> 1 .. N]
  BY <1>1, <1>2
<1>4. \A v, w \in V : place[v] = place[w] => v = w
  <2> SUFFICES ASSUME NEW v \in V, NEW w \in V, place[v] = place[w] PROVE v = w
    OBVIOUS
  <2>1. Rank(V, v) = Rank(V, w)
    BY <1>2
  <2> QED BY <2>1, RankIsOne
<1>5. place \in Injection(V, 1 .. N)
  BY <1>3, <1>4 DEF Injection, IsInjective
<1>6. place \in Surjection(V, 1 .. N)
  BY <1>1, <1>5, FS_Injection
<1>7. PICK v \in V : place[v] = n
  BY <1>6 DEF Surjection
<1> QED BY <1>1, <1>2, <1>7

LEMMA LargestOf ==
  ASSUME NEW V, Totals(V)
  PROVE  /\ DOMAIN T!Largest(V) = 1 .. T!Min({TopIPLimit, Cardinality(V)})
         /\ T!Largest(V) = [n \in DOMAIN T!Largest(V) |-> T!Largest(V)[n]]
         /\ \A n \in DOMAIN T!Largest(V) : T!Largest(V)[n] \in V /\ Rank(V, T!Largest(V)[n]) = n - 1
<1>1. Cardinality(V) \in Nat /\ TopIPLimit \in Nat
  BY FS_CardinalityType, TopConstants DEF Totals
<1>2. DOMAIN T!Largest(V) = 1 .. T!Min({TopIPLimit, Cardinality(V)})
  BY TopConstants DEF T!Largest
<1>3. ASSUME NEW n \in DOMAIN T!Largest(V) PROVE T!Largest(V)[n] \in V /\ Rank(V, T!Largest(V)[n]) = n - 1
  <2>1. n \in 1 .. Cardinality(V)
    BY <1>1, <1>2, <1>3, TopConstants
  <2>2. \E v \in V : Rank(V, v) = n - 1
    BY <2>1, RanksAreAll
  <2>3. T!Largest(V)[n] = CHOOSE v \in V : Rank(V, v) = n - 1
    BY <1>3, TopConstants DEF T!Largest, Rank
  <2> QED BY <2>2, <2>3
<1>4. T!Largest(V) = [n \in DOMAIN T!Largest(V) |-> T!Largest(V)[n]]
  BY DEF T!Largest
<1> QED BY <1>2, <1>3, <1>4

\* Answers of addresses with what is said of them.
Typed(as) ==
  \A i \in DOMAIN as : DOMAIN as[i] \subseteq Spelling /\ \A s \in DOMAIN as[i] : as[i][s] \in Value

\* The entries that name an address, in the words of the property.
EntriesOf(as) == {e \in (1 .. Batches) \X Spelling : e[2] \in DOMAIN as[e[1]]}

LEMMA PairOf ==
  ASSUME NEW Y, NEW B, NEW e \in Y \X B
  PROVE  e = <<e[1], e[2]>> /\ e[1] \in Y /\ e[2] \in B
OBVIOUS

LEMMA RoundIsOfAnswers ==
  ASSUME NEW as, DOMAIN as = 1 .. Batches, Typed(as)
  PROVE  /\ AnswersOf(as)
         /\ T!Named(as) = {Parse[e[2]] : e \in EntriesOf(as)}
         /\ T!Named(as) \subseteq Nat /\ IsFiniteSet(T!Named(as))
         /\ \A ip : /\ {e \in EntriesOf(as) : Parse[e[2]] = ip} = Entries(as, DOMAIN as, ip)
                    /\ IsFiniteSet(Entries(as, DOMAIN as, ip))
                    /\ \A e \in Entries(as, DOMAIN as, ip) : as[e[1]][e[2]] \in Int
<1>0. IsFiniteSet(1 .. Batches)
  <2>1. 1 \in Int /\ Batches \in Int
    BY TopConstants
  <2> QED BY <2>1, FS_Interval
<1>1. AnswersOf(as)
  <2>1. ASSUME NEW i \in DOMAIN as PROVE IsFiniteSet(DOMAIN as[i]) /\ Ints(as[i], DOMAIN as[i])
    <3>a. DOMAIN as[i] \subseteq Spelling /\ \A s \in DOMAIN as[i] : as[i][s] \in Value
      BY DEF Typed
    <3>b. \A x \in Value : x \in Int
      BY TopConstants
    <3>1. DOMAIN as[i] \in SUBSET Spelling /\ \A s \in DOMAIN as[i] : as[i][s] \in Int
      BY <3>a, <3>b
    <3>2. IsFiniteSet(DOMAIN as[i])
      BY <3>1, TopConstants, FS_Subset
    <3> QED BY <3>1, <3>2 DEF Ints
  <2> QED BY <1>0, <2>1 DEF AnswersOf
<1>2. T!Named(as) = {Parse[e[2]] : e \in EntriesOf(as)}
  <2>1. ASSUME NEW x \in T!Named(as) PROVE x \in {Parse[e[2]] : e \in EntriesOf(as)}
    <3>1. PICK i \in DOMAIN as : x \in {Parse[s] : s \in DOMAIN as[i]}
      BY <2>1 DEF T!Named
    <3>2. PICK s \in DOMAIN as[i] : x = Parse[s]
      BY <3>1
    <3> DEFINE e == <<i, s>>
    <3>3. e \in (1 .. Batches) \X Spelling /\ e[1] = i /\ e[2] = s
      BY <3>1, <3>2 DEF Typed
    <3> HIDE DEF e
    <3>4. e \in EntriesOf(as)
      BY <3>2, <3>3 DEF EntriesOf
    <3> QED BY <3>2, <3>3, <3>4
  <2>2. ASSUME NEW e \in EntriesOf(as) PROVE Parse[e[2]] \in T!Named(as)
    <3>1. e \in (1 .. Batches) \X Spelling /\ e[2] \in DOMAIN as[e[1]]
      BY DEF EntriesOf
    <3>2. e[1] \in DOMAIN as
      BY <3>1
    <3>3. Parse[e[2]] \in {Parse[s] : s \in DOMAIN as[e[1]]}
      BY <3>1
    <3> QED BY <3>2, <3>3 DEF T!Named
  <2> QED BY <2>1, <2>2
<1>3. IsFiniteSet(EntriesOf(as))
  <2>1. IsFiniteSet((1 .. Batches) \X Spelling)
    BY <1>0, TopConstants, FS_Product
  <2> QED BY <2>1, FS_Subset DEF EntriesOf
<1>4. IsFiniteSet(T!Named(as)) /\ T!Named(as) \subseteq Nat
  <2> DEFINE names == {Parse[e[2]] : e \in EntriesOf(as)}
             of == [e \in EntriesOf(as) |-> Parse[e[2]]]
  <2>1. of \in Surjection(EntriesOf(as), names)
    BY DEF Surjection
  <2>2. IsFiniteSet(names)
    BY <1>3, <2>1, FS_Surjection
  <2>3. \A e \in EntriesOf(as) : Parse[e[2]] \in Nat
    <3>1. \A e \in EntriesOf(as) : e[2] \in Spelling
      BY DEF EntriesOf
    <3> QED BY <3>1, TopConstants
  <2> QED BY <1>2, <2>2, <2>3
<1>5. ASSUME NEW ip
      PROVE  /\ {e \in EntriesOf(as) : Parse[e[2]] = ip} = Entries(as, DOMAIN as, ip)
             /\ IsFiniteSet(Entries(as, DOMAIN as, ip))
             /\ \A e \in Entries(as, DOMAIN as, ip) : as[e[1]][e[2]] \in Int
  <2>1. ASSUME NEW e \in EntriesOf(as), Parse[e[2]] = ip PROVE e \in Entries(as, DOMAIN as, ip)
    <3>0. e \in (1 .. Batches) \X Spelling /\ e[2] \in DOMAIN as[e[1]]
      BY DEF EntriesOf
    <3>1. e = <<e[1], e[2]>> /\ e[1] \in DOMAIN as /\ e[2] \in Spelled(as[e[1]], ip)
      <4>1. e = <<e[1], e[2]>> /\ e[1] \in 1 .. Batches
        BY <3>0, PairOf
      <4> QED BY <2>1, <3>0, <4>1 DEF Spelled
    <3>2. e \in {e[1]} \X Spelled(as[e[1]], ip)
      BY <3>1
    <3> QED BY <3>1, <3>2 DEF Entries
  <2>2. ASSUME NEW e \in Entries(as, DOMAIN as, ip)
        PROVE  e \in EntriesOf(as) /\ Parse[e[2]] = ip /\ as[e[1]][e[2]] \in Int
    <3>1. PICK i \in DOMAIN as : e \in {i} \X Spelled(as[i], ip)
      BY <2>2 DEF Entries
    <3> DEFINE S == Spelled(as[i], ip)
    <3>a. \A s \in S : s \in DOMAIN as[i] /\ Parse[s] = ip
      BY DEF Spelled
    <3>b. e \in {i} \X S
      BY <3>1
    <3> HIDE DEF S
    <3>2. e = <<e[1], e[2]>> /\ e[1] = i /\ e[2] \in DOMAIN as[i] /\ Parse[e[2]] = ip
      <4>1. e = <<e[1], e[2]>> /\ e[1] \in {i} /\ e[2] \in S
        BY <3>b, PairOf
      <4> QED BY <3>a, <4>1
    <3>3. e[2] \in Spelling /\ as[i][e[2]] \in Value
      BY <3>2 DEF Typed
    <3>5. as[i][e[2]] \in Int
      <4>1. \A x \in Value : x \in Int
        BY TopConstants
      <4> QED BY <3>3, <4>1
    <3>4. e \in (1 .. Batches) \X Spelling
      BY <3>2, <3>3
    <3> QED BY <3>2, <3>4, <3>5 DEF EntriesOf
  <2>3. {e \in EntriesOf(as) : Parse[e[2]] = ip} = Entries(as, DOMAIN as, ip)
    BY <2>1, <2>2
  <2>4. IsFiniteSet({e \in EntriesOf(as) : Parse[e[2]] = ip})
    BY <1>3, FS_Subset
  <2> QED BY <2>2, <2>3, <2>4
<1> QED BY <1>1, <1>2, <1>4, <1>5

\* The sums of a round are of different addresses, as many as were named.
LEMMA SumsOf ==
  ASSUME NEW as, DOMAIN as = 1 .. Batches, Typed(as)
  PROVE  /\ Totals(T!Sums(as)) /\ Cardinality(T!Sums(as)) = Cardinality(T!Named(as))
         /\ \A v \in T!Sums(as) : v.ip \in T!Named(as) /\ v.value = T!Total(as, v.ip)
         /\ \A ip \in T!Named(as) : /\ [ip |-> ip, value |-> T!Total(as, ip)] \in T!Sums(as)
                                    /\ T!Total(as, ip) \in Int
<1> DEFINE N == T!Named(as)
           V == T!Sums(as)
           of == [ip \in N |-> [ip |-> ip, value |-> T!Total(as, ip)]]
<1>1. AnswersOf(as) /\ N \subseteq Nat /\ IsFiniteSet(N)
  BY RoundIsOfAnswers
<1>2. ASSUME NEW ip PROVE T!Total(as, ip) \in Int
  <2> DEFINE X == Entries(as, DOMAIN as, ip)
             f == [e \in X |-> as[e[1]][e[2]]]
  <2>1. IsFiniteSet(X) /\ \A e \in X : as[e[1]][e[2]] \in Int
    BY RoundIsOfAnswers
  <2>2. Ints(f, X)
    BY <2>1 DEF Ints
  <2>3. T!Total(as, ip) = Sigma(f, X, 0)
    BY <1>1, TotalIsFlat
  <2> HIDE DEF f, X
  <2> QED BY <2>1, <2>2, <2>3, SigmaZero
<1>3. V = {[ip |-> ip, value |-> T!Total(as, ip)] : ip \in N}
  BY DEF T!Sums
<1> HIDE DEF N, V
<1>4. ASSUME NEW v \in V PROVE v = [ip |-> v.ip, value |-> v.value] /\ v.ip \in N /\ v.value = T!Total(as, v.ip)
  <2>1. PICK ip \in N : v = [ip |-> ip, value |-> T!Total(as, ip)]
    BY <1>3
  <2> QED BY <2>1
<1>5. IsFiniteSet(V) /\ Cardinality(V) = Cardinality(N)
  <2>1. of \in Surjection(N, V)
    BY <1>3 DEF Surjection
  <2>2. of \in Injection(N, V)
    <3>1. \A a \in N : of[a].ip = a
      OBVIOUS
    <3>2. of \in [N -> V]
      BY <1>3
    <3> HIDE DEF of
    <3> QED BY <3>1, <3>2 DEF Injection, IsInjective
  <2> HIDE DEF of
  <2> QED BY <1>1, <2>1, <2>2, FS_Surjection
<1>6. Totals(V)
  BY <1>1, <1>2, <1>4, <1>5 DEF Totals
<1> QED BY <1>2, <1>3, <1>4, <1>5, <1>6 DEF N, V

LEMMA OfIsTotal ==
  ASSUME NEW as, DOMAIN as = 1 .. Batches, Typed(as), NEW ip
  PROVE  T!MapThenSumSet(LAMBDA e : as[e[1]][e[2]], {e \in EntriesOf(as) : Parse[e[2]] = ip}) = T!Total(as, ip)
<1> DEFINE X == Entries(as, DOMAIN as, ip)
<1>1. X = {e \in EntriesOf(as) : Parse[e[2]] = ip} /\ IsFiniteSet(X) /\ \A e \in X : as[e[1]][e[2]] \in Int
  BY RoundIsOfAnswers
<1>2. T!Total(as, ip) = Sigma([e \in X |-> as[e[1]][e[2]]], X, 0)
  BY RoundIsOfAnswers, TotalIsFlat
<1> HIDE DEF X
<1>3. T!MapThenSumSet(LAMBDA e : as[e[1]][e[2]], X) = Sigma([e \in X |-> as[e[1]][e[2]]], X, 0)
  BY <1>1, MapSumIsSigma
<1> QED BY <1>1, <1>2, <1>3

\* What a round publishes of its answers.
LEMMA MergedIsTop ==
  ASSUME NEW as, DOMAIN as = 1 .. Batches, Typed(as), NEW list, list = T!MergeTopIPValues(as),
         NEW called, called = T!Named(as), NEW listed, listed = {list[n].ip : n \in DOMAIN list}
  PROVE  /\ listed \subseteq called /\ Cardinality(listed) = Len(list)
         /\ Len(list) = T!Min({TopIPLimit, Cardinality(called)})
         /\ \A n \in DOMAIN list : list[n].value = T!Total(as, list[n].ip)
         /\ \A m, n \in DOMAIN list : m < n => list[m].value >= list[n].value
         /\ \A ip \in called \ listed : \A n \in DOMAIN list : T!Total(as, ip) <= list[n].value
<1> DEFINE V == T!Sums(as)
           k == T!Min({TopIPLimit, Cardinality(called)})
<1>1. /\ Totals(V) /\ Cardinality(V) = Cardinality(called)
      /\ \A v \in V : v.ip \in called /\ v.value = T!Total(as, v.ip)
      /\ \A ip \in called : [ip |-> ip, value |-> T!Total(as, ip)] \in V /\ T!Total(as, ip) \in Int
  BY SumsOf
<1>2. DOMAIN list = 1 .. k /\ list = [n \in DOMAIN list |-> list[n]] /\ \A n \in DOMAIN list : list[n] \in V /\ Rank(V, list[n]) = n - 1
  BY <1>1, LargestOf DEF T!MergeTopIPValues
<1>3. Cardinality(called) \in Nat /\ k \in Nat /\ k <= Cardinality(called)
  <2>1. Cardinality(called) \in Nat
    BY RoundIsOfAnswers, FS_CardinalityType
  <2>2. TopIPLimit \in Nat
    BY TopConstants
  <2>3. k = IF TopIPLimit <= Cardinality(called) THEN TopIPLimit ELSE Cardinality(called)
    BY <2>1, <2>2, TopConstants
  <2>4. \A c, l \in Nat : \A x : x = (IF l <= c THEN l ELSE c) => x \in Nat /\ x <= c
    OBVIOUS
  <2> HIDE DEF k
  <2> QED BY <2>1, <2>2, <2>3, <2>4
<1> HIDE DEF V, k
<1>a. \A n \in DOMAIN list : n \in Int /\ 1 <= n /\ n <= k /\ list[n] \in V /\ Rank(V, list[n]) = n - 1
  <2>1. \A n \in 1 .. k : n \in Int /\ 1 <= n /\ n <= k
    BY <1>3
  <2> QED BY <1>2, <2>1
<1>4. Len(list) = k
  <2>1. list = [n \in 1 .. k |-> list[n]]
    BY <1>2
  <2> QED BY <1>3, <2>1
<1>5. \A n \in DOMAIN list : list[n].ip \in called /\ list[n].value = T!Total(as, list[n].ip) /\ list[n].value \in Int
  BY <1>1, <1>2
<1>6. \A m, n \in DOMAIN list : list[m].ip = list[n].ip => m = n
  <2> SUFFICES ASSUME NEW m \in DOMAIN list, NEW n \in DOMAIN list, list[m].ip = list[n].ip PROVE m = n
    OBVIOUS
  <2>1. list[m] = list[n]
    BY <1>1, <1>2 DEF Totals
  <2>2. m - 1 = n - 1 /\ m \in Int /\ n \in Int
    BY <1>a, <2>1
  <2> QED BY <2>2
<1>7. Cardinality(listed) = Len(list)
  <2> DEFINE of == [n \in 1 .. k |-> list[n].ip]
  <2>1. of \in Surjection(1 .. k, listed)
    BY <1>2 DEF Surjection
  <2>2. of \in Injection(1 .. k, listed)
    BY <1>2, <1>6 DEF Injection, IsInjective
  <2>3. IsFiniteSet(1 .. k) /\ Cardinality(1 .. k) = k
    <3>1. IsFiniteSet(1 .. k) /\ Cardinality(1 .. k) = IF 1 > k THEN 0 ELSE k - 1 + 1
      BY <1>3, FS_Interval
    <3> QED BY <1>3, <3>1
  <2> HIDE DEF of
  <2> QED BY <1>4, <2>1, <2>2, <2>3, FS_Surjection
<1>8. ASSUME NEW m \in DOMAIN list, NEW v \in V, m - 1 < Rank(V, v) PROVE list[m].value >= v.value
  <2>1. list[m] \in V /\ Rank(V, list[m]) = m - 1 /\ Rank(V, v) \in Nat /\ m \in Int
    BY <1>1, <1>a, RankOf
  <2>2. list[m] # v /\ ~T!Before(v, list[m])
    <3>1. ASSUME list[m] = v PROVE FALSE
      <4>1. Rank(V, v) = m - 1
        BY <2>1, <3>1
      <4> QED BY <1>8, <2>1, <4>1
    <3>2. ASSUME T!Before(v, list[m]) PROVE FALSE
      <4>1. Rank(V, v) < Rank(V, list[m])
        BY <1>1, <2>1, <3>2, RankOf
      <4> QED BY <1>8, <2>1, <4>1
    <3> QED BY <3>1, <3>2
  <2>3. T!Before(list[m], v)
    BY <1>1, <2>1, <2>2, RankOf
  <2>4. list[m].value \in Int /\ v.value \in Int
    BY <1>1, <2>1 DEF Totals
  <2>5. list[m].value > v.value \/ list[m].value = v.value
    BY <2>3, Zenon DEF T!Before
  <2>6. \A a, b \in Int : a > b \/ a = b => a >= b
    OBVIOUS
  <2> QED BY <2>4, <2>5, <2>6
<1>9. ASSUME NEW m \in DOMAIN list, NEW n \in DOMAIN list, m < n PROVE list[m].value >= list[n].value
  <2>1. m \in Int /\ n \in Int /\ Rank(V, list[n]) = n - 1 /\ list[n] \in V
    BY <1>a
  <2>2. m - 1 < n - 1
    BY <1>9, <2>1
  <2>3. m - 1 < Rank(V, list[n])
    BY <2>1, <2>2
  <2> QED BY <1>8, <2>1, <2>3
<1>10. ASSUME NEW ip \in called \ listed, NEW n \in DOMAIN list PROVE T!Total(as, ip) <= list[n].value
  <2> DEFINE v == [ip |-> ip, value |-> T!Total(as, ip)]
             r == Rank(V, v)
  <2>1. v \in V /\ v.ip = ip /\ v.value = T!Total(as, ip) /\ v.value \in Int
    BY <1>1
  <2> HIDE DEF v
  <2>2. r \in Nat
    BY <1>1, <2>1, RankOf
  <2>3. ASSUME r < k PROVE FALSE
    <3>1. r + 1 \in DOMAIN list /\ (r + 1) - 1 = r
      BY <1>2, <1>3, <2>2, <2>3
    <3>2. list[r + 1] \in V /\ Rank(V, list[r + 1]) = Rank(V, v)
      BY <1>2, <3>1
    <3>3. list[r + 1] = v
      BY <1>1, <2>1, <3>2, RankIsOne
    <3> QED BY <2>1, <3>1, <3>3
  <2>4. n - 1 < r
    BY <1>2, <1>3, <2>2, <2>3
  <2>5. list[n].value >= v.value
    BY <1>8, <2>1, <2>4
  <2> QED BY <1>5, <2>1, <2>5
<1> QED BY <1>4, <1>5, <1>7, <1>9, <1>10 DEF k

\* The published list is the merge of one answer of every batch.
TopInv ==
  /\ answers \in Seq({answers[i] : i \in DOMAIN answers}) /\ Typed(answers)
  /\ \A t \in top : DOMAIN t.from = 1 .. Batches /\ Typed(t.from) /\ t.list = T!MergeTopIPValues(t.from)

LEMMA TopStep == TopInv /\ [T!Next]_(T!vars) => TopInv'
<1> SUFFICES ASSUME TopInv, [T!Next]_(T!vars) PROVE TopInv'
  OBVIOUS
<1>1. CASE T!Fetch
  <2>1. PICK names \in SUBSET Spelling : \E values \in [names -> Value] : answers' = Append(answers, values)
    BY <1>1 DEF T!Fetch
  <2>0. PICK values \in [names -> Value] : answers' = Append(answers, values)
    BY <2>1
  <2> DEFINE R == {answers[i] : i \in DOMAIN answers} \cup {values}
  <2>2. answers \in Seq(R) /\ values \in R
    BY DEF TopInv
  <2> HIDE DEF R
  <2>3. /\ answers' \in Seq(R) /\ Len(answers') = Len(answers) + 1 /\ Len(answers) \in Nat
        /\ DOMAIN answers = 1 .. Len(answers) /\ DOMAIN answers' = 1 .. Len(answers')
        /\ answers'[Len(answers) + 1] = values
        /\ \A i \in 1 .. Len(answers) : answers'[i] = answers[i]
    BY <2>0, <2>2
  <2>4. Typed(answers')
    <3> SUFFICES ASSUME NEW i \in DOMAIN answers'
                 PROVE  DOMAIN answers'[i] \subseteq Spelling /\ \A s \in DOMAIN answers'[i] : answers'[i][s] \in Value
      BY DEF Typed
    <3>1. CASE i \in 1 .. Len(answers)
      BY <2>3, <3>1 DEF TopInv, Typed
    <3>2. CASE i = Len(answers) + 1
      <4>1. answers'[i] = values
        BY <2>3, <3>2
      <4> QED BY <2>0, <4>1
    <3> QED BY <2>3, <3>1, <3>2
  <2>5. answers' \in Seq({answers'[i] : i \in DOMAIN answers'})
    BY <2>3
  <2>6. top' = top
    BY <1>1 DEF T!Fetch
  <2> QED BY <2>4, <2>5, <2>6 DEF TopInv
<1>2. CASE T!Fail
  BY <1>2 DEF T!Fail, TopInv, Typed
<1>3. CASE T!Publish
  <2>1. DOMAIN answers = 1 .. Batches
    BY <1>3 DEF T!Publish, TopInv
  <2>2. answers' = <<>> /\ top' = {[list |-> T!MergeTopIPValues(answers), from |-> answers]}
    BY <1>3 DEF T!Publish
  <2> QED BY <2>1, <2>2 DEF TopInv, Typed
<1>4. CASE UNCHANGED T!vars
  BY <1>4 DEF T!vars, TopInv, Typed
<1> QED BY <1>1, <1>2, <1>3, <1>4 DEF T!Next

\* The list of top IPs that a round publishes is of the sums over all batches: every address
\* once, whatever it was called, the largest first, and none left out that has more than one
\* that is listed (mergeTopIPValues); for any batches, answers and limit.
THEOREM ListIsOfTheSums == T!Init /\ [][T!Next]_(T!vars) => []TopIsOfTheSums
<1>1. T!Init => TopInv
  BY DEF T!Init, TopInv, Typed
<1>2. ASSUME TopInv PROVE TopIsOfTheSums
  <2> DEFINE sum(t, ip) == T!MapThenSumSet(LAMBDA e : t.from[e[1]][e[2]], {e \in EntriesOf(t.from) : Parse[e[2]] = ip})
             listed(t) == {t.list[n].ip : n \in DOMAIN t.list}
             called(t) == {Parse[e[2]] : e \in EntriesOf(t.from)}
  <2> SUFFICES ASSUME NEW t \in top
               PROVE  /\ listed(t) \subseteq called(t) /\ T!Cardinality(listed(t)) = Len(t.list)
                      /\ Len(t.list) = T!Min({TopIPLimit, T!Cardinality(called(t))})
                      /\ \A n \in DOMAIN t.list : t.list[n].value = sum(t, t.list[n].ip)
                      /\ \A m, n \in DOMAIN t.list : m < n => t.list[m].value >= t.list[n].value
                      /\ \A ip \in called(t) \ listed(t) : \A n \in DOMAIN t.list : sum(t, ip) <= t.list[n].value
    BY DEF TopIsOfTheSums, T!TopIsOfTheSums, EntriesOf
  <2>1. DOMAIN t.from = 1 .. Batches /\ Typed(t.from) /\ t.list = T!MergeTopIPValues(t.from)
    BY <1>2 DEF TopInv
  <2>2. called(t) = T!Named(t.from)
    BY <2>1, RoundIsOfAnswers
  <2>3. \A ip : sum(t, ip) = T!Total(t.from, ip)
    BY <2>1, OfIsTotal
  <2>4. listed(t) = {t.list[n].ip : n \in DOMAIN t.list}
    OBVIOUS
  <2> HIDE DEF sum, listed, called
  <2>5. /\ listed(t) \subseteq called(t) /\ Cardinality(listed(t)) = Len(t.list)
        /\ Len(t.list) = T!Min({TopIPLimit, Cardinality(called(t))})
        /\ \A n \in DOMAIN t.list : t.list[n].value = T!Total(t.from, t.list[n].ip)
        /\ \A m, n \in DOMAIN t.list : m < n => t.list[m].value >= t.list[n].value
        /\ \A ip \in called(t) \ listed(t) : \A n \in DOMAIN t.list : T!Total(t.from, ip) <= t.list[n].value
    BY <2>1, <2>2, <2>4, MergedIsTop
  <2>6. \A S : T!Cardinality(S) = Cardinality(S)
    BY TopConstants
  <2>7. /\ \A n \in DOMAIN t.list : t.list[n].value = sum(t, t.list[n].ip)
        /\ \A ip \in called(t) \ listed(t) : \A n \in DOMAIN t.list : sum(t, ip) <= t.list[n].value
    BY <2>3, <2>5
  <2> QED BY <2>5, <2>6, <2>7
<1> QED BY <1>1, <1>2, TopStep, PTL
=============================================================================
