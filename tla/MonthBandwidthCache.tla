------------------------ MODULE MonthBandwidthCache ------------------------
(***************************************************************************)
(* app/cdn.go: the bandwidth peak of the current month.  Today's buckets   *)
(* come with the round's monitoring answers; those of the completed days   *)
(* are fetched in windows of BackfillDays and kept in a cache for the      *)
(* month and the list of domains, which a round extends window by window.  *)
(*                                                                         *)
(* A bucket is a tick of the clock.  An aggregate stands for its buckets:  *)
(* which ones it was computed from, for which domains, and which of them   *)
(* the upstream answered before they were final, Lag ticks after their     *)
(* end.  Peaks are maxima over them.                                       *)
(***************************************************************************)
EXTENDS Integers, FiniteSets, FiniteSetsExt

CONSTANTS
  Domain,
  DayTicks, MonthDays,    \* buckets of a day, days of a month
  BackfillDays,           \* cdnBandwidthBackfillDays
  Lag,                    \* source_lag
  Late,                   \* bound on how far the answers are behind
  Horizon                 \* bound on the clock

ASSUME MonthAssumption ==
  /\ {DayTicks, MonthDays, BackfillDays} \subseteq Nat \ {0} /\ {Lag, Late, Horizon} \subseteq Nat

VARIABLES
  now, cache, month,      \* month: {} or {the month that is published}
  round,                  \* the usage round: domains, day and data end
  had                     \* history: what was fetched for the month and domains of the round

vars == <<now, cache, month, round, had>>

DayStart(t) == (t \div DayTicks) * DayTicks
MonthStart(t) == (t \div (DayTicks * MonthDays)) * (DayTicks * MonthDays)

\* zeroCDNBandwidthUsage; an empty period needs no answer.
Zero(domains, at) ==
  [start |-> at, end |-> at, domains |-> domains, count |-> 0, buckets |-> {}, early |-> {}]

\* AggregateBandwidthUsage of answers that cover [start, end), given at time t.
Aggregate(domains, start, end, t) ==
  [start |-> start, end |-> end, domains |-> domains, count |-> end - start,
   buckets |-> start .. end - 1, early |-> {b \in start .. end - 1 : t < b + 1 + Lag}]

\* mergeCDNBandwidthUsage: {} is its error.
Merge(prior, current) ==
  IF prior.count = 0 THEN {[current EXCEPT !.start = prior.start]}
  ELSE IF current.count = 0 THEN {prior}
  ELSE IF prior.domains # current.domains THEN {}
  ELSE {[start |-> prior.start, end |-> current.end, domains |-> prior.domains,
         count |-> prior.count + current.count, buckets |-> prior.buckets \cup current.buckets,
         early |-> prior.early \cup current.early]}

NoRound == [pc |-> "idle", domains |-> {}, today |-> 0, dataEnd |-> 0]

Nothing(domains, start) == [monthStart |-> start, domains |-> domains, buckets |-> {}]

NewCache(domains, start) ==
  [monthStart |-> start, periodEnd |-> start, domains |-> domains, aggregate |-> Zero(domains, start)]

Init ==
  /\ now \in 0 .. DayTicks * MonthDays
  /\ cache = NewCache({}, -1)
  /\ round = NoRound /\ month = {} /\ had = Nothing({}, -1)

Tick ==
  /\ now < Horizon /\ now' = now + 1 /\ UNCHANGED <<cache, round, month, had>>

\* Bug: the month of the cache is not compared.
MutReset(domains, today) ==
  IF cache.domains # domains \/ cache.periodEnd > today
  THEN NewCache(domains, MonthStart(today)) ELSE cache

\* The cache as a round of these domains and this day may go on with it.
Reset(domains, today) ==
  IF \/ cache.monthStart # MonthStart(today) \/ cache.domains # domains
     \/ cache.periodEnd < MonthStart(today) \/ cache.periodEnd > today
  THEN NewCache(domains, MonthStart(today)) ELSE cache

\* The batches of a round whose monitoring is complete agree on a data end, no later than
\* the safe time (newCDNMonitoringWindow).
Begin ==
  /\ round.pc = "idle"
  /\ \E domains \in SUBSET Domain \ {{}} :
     \E dataEnd \in (now - Lag - Late) .. (now - Lag) :
       /\ round' = [pc |-> "load", domains |-> domains, today |-> DayStart(now), dataEnd |-> dataEnd]
       /\ cache' = Reset(domains, DayStart(now))
       /\ had' = IF had.monthStart = MonthStart(now) /\ had.domains = domains THEN had
                 ELSE Nothing(domains, MonthStart(now))
  /\ UNCHANGED <<now, month>>

ChunkEnd ==
  LET end == cache.periodEnd + BackfillDays * DayTicks
  IN IF end > round.today THEN round.today ELSE end

\* A window of completed days is fetched, validated, merged and cached at once.
Fetch ==
  /\ round.pc = "load" /\ cache.periodEnd < round.today
  /\ \E merged \in Merge(cache.aggregate, Aggregate(round.domains, cache.periodEnd, ChunkEnd, now)) :
       cache' = [monthStart |-> cache.monthStart, periodEnd |-> ChunkEnd,
                 domains |-> cache.domains, aggregate |-> merged]
  /\ had' = [had EXCEPT !.buckets = @ \cup (cache.periodEnd .. ChunkEnd - 1)]
  /\ UNCHANGED <<now, month, round>>

\* A domain that metering does not answer for, or a series that does not fit: no month.
FetchFail ==
  /\ round.pc = "load" /\ cache.periodEnd < round.today
  /\ round' = NoRound /\ month' = {} /\ UNCHANGED <<now, cache, had>>

\* Bug: the peak of today replaces that of the month.
MutMonth ==
  {Aggregate(round.domains, round.today, round.dataEnd, now)}

\* buildCDNUsageSnapshot's current month.
Month ==
  IF round.today < round.dataEnd
  THEN Merge(cache.aggregate, Aggregate(round.domains, round.today, round.dataEnd, now))
  ELSE {cache.aggregate}

\* HasBandwidth needs a bucket.
Publish ==
  /\ round.pc = "load" /\ cache.periodEnd >= round.today
  /\ month' = {m \in Month : m.count > 0}
  /\ round' = NoRound
  /\ UNCHANGED <<now, cache, had>>

Next == Tick \/ Begin \/ Fetch \/ FetchFail \/ Publish

Spec == Init /\ [][Next]_vars
-----------------------------------------------------------------------------
\* The cache holds each bucket of the month from its start to the end it records, once, for
\* the domains it records: no window is left out, counted twice, or of another scope.
CacheIsAPrefix ==
  LET a == cache.aggregate
  IN /\ a.start = cache.monthStart /\ a.domains = cache.domains
     /\ a.buckets = cache.monthStart .. cache.periodEnd - 1
     /\ a.count = Cardinality(a.buckets)

\* The month that is published is made of buckets of one month, without a gap, from its
\* start, each counted once.
MonthHasNoGaps ==
  \A m \in month :
    /\ m.start = MonthStart(m.start) /\ m.buckets = m.start .. m.end - 1
    /\ m.end <= m.start + DayTicks * MonthDays /\ m.count = Cardinality(m.buckets)

\* A round publishes the month and the domains it was asked for, up to its data end.
PublishesItsScope ==
  [][Publish => \A m \in month' :
       /\ m.domains = round.domains /\ m.start = MonthStart(round.today)
       /\ m.end = Max({round.today, round.dataEnd})]_vars

\* No bucket of a completed day is asked for twice for one month and scope, however often
\* the backfill fails after a window: each round goes on where the one before it ended.
BackfillResumes ==
  [][Fetch => had.buckets \cap (cache.periodEnd .. ChunkEnd - 1) = {}]_vars

\* README.md:71: the peak of the current month is exact: no bucket of it was read before
\* the source lag had passed.
MonthIsExact == \A m \in month : m.early = {}
=============================================================================
