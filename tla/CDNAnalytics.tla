---------------------------- MODULE CDNAnalytics ----------------------------
(***************************************************************************)
(* app/cdn.go: collectCDNAnalytics for one domain.  Three requests, one    *)
(* after the other, for the day of the safe time; the answers, and how far *)
(* each endpoint is, are arbitrary.  A domain without requests is answered *)
(* with empty series: a zero of the safe bucket is inferred, if the bucket *)
(* is of the queried day.                                                  *)
(***************************************************************************)
EXTENDS SafeBucket

CONSTANTS
  DayTicks,       \* buckets of a day
  Lag,            \* source_lag
  Horizon,        \* bound on the clock
  Answers         \* the point sequences of the answers

\* Asserted where the module is instantiated.
AnalyticsAssumption ==
  DayTicks \in Nat \ {0} /\ Lag \in Nat /\ Horizon \in Nat /\ Answers \subseteq Seq(Int)

VARIABLES
  now, bad,       \* bad: whether the negative cache names the domain
  pc, safe,       \* the next request; the window's safe time
  ends,           \* the bucket ends selected so far
  newest,         \* history: the newest safe bucket end of each answer
  shown           \* the store: {} or {the snapshot}

vars == <<now, bad, pc, safe, ends, newest, shown>>

Day(t) == t \div DayTicks

Init ==
  /\ now \in 0 .. DayTicks /\ bad = FALSE /\ pc = 0 /\ safe = 0
  /\ ends = <<>> /\ newest = <<>> /\ shown = {}

Tick == now < Horizon /\ now' = now + 1 /\ UNCHANGED <<bad, pc, safe, ends, newest, shown>>

\* The round ends here; ends and newest of a published one stay.
Finish == pc' = 0 /\ UNCHANGED <<now, safe>>

\* cdnSafeWindow; a domain in the negative cache is not asked for.
Begin ==
  /\ pc = 0 /\ ~bad
  /\ pc' = 1 /\ safe' = now - Lag /\ ends' = <<>> /\ newest' = <<>>
  /\ UNCHANGED <<now, bad, shown>>

\* cacheInvalidCDNDomain: code 400032 enters the negative cache, other errors do not.
Error ==
  /\ pc # 0 /\ bad' \in BOOLEAN
  /\ Finish /\ UNCHANGED <<ends, newest, shown>>

\* reconcile clears the cache.
Clear == bad /\ bad' = FALSE /\ UNCHANGED <<now, pc, safe, ends, newest, shown>>

Published(bucketEnds) ==
  shown' = {[dataAt |-> e, ends |-> bucketEnds] : e \in MatchingBucketEnd(bucketEnds)}

\* idleCDNAnalyticsSnapshot's inferred bucket.
IdleBucketEnd == {e \in {safe} : Day(e - 1) = Day(safe)}

\* The first answer has no points and no counts.
Idle ==
  /\ pc = 1
  /\ IF IdleBucketEnd = {} THEN UNCHANGED <<ends, newest, shown>>
     ELSE Published(<<safe>>) /\ ends' = <<safe>> /\ newest' = <<safe>>
  /\ Finish /\ UNCHANGED bad

SafeEnds(points) == {p + 1 : p \in {points[i] : i \in DOMAIN points}} \cap {t \in Int : t <= safe}

\* An answer is accepted, and the next request follows.
Select(points) ==
  /\ pc \in 1 .. 2
  /\ \E e \in CDNBucketEnd(points, safe) :
       ends' = Append(ends, e) /\ newest' = Append(newest, Max(SafeEnds(points)))
  /\ pc' = pc + 1
  /\ UNCHANGED <<now, bad, safe, shown>>

\* So is the last one: the snapshot is published if the answers agree.
SelectLast(points) ==
  /\ pc = 3
  /\ \E e \in CDNBucketEnd(points, safe) :
       /\ ends' = Append(ends, e) /\ newest' = Append(newest, Max(SafeEnds(points)))
       /\ IF MatchingBucketEnd(ends') = {} THEN UNCHANGED shown ELSE Published(ends')
  /\ Finish /\ UNCHANGED bad

Next ==
  \/ Tick \/ Begin \/ Error \/ Clear \/ Idle
  \/ \E points \in Answers : Select(points) \/ SelectLast(points)
-----------------------------------------------------------------------------
\* What is exported is one bucket, whatever the three endpoints answered and however far
\* each of them was; it had ended a source lag ago, and is the newest safe one of each, never
\* an older one that happens to agree.
OneSafeBucket ==
  /\ ends = newest
  /\ \A s \in shown : s.dataAt + Lag <= now /\ \A i \in DOMAIN s.ends : s.ends[i] = s.dataAt
=============================================================================
