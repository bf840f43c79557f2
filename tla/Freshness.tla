----------------------------- MODULE Freshness -----------------------------
(***************************************************************************)
(* A resource's snapshot over the rounds of its collection job: Scheduler  *)
(* plans the rounds, each publishes data about its start, and the store    *)
(* stops showing it after the stale_after that config.Validate admitted.   *)
(***************************************************************************)
EXTENDS Scheduler

CONSTANTS
  job,            \* the job that collects it
  SourceLag,      \* collection.source_lag
  Width,          \* the five minutes of a bucket, by which its end is rounded down
  StaleAfter      \* collection.stale_after.realtime

Interval == IntervalOf[job]

\* Validate's bound on stale_after.realtime.
Valid(stale) == stale >= SourceLag + Width + Interval + Interval \div 10

ASSUME FreshnessAssumption ==
  /\ job \in Job /\ job \notin AtOnce /\ IntervalOf[job] > 0
  /\ 5 * MaxRound[job] <= 4 * Interval       \* collectionTimeout
  /\ SourceLag \in Nat /\ Width \in Nat
  /\ StaleAfter \in Nat /\ StaleAfter > 0

Stores == INSTANCE Snapshots WITH Resource <- {}

VARIABLES
  asked,          \* time since the round under way computed its query
  published,      \* whether it has published
  shown           \* {} or the stored snapshot: the ages of its collection and data times

freshVars == <<vars, asked, published, shown>>

\* Ages stop where every snapshot is stale.
MaxAge == StaleAfter + 1
Aged(age) == IF age < MaxAge THEN age + 1 ELSE age

FreshInit == Init /\ asked = 0 /\ published = FALSE /\ shown = {}

FreshTick ==
  /\ Tick
  /\ asked' = IF pc[job] = "run" THEN asked + 1 ELSE 0
  /\ shown' = {[collected |-> Aged(s.collected), data |-> Aged(s.data)] : s \in shown}
  /\ UNCHANGED published

FreshBegin ==
  /\ Begin(job) /\ asked' = 0 /\ published' = FALSE
  /\ UNCHANGED shown

\* kodoQuery, cdnSafeWindow: the end of the newest bucket that was SourceLag old when the
\* query was computed.
DataAges == asked + SourceLag .. asked + SourceLag + Width

\* The resource's turn in the round: fetched and published.
Publish ==
  /\ pc[job] = "run" /\ ~published
  /\ published' = TRUE
  /\ \E age \in DataAges : shown' = {[collected |-> 0, data |-> IF age < MaxAge THEN age ELSE MaxAge]}
  /\ UNCHANGED <<vars, asked>>

\* Every round publishes: the bound is about rounds that succeed.
FreshFinish == published /\ Finish(job) /\ asked' = 0 /\ UNCHANGED <<published, shown>>

\* The other jobs, and the end.
Others ==
  /\ CancelAll \/ \E j \in Job : Stop(j) \/ (j # job /\ (Begin(j) \/ Finish(j)))
  /\ UNCHANGED <<asked, published, shown>>

FreshNext == FreshTick \/ FreshBegin \/ Publish \/ FreshFinish \/ Others

FreshSpec == FreshInit /\ [][FreshNext]_freshVars

\* The stored value as Snapshots has it, at a time when no age reaches the zero time.
Now == MaxAge + 1
Stored ==
  {[meta |-> [collectedAt |-> Now - s.collected, dataAt |-> Now - s.data,
              staleAfter |-> StaleAfter]] : s \in shown}
-----------------------------------------------------------------------------

\* A snapshot stays up until the next round replaces it, as long as rounds succeed and
\* goroutines are on time, where stale_after also leaves room for the time a round may take.
\* Valid does not ask for that room: with less, a snapshot can expire between two rounds.
NoGapWithRoom ==
  punctual /\ ctx = "live" /\ Valid(StaleAfter - MaxRound[job]) /\ shown # {}
    => Stores!Load(Stored, Now) # {}
=============================================================================
