---------------------------- MODULE KodoCollect ----------------------------
(***************************************************************************)
(* app/kodo.go: what one round collects for one bucket, by job, and what   *)
(* a scrape shows of it (collector/kodo.go) while the clock crosses the    *)
(* ends of days and months.  Capacity and activity take one bucket of      *)
(* several answers; the summary adds the days of the current month up to   *)
(* the safe time.  The answers are arbitrary.                              *)
(***************************************************************************)
EXTENDS SafeBucket, FiniteSets

CONSTANTS
  DayTicks, MonthDays,    \* buckets of a day, days of a month
  Lag,                    \* source_lag
  Horizon,                \* bound on the clock
  Requests,               \* how many requests capacity and activity make
  Answers,                \* the point sequences of the answers to them
  DayAnswers              \* and to the requests of the summary

\* Asserted where the module is instantiated.
KodoCollectAssumption ==
  /\ {DayTicks, MonthDays, Requests} \subseteq Nat \ {0} /\ {Lag, Horizon} \subseteq Nat
  /\ Answers \subseteq Seq(Int) /\ DayAnswers \subseteq Seq(Int)

VARIABLES
  job,            \* of the whole behaviour
  now,
  round,          \* the requests made, the window and what was selected so far
  store           \* {} or {the snapshot}

vars == <<job, now, round, store>>

MonthStart(t) == (t \div (DayTicks * MonthDays)) * (DayTicks * MonthDays)
SameMonth(s, t) == MonthStart(s) = MonthStart(t)

Summary == job = "summary"

\* newest: history, the newest bucket end of each answer that was safe.
Resting == [step |-> 0, begin |-> 0, end |-> 0, selected |-> <<>>, newest |-> <<>>]

Init ==
  /\ job \in {"capacity", "activity", "summary"}
  /\ now \in 0 .. DayTicks * MonthDays - 1 /\ round = Resting /\ store = {}

Tick == now < Horizon /\ now' = now + 1 /\ UNCHANGED <<job, round, store>>

SafeEnd == now - Lag

Window(begin) == [step |-> 1, begin |-> begin, end |-> SafeEnd, selected |-> <<>>, newest |-> <<>>]

\* kodoQuery
Begin ==
  /\ ~Summary /\ round.step = 0
  /\ round' = Window(SafeEnd - 3)
  /\ UNCHANGED <<job, now, store>>

\* A request fails, its answer is malformed, or it has no safe bucket.
Error ==
  /\ round.step # 0
  /\ round' = Resting /\ UNCHANGED <<job, now, store>>

BucketEnd(points, safeBefore) ==
  IF job = "capacity" THEN KodoBucketEnd(points, safeBefore) ELSE KodoRateBucketEnd(points, safeBefore)

NewestEnd(points, safeBefore) ==
  Max({points[i] + 1 : i \in DOMAIN points} \cap {t \in Int : t <= safeBefore})

\* fetchArrayPoint and fetchValuePoint; the last answer leads to publishKodoSnapshot.
Select(points) ==
  /\ ~Summary /\ round.step # 0
  /\ \E e \in BucketEnd(points, round.end) :
       LET ends == Append(round.selected, e)
       IN IF round.step < Requests
          THEN /\ round' = [round EXCEPT !.step = @ + 1, !.selected = ends,
                                         !.newest = Append(@, NewestEnd(points, round.end))]
               /\ UNCHANGED store
          ELSE /\ round' = Resting
               /\ store' = IF MatchingBucketEnd(ends) = {} THEN store
                           ELSE {[dataAt |-> at, ends |-> ends, days |-> {}] : at \in MatchingBucketEnd(ends)}
  /\ UNCHANGED <<job, now>>

MonthBegin == MonthStart(now)

\* kodoMonthToDateQuery; before the month has a safe bucket, zero is published at once.
BeginSummary ==
  /\ Summary /\ round.step = 0
  /\ IF MonthBegin < SafeEnd
     THEN round' = Window(MonthBegin) /\ UNCHANGED store
     ELSE store' = {[dataAt |-> MonthBegin, ends |-> <<>>, days |-> {}]} /\ UNCHANGED round
  /\ UNCHANGED <<job, now>>

\* Bug: a day outside the window is added all the same.
MutSummed(points, begin, end) ==
  IF Increasing(points) /\ \A i \in DOMAIN points : points[i] % DayTicks = 0
  THEN {{points[i] : i \in DOMAIN points}} ELSE {}

\* sumMonthToDateDailyUsage: the days that are added; {} is an error.
Summed(points, begin, end) ==
  IF Increasing(points)
       /\ \A i \in DOMAIN points : points[i] % DayTicks = 0 /\ begin <= points[i] /\ points[i] < end
  THEN {{points[i] : i \in DOMAIN points}} ELSE {}

\* The two totals of the summary; both are of the query's window.
SelectSummary(points) ==
  /\ Summary /\ round.step # 0
  /\ \E days \in Summed(points, round.begin, round.end) :
       IF round.step = 1
       THEN round' = [round EXCEPT !.step = 2, !.selected = <<days>>] /\ UNCHANGED store
       ELSE /\ store' = {[dataAt |-> round.end, ends |-> <<>>, days |-> days \cup round.selected[1]]}
            /\ round' = Resting
  /\ UNCHANGED <<job, now>>

Next ==
  \/ Tick \/ Begin \/ BeginSummary \/ Error
  \/ \E points \in Answers : Select(points)
  \/ \E points \in DayAnswers : SelectSummary(points)

Spec == Init /\ [][Next]_vars
-----------------------------------------------------------------------------
\* KodoCollector.Collect: totals of another month than the scrape's are not exposed.
ShownTotals == {s \in store : SameMonth(s.dataAt, now)}

\* What capacity and activity export is one bucket of all their answers, over for a source
\* lag at least; and the newest such of each: a gap never leads to an older one.
OneSafeBucket ==
  ~Summary =>
    /\ round.selected = round.newest
    /\ \A s \in store :
         /\ Len(s.ends) = Requests /\ \A i \in DOMAIN s.ends : s.ends[i] = s.dataAt
         /\ s.dataAt + Lag <= now

\* No scrape shows a total as the current month's that counts a day of another month, or a
\* day later than its data time; a round that began before the month's end and finished
\* after it included.
TotalsAreOfThisMonth ==
  Summary => \A s \in ShownTotals :
    /\ SameMonth(s.dataAt, now) /\ s.dataAt <= now
    /\ \A d \in s.days : SameMonth(d, now) /\ d < s.dataAt
=============================================================================
