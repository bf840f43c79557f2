-------------------------- MODULE BillingEstimates --------------------------
(***************************************************************************)
(* The estimate job of app/billing.go.  The upstream's snapshot of a date  *)
(* is the cost of its month up to that date (on the first day, of the      *)
(* month before).  A run takes the snapshot of its date, fetches those of  *)
(* the month that its cache misses, and publishes the total and then the   *)
(* increments from day to day.  Half a day is a tick: the snapshot of a    *)
(* day is ready from 08:15 on.                                             *)
(***************************************************************************)
EXTENDS Integers, Sequences, SequencesExt

CONSTANTS
  MonthDays,      \* days of a month
  Answers,        \* the snapshots that may be answered: [money, currency]
  Horizon         \* bound on the clock

\* Asserted where the module is instantiated.
EstimatesAssumption ==
  /\ MonthDays \in Nat \ {0, 1} /\ Horizon \in Nat
  /\ \A answer \in Answers : answer.money \in Int

VARIABLES
  now,
  cache,          \* estimateSnapshots: the answers by date
  month,          \* estimateMonth
  run,            \* the job's run: its date, the next date to add up, what it has
  estimate, daily \* the stores: {} or {what is published}, with the date of its run

vars == <<now, cache, month, run, estimate, daily>>

DayOf(date) == (date % MonthDays) + 1
MonthOf(date) == date \div MonthDays

Resting == [pc |-> "idle", date |-> 0, next |-> 0, total |-> 0, previous |-> <<>>, costs |-> <<>>]

Init ==
  /\ now \in 0 .. 2 * MonthDays - 1 /\ cache = <<>> /\ month = -1 /\ run = Resting
  /\ estimate = {} /\ daily = {}

Tick == now < Horizon /\ now' = now + 1 /\ UNCHANGED <<cache, month, run, estimate, daily>>

\* SelectPeriods; {} is "not ready".
SnapshotDate(t) ==
  IF t % 2 = 1 THEN {t \div 2} ELSE {t \div 2 - 1} \ {d \in {t \div 2 - 1} : DayOf(t \div 2) = 1}

Begin ==
  /\ run.pc = "idle"
  /\ \E date \in SnapshotDate(now) : run' = [Resting EXCEPT !.pc = "total", !.date = date]
  /\ UNCHANGED <<now, cache, month, estimate, daily>>

\* validateCurrency
Valid(answer) == answer.currency \in {"CNY", "USD"}

\* A request fails, or its answer is not valid: what the cache has stays.
Fail ==
  /\ run.pc \in {"total", "daily"}
  /\ run' = Resting /\ UNCHANGED <<now, cache, month, estimate, daily>>

\* A cache with one more answer.
With(date, answer, snapshots) ==
  [d \in DOMAIN snapshots \cup {date} |-> IF d = date THEN answer ELSE snapshots[d]]

\* What the cache keeps when a run's date is of another month.
Kept == IF MonthOf(run.date) = month THEN cache ELSE <<>>

\* collectDailyEstimates begins with the second day.
First == run.date - DayOf(run.date) + 2

TakeTotal(answer) ==
  /\ run.pc = "total" /\ Valid(answer)
  /\ month' = MonthOf(run.date)
  /\ cache' = With(run.date, answer, Kept)
  /\ run' = [run EXCEPT !.pc = IF DayOf(run.date) = 1 THEN "publish" ELSE "daily",
                        !.next = First, !.total = answer.money]
  /\ UNCHANGED <<now, estimate, daily>>

\* Bug: a snapshot of the cache does not become the previous one.
MutAddUp(answer) ==
  run' = [run EXCEPT !.costs = Append(@, answer.money - (IF run.previous = <<>> THEN 0 ELSE run.previous[1].money)),
                     !.previous = IF run.next \in DOMAIN cache THEN @ ELSE <<answer>>,
                     !.next = @ + 1, !.pc = IF run.next = run.date THEN "publish" ELSE "daily"]

\* The increment over the day before; the second day's snapshot is that of the first.
AddUp(answer) ==
  run' = [run EXCEPT !.costs = Append(@, answer.money - (IF run.previous = <<>> THEN 0 ELSE run.previous[1].money)),
                     !.previous = <<answer>>,
                     !.next = @ + 1, !.pc = IF run.next = run.date THEN "publish" ELSE "daily"]

\* The snapshot of the next date, of the cache or fetched.  It is cached before its currency
\* is looked at, so that a snapshot that does not fit ends this run and those after it.
AddDay(answer) ==
  /\ run.pc = "daily"
  /\ IF run.next \in DOMAIN cache THEN answer = cache[run.next] /\ UNCHANGED cache
     ELSE cache' = With(run.next, answer, cache)
  /\ IF Valid(answer) /\ \A i \in DOMAIN run.previous : run.previous[i].currency = answer.currency
     THEN AddUp(answer) ELSE run' = Resting
  /\ UNCHANGED <<now, month, estimate, daily>>

PublishTotal ==
  /\ run.pc = "publish"
  /\ estimate' = {[date |-> run.date, money |-> run.total]}
  /\ run' = [run EXCEPT !.pc = "publish daily"] /\ UNCHANGED <<now, cache, month, daily>>

PublishDaily ==
  /\ run.pc = "publish daily"
  /\ daily' = {[date |-> run.date, costs |-> run.costs]}
  /\ run' = Resting /\ UNCHANGED <<now, cache, month, estimate>>

Next ==
  \/ Tick \/ Begin \/ Fail \/ PublishTotal \/ PublishDaily
  \/ \E answer \in Answers : TakeTotal(answer) \/ AddDay(answer)
-----------------------------------------------------------------------------
\* The daily costs that are exposed are one for each day up to the estimate's date and add up
\* to the estimate, except between the two publications: whatever was cached by earlier runs,
\* fetched late or missed.  Those of the first day, which is about the month before, are none.
DailyAddsUp ==
  run.pc # "publish daily" =>
    \A e \in estimate, d \in daily :
      /\ d.date = e.date /\ Len(d.costs) = DayOf(d.date) - 1
      /\ DayOf(d.date) > 1 => FoldLeft(LAMBDA a, b : a + b, 0, d.costs) = e.money
=============================================================================
