------------------------------ MODULE CDNUsage ------------------------------
(***************************************************************************)
(* app/cdn.go: the traffic totals of a monitoring round.  The buckets of   *)
(* the last complete hour and of today come from the round's monitoring    *)
(* answers, cut off at the oldest of their ends; those of the completed    *)
(* days of the month from metering.  The domains are asked for by date, a  *)
(* batch each, and any of them may fail or lag behind.  A bucket is a tick *)
(* of the clock; a total stands for the buckets that were added.           *)
(***************************************************************************)
EXTENDS Integers, FiniteSets, FiniteSetsExt

CONSTANTS
  Domain,                             \* the scope of the round
  HourTicks, DayTicks, MonthDays,     \* buckets of an hour and of a day, days of a month
  Lag,                                \* source_lag
  Late,                               \* bound on how far an answer is behind
  Horizon                             \* bound on the clock

\* Asserted where the module is instantiated.
UsageAssumption ==
  /\ {HourTicks, DayTicks, MonthDays} \subseteq Nat \ {0} /\ {Lag, Late, Horizon} \subseteq Nat
  /\ DayTicks % HourTicks = 0

VARIABLES
  now,
  round,          \* the window; begin and end of the domains' answers; what failed
  usage           \* {} or {the snapshot}

vars == <<now, round, usage>>

HourStart(t) == (t \div HourTicks) * HourTicks
DayStart(t) == (t \div DayTicks) * DayTicks
MonthStart(t) == (t \div (DayTicks * MonthDays)) * (DayTicks * MonthDays)

Resting == [pc |-> "idle", safe |-> 0, today |-> 0, todo |-> {}, answers |-> <<>>, priorFailed |-> {}]

Init == now \in DayTicks .. DayTicks * (MonthDays + 1) /\ round = Resting /\ usage = {}

Tick == now < Horizon /\ now' = now + 1 /\ UNCHANGED <<round, usage>>

\* Safe time and midnight of the window; midnight is that of the wall clock.
Begin ==
  /\ round.pc = "idle"
  /\ round' = [Resting EXCEPT !.pc = "monitor", !.safe = now - Lag, !.today = DayStart(now), !.todo = Domain]
  /\ UNCHANGED <<now, usage>>

\* The date from which the window asks.
QueryStart == DayStart(Min({round.today, HourStart(round.safe) - 2 * HourTicks}))

\* validateDateRange: from the day of start to that of end, both included.
ValidRange(start, end, days) == start <= end /\ end - start < days * DayTicks

With(d, answer) == [e \in DOMAIN round.answers \cup {d} |-> IF e = d THEN answer ELSE round.answers[e]]

\* The answer for d begins as asked for and ends with its newest safe bucket.
Monitored(d) ==
  /\ round.pc = "monitor" /\ d \in round.todo /\ ValidRange(QueryStart, DayStart(round.safe), 31)
  /\ \E end \in (round.safe - Late) .. round.safe :
       /\ QueryStart < end
       /\ round' = [round EXCEPT !.todo = @ \ {d}, !.answers = With(d, [begin |-> QueryStart, end |-> end])]
  /\ UNCHANGED <<now, usage>>

MonitorFails(d) ==
  /\ round.pc = "monitor" /\ d \in round.todo
  /\ round' = [round EXCEPT !.todo = @ \ {d}] /\ UNCHANGED <<now, usage>>

Served == DOMAIN round.answers
DataEnd == Min({round.answers[d].end : d \in Served})
PriorMonth == MonthStart(round.today) .. round.today - 1

\* fetchCDNPriorMonthTraffic asks for the domains that were monitored; without any the round
\* is an error.  On the first of the month there is nothing to ask for.
Meter ==
  /\ round.pc = "monitor" /\ round.todo = {}
  /\ IF Served = {} THEN round' = Resting
     ELSE \E failed \in SUBSET (IF PriorMonth = {} THEN {} ELSE Served) :
            round' = [round EXCEPT !.pc = "build", !.priorFailed = failed]
  /\ UNCHANGED <<now, usage>>

Total(buckets) == [buckets |-> buckets, count |-> Cardinality(buckets)]
Merge(a, b) == [buckets |-> a.buckets \cup b.buckets, count |-> a.count + b.count]

\* Bug: the hour up to the data end, whole or not.
MutHour == DataEnd - HourTicks .. DataEnd - 1

Hour == HourStart(DataEnd) - HourTicks .. HourStart(DataEnd) - 1

Today == round.today .. DataEnd - 1

\* AggregateTrafficUsage is an error unless every batch covers the period.
Covered(period) ==
  \A d \in Served : period \subseteq round.answers[d].begin .. round.answers[d].end - 1

\* A total of today that has no buckets yet is zero.
Buildable == Covered(Hour) /\ Covered(Today)

\* The completed days of the month.
Days == {t \in PriorMonth : t % DayTicks = 0}

Day(start) == Total(start .. start + DayTicks - 1)
Prior == FoldSet(LAMBDA start, sum : Merge(sum, Day(start)), Total({}), Days)

\* buildCDNUsageSnapshot; month and daily are left out when metering failed for a domain,
\* daily also when monitoring did.
Snapshot ==
  [dataAt |-> DataEnd, domains |-> Served, complete |-> Served = Domain,
   hour |-> Total(Hour), today |-> Total(Today),
   month |-> IF round.priorFailed = {} THEN {Merge(Prior, Total(Today))} ELSE {},
   daily |-> IF round.priorFailed = {} /\ Served = Domain
             THEN {Day(start) : start \in Days} \cup {Total(Today)} ELSE {}]

\* It is an error, too, when the answers of metering do not fit, or a total overflows.
Publish ==
  /\ round.pc = "build"
  /\ usage' \in {usage} \cup (IF Buildable THEN {{Snapshot}} ELSE {})
  /\ round' = Resting /\ UNCHANGED now

Next == Tick \/ Begin \/ Meter \/ Publish \/ \E d \in Domain : Monitored(d) \/ MonitorFails(d)
-----------------------------------------------------------------------------
\* The hour is whole, the newest that every batch has to the end, and was final when asked
\* for, however far the batches are apart, and today ends where it was cut off; the month is
\* what its days add up to, today among them, and no bucket is counted twice: the metering
\* of the completed days and the monitoring of today meet at midnight, at the turn of a
\* month too.
PeriodsAddUp ==
  \A u \in usage :
    LET end == Max(u.hour.buckets) + 1
    IN /\ end % HourTicks = 0 /\ end <= u.dataAt /\ u.dataAt < end + HourTicks
       /\ u.hour.buckets = end - HourTicks .. end - 1 /\ u.hour.count = HourTicks
       /\ u.dataAt + Lag <= now /\ \A b \in u.today.buckets : b < u.dataAt
       /\ \A m \in u.month :
            /\ m.count = Cardinality(m.buckets) /\ u.today.buckets \subseteq m.buckets
            /\ u.daily # {} => m.buckets = UNION {d.buckets : d \in u.daily}
            /\ \A a, b \in m.buckets : MonthStart(a) = MonthStart(b)
=============================================================================
