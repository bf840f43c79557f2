----------------------------- MODULE Scheduler -----------------------------
(***************************************************************************)
(* internal/poller: one goroutine with one timer per job.  A job has an    *)
(* Interval, jittered by a tenth, or a Next that gives the time until its  *)
(* daily mark; its rounds are serial by construction, and the next one is  *)
(* planned when a round ends.                                              *)
(*                                                                         *)
(* A job is in "wait" (its select), in a round ("run") or "stopped".       *)
(* Rounds end within MaxRound of their start: their contexts end at        *)
(* job.Timeout, which collectionTimeout sets to 4/5 of the interval, and a *)
(* round may take longer to notice.                                        *)
(***************************************************************************)
EXTENDS Integers

CONSTANTS
  Job,
  Registrations,  \* the sets of jobs that a configuration may register
  IntervalOf,     \* job.Interval; 0 for a job with a Next
  MaxRound,       \* how long the rounds of a job last at most
  AtOnce,         \* the jobs with RunOnStart
  Day,            \* the length of a day
  MarkOf,         \* when in it the Next of a daily job is due
  OpenOf          \* from when on its RunOnStartWhen holds

ASSUME SchedulerAssumption ==
  /\ IntervalOf \in [Job -> Nat] /\ MaxRound \in [Job -> Nat] /\ AtOnce \subseteq Job
  /\ Day \in Nat \ {0} /\ MarkOf \in [Job -> 0 .. Day - 1]
  /\ \A j \in Job : OpenOf[j] \in 0 .. MarkOf[j]
  /\ Registrations \subseteq SUBSET Job

VARIABLES
  punctual,       \* whether every goroutine is on time; of the whole behaviour
  ctx,            \* "live" or "cancelled"
  clock,          \* time of the day
  pc, timer,      \* per job: where it is, time left of its timer
  elapsed,        \* per job: time since its round started
  sinceStart,     \* history: time since the last start, up to two intervals
  sinceEnd,       \* history: time since the last round ended, up to one interval
  lasted,         \* history: how long that round took, -1 before the first
  marked,         \* history: whether a mark passed since the last start
  served,         \* history: whether a round started since the day last opened
  late            \* history: rounds started after the cancellation, up to 2

history == <<sinceStart, sinceEnd, lasted, marked, served, late>>
vars == <<punctual, ctx, clock, pc, timer, elapsed, history>>

Fixed == {j \in Job : IntervalOf[j] > 0}
Daily == Job \ Fixed

\* Bug: the mark itself counts as still to come.
MutNext(j, t) == IF t <= MarkOf[j] THEN MarkOf[j] - t ELSE Day + MarkOf[j] - t

\* nextShanghaiTime: the next mark is strictly later.
Next(j, t) == IF t < MarkOf[j] THEN MarkOf[j] - t ELSE Day + MarkOf[j] - t

\* Bug: a start at the very opening waits for the next mark.
MutStartsNow(j, t) == j \in AtOnce \/ (j \in Daily /\ t > OpenOf[j])

\* RunOnStart, and RunOnStartWhen of the daily jobs.
StartsNow(j, t) == j \in AtOnce \/ (j \in Daily /\ t >= OpenOf[j])

\* runJob up to its loop; the hash of the phase key may be any phase.
FirstDelays(j, t) ==
  IF StartsNow(j, t) THEN {0} ELSE IF j \in Daily THEN {Next(j, t)} ELSE 0 .. IntervalOf[j] - 1

\* Bug: the jitter is a third of the interval.
MutJittered(interval) == interval - interval \div 3 .. interval + interval \div 3

\* jitteredInterval: a tenth either way, nothing where a tenth is less than a unit.
Jittered(interval) == interval - interval \div 10 .. interval + interval \div 10

\* A delay that is not positive is an overlap: the job waits a whole interval, or
\* a second, here the least time.
AfterRound(j, delay) ==
  IF delay > 0 THEN delay ELSE IF IntervalOf[j] > 0 THEN IntervalOf[j] ELSE 1

\* Bug: the time the round took is not taken off.
MutNextDelays(j) ==
  IF j \in Daily THEN {Next(j, clock)} ELSE Jittered(IntervalOf[j])

NextDelays(j) ==
  IF j \in Daily THEN {Next(j, clock)}
  ELSE {interval - elapsed[j] : interval \in Jittered(IntervalOf[j])}

Up(j) == pc[j] # "stopped"

\* Jobs that are not registered are stopped from the beginning.
Init ==
  /\ punctual \in BOOLEAN /\ ctx = "live" /\ clock \in 0 .. Day - 1
  /\ \E R \in Registrations :
       /\ pc = [j \in Job |-> IF j \in R THEN "wait" ELSE "stopped"]
       /\ timer \in [Job -> {0} \cup UNION {FirstDelays(j, clock) : j \in R}]
       /\ \A j \in Job : timer[j] \in IF j \in R THEN FirstDelays(j, clock) ELSE {0}
  /\ elapsed = [j \in Job |-> 0]
  /\ sinceStart = [j \in Job |-> 2 * IntervalOf[j]] /\ sinceEnd = [j \in Job |-> IntervalOf[j]]
  /\ lasted = [j \in Job |-> -1] /\ marked = [j \in Job |-> FALSE]
  /\ served = [j \in Job |-> clock < OpenOf[j]] /\ late = [j \in Job |-> 0]

More(t, limit) == IF t < limit THEN t + 1 ELSE t

\* Rounds end in time; with goroutines on time, time passes only while every job waits for it.
MayTick ==
  \A j \in Job : /\ (pc[j] = "run" => elapsed[j] < MaxRound[j])
                  /\ (punctual /\ pc[j] = "wait" => timer[j] > 0 /\ ctx = "live")

Tick ==
  /\ MayTick
  /\ clock' = (clock + 1) % Day
  /\ timer' = [j \in Job |-> IF timer[j] > 0 THEN timer[j] - 1 ELSE 0]
  /\ elapsed' = [j \in Job |-> IF pc[j] = "run" THEN elapsed[j] + 1 ELSE 0]
  /\ sinceStart' = [j \in Job |-> More(sinceStart[j], 2 * IntervalOf[j])]
  /\ sinceEnd' = [j \in Job |-> More(sinceEnd[j], IntervalOf[j])]
  /\ marked' = [j \in Job |-> Up(j) /\ (marked[j] \/ clock' = MarkOf[j])]
  /\ served' = [j \in Job |-> Up(j) /\ served[j] /\ clock' # OpenOf[j]]
  /\ UNCHANGED <<punctual, ctx, pc, lasted, late>>

\* The timer fired.  With the context done too, the select may take either.
Begin(j) ==
  /\ pc[j] = "wait" /\ timer[j] = 0
  /\ pc' = [pc EXCEPT ![j] = "run"]
  /\ sinceStart' = [sinceStart EXCEPT ![j] = 0]
  /\ marked' = [marked EXCEPT ![j] = FALSE] /\ served' = [served EXCEPT ![j] = TRUE]
  /\ late' = [late EXCEPT ![j] = IF ctx = "cancelled" THEN More(@, 2) ELSE 0]
  /\ UNCHANGED <<punctual, ctx, clock, timer, elapsed, sinceEnd, lasted>>

\* A round ends, with whatever result; the next one is planned.
Finish(j) ==
  /\ pc[j] = "run"
  /\ pc' = [pc EXCEPT ![j] = "wait"]
  /\ \E delay \in NextDelays(j) : timer' = [timer EXCEPT ![j] = AfterRound(j, delay)]
  /\ elapsed' = [elapsed EXCEPT ![j] = 0]
  /\ lasted' = [lasted EXCEPT ![j] = elapsed[j]]
  /\ sinceEnd' = [sinceEnd EXCEPT ![j] = 0]
  /\ UNCHANGED <<punctual, ctx, clock, sinceStart, marked, served, late>>

Stop(j) ==
  /\ ctx = "cancelled" /\ pc[j] = "wait"
  /\ pc' = [pc EXCEPT ![j] = "stopped"]
  /\ UNCHANGED <<punctual, ctx, clock, timer, elapsed, history>>

\* The process is told to stop.
CancelAll ==
  /\ ctx = "live" /\ ctx' = "cancelled"
  /\ UNCHANGED <<punctual, clock, pc, timer, elapsed, history>>

Steps == CancelAll \/ \E j \in Job : Begin(j) \/ Finish(j) \/ Stop(j)

Spec == Init /\ [][Tick \/ Steps]_vars
-----------------------------------------------------------------------------
TypeOK ==
  /\ punctual \in BOOLEAN /\ ctx \in {"live", "cancelled"} /\ clock \in 0 .. Day - 1
  /\ pc \in [Job -> {"wait", "run", "stopped"}]
  /\ timer \in [Job -> Nat] /\ elapsed \in [Job -> Nat]
  /\ sinceStart \in [Job -> Nat] /\ sinceEnd \in [Job -> Nat] /\ lasted \in [Job -> Nat \cup {-1}]
  /\ marked \in [Job -> BOOLEAN] /\ served \in [Job -> BOOLEAN] /\ late \in [Job -> 0 .. 2]

Starts(j) == pc[j] = "wait" /\ pc'[j] = "run"

\* Two rounds of a job start at least nine tenths of its interval apart, whatever
\* they last and however late their goroutines run: a fast answer, a slow one or an
\* overlap never bunches the calls the admission counted on.
StartsAreSpaced ==
  [][\A j \in Fixed : Starts(j) => sinceStart[j] >= IntervalOf[j] - IntervalOf[j] \div 10]_vars

\* A round that outlasted its interval is followed by a whole interval of rest:
\* there is no backlog to catch up with.
OverlapRests ==
  [][\A j \in Fixed :
       Starts(j) /\ lasted[j] >= IntervalOf[j] + IntervalOf[j] \div 10
         => sinceEnd[j] >= IntervalOf[j]]_vars

\* A round that ends by the deadline of collectionTimeout never costs a turn: with
\* goroutines on time, the next start is at most 1.1 intervals after its own.
DeadlineKeepsTurns ==
  [][\A j \in Fixed :
       punctual /\ Starts(j) /\ lasted[j] >= 0 /\ 5 * lasted[j] <= 4 * IntervalOf[j]
         => sinceStart[j] <= IntervalOf[j] + IntervalOf[j] \div 10]_vars

\* A daily job runs at most once per mark, the round it starts with apart: planning
\* at the end of a round never finds the mark that round was for.
OncePerMark == [][\A j \in Daily : Starts(j) /\ lasted[j] >= 0 => marked[j]]_vars

\* A day that has opened while the process was up had its round before the next one opens,
\* with goroutines on time: RunOnStartWhen and Next leave no gap, not even for a process that
\* starts between the opening and the mark and whose first round runs into the mark.
EveryDayServed ==
  [][\A j \in Daily : clock # clock' /\ clock' = OpenOf[j] /\ punctual /\ Up(j)
                                => served[j] \/ ctx = "cancelled"]_vars

\* With goroutines on time at most one round of a job starts after the process was told to stop: only the choice of one
\* select between a timer and a context that are both ready can start it.
OneLateRound == punctual => \A j \in Job : late[j] <= 1
=============================================================================
