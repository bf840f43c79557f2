--------------------------- MODULE SchedulingProofs ---------------------------
(***************************************************************************)
(* The timing that Scheduler promises, for any jobs, intervals, durations  *)
(* and marks.  What a job has still to wait is related to the time since   *)
(* its last start and end, which the code does not keep: the invariants    *)
(* say that the two always add up.  The age of the snapshot that Freshness *)
(* follows is such a time too.  Last, the shutdown of Process.             *)
(***************************************************************************)
EXTENDS MCScheduling, TLAPS

Tenth(j) == IntervalOf[j] \div 10

\* A round is as old as its start, and no time of a round is left over.
AgesInv ==
  \A j \in Job :
    /\ pc[j] # "run" => elapsed[j] = 0
    /\ pc[j] = "run" => sinceStart[j] <= elapsed[j]
    /\ pc[j] = "run" => sinceStart[j] >= elapsed[j] \/ sinceStart[j] >= 2 * IntervalOf[j]
    /\ sinceStart[j] <= 2 * IntervalOf[j] /\ sinceEnd[j] <= IntervalOf[j]

\* What a fixed job has waited since its start and has still to wait is at least nine tenths
\* of its interval.
SpacedInv ==
  \A j \in Fixed : pc[j] = "wait" => sinceStart[j] + timer[j] >= IntervalOf[j] - Tenth(j)

\* After an overlap it is the interval since its end.
RestInv ==
  \A j \in Fixed :
    pc[j] = "wait" /\ lasted[j] >= IntervalOf[j] + Tenth(j) => sinceEnd[j] + timer[j] >= IntervalOf[j]

\* After a round within its deadline it is at most eleven tenths.
TurnInv ==
  \A j \in Fixed :
    punctual /\ pc[j] = "wait" /\ lasted[j] >= 0 /\ 5 * lasted[j] <= 4 * IntervalOf[j]
      => sinceStart[j] + timer[j] <= IntervalOf[j] + Tenth(j)

\* A daily job waits for its next mark until it comes.
MarkInv ==
  \A j \in Daily : pc[j] = "wait" /\ lasted[j] >= 0 => marked[j] \/ timer[j] = Next(j, clock)

\* A job that started late does not wait with its timer fired: time does not pass then.
LateInv ==
  /\ ctx = "live" => \A j \in Job : late[j] = 0
  /\ punctual => \A j \in Job :
       late[j] <= 1 /\ (late[j] = 1 /\ pc[j] = "wait" => timer[j] > 0)

LEMMA IntervalFacts == \A j \in Job : IntervalOf[j] \in Nat /\ (j \in Fixed => IntervalOf[j] > 0)
  BY SchedulerAssumption DEF Fixed

LEMMA TenthFacts == \A j \in Job : Tenth(j) \in Nat /\ 10 * Tenth(j) <= IntervalOf[j]
<1>1. \A n \in Nat : n \div 10 \in Nat /\ 10 * (n \div 10) <= n
    OBVIOUS
<1> QED BY <1>1, IntervalFacts DEF Tenth

LEMMA JitteredFacts ==
  ASSUME NEW j \in Job, NEW i \in Jittered(IntervalOf[j])
  PROVE  i \in Int /\ IntervalOf[j] - Tenth(j) <= i /\ i <= IntervalOf[j] + Tenth(j)
  BY IntervalFacts DEF Jittered, Tenth

LEMMA NextFacts ==
  ASSUME NEW j \in Job, NEW t \in 0 .. Day - 1
  PROVE  Next(j, t) \in Nat /\ Next(j, t) > 0
  BY SchedulerAssumption DEF Next

\* What a timer is set to is positive.
LEMMA AfterRoundFacts ==
  ASSUME NEW j \in Job, NEW delay \in Int
  PROVE  /\ AfterRound(j, delay) \in Nat /\ AfterRound(j, delay) > 0
         /\ delay > 0 => AfterRound(j, delay) = delay
         /\ j \in Fixed /\ delay <= 0 => AfterRound(j, delay) = IntervalOf[j]
  BY IntervalFacts DEF AfterRound

LEMMA InitType == Init => TypeOK
<1> SUFFICES ASSUME Init PROVE TypeOK
    OBVIOUS
<1>1. PICK R \in Registrations :
        /\ pc = [j \in Job |-> IF j \in R THEN "wait" ELSE "stopped"]
        /\ timer \in [Job -> {0} \cup UNION {FirstDelays(j, clock) : j \in R}]
    BY DEF Init
<1>2. R \subseteq Job
    BY SchedulerAssumption
<1>3. ASSUME NEW j \in Job PROVE FirstDelays(j, clock) \subseteq Nat
    BY NextFacts, IntervalFacts, <1>3 DEF FirstDelays, Init
<1>4. timer \in [Job -> Nat]
    BY <1>1, <1>2, <1>3
<1> QED BY <1>1, <1>4, SchedulerAssumption DEF Init, TypeOK

LEMMA StepType == TypeOK /\ [Tick \/ Steps]_vars => TypeOK'
<1> SUFFICES ASSUME TypeOK, [Tick \/ Steps]_vars PROVE TypeOK'
    OBVIOUS
<1> USE DEF TypeOK
<1>1. CASE Tick
    <2>1. clock' \in 0 .. Day - 1
        BY <1>1, SchedulerAssumption DEF Tick
    <2>2. timer' \in [Job -> Nat] /\ elapsed' \in [Job -> Nat]
        BY <1>1 DEF Tick
    <2>3. sinceStart' \in [Job -> Nat] /\ sinceEnd' \in [Job -> Nat]
        BY <1>1 DEF Tick, More
    <2>4. marked' \in [Job -> BOOLEAN]
        <3>1. marked' = [j \in Job |-> Up(j) /\ (marked[j] \/ clock' = MarkOf[j])]
            BY <1>1 DEF Tick
        <3>2. \A j \in Job : (Up(j) /\ (marked[j] \/ clock' = MarkOf[j])) \in BOOLEAN
            BY ZenonT(20)
        <3> QED BY <3>1, <3>2, ZenonT(20)
    <2>5. served' \in [Job -> BOOLEAN]
        <3>1. served' = [j \in Job |-> Up(j) /\ served[j] /\ clock' # OpenOf[j]]
            BY <1>1 DEF Tick
        <3>2. \A j \in Job : (Up(j) /\ served[j] /\ clock' # OpenOf[j]) \in BOOLEAN
            BY ZenonT(20)
        <3> QED BY <3>1, <3>2, ZenonT(20)
    <2> QED BY <1>1, <2>1, <2>2, <2>3, <2>4, <2>5 DEF Tick
<1>2. ASSUME NEW j \in Job, Begin(j) PROVE TypeOK'
    BY <1>2 DEF Begin, More
<1>3. ASSUME NEW j \in Job, Finish(j) PROVE TypeOK'
    <2>1. PICK delay \in NextDelays(j) : timer' = [timer EXCEPT ![j] = AfterRound(j, delay)]
        BY <1>3 DEF Finish
    <2>2. delay \in Int
        BY <2>1, JitteredFacts, NextFacts DEF NextDelays
    <2>3. timer' \in [Job -> Nat]
        BY <2>1, <2>2, AfterRoundFacts
    <2> QED BY <1>3, <2>3 DEF Finish
<1>4. ASSUME NEW j \in Job, Stop(j) PROVE TypeOK'
    BY <1>4 DEF Stop, history
<1>5. CASE CancelAll
    BY <1>5 DEF CancelAll, history
<1>6. CASE UNCHANGED vars
    BY <1>6 DEF vars, history
<1> QED BY <1>1, <1>2, <1>3, <1>4, <1>5, <1>6 DEF Steps

LEMMA InitTiming == Init => AgesInv /\ SpacedInv /\ RestInv /\ TurnInv /\ MarkInv /\ LateInv
<1> SUFFICES ASSUME Init PROVE AgesInv /\ SpacedInv /\ RestInv /\ TurnInv /\ MarkInv /\ LateInv
    OBVIOUS
<1>1. \A j \in Job : pc[j] \in {"wait", "stopped"} /\ timer[j] \in Nat
    BY InitType DEF Init, TypeOK
<1>2. AgesInv
    <2>1. \A j \in Job : /\ pc[j] # "run" /\ elapsed[j] = 0
                         /\ sinceStart[j] = 2 * IntervalOf[j] /\ sinceEnd[j] = IntervalOf[j]
        BY <1>1 DEF Init
    <2>2. ASSUME NEW j \in Job
          PROVE  2 * IntervalOf[j] <= 2 * IntervalOf[j] /\ IntervalOf[j] <= IntervalOf[j]
        <3>1. IntervalOf[j] \in Nat
            BY IntervalFacts
        <3> QED BY <3>1
    <2> QED BY <2>1, <2>2 DEF AgesInv
<1>3. SpacedInv
    BY <1>1, IntervalFacts, TenthFacts DEF SpacedInv, Init, Fixed
<1>4. RestInv /\ TurnInv /\ MarkInv
    BY <1>1, IntervalFacts, TenthFacts DEF RestInv, TurnInv, MarkInv, Init, Fixed, Daily
<1>5. LateInv
    BY DEF LateInv, Init
<1> QED BY <1>2, <1>3, <1>4, <1>5

\* The steps of Tick, of the functions it changes.
LEMMA TickFacts ==
  ASSUME TypeOK, Tick, NEW j \in Job
  PROVE  /\ pc'[j] = pc[j] /\ lasted'[j] = lasted[j] /\ late'[j] = late[j]
         /\ punctual' = punctual /\ ctx' = ctx /\ timer[j] \in Nat
         /\ timer'[j] = (IF timer[j] > 0 THEN timer[j] - 1 ELSE 0)
         /\ elapsed'[j] = (IF pc[j] = "run" THEN elapsed[j] + 1 ELSE 0)
         /\ sinceStart'[j] = (IF sinceStart[j] < 2 * IntervalOf[j] THEN sinceStart[j] + 1 ELSE sinceStart[j])
         /\ sinceEnd'[j] = (IF sinceEnd[j] < IntervalOf[j] THEN sinceEnd[j] + 1 ELSE sinceEnd[j])
         /\ punctual /\ pc[j] = "wait" => timer[j] > 0 /\ ctx = "live"
  BY DEF Tick, TypeOK, More, MayTick

\* A step of one job leaves the others alone.
Alone(j) ==
  \A i \in Job \ {j} :
    /\ pc'[i] = pc[i] /\ timer'[i] = timer[i] /\ elapsed'[i] = elapsed[i]
    /\ sinceStart'[i] = sinceStart[i] /\ sinceEnd'[i] = sinceEnd[i] /\ lasted'[i] = lasted[i]
    /\ marked'[i] = marked[i] /\ late'[i] = late[i]

LEMMA BeginFacts ==
  ASSUME TypeOK, NEW j \in Job, Begin(j)
  PROVE  /\ pc[j] = "wait" /\ timer[j] = 0 /\ pc'[j] = "run" /\ sinceStart'[j] = 0
         /\ late'[j] = (IF ctx = "cancelled" THEN IF late[j] < 2 THEN late[j] + 1 ELSE late[j] ELSE 0)
         /\ timer'[j] = timer[j] /\ elapsed'[j] = elapsed[j] /\ sinceEnd'[j] = sinceEnd[j]
         /\ UNCHANGED <<punctual, ctx, clock>> /\ Alone(j)
  BY DEF Begin, TypeOK, Alone, More

LEMMA FinishFacts ==
  ASSUME TypeOK, NEW j \in Job, Finish(j)
  PROVE  /\ pc[j] = "run" /\ pc'[j] = "wait" /\ elapsed'[j] = 0 /\ lasted'[j] = elapsed[j]
         /\ sinceEnd'[j] = 0 /\ sinceStart'[j] = sinceStart[j] /\ late'[j] = late[j] /\ marked'[j] = marked[j]
         /\ UNCHANGED <<punctual, ctx, clock>> /\ Alone(j)
         /\ timer'[j] \in Nat /\ timer'[j] > 0
         /\ j \in Daily => timer'[j] = Next(j, clock)
         /\ j \in Fixed => \E i \in Int :
              /\ IntervalOf[j] - Tenth(j) <= i /\ i <= IntervalOf[j] + Tenth(j)
              /\ timer'[j] = IF i - elapsed[j] > 0 THEN i - elapsed[j] ELSE IntervalOf[j]
<1>1. PICK delay \in NextDelays(j) : timer' = [timer EXCEPT ![j] = AfterRound(j, delay)]
    BY DEF Finish
<1>2. timer'[j] = AfterRound(j, delay)
    BY <1>1 DEF TypeOK
<1>3. delay \in Int
    BY <1>1, JitteredFacts, NextFacts DEF NextDelays, TypeOK
<1>4. timer'[j] \in Nat /\ timer'[j] > 0
    BY <1>2, <1>3, AfterRoundFacts
<1>5. ASSUME j \in Daily PROVE timer'[j] = Next(j, clock)
    <2>1. delay = Next(j, clock)
        BY <1>1, <1>5 DEF NextDelays
    <2> QED BY <1>2, <2>1, AfterRoundFacts, NextFacts DEF TypeOK
<1>6. ASSUME j \in Fixed
      PROVE  \E i \in Int :
               /\ IntervalOf[j] - Tenth(j) <= i /\ i <= IntervalOf[j] + Tenth(j)
               /\ timer'[j] = IF i - elapsed[j] > 0 THEN i - elapsed[j] ELSE IntervalOf[j]
    <2>1. PICK i \in Jittered(IntervalOf[j]) : delay = i - elapsed[j]
        BY <1>1, <1>6 DEF NextDelays, Daily
    <2> QED BY <1>2, <1>3, <1>6, <2>1, JitteredFacts, AfterRoundFacts
<1>7. /\ pc[j] = "run" /\ pc'[j] = "wait" /\ elapsed'[j] = 0 /\ lasted'[j] = elapsed[j]
      /\ sinceEnd'[j] = 0 /\ sinceStart'[j] = sinceStart[j] /\ late'[j] = late[j] /\ marked'[j] = marked[j]
      /\ UNCHANGED <<punctual, ctx, clock>>
    BY DEF Finish, TypeOK
<1>8. Alone(j)
    BY <1>1 DEF Finish, TypeOK, Alone
<1> QED BY <1>4, <1>5, <1>6, <1>7, <1>8

\* Steps that change neither a timer nor the times since.
LEMMA OtherFacts ==
  ASSUME TypeOK, CancelAll \/ (\E j \in Job : Stop(j)) \/ UNCHANGED vars
  PROVE  /\ UNCHANGED <<punctual, clock, timer, elapsed, sinceStart, sinceEnd, lasted, marked, late>>
         /\ ctx' \in {"live", "cancelled"} /\ (ctx' = "live" => ctx = "live")
         /\ \A i \in Job : pc'[i] = pc[i] \/ pc'[i] = "stopped"
<1>1. CASE CancelAll
    BY <1>1 DEF CancelAll, history
<1>2. ASSUME NEW j \in Job, Stop(j)
      PROVE  /\ UNCHANGED <<punctual, ctx, clock, timer, elapsed, history>>
             /\ \A i \in Job : pc'[i] = pc[i] \/ pc'[i] = "stopped"
    BY <1>2 DEF Stop, TypeOK
<1>3. CASE UNCHANGED vars
    BY <1>3 DEF vars, history, TypeOK
<1> QED BY <1>1, <1>2, <1>3 DEF history, TypeOK

Timing == AgesInv /\ SpacedInv /\ RestInv /\ TurnInv /\ LateInv

LEMMA TickTiming == TypeOK /\ Timing /\ Tick => Timing'
<1> SUFFICES ASSUME TypeOK, Timing, Tick PROVE Timing'
    OBVIOUS
<1> USE DEF Timing
<1>1. \A j \in Job : timer[j] \in Nat /\ elapsed[j] \in Nat /\ sinceStart[j] \in Nat /\ sinceEnd[j] \in Nat
                     /\ late[j] \in 0 .. 2 /\ lasted[j] \in Int
    BY DEF TypeOK
<1>2. AgesInv'
    BY <1>1, TickFacts, IntervalFacts DEF AgesInv
<1>3. SpacedInv'
    BY <1>1, TickFacts, IntervalFacts, TenthFacts DEF SpacedInv, AgesInv, Fixed
<1>4. RestInv'
    BY <1>1, TickFacts, IntervalFacts, TenthFacts DEF RestInv, AgesInv, Fixed
<1>5. TurnInv'
    <2> SUFFICES ASSUME NEW j \in Fixed, punctual', pc'[j] = "wait", lasted'[j] >= 0,
                        5 * lasted'[j] <= 4 * IntervalOf[j]
                 PROVE  sinceStart'[j] + timer'[j] <= IntervalOf[j] + Tenth(j)
        BY DEF TurnInv, Tenth
    <2>1. j \in Job
        BY DEF Fixed
    <2>2. /\ punctual /\ pc[j] = "wait" /\ lasted'[j] = lasted[j]
          /\ timer'[j] = timer[j] - 1 /\ sinceStart'[j] <= sinceStart[j] + 1
        <3>1. IntervalOf[j] \in Nat /\ timer[j] \in Nat /\ sinceStart[j] \in Nat
            BY <1>1, <2>1, IntervalFacts
        <3>2. /\ punctual /\ pc[j] = "wait" /\ lasted'[j] = lasted[j] /\ timer[j] > 0
              /\ timer'[j] = (IF timer[j] > 0 THEN timer[j] - 1 ELSE 0)
              /\ sinceStart'[j] = (IF sinceStart[j] < 2 * IntervalOf[j] THEN sinceStart[j] + 1 ELSE sinceStart[j])
            BY <2>1, TickFacts
        <3> QED BY <3>1, <3>2
    <2>3. sinceStart[j] + timer[j] <= IntervalOf[j] + Tenth(j)
        BY <2>2 DEF TurnInv
    <2>4. sinceStart'[j] \in Nat /\ IntervalOf[j] \in Nat /\ Tenth(j) \in Nat
        BY <2>1, StepType, IntervalFacts, TenthFacts DEF TypeOK
    <2> HIDE DEF Tenth
    <2> QED BY <1>1, <2>1, <2>2, <2>3, <2>4
<1>6. LateInv'
    <2>1. punctual' = punctual /\ ctx' = ctx
        BY DEF Tick
    <2> QED BY <1>1, <2>1, TickFacts DEF LateInv, TypeOK
<1> QED BY <1>2, <1>3, <1>4, <1>5, <1>6

LEMMA BeginTiming == ASSUME TypeOK, Timing, NEW k \in Job, Begin(k) PROVE Timing'
<1> USE DEF Timing
<1>1. \A j \in Job : timer[j] \in Nat /\ elapsed[j] \in Nat /\ sinceStart[j] \in Nat /\ sinceEnd[j] \in Nat
                     /\ late[j] \in 0 .. 2 /\ lasted[j] \in Int
    BY DEF TypeOK
<1>2. AgesInv'
    BY <1>1, BeginFacts, IntervalFacts DEF AgesInv, Alone
<1>3. SpacedInv' /\ RestInv' /\ TurnInv'
    BY BeginFacts DEF SpacedInv, RestInv, TurnInv, Alone, Fixed
<1>4. LateInv'
    BY <1>1, BeginFacts DEF LateInv, Alone, TypeOK
<1> QED BY <1>2, <1>3, <1>4

LEMMA FinishTiming == ASSUME TypeOK, Timing, NEW k \in Job, Finish(k) PROVE Timing'
<1> USE DEF Timing
<1>1. \A j \in Job : timer[j] \in Nat /\ elapsed[j] \in Nat /\ sinceStart[j] \in Nat /\ sinceEnd[j] \in Nat
                     /\ late[j] \in 0 .. 2 /\ lasted[j] \in Int
    BY DEF TypeOK
<1>2. AgesInv'
    BY <1>1, FinishFacts, IntervalFacts DEF AgesInv, Alone
<1>k. ASSUME k \in Fixed
      PROVE  /\ sinceStart'[k] + timer'[k] >= IntervalOf[k] - Tenth(k)
             /\ elapsed[k] >= IntervalOf[k] + Tenth(k) => timer'[k] >= IntervalOf[k]
             /\ 5 * elapsed[k] <= 4 * IntervalOf[k] => sinceStart'[k] + timer'[k] <= IntervalOf[k] + Tenth(k)
    <2>1. PICK i \in Int :
              /\ IntervalOf[k] - Tenth(k) <= i /\ i <= IntervalOf[k] + Tenth(k)
              /\ timer'[k] = IF i - elapsed[k] > 0 THEN i - elapsed[k] ELSE IntervalOf[k]
        BY <1>k, FinishFacts
    <2>2. /\ sinceStart'[k] = sinceStart[k] /\ sinceStart[k] <= elapsed[k]
          /\ sinceStart[k] >= elapsed[k] \/ sinceStart[k] >= 2 * IntervalOf[k]
        BY FinishFacts DEF AgesInv
    <2>3. /\ IntervalOf[k] \in Nat /\ IntervalOf[k] > 0 /\ Tenth(k) \in Nat /\ 10 * Tenth(k) <= IntervalOf[k]
          /\ sinceStart[k] \in Nat /\ elapsed[k] \in Nat
        BY <1>1, <1>k, IntervalFacts, TenthFacts
    <2> HIDE DEF Tenth
    <2> QED BY <2>1, <2>2, <2>3
<1>3. SpacedInv'
    BY <1>k, FinishFacts DEF SpacedInv, Alone, Fixed
<1>4. RestInv'
    BY <1>1, <1>k, FinishFacts DEF RestInv, Alone, Fixed
<1>5. TurnInv'
    BY <1>k, FinishFacts DEF TurnInv, Alone, Fixed
<1>6. LateInv'
    BY <1>1, FinishFacts DEF LateInv, Alone, TypeOK
<1> QED BY <1>2, <1>3, <1>4, <1>5, <1>6

LEMMA OtherTiming ==
  ASSUME TypeOK, Timing, CancelAll \/ (\E j \in Job : Stop(j)) \/ UNCHANGED vars
  PROVE  Timing'
<1>1. UNCHANGED <<punctual, timer, elapsed, sinceStart, sinceEnd, lasted, late>>
    BY OtherFacts
<1>2. \A i \in Job : pc'[i] = pc[i] \/ pc'[i] = "stopped"
    BY OtherFacts
<1>3. AgesInv'
    <2>1. \A i \in Job : (pc'[i] = "run" => pc[i] = "run") /\ (pc'[i] # "run" => pc[i] # "run" \/ pc'[i] = "stopped")
        BY <1>2
    <2>2. ASSUME NEW i \in Job, pc[i] = "run" PROVE pc'[i] = "run"
        BY <2>2 DEF CancelAll, Stop, vars, TypeOK
    <2> QED BY <1>1, <2>1, <2>2 DEF Timing, AgesInv
<1>4. SpacedInv' /\ RestInv' /\ TurnInv'
    BY <1>1, <1>2 DEF Timing, SpacedInv, RestInv, TurnInv, Fixed, Tenth
<1>5. LateInv'
    BY <1>1, <1>2, OtherFacts DEF Timing, LateInv
<1> QED BY <1>3, <1>4, <1>5 DEF Timing

LEMMA AlwaysTimed == Spec => [](TypeOK /\ Timing)
<1>1. Init => TypeOK /\ Timing
    BY InitType, InitTiming DEF Timing
<1>2. TypeOK /\ Timing /\ [Tick \/ Steps]_vars => (TypeOK /\ Timing)'
    BY StepType, TickTiming, BeginTiming, FinishTiming, OtherTiming DEF Steps
<1> QED BY <1>1, <1>2, PTL DEF Spec

\* The variables have their types.
THEOREM TypeCorrect == Spec => []TypeOK
  BY AlwaysTimed, PTL

\* A round starts with its timer fired.
LEMMA StartsFired ==
  ASSUME TypeOK, [Tick \/ Steps]_vars, NEW j \in Job, Starts(j)
  PROVE  timer[j] = 0
<1>1. ASSUME NEW k \in Job, Begin(k) PROVE timer[j] = 0
    BY <1>1, BeginFacts DEF Starts, Alone
<1>2. ASSUME NEW k \in Job, Finish(k) PROVE FALSE
    BY <1>2, FinishFacts DEF Starts, Alone
<1>3. CASE Tick
    BY <1>3, TickFacts DEF Starts
<1>4. CASE CancelAll \/ (\E k \in Job : Stop(k)) \/ UNCHANGED vars
    BY <1>4, OtherFacts DEF Starts
<1> QED BY <1>1, <1>2, <1>3, <1>4 DEF Steps

\* Whatever the rounds last and however late goroutines run, two starts of a job are nine
\* tenths of its interval apart.
THEOREM StartsAlwaysSpaced == Spec => StartsAreSpaced
<1>1. ASSUME TypeOK, Timing, [Tick \/ Steps]_vars, NEW j \in Fixed, Starts(j)
      PROVE  sinceStart[j] >= IntervalOf[j] - IntervalOf[j] \div 10
    <2>1. j \in Job
        BY DEF Fixed
    <2>2. timer[j] = 0 /\ sinceStart[j] \in Nat
        BY <1>1, <2>1, StartsFired DEF TypeOK
    <2>3. sinceStart[j] + timer[j] >= IntervalOf[j] - Tenth(j)
        BY <1>1 DEF Timing, SpacedInv, Starts
    <2> QED BY <2>2, <2>3 DEF Tenth
<1>2. TypeOK /\ Timing /\ [Tick \/ Steps]_vars
        => [\A j \in Fixed : Starts(j) => sinceStart[j] >= IntervalOf[j] - IntervalOf[j] \div 10]_vars
    BY <1>1
<1> QED BY AlwaysTimed, <1>2, PTL DEF Spec, StartsAreSpaced

\* A round longer than its interval is followed by a whole interval of rest.
THEOREM OverlapAlwaysRests == Spec => OverlapRests
<1>1. ASSUME TypeOK, Timing, [Tick \/ Steps]_vars, NEW j \in Fixed, Starts(j),
             lasted[j] >= IntervalOf[j] + IntervalOf[j] \div 10
      PROVE  sinceEnd[j] >= IntervalOf[j]
    <2>1. j \in Job
        BY DEF Fixed
    <2>2. timer[j] = 0 /\ sinceEnd[j] \in Nat
        BY <1>1, <2>1, StartsFired DEF TypeOK
    <2>3. sinceEnd[j] + timer[j] >= IntervalOf[j]
        BY <1>1 DEF Timing, RestInv, Starts, Tenth
    <2> QED BY <2>2, <2>3
<1>2. TypeOK /\ Timing /\ [Tick \/ Steps]_vars
        => [\A j \in Fixed : Starts(j) /\ lasted[j] >= IntervalOf[j] + IntervalOf[j] \div 10
                             => sinceEnd[j] >= IntervalOf[j]]_vars
    BY <1>1
<1> QED BY AlwaysTimed, <1>2, PTL DEF Spec, OverlapRests

\* With goroutines on time a round within its deadline never costs a turn.
THEOREM DeadlineAlwaysKeepsTurns == Spec => DeadlineKeepsTurns
<1>1. ASSUME TypeOK, Timing, [Tick \/ Steps]_vars, NEW j \in Fixed, punctual, Starts(j),
             lasted[j] >= 0, 5 * lasted[j] <= 4 * IntervalOf[j]
      PROVE  sinceStart[j] <= IntervalOf[j] + IntervalOf[j] \div 10
    <2>1. j \in Job
        BY DEF Fixed
    <2>2. timer[j] = 0 /\ sinceStart[j] \in Nat
        BY <1>1, <2>1, StartsFired DEF TypeOK
    <2>3. sinceStart[j] + timer[j] <= IntervalOf[j] + Tenth(j)
        BY <1>1 DEF Timing, TurnInv, Starts
    <2> QED BY <2>2, <2>3 DEF Tenth
<1>2. TypeOK /\ Timing /\ [Tick \/ Steps]_vars
        => [\A j \in Fixed :
              punctual /\ Starts(j) /\ lasted[j] >= 0 /\ 5 * lasted[j] <= 4 * IntervalOf[j]
                => sinceStart[j] <= IntervalOf[j] + IntervalOf[j] \div 10]_vars
    BY <1>1
<1> QED BY AlwaysTimed, <1>2, PTL DEF Spec, DeadlineKeepsTurns

\* With goroutines on time a job starts one round at most once it was told to stop.
THEOREM OneLateRoundAtMost == Spec => []OneLateRound
<1>1. Timing => OneLateRound
    BY DEF Timing, LateInv, OneLateRound
<1> QED BY AlwaysTimed, <1>1, PTL
-----------------------------------------------------------------------------
LEMMA StepMark == TypeOK /\ MarkInv /\ [Tick \/ Steps]_vars => MarkInv'
<1> SUFFICES ASSUME TypeOK, MarkInv, [Tick \/ Steps]_vars, NEW j \in Daily,
                    pc'[j] = "wait", lasted'[j] >= 0, ~marked'[j]
             PROVE  timer'[j] = Next(j, clock')
    BY DEF MarkInv
<1>j. j \in Job
    BY DEF Daily
<1>1. CASE Tick
    <2>1. pc[j] = "wait" /\ lasted[j] >= 0 /\ timer'[j] = (IF timer[j] > 0 THEN timer[j] - 1 ELSE 0)
        BY <1>1, <1>j, TickFacts
    <2>2. ~marked[j] /\ clock' # MarkOf[j]
        BY <1>1, <1>j, <2>1 DEF Tick, Up
    <2>3. timer[j] = Next(j, clock)
        BY <2>1, <2>2 DEF MarkInv
    <2>4. clock' = IF clock + 1 = Day THEN 0 ELSE clock + 1
        BY <1>1, SchedulerAssumption DEF Tick, TypeOK
    <2> QED BY <1>j, <2>1, <2>2, <2>3, <2>4, SchedulerAssumption DEF Next, TypeOK
<1>2. ASSUME NEW k \in Job, Begin(k) PROVE timer'[j] = Next(j, clock')
    <2>1. k # j /\ Alone(k) /\ clock' = clock
        BY <1>2, BeginFacts
    <2> QED BY <1>j, <2>1 DEF MarkInv, Alone
<1>3. ASSUME NEW k \in Job, Finish(k) PROVE timer'[j] = Next(j, clock')
    BY <1>3, <1>j, FinishFacts DEF MarkInv, Alone
<1>4. CASE CancelAll \/ (\E k \in Job : Stop(k)) \/ UNCHANGED vars
    BY <1>4, <1>j, OtherFacts DEF MarkInv
<1> QED BY <1>1, <1>2, <1>3, <1>4 DEF Steps

\* A daily job runs once per mark at most, the round it starts with apart.
THEOREM OncePerMarkAtMost == Spec => OncePerMark
<1>1. ASSUME TypeOK, MarkInv, [Tick \/ Steps]_vars, NEW j \in Daily, Starts(j), lasted[j] >= 0
      PROVE  marked[j]
    <2>1. j \in Job
        BY DEF Daily
    <2>2. timer[j] = 0
        BY <1>1, <2>1, StartsFired
    <2>3. Next(j, clock) > 0
        BY <2>1, NextFacts, <1>1 DEF TypeOK
    <2> QED BY <1>1, <2>2, <2>3 DEF MarkInv, Starts
<1>2. TypeOK /\ MarkInv /\ [Tick \/ Steps]_vars
        => [\A j \in Daily : Starts(j) /\ lasted[j] >= 0 => marked[j]]_vars
    BY <1>1
<1>3. Init => MarkInv
    BY InitTiming
<1>4. Spec => []MarkInv
    BY AlwaysTimed, <1>3, StepMark, PTL DEF Spec
<1> QED BY AlwaysTimed, <1>2, <1>4, PTL DEF Spec, OncePerMark
-----------------------------------------------------------------------------
\* The daily jobs that wait for their day have no RunOnStart, and their rounds last no longer
\* than from midnight to their mark: the time limits of billing.go are of one and two minutes,
\* its marks are after eight.  (A job with RunOnStart may start just before its mark
\* and be busy when it strikes.)
DailyRoundsFit == \A j \in Daily : j \notin AtOnce /\ MaxRound[j] <= MarkOf[j]

\* A daily job that waits has its round before it, and one that runs started since the day
\* opened, or before midnight: it ends in time for the mark.
ServedInv ==
  punctual /\ ctx = "live" =>
    \A j \in Daily :
      /\ pc[j] = "wait" =>
           \/ timer[j] = 0 /\ OpenOf[j] <= clock
           \/ timer[j] = Next(j, clock) /\ (served[j] \/ (OpenOf[j] <= clock /\ clock < MarkOf[j]))
      /\ pc[j] = "run" =>
           /\ elapsed[j] <= MaxRound[j]
           /\ \/ served[j] /\ OpenOf[j] <= clock - elapsed[j]
              \/ clock < elapsed[j] /\ (served[j] \/ OpenOf[j] <= clock)

LEMMA DailyFacts ==
  ASSUME NEW j \in Daily
  PROVE  /\ j \in Job /\ Day \in Nat /\ Day > 0 /\ MarkOf[j] \in Nat /\ MarkOf[j] < Day
         /\ OpenOf[j] \in Nat /\ OpenOf[j] <= MarkOf[j] /\ MaxRound[j] \in Nat
BY SchedulerAssumption DEF Daily

LEMMA InitServed == ASSUME DailyRoundsFit PROVE Init => ServedInv
<1> SUFFICES ASSUME Init, NEW j \in Daily
             PROVE  /\ pc[j] = "wait" =>
                         \/ timer[j] = 0 /\ OpenOf[j] <= clock
                         \/ timer[j] = Next(j, clock) /\ served[j]
                    /\ pc[j] # "run"
  BY DEF ServedInv
<1>1. PICK R \in Registrations :
        /\ pc = [i \in Job |-> IF i \in R THEN "wait" ELSE "stopped"]
        /\ \A i \in Job : timer[i] \in IF i \in R THEN FirstDelays(i, clock) ELSE {0}
  BY DEF Init
<1>2. j \in Job /\ clock \in 0 .. Day - 1 /\ (clock < OpenOf[j] => served[j]) /\ OpenOf[j] \in Nat
  BY DailyFacts DEF Init
<1>3. pc[j] = (IF j \in R THEN "wait" ELSE "stopped")
  BY <1>1, <1>2
<1>4. pc[j] = "wait" => timer[j] \in FirstDelays(j, clock)
  BY <1>1, <1>2, <1>3
<1>5. CASE clock >= OpenOf[j]
  <2>1. StartsNow(j, clock)
    BY <1>5 DEF StartsNow
  <2>2. FirstDelays(j, clock) = {0}
    BY <2>1 DEF FirstDelays
  <2> QED BY <1>2, <1>3, <1>4, <1>5, <2>2
<1>6. CASE ~(clock >= OpenOf[j])
  <2>1. ~StartsNow(j, clock)
    BY <1>6 DEF StartsNow, DailyRoundsFit
  <2>2. FirstDelays(j, clock) = {Next(j, clock)}
    BY <2>1, Zenon DEF FirstDelays
  <2> QED BY <1>2, <1>3, <1>4, <1>6, <2>2
<1> QED BY <1>5, <1>6

LEMMA TickServed == ASSUME DailyRoundsFit, TypeOK, ServedInv, Tick PROVE ServedInv'
<1> SUFFICES ASSUME punctual, ctx = "live", NEW j \in Daily
             PROVE  /\ pc[j] = "wait" =>
                         \/ timer'[j] = 0 /\ OpenOf[j] <= clock'
                         \/ /\ timer'[j] = Next(j, clock')
                            /\ served'[j] \/ (OpenOf[j] <= clock' /\ clock' < MarkOf[j])
                    /\ pc[j] = "run" =>
                         /\ elapsed'[j] <= MaxRound[j]
                         /\ \/ served'[j] /\ OpenOf[j] <= clock' - elapsed'[j]
                            \/ clock' < elapsed'[j] /\ (served'[j] \/ OpenOf[j] <= clock')
  BY DEF ServedInv, Tick
<1>1. /\ j \in Job /\ Day \in Nat /\ Day > 0 /\ MarkOf[j] \in Nat /\ MarkOf[j] < Day
      /\ OpenOf[j] \in Nat /\ OpenOf[j] <= MarkOf[j] /\ MaxRound[j] \in Nat /\ MaxRound[j] <= MarkOf[j]
  BY DailyFacts DEF DailyRoundsFit
<1>2. clock \in Nat /\ clock < Day /\ timer[j] \in Nat /\ elapsed[j] \in Nat
  BY <1>1 DEF TypeOK
<1>3. clock' = IF clock + 1 = Day THEN 0 ELSE clock + 1
  <2>1. clock' = (clock + 1) % Day
    BY DEF Tick
  <2> QED BY <1>1, <1>2, <2>1
<1>4. served'[j] = (Up(j) /\ served[j] /\ clock' # OpenOf[j])
  BY <1>1 DEF Tick
<1>5. CASE pc[j] = "wait"
  <2>1. timer[j] > 0 /\ timer'[j] = timer[j] - 1
    BY <1>1, <1>2, <1>5, TickFacts
  <2>2. timer[j] = Next(j, clock) /\ (served[j] \/ (OpenOf[j] <= clock /\ clock < MarkOf[j]))
    BY <1>2, <1>5, <2>1 DEF ServedInv
  <2>3. CASE clock' = MarkOf[j]
    <3>1. timer'[j] = 0
      BY <1>1, <1>2, <1>3, <2>1, <2>2, <2>3 DEF Next
    <3> QED BY <1>1, <1>5, <2>3, <3>1
  <2>4. CASE clock' # MarkOf[j]
    <3>1. timer'[j] = Next(j, clock')
      BY <1>1, <1>2, <1>3, <2>1, <2>2, <2>4 DEF Next
    <3>2. served'[j] \/ (OpenOf[j] <= clock' /\ clock' < MarkOf[j])
      <4>1. CASE served[j] /\ clock' # OpenOf[j]
        BY <1>4, <1>5, <4>1 DEF Up
      <4>2. CASE clock' = OpenOf[j]
        BY <1>1, <2>4, <4>2
      <4>3. CASE OpenOf[j] <= clock /\ clock < MarkOf[j]
        BY <1>1, <1>2, <1>3, <2>4, <4>3
      <4> QED BY <2>2, <4>1, <4>2, <4>3
    <3> QED BY <1>5, <3>1, <3>2
  <2> QED BY <2>3, <2>4
<1>6. CASE pc[j] = "run"
  <2>1. elapsed'[j] = elapsed[j] + 1 /\ elapsed[j] < MaxRound[j]
    BY <1>1, <1>6, TickFacts DEF Tick, MayTick
  <2>2. \/ served[j] /\ OpenOf[j] <= clock - elapsed[j]
        \/ clock < elapsed[j] /\ (served[j] \/ OpenOf[j] <= clock)
    BY <1>6 DEF ServedInv
  <2>3. served[j] /\ clock' # OpenOf[j] => served'[j]
    BY <1>4, <1>6, Zenon DEF Up
  <2>4. CASE served[j] /\ OpenOf[j] <= clock - elapsed[j]
    <3>1. CASE clock + 1 = Day
      BY <1>1, <1>2, <1>3, <1>6, <2>1, <2>3, <2>4, <3>1
    <3>2. CASE clock + 1 # Day
      <4>1. clock' = clock + 1 /\ clock' # OpenOf[j]
        BY <1>1, <1>2, <1>3, <2>4, <3>2
      <4> QED BY <1>1, <1>2, <1>6, <2>1, <2>3, <2>4, <4>1
    <3> QED BY <3>1, <3>2
  <2>5. CASE clock < elapsed[j] /\ (served[j] \/ OpenOf[j] <= clock)
    <3>1. clock' = clock + 1
      BY <1>1, <1>2, <1>3, <2>1, <2>5
    <3>2. served'[j] \/ OpenOf[j] <= clock'
      BY <1>1, <1>2, <2>3, <2>5, <3>1
    <3> QED BY <1>1, <1>2, <1>6, <2>1, <2>5, <3>1, <3>2
  <2> QED BY <2>2, <2>4, <2>5
<1> QED BY <1>5, <1>6

LEMMA JobServed ==
  ASSUME DailyRoundsFit, TypeOK, AgesInv, ServedInv, NEW k \in Job, Begin(k) \/ Finish(k)
  PROVE  ServedInv'
<1> SUFFICES ASSUME punctual, ctx = "live", NEW j \in Daily
             PROVE  /\ pc'[j] = "wait" =>
                         \/ timer'[j] = 0 /\ OpenOf[j] <= clock
                         \/ /\ timer'[j] = Next(j, clock)
                            /\ served'[j] \/ (OpenOf[j] <= clock /\ clock < MarkOf[j])
                    /\ pc'[j] = "run" =>
                         /\ elapsed'[j] <= MaxRound[j]
                         /\ \/ served'[j] /\ OpenOf[j] <= clock - elapsed'[j]
                            \/ clock < elapsed'[j] /\ (served'[j] \/ OpenOf[j] <= clock)
  <2>1. UNCHANGED <<punctual, ctx, clock>>
    BY DEF Begin, Finish
  <2> QED BY <2>1 DEF ServedInv, Next
<1>1. /\ j \in Job /\ MarkOf[j] \in Nat /\ OpenOf[j] \in Nat /\ MaxRound[j] \in Nat /\ MaxRound[j] <= MarkOf[j]
      /\ clock \in Nat /\ timer[j] \in Nat /\ elapsed[j] \in Nat
  BY DailyFacts DEF DailyRoundsFit, TypeOK
<1>2. CASE j # k
  <2>1. served'[j] = served[j]
    BY <1>1, <1>2 DEF Begin, Finish, TypeOK
  <2>2. Alone(k)
    BY BeginFacts, FinishFacts
  <2> QED BY <1>1, <1>2, <2>1, <2>2 DEF ServedInv, Alone
<1>3. CASE j = k /\ Begin(k)
  <2>1. pc[j] = "wait" /\ timer[j] = 0 /\ pc'[j] = "run" /\ elapsed'[j] = elapsed[j]
    BY <1>3, BeginFacts
  <2>2. served'[j]
    BY <1>1, <1>3 DEF Begin, TypeOK
  <2>3. elapsed[j] = 0
    BY <1>1, <2>1 DEF AgesInv
  <2>4. OpenOf[j] <= clock
    <3>1. Next(j, clock) > 0
      BY <1>1, NextFacts DEF TypeOK
    <3> QED BY <2>1, <3>1 DEF ServedInv
  <2> QED BY <1>1, <2>1, <2>2, <2>3, <2>4
<1>4. CASE j = k /\ Finish(k)
  <2>1. pc[j] = "run" /\ pc'[j] = "wait" /\ timer'[j] = Next(j, clock)
    BY <1>4, FinishFacts
  <2>2. served'[j] = served[j]
    BY <1>4 DEF Finish
  <2>3. /\ elapsed[j] <= MaxRound[j]
        /\ \/ served[j] /\ OpenOf[j] <= clock - elapsed[j]
           \/ clock < elapsed[j] /\ (served[j] \/ OpenOf[j] <= clock)
    BY <2>1 DEF ServedInv
  <2>4. served[j] \/ (OpenOf[j] <= clock /\ clock < MarkOf[j])
    BY <1>1, <2>3
  <2> QED BY <2>1, <2>2, <2>4
<1> QED BY <1>2, <1>3, <1>4

LEMMA StepServed ==
  ASSUME DailyRoundsFit
  PROVE  TypeOK /\ Timing /\ ServedInv /\ [Tick \/ Steps]_vars => ServedInv'
<1> SUFFICES ASSUME TypeOK, Timing, ServedInv, [Tick \/ Steps]_vars PROVE ServedInv'
  OBVIOUS
<1>1. ASSUME CancelAll \/ (\E j \in Job : Stop(j)) \/ UNCHANGED vars PROVE ServedInv'
  <2>1. UNCHANGED <<punctual, clock, timer, elapsed, served>>
    BY <1>1 DEF CancelAll, Stop, vars, history
  <2>2. /\ ctx' = "live" => ctx = "live"
        /\ \A i \in Job : pc'[i] = pc[i] \/ pc'[i] = "stopped"
    BY <1>1, OtherFacts
  <2> QED BY <2>1, <2>2, DailyFacts DEF ServedInv, Next
<1> QED BY <1>1, TickServed, JobServed DEF Steps, Timing

\* With goroutines on time a daily job of the configuration has had its round of a day before
\* the next day opens, whenever the process started: RunOnStartWhen and Next leave no gap.
THEOREM DaysAreServed == ASSUME DailyRoundsFit PROVE Spec => EveryDayServed
<1>1. ASSUME TypeOK, ServedInv, [Tick \/ Steps]_vars, NEW j \in Daily,
             clock # clock', clock' = OpenOf[j], punctual, Up(j), ctx # "cancelled"
      PROVE  served[j]
  <2>1. Tick
    <3>1. ASSUME NEW k \in Job, Begin(k) \/ Finish(k) PROVE clock' = clock
      BY <3>1 DEF Begin, Finish
    <3>2. ASSUME CancelAll \/ (\E k \in Job : Stop(k)) \/ UNCHANGED vars PROVE clock' = clock
      BY <3>2 DEF CancelAll, Stop, vars
    <3> QED BY <1>1, <3>1, <3>2 DEF Steps
  <2>2. /\ j \in Job /\ Day \in Nat /\ Day > 0 /\ MarkOf[j] \in Nat /\ MarkOf[j] < Day
        /\ OpenOf[j] \in Nat /\ OpenOf[j] <= MarkOf[j] /\ MaxRound[j] <= MarkOf[j] /\ MaxRound[j] \in Nat
        /\ clock \in Nat /\ clock < Day /\ elapsed[j] \in Nat
    BY <1>1, DailyFacts DEF DailyRoundsFit, TypeOK
  <2>3. clock' = IF clock + 1 = Day THEN 0 ELSE clock + 1
    <3>1. clock' = (clock + 1) % Day
      BY <2>1 DEF Tick
    <3> QED BY <2>2, <3>1
  <2>4. ctx = "live" /\ pc[j] \in {"wait", "run"}
    BY <1>1, <2>2 DEF TypeOK, Up
  <2>5. served[j] \/ (OpenOf[j] <= clock /\ clock < MarkOf[j])
    <3>1. CASE pc[j] = "wait"
      <4>1. timer[j] > 0
        BY <1>1, <2>1, <2>2, <3>1, TickFacts
      <4> QED BY <1>1, <2>4, <3>1, <4>1 DEF ServedInv
    <3>2. CASE pc[j] = "run"
      <4>1. /\ elapsed[j] <= MaxRound[j]
            /\ \/ served[j] /\ OpenOf[j] <= clock - elapsed[j]
               \/ clock < elapsed[j] /\ (served[j] \/ OpenOf[j] <= clock)
        BY <1>1, <2>4, <3>2 DEF ServedInv
      <4>2. elapsed[j] < MaxRound[j]
        BY <2>1, <2>2, <3>2 DEF Tick, MayTick
      <4> QED BY <2>2, <4>1, <4>2
    <3> QED BY <2>4, <3>1, <3>2
  <2> QED BY <1>1, <2>2, <2>3, <2>5
<1>2. TypeOK /\ ServedInv /\ [Tick \/ Steps]_vars
        => [\A j \in Daily : clock # clock' /\ clock' = OpenOf[j] /\ punctual /\ Up(j)
                                => served[j] \/ ctx = "cancelled"]_vars
  BY <1>1
<1>3. Init => ServedInv
  BY InitServed
<1>4. TypeOK /\ Timing /\ ServedInv /\ [Tick \/ Steps]_vars => ServedInv'
  BY StepServed
<1>5. Spec => []ServedInv
  BY AlwaysTimed, <1>3, <1>4, PTL DEF Spec
<1> QED BY AlwaysTimed, <1>2, <1>5, PTL DEF Spec, EveryDayServed
-----------------------------------------------------------------------------
\* The oldest data a snapshot of a round may have when the next round begins.
Bound == SourceLag + Width + Interval + Interval \div 10

\* A snapshot's data is as old as the query of its round, and waits with the job for the next.
AgeInv ==
  \A s \in shown :
    /\ pc[job] = "run" /\ ~published => s.data <= Bound + elapsed[job]
    /\ pc[job] = "run" /\ published => s.data <= SourceLag + Width + elapsed[job]
    /\ pc[job] = "wait" => s.data + timer[job] <= Bound

FreshType ==
  /\ asked \in Nat /\ published \in BOOLEAN
  /\ \A s \in shown :
       s.data \in Nat /\ s.collected \in Nat /\ s.collected <= s.data /\ s.data <= MaxAge

\* Rounds keep their deadline, and a job that is not registered has no snapshot.
RoundInv ==
  /\ pc[job] = "run" => asked = elapsed[job] /\ elapsed[job] <= MaxRound[job]
  /\ ctx = "live" /\ pc[job] = "stopped" => shown = {}
  /\ punctual /\ ctx = "live" => AgeInv

FreshInv == TypeOK /\ Timing /\ FreshType /\ RoundInv

LEMMA JobFacts ==
  /\ job \in Job /\ job \in Fixed
  /\ Interval \in Nat /\ Interval = IntervalOf[job] /\ Interval > 0
  /\ Tenth(job) = Interval \div 10 /\ Tenth(job) \in Nat /\ 10 * Tenth(job) <= Interval
  /\ MaxRound[job] \in Nat /\ 5 * MaxRound[job] <= 4 * Interval
  /\ SourceLag \in Nat /\ Width \in Nat /\ StaleAfter \in Nat /\ MaxAge = StaleAfter + 1
  /\ Bound \in Nat /\ Bound = SourceLag + Width + Interval + Tenth(job)
<1>1. job \in Job /\ Interval \in Nat /\ Interval > 0 /\ Interval = IntervalOf[job]
    BY FreshnessAssumption, SchedulerAssumption DEF Interval
<1>2. Tenth(job) = Interval \div 10 /\ Tenth(job) \in Nat /\ 10 * Tenth(job) <= Interval
    BY <1>1, TenthFacts DEF Tenth
<1>3. MaxRound[job] \in Nat /\ 5 * MaxRound[job] <= 4 * Interval
    BY FreshnessAssumption, SchedulerAssumption
<1> QED BY <1>1, <1>2, <1>3, FreshnessAssumption DEF Fixed, MaxAge, Bound

LEMMA FreshInitInv == FreshInit => FreshInv
<1> SUFFICES ASSUME FreshInit PROVE FreshInv
    OBVIOUS
<1>1. Init /\ asked = 0 /\ published = FALSE /\ shown = {}
    BY DEF FreshInit
<1>2. pc[job] # "run"
    BY <1>1, JobFacts DEF Init
<1> QED BY <1>1, <1>2, InitType, InitTiming DEF FreshInv, Timing, FreshType, RoundInv, AgeInv

\* The steps of Scheduler that Freshness does not see.
LEMMA FreshStep == FreshNext => [Tick \/ Steps]_vars
  BY FreshnessAssumption
     DEF FreshNext, FreshTick, FreshBegin, Publish, FreshFinish, Others, Steps

LEMMA FreshTickInv == ASSUME FreshInv, FreshTick, (TypeOK /\ Timing)' PROVE FreshInv'
<1> USE JobFacts
<1>1. TypeOK /\ Timing /\ FreshType /\ RoundInv /\ Tick
    BY DEF FreshInv, FreshTick
<1>2. /\ pc'[job] = pc[job] /\ ctx' = ctx /\ punctual' = punctual /\ published' = published
      /\ asked' = (IF pc[job] = "run" THEN asked + 1 ELSE 0)
      /\ timer[job] \in Nat /\ timer'[job] = (IF timer[job] > 0 THEN timer[job] - 1 ELSE 0)
      /\ elapsed[job] \in Nat /\ elapsed'[job] = (IF pc[job] = "run" THEN elapsed[job] + 1 ELSE 0)
      /\ punctual /\ pc[job] = "wait" => timer[job] > 0
    BY <1>1, TickFacts DEF FreshTick, TypeOK
<1>3. pc[job] = "run" => elapsed[job] < MaxRound[job]
    BY <1>1 DEF Tick, MayTick
<1>4. ASSUME NEW s \in shown'
      PROVE  \E r \in shown : s = [collected |-> Aged(r.collected), data |-> Aged(r.data)]
    BY <1>4 DEF FreshTick
<1>5. FreshType'
    <2>1. asked' \in Nat /\ published' \in BOOLEAN
        BY <1>1, <1>2 DEF FreshType
    <2>2. ASSUME NEW s \in shown'
          PROVE  s.data \in Nat /\ s.collected \in Nat /\ s.collected <= s.data /\ s.data <= MaxAge
        <3>1. PICK r \in shown : s = [collected |-> Aged(r.collected), data |-> Aged(r.data)]
            BY <1>4
        <3> QED BY <1>1, <3>1 DEF FreshType, Aged
    <2> QED BY <2>1, <2>2 DEF FreshType
<1>6. ASSUME punctual', ctx' = "live" PROVE AgeInv'
    <2> SUFFICES ASSUME NEW s \in shown'
                 PROVE  /\ pc'[job] = "run" /\ ~published' => s.data <= Bound + elapsed'[job]
                        /\ pc'[job] = "run" /\ published' => s.data <= SourceLag + Width + elapsed'[job]
                        /\ pc'[job] = "wait" => s.data + timer'[job] <= Bound
        BY DEF AgeInv, Bound, Interval
    <2>1. PICK r \in shown : s = [collected |-> Aged(r.collected), data |-> Aged(r.data)]
        BY <1>4
    <2>2. r.data \in Nat /\ s.data \in Nat /\ s.data <= r.data + 1
        BY <1>1, <2>1 DEF FreshType, Aged
    <2>3. /\ pc[job] = "run" /\ ~published => r.data <= Bound + elapsed[job]
          /\ pc[job] = "run" /\ published => r.data <= SourceLag + Width + elapsed[job]
          /\ pc[job] = "wait" => r.data + timer[job] <= Bound
        BY <1>1, <1>2, <1>6 DEF RoundInv, AgeInv
    <2> QED BY <1>2, <1>6, <2>2, <2>3
<1>7. ASSUME ctx' = "live", pc'[job] = "stopped" PROVE shown' = {}
    BY <1>1, <1>2, <1>7 DEF RoundInv, FreshTick
<1>8. pc'[job] = "run" => asked' = elapsed'[job] /\ elapsed'[job] <= MaxRound[job]
    BY <1>1, <1>2, <1>3 DEF RoundInv
<1> QED BY <1>5, <1>6, <1>7, <1>8 DEF FreshInv, RoundInv

LEMMA FreshBeginInv == ASSUME FreshInv, FreshBegin, (TypeOK /\ Timing)' PROVE FreshInv'
<1> USE JobFacts
<1>1. TypeOK /\ Timing /\ FreshType /\ RoundInv /\ Begin(job)
    BY DEF FreshInv, FreshBegin
<1>2. /\ pc[job] = "wait" /\ timer[job] = 0 /\ pc'[job] = "run" /\ elapsed'[job] = elapsed[job]
      /\ asked' = 0 /\ published' = FALSE /\ shown' = shown /\ UNCHANGED <<punctual, ctx>>
    BY <1>1, BeginFacts DEF FreshBegin
<1>3. elapsed[job] = 0
    BY <1>1, <1>2 DEF Timing, AgesInv
<1>4. FreshType'
    BY <1>1, <1>2 DEF FreshType, MaxAge
<1>5. ASSUME punctual', ctx' = "live" PROVE AgeInv'
    <2> SUFFICES ASSUME NEW s \in shown PROVE s.data <= Bound + 0
        BY <1>2, <1>3 DEF AgeInv, Bound, Interval
    <2>1. s.data \in Nat /\ s.data + timer[job] <= Bound
        BY <1>1, <1>2, <1>5 DEF FreshType, RoundInv, AgeInv
    <2> QED BY <1>2, <2>1
<1> QED BY <1>2, <1>3, <1>4, <1>5 DEF FreshInv, RoundInv

LEMMA PublishInv == ASSUME FreshInv, Publish, (TypeOK /\ Timing)' PROVE FreshInv'
<1> USE JobFacts
<1>1. TypeOK /\ Timing /\ FreshType /\ RoundInv
    BY DEF FreshInv
<1>2. pc[job] = "run" /\ ~published /\ published' = TRUE /\ asked' = asked /\ UNCHANGED vars
    BY DEF Publish
<1>3. PICK age \in DataAges : shown' = {[collected |-> 0, data |-> IF age < MaxAge THEN age ELSE MaxAge]}
    BY DEF Publish
<1>4. asked \in Nat /\ age \in Nat /\ age <= asked + SourceLag + Width
    BY <1>1, <1>3 DEF DataAges, FreshType
<1>5. \A s \in shown' : /\ s.collected = 0 /\ s.data \in Nat /\ s.data <= MaxAge
                        /\ s.data <= asked + SourceLag + Width
    BY <1>3, <1>4
<1>6. UNCHANGED <<punctual, ctx, pc, elapsed, timer>>
    BY <1>2 DEF vars
<1>7. asked = elapsed[job]
    BY <1>1, <1>2 DEF RoundInv
<1>8. FreshType'
    BY <1>1, <1>2, <1>4, <1>5 DEF FreshType, MaxAge
<1>9. AgeInv'
    <2>1. \A s \in shown' : s.data <= SourceLag + Width + elapsed[job]
        BY <1>4, <1>5, <1>7
    <2> QED BY <1>2, <1>6, <2>1 DEF AgeInv
<1> QED BY <1>1, <1>2, <1>6, <1>8, <1>9 DEF FreshInv, RoundInv

LEMMA FreshFinishInv == ASSUME FreshInv, FreshFinish, (TypeOK /\ Timing)' PROVE FreshInv'
<1> USE JobFacts
<1>1. TypeOK /\ Timing /\ FreshType /\ RoundInv /\ Finish(job) /\ published
    BY DEF FreshInv, FreshFinish
<1>2. /\ pc[job] = "run" /\ pc'[job] = "wait" /\ UNCHANGED <<punctual, ctx>>
      /\ asked' = 0 /\ published' = published /\ shown' = shown
    BY <1>1, FinishFacts DEF FreshFinish
<1>3. PICK i \in Int :
        /\ IntervalOf[job] - Tenth(job) <= i /\ i <= IntervalOf[job] + Tenth(job)
        /\ timer'[job] = IF i - elapsed[job] > 0 THEN i - elapsed[job] ELSE IntervalOf[job]
    BY <1>1, FinishFacts
<1>4. elapsed[job] \in Nat /\ elapsed[job] <= MaxRound[job]
    BY <1>1, <1>2 DEF RoundInv, TypeOK
<1>5. timer'[job] = i - elapsed[job]
    <2> HIDE DEF Tenth, Interval
    <2> QED BY <1>3, <1>4
<1>6. FreshType'
    BY <1>1, <1>2 DEF FreshType, MaxAge
<1>7. ASSUME punctual', ctx' = "live" PROVE AgeInv'
    <2> SUFFICES ASSUME NEW s \in shown PROVE s.data + timer'[job] <= Bound
        BY <1>2 DEF AgeInv, Bound, Interval
    <2>1. s.data \in Nat /\ s.data <= SourceLag + Width + elapsed[job]
        BY <1>1, <1>2, <1>7 DEF FreshType, RoundInv, AgeInv
    <2> QED BY <1>3, <1>4, <1>5, <2>1
<1> QED BY <1>2, <1>6, <1>7 DEF FreshInv, RoundInv

LEMMA OthersInv ==
  ASSUME FreshInv, Others \/ UNCHANGED freshVars, (TypeOK /\ Timing)'
  PROVE  FreshInv'
<1> USE JobFacts
<1>1. TypeOK /\ Timing /\ FreshType /\ RoundInv
    BY DEF FreshInv
<1>2. UNCHANGED <<asked, published, shown>>
    BY DEF Others, freshVars
<1>3. \/ CancelAll \/ (\E j \in Job : Stop(j)) \/ UNCHANGED vars
      \/ \E j \in Job \ {job} : Begin(j) \/ Finish(j)
    BY DEF Others, freshVars
<1>4. FreshType'
    BY <1>1, <1>2 DEF FreshType, MaxAge
<1>5. CASE \E j \in Job \ {job} : Begin(j) \/ Finish(j)
    <2>1. PICK j \in Job \ {job} : Begin(j) \/ Finish(j)
        BY <1>5
    <2>2. /\ pc'[job] = pc[job] /\ timer'[job] = timer[job] /\ elapsed'[job] = elapsed[job]
          /\ UNCHANGED <<punctual, ctx>>
        BY <1>1, <2>1, BeginFacts, FinishFacts DEF Alone
    <2> QED BY <1>1, <1>2, <1>4, <2>2 DEF FreshInv, RoundInv, AgeInv
<1>6. CASE CancelAll \/ (\E j \in Job : Stop(j)) \/ UNCHANGED vars
    <2>1. UNCHANGED <<punctual, timer, elapsed>> /\ (ctx' = "live" => ctx = "live")
        BY <1>1, <1>6, OtherFacts
    <2>2. pc'[job] = pc[job] \/ pc'[job] = "stopped"
        BY <1>1, <1>6, OtherFacts
    <2>3. ctx' = "live" => pc'[job] = pc[job]
        <3>1. CASE CancelAll
            BY <3>1 DEF CancelAll
        <3>2. CASE \E j \in Job : Stop(j)
            BY <3>2 DEF Stop
        <3>3. CASE UNCHANGED vars
            BY <3>3 DEF vars
        <3> QED BY <1>6, <3>1, <3>2, <3>3
    <2> QED BY <1>1, <1>2, <1>4, <2>1, <2>2, <2>3 DEF FreshInv, RoundInv, AgeInv
<1> QED BY <1>3, <1>5, <1>6

LEMMA AlwaysFresh == FreshSpec => []FreshInv
<1>1. ASSUME FreshInv, [FreshNext]_freshVars PROVE FreshInv'
    <2>1. (TypeOK /\ Timing)'
        <3>1. [Tick \/ Steps]_vars
            BY <1>1, FreshStep DEF freshVars
        <3> QED BY <1>1, <3>1, StepType, TickTiming, BeginTiming, FinishTiming, OtherTiming
                DEF FreshInv, Steps
    <2> QED BY <1>1, <2>1, FreshTickInv, FreshBeginInv, PublishInv, FreshFinishInv, OthersInv DEF FreshNext
<1> QED BY FreshInitInv, <1>1, PTL DEF FreshSpec

\* As long as the rounds of a job succeed and goroutines are on time, its snapshot stays up
\* until the next round replaces it, if stale_after leaves room for the time a round may take.
THEOREM NeverAGap == FreshSpec => []NoGapWithRoom
<1>1. FreshInv => NoGapWithRoom
    <2> SUFFICES ASSUME FreshInv, punctual, ctx = "live", Valid(StaleAfter - MaxRound[job]), shown # {}
                 PROVE  Stores!Load(Stored, Now) # {}
        BY DEF NoGapWithRoom
    <2> USE JobFacts
    <2>1. PICK s \in shown : TRUE
        OBVIOUS
    <2>2. /\ s.data \in Nat /\ s.collected \in Nat /\ s.collected <= s.data /\ s.data <= MaxAge
          /\ elapsed[job] \in Nat /\ timer[job] \in Nat
        BY <2>1 DEF FreshInv, FreshType, TypeOK
    <2>3. Bound + MaxRound[job] <= StaleAfter
        <3>1. StaleAfter - MaxRound[job] >= Bound
            BY DEF Valid, Bound
        <3> QED BY <3>1
    <2>4. s.data <= StaleAfter
        <3>1. pc[job] \in {"wait", "run"}
            BY <2>1 DEF FreshInv, RoundInv, TypeOK
        <3>2. CASE pc[job] = "wait"
            <4>1. s.data + timer[job] <= Bound
                BY <2>1, <3>2 DEF FreshInv, RoundInv, AgeInv
            <4> QED BY <2>2, <2>3, <4>1
        <3>3. CASE pc[job] = "run"
            <4>1. elapsed[job] <= MaxRound[job]
                BY <3>3 DEF FreshInv, RoundInv
            <4>2. s.data <= Bound + elapsed[job] \/ s.data <= SourceLag + Width + elapsed[job]
                BY <2>1, <3>3 DEF FreshInv, RoundInv, AgeInv
            <4> QED BY <2>2, <2>3, <4>1, <4>2
        <3> QED BY <3>1, <3>2, <3>3
    <2> DEFINE meta == [collectedAt |-> Now - s.collected, dataAt |-> Now - s.data, staleAfter |-> StaleAfter]
    <2>5. [meta |-> meta] \in Stored
        BY <2>1 DEF Stored
    <2>6. ~Stores!Stale(Now, meta)
        <3>1. meta.dataAt = Now - s.data /\ meta.collectedAt = Now - s.collected /\ meta.staleAfter = StaleAfter
            OBVIOUS
        <3> HIDE DEF meta
        <3>2. ~(Now - meta.dataAt > StaleAfter) /\ ~(Now - meta.collectedAt > StaleAfter)
            BY <2>2, <2>4, <3>1 DEF Now
        <3> QED BY <3>1, <3>2, Zenon DEF Stores!Stale
    <2>7. [meta |-> meta] \in Stores!Load(Stored, Now)
        BY <2>5, <2>6 DEF Stores!Load
    <2> QED BY <2>7
<1> QED BY AlwaysFresh, <1>1, PTL
-----------------------------------------------------------------------------
(* The shutdown of the process, for any jobs and number of requests *)

\* The server's requests end before the main goroutine waits for the jobs, and only that
\* wait leads to code 0.
ShutdownInv ==
  /\ main # "exited" => code # 0
  /\ main \in {"shutdown", "waiting"} => ~listening
  /\ main = "waiting" => scrapes = 0
  /\ code = 0 => ~listening

\* A process that ends with code 0 has cut off no round and no scrape.
THEOREM ExitsClean == P!Spec => []CleanExit
<1> USE DEF CleanExit, P!CleanExit, ShutdownInv
<1>1. P!Init => ShutdownInv /\ CleanExit
  BY DEF P!Init
<1>2. ASSUME ShutdownInv, CleanExit, [P!Next]_(P!vars) PROVE ShutdownInv' /\ CleanExit'
  <2>1. ASSUME NEW j \in ProcessJob, P!Jobs(P!Begin(j) \/ P!Finish(j) \/ P!Stop(j))
        PROVE  ShutdownInv' /\ CleanExit'
    BY <1>2, <2>1 DEF P!Jobs, P!Begin, P!Finish, P!Stop
  <2>2. CASE P!Signal
    BY <1>2, <2>2 DEF P!Signal
  <2>3. CASE P!Accept
    BY <1>2, <2>3 DEF P!Accept
  <2>4. CASE P!Reply
    BY <1>2, <2>4 DEF P!Reply
  <2>5. CASE P!ServeFails
    BY <1>2, <2>5 DEF P!ServeFails
  <2>6. CASE P!TakeDone
    BY <1>2, <2>6 DEF P!TakeDone
  <2>7. CASE P!TakeError
    BY <1>2, <2>7 DEF P!TakeError
  <2>8. CASE P!Shutdown
    BY <1>2, <2>8 DEF P!Shutdown
  <2>9. CASE P!ShutdownTimesOut
    BY <1>2, <2>9 DEF P!ShutdownTimesOut, P!Exit
  <2>10. CASE P!Waited
    <3>1. /\ main' = "exited" /\ code' = IF main = "waiting" THEN 0 ELSE 1
          /\ \A j \in ProcessJob : goroutine[j] = "stopped"
          /\ UNCHANGED <<signal, goroutine, listening, failed, scrapes>>
      BY <2>10 DEF P!Waited, P!Exit
    <3>2. CASE main = "waiting"
      BY <1>2, <3>1, <3>2
    <3>3. CASE main # "waiting"
      BY <1>2, <3>1, <3>3
    <3> QED BY <3>2, <3>3
  <2>11. CASE UNCHANGED P!vars
    BY <1>2, <2>11 DEF P!vars
  <2> QED
    BY <1>2, <2>1, <2>2, <2>3, <2>4, <2>5, <2>6, <2>7, <2>8, <2>9, <2>10, <2>11
    DEF P!Next, P!Main, P!Gone
<1> QED
  BY <1>1, <1>2, PTL DEF P!Spec
=============================================================================
