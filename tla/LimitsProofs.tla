---------------------------- MODULE LimitsProofs ----------------------------
(***************************************************************************)
(* What RateLimit promises for any number of callers and slots, any        *)
(* interval, cooldown and recovery time, and any Retry-After; and what     *)
(* AuthClient keeps for any clients, limiters and number of calls.         *)
(*                                                                         *)
(* The history variables of the action properties are tied to the limiters *)
(* by sums: what is left of a deadline and what has passed since the event *)
(* that set it make up at least the whole delay.  What the calls of        *)
(* AuthClient keep rests on the order in which they acquire their stack:   *)
(* no limiter twice, and the last one last.                                *)
(***************************************************************************)
EXTENDS MCLimits, FiniteSetTheorems, SequenceTheorems, TLAPS

(* The callers of one limiter *)

Spacing ==
  /\ limiter.next + sinceTake >= Pace
  /\ limiter.cooldown + sinceLimited >= MinCooldown
  /\ limiter.armed => limiter.recovery + sinceChange = RecoveryTime

LInv == TypeOK /\ SlowdownIsTemporary /\ NoPhantomReservation /\ Spacing

\* Without the semaphore, which callers enter and leave at steps of their own.
IInv == LInv /\ SlotsMatchHolders

USE LimiterAssumption

-----------------------------------------------------------------------------
LEMMA IntervalBounds ==
  ASSUME NEW slowdown \in 0 .. MaxSlowdown
  PROVE  /\ Interval(slowdown) \in Nat
         /\ Pace <= Interval(slowdown) /\ Interval(slowdown) <= 16 * Pace
  BY DEF Interval, MaxSlowdown

LEMMA ElapseLemma ==
  ASSUME NEW l \in LimiterRecord
  PROVE  /\ Elapse(l) \in LimiterRecord
         /\ Elapse(l).slowdown = l.slowdown /\ Elapse(l).armed = l.armed
         /\ Elapse(l).next = Less(l.next)
         /\ Elapse(l).cooldown = Less(l.cooldown)
         /\ Elapse(l).recovery = Less(l.recovery)
  BY DEF Elapse, LimiterRecord, Less

\* takeOrDelay's recovery: a level fewer, or nothing.
LEMMA RecoveredLemma ==
  ASSUME NEW l \in LimiterRecord, l.slowdown > 0 <=> l.armed
  PROVE  /\ Recovered(l) \in LimiterRecord
         /\ Recovered(l).next = l.next /\ Recovered(l).cooldown = l.cooldown
         /\ Recovered(l).slowdown > 0 <=> Recovered(l).armed
         /\ \/ Recovered(l) = l
            \/ /\ l.armed /\ l.recovery = 0
               /\ Recovered(l).slowdown = l.slowdown - 1
               /\ Recovered(l).armed => Recovered(l).recovery = RecoveryTime
<1>1. CASE l.armed /\ l.recovery = 0
  <2> DEFINE s == Less(l.slowdown)
  <2>1. /\ l.slowdown \in 1 .. MaxSlowdown /\ s = l.slowdown - 1 /\ s \in 0 .. MaxSlowdown
        /\ l.next \in Nat /\ l.cooldown \in Nat
    BY <1>1 DEF LimiterRecord, Less, MaxSlowdown
  <2>2. Recovered(l) = [ slowdown |-> s, next |-> l.next, cooldown |-> l.cooldown,
          armed |-> s > 0, recovery |-> IF s > 0 THEN RecoveryTime ELSE 0 ]
    BY <1>1 DEF Recovered
  <2> HIDE DEF s
  <2>3. CASE s > 0
    <3>1. (s > 0) = TRUE
      BY <2>3
    <3>2. Recovered(l) = [ slowdown |-> s, next |-> l.next, cooldown |-> l.cooldown,
                           armed |-> TRUE, recovery |-> RecoveryTime ]
      BY <2>2, <3>1
    <3> QED BY <1>1, <2>1, <2>3, <3>2 DEF LimiterRecord
  <2>4. CASE s = 0
    <3>1. (s > 0) = FALSE
      BY <2>4
    <3>2. Recovered(l) = [ slowdown |-> s, next |-> l.next, cooldown |-> l.cooldown,
                           armed |-> FALSE, recovery |-> 0 ]
      BY <2>2, <2>4, <3>1
    <3> QED BY <1>1, <2>1, <2>4, <3>2 DEF LimiterRecord, MaxSlowdown
  <2> QED BY <2>1, <2>3, <2>4 DEF MaxSlowdown
<1>2. CASE ~(l.armed /\ l.recovery = 0)
  BY <1>2 DEF Recovered
<1> QED
  BY <1>1, <1>2

LEMMA DelayLemma ==
  ASSUME NEW l \in LimiterRecord
  PROVE  Delay(l) \in Nat /\ (Delay(l) = 0 <=> l.next = 0 /\ l.cooldown = 0)
  BY DEF Delay, Later, LimiterRecord

LEMMA PacedLemma ==
  ASSUME NEW l \in LimiterRecord
  PROVE  /\ Paced(l) \in LimiterRecord
         /\ Paced(l).slowdown = l.slowdown /\ Paced(l).armed = l.armed
         /\ Paced(l).cooldown = l.cooldown /\ Paced(l).recovery = l.recovery
         /\ Paced(l).next = IF Delay(l) = 0 THEN Interval(l.slowdown) ELSE l.next
<1>1. CASE Delay(l) > 0
  BY <1>1, DelayLemma DEF Paced
<1>2. CASE Delay(l) = 0
  <2>1. Interval(l.slowdown) \in Nat
    BY IntervalBounds DEF LimiterRecord
  <2> QED
    BY <1>2, <2>1 DEF Paced, LimiterRecord
<1> QED
  BY <1>1, <1>2, DelayLemma

LEMMA OnRateLimitedLemma ==
  ASSUME NEW l \in LimiterRecord, NEW retryAfter \in Int
  PROVE  /\ OnRateLimited(l, retryAfter) \in LimiterRecord
         /\ OnRateLimited(l, retryAfter).next = l.next
         /\ OnRateLimited(l, retryAfter).cooldown >= l.cooldown
         /\ OnRateLimited(l, retryAfter).cooldown >= MinCooldown
         /\ OnRateLimited(l, retryAfter).slowdown >= l.slowdown
         /\ OnRateLimited(l, retryAfter).slowdown > 0
         /\ OnRateLimited(l, retryAfter).armed = TRUE
         /\ OnRateLimited(l, retryAfter).recovery = RecoveryTime
  BY DEF OnRateLimited, LimiterRecord, Later, MaxSlowdown

HIDE LimiterAssumption
-----------------------------------------------------------------------------
LEMMA LimiterInit == Init => LInv
  BY LimiterAssumption
  DEF Init, New, LInv, TypeOK, LimiterRecord, SlowdownIsTemporary, NoPhantomReservation, Spacing,
      MaxSlowdown

\* takeOrDelay as the steps of the model use it.
LEMMA TakeLemma ==
  ASSUME LInv, NEW c \in Caller, TakeOrSleep(c)
  PROVE  LInv'
<1> DEFINE r == Recovered(limiter)
           t == TakeOrDelay(limiter)
<1>1. limiter \in LimiterRecord /\ (limiter.slowdown > 0 <=> limiter.armed)
  BY DEF LInv, TypeOK, SlowdownIsTemporary
<1>2. /\ r \in LimiterRecord
      /\ r.next = limiter.next /\ r.cooldown = limiter.cooldown
      /\ r.slowdown > 0 <=> r.armed
      /\ \/ r = limiter
         \/ /\ limiter.armed /\ limiter.recovery = 0
            /\ r.slowdown = limiter.slowdown - 1
            /\ r.armed => r.recovery = RecoveryTime
  BY <1>1, RecoveredLemma
<1>3. /\ t \in LimiterRecord
      /\ t.slowdown = r.slowdown /\ t.armed = r.armed
      /\ t.cooldown = r.cooldown /\ t.recovery = r.recovery
      /\ t.next = IF Delay(r) = 0 THEN Interval(r.slowdown) ELSE r.next
  BY <1>2, PacedLemma DEF TakeOrDelay
<1>4. /\ limiter' = t /\ UNCHANGED <<used, sinceLimited>>
      /\ sinceChange' = IF t.slowdown < limiter.slowdown THEN 0 ELSE sinceChange
      /\ \/ /\ Delay(r) = 0 /\ pc' = [pc EXCEPT ![c] = "run"]
            /\ sinceTake' = 0 /\ sleep' = sleep
         \/ /\ Delay(r) # 0 /\ sleep' = [sleep EXCEPT ![c] = Delay(r)]
            /\ pc' = pc /\ sinceTake' = sinceTake
  BY DEF TakeOrSleep
<1>5. /\ Delay(r) \in Nat
      /\ Delay(r) = 0 <=> r.next = 0 /\ r.cooldown = 0
      /\ Interval(r.slowdown) \in Nat
      /\ Pace <= Interval(r.slowdown) /\ Interval(r.slowdown) <= 16 * Pace
  BY <1>2, DelayLemma, IntervalBounds DEF LimiterRecord
<1> HIDE DEF r, t
<1>6. TypeOK'
  BY <1>3, <1>4, <1>5, LimiterAssumption DEF LInv, TypeOK
<1>7. SlowdownIsTemporary'
  <2>1. r.slowdown > 0 <=> r.armed
    BY <1>2
  <2>2. t.slowdown = r.slowdown /\ t.armed = r.armed
    BY <1>3
  <2>3. t.slowdown > 0 <=> t.armed
    BY <2>1, <2>2, Zenon
  <2> QED
    BY <1>4, <2>3 DEF SlowdownIsTemporary
<1>8. NoPhantomReservation'
  BY <1>2, <1>3, <1>4, <1>5 DEF LInv, NoPhantomReservation
<1>9. Spacing'
  <2>1. t.next + sinceTake' >= Pace
    BY <1>2, <1>3, <1>4, <1>5, LimiterAssumption DEF LInv, Spacing, TypeOK, LimiterRecord
  <2>2. t.armed => t.recovery + sinceChange' = RecoveryTime
    <3>1. limiter.slowdown \in Nat /\ sinceChange \in Nat /\ RecoveryTime \in Nat
      BY LimiterAssumption DEF LInv, TypeOK, LimiterRecord, MaxSlowdown
    <3>2. CASE r = limiter
      <4>1. t.slowdown = limiter.slowdown /\ t.recovery = limiter.recovery /\ t.armed = limiter.armed
        BY <1>3, <3>2
      <4>2. sinceChange' = sinceChange
        BY <1>4, <3>1, <4>1
      <4> QED
        BY <4>1, <4>2 DEF LInv, Spacing
    <3>3. CASE r.slowdown = limiter.slowdown - 1 /\ (r.armed => r.recovery = RecoveryTime)
      <4>1. sinceChange' = 0
        BY <1>3, <1>4, <3>1, <3>3
      <4>2. t.armed = r.armed /\ t.recovery = r.recovery
        BY <1>3
      <4>3. t.armed => t.recovery = RecoveryTime
        BY <3>3, <4>2, Zenon
      <4> QED
        BY <3>1, <4>1, <4>3
    <3> QED
      BY <1>2, <3>2, <3>3
  <2> QED
    BY <1>2, <1>3, <1>4, <2>1, <2>2 DEF LInv, Spacing
<1> QED
  BY <1>6, <1>7, <1>8, <1>9 DEF LInv

LEMMA TickLemma ==
  ASSUME LInv, Tick
  PROVE  LInv'
<1>1. /\ limiter' \in LimiterRecord
      /\ limiter'.slowdown = limiter.slowdown /\ limiter'.armed = limiter.armed
      /\ limiter'.next = Less(limiter.next)
      /\ limiter'.cooldown = Less(limiter.cooldown)
      /\ limiter'.recovery = Less(limiter.recovery)
  BY ElapseLemma DEF LInv, TypeOK, Tick
<1>2. TypeOK'
  BY <1>1, LimiterAssumption DEF LInv, TypeOK, Tick, More, Less
<1>3. SlowdownIsTemporary' /\ NoPhantomReservation'
  BY <1>1, LimiterAssumption
  DEF LInv, TypeOK, LimiterRecord, SlowdownIsTemporary, NoPhantomReservation, Less
<1>4. Spacing'
  <2> USE <1>1, LimiterAssumption DEF LInv, TypeOK, LimiterRecord, Spacing, Tick, More, Less
  <2>1. limiter'.next + sinceTake' >= Pace
    OBVIOUS
  <2>2. limiter'.cooldown + sinceLimited' >= MinCooldown
    OBVIOUS
  <2>3. limiter'.armed => limiter'.recovery + sinceChange' = RecoveryTime
    OBVIOUS
  <2> QED
    BY <2>1, <2>2, <2>3
<1> QED
  BY <1>2, <1>3, <1>4 DEF LInv

LEMMA RateLimitedLemma ==
  ASSUME LInv, NEW c \in Caller, NEW retryAfter \in RetryAfters, RateLimited(c, retryAfter)
  PROVE  LInv'
<1> DEFINE l == OnRateLimited(limiter, retryAfter)
<1>1. /\ l \in LimiterRecord /\ l.next = limiter.next /\ l.cooldown >= MinCooldown
      /\ l.slowdown > 0 /\ l.armed = TRUE /\ l.recovery = RecoveryTime
  BY OnRateLimitedLemma, CallersAssumption DEF LInv, TypeOK
<1>2. /\ limiter' = l /\ sinceLimited' = 0 /\ sinceChange' = 0
      /\ pc' = [pc EXCEPT ![c] = "answered"] /\ UNCHANGED <<used, sleep, sinceTake>>
  BY DEF RateLimited
<1> HIDE DEF l
<1>3. TypeOK'
  BY <1>1, <1>2, LimiterAssumption DEF LInv, TypeOK
<1>4. SlowdownIsTemporary' /\ NoPhantomReservation'
  BY <1>1, <1>2 DEF LInv, SlowdownIsTemporary, NoPhantomReservation
<1>5. Spacing'
  BY <1>1, <1>2, LimiterAssumption DEF LInv, Spacing, LimiterRecord
<1> QED
  BY <1>3, <1>4, <1>5 DEF LInv

-----------------------------------------------------------------------------
\* The semaphore.

LEMMA HoldingFinite == IsFiniteSet(Holding)
  BY CallersAssumption, FS_Subset DEF Holding

\* A step that moves no caller in or out of the holders.
LEMMA SlotsKept ==
  ASSUME SlotsMatchHolders, used' = used, Holding' = Holding
  PROVE  SlotsMatchHolders'
  BY DEF SlotsMatchHolders

LEMMA EnterLemma ==
  ASSUME IInv, NEW c \in Caller, Enter(c)
  PROVE  IInv'
<1>1. Slots > 0
  BY CallersAssumption DEF IInv, LInv, TypeOK, Enter
<1>2. c \notin Holding /\ Holding' = Holding \cup {c}
  BY DEF IInv, LInv, TypeOK, Enter, Holding
<1>3. Cardinality(Holding') = Cardinality(Holding) + 1
  BY <1>2, HoldingFinite, FS_AddElement
<1>4. SlotsMatchHolders'
  BY <1>1, <1>3, CallersAssumption DEF IInv, LInv, TypeOK, SlotsMatchHolders, Enter
<1>5. LInv'
  BY DEF IInv, LInv, TypeOK, SlowdownIsTemporary, NoPhantomReservation, Spacing, Enter, history
<1> QED
  BY <1>4, <1>5 DEF IInv

\* Cancel and Release: the caller that becomes idle gives its slot back.
LEMMA LeaveLemma ==
  ASSUME IInv, NEW c \in Caller, pc[c] \in {"queue", "pace", "run", "answered"},
         used' = Freed(c), pc' = [pc EXCEPT ![c] = "idle"], sleep' \in [Caller -> Nat],
         UNCHANGED <<limiter, history>>
  PROVE  IInv'
<1>1. CASE c \in Holding /\ Slots > 0
  <2>1. Holding' = Holding \ {c}
    BY DEF IInv, LInv, TypeOK, Holding
  <2>2. Cardinality(Holding') = Cardinality(Holding) - 1 /\ Cardinality(Holding) \in Nat
    BY <1>1, <2>1, HoldingFinite, FS_RemoveElement, FS_CardinalityType
  <2>3. Cardinality(Holding') \in Nat
    BY <2>1, HoldingFinite, FS_CardinalityType, FS_Subset
  <2>4. used' = used - 1 /\ used = Cardinality(Holding) /\ used <= Slots
    BY <1>1 DEF Freed, Holding, IInv, SlotsMatchHolders
  <2>5. SlotsMatchHolders' /\ used' \in Nat
    BY <2>2, <2>3, <2>4, CallersAssumption DEF SlotsMatchHolders
  <2> QED
    BY <2>5 DEF IInv, LInv, TypeOK, SlowdownIsTemporary, NoPhantomReservation, Spacing, history
<1>2. CASE c \notin Holding
  <2>1. Holding' = Holding
    BY <1>2 DEF IInv, LInv, TypeOK, Holding
  <2>2. used' = used
    BY <1>2 DEF Freed, Holding
  <2>3. SlotsMatchHolders'
    BY <2>1, <2>2, SlotsKept DEF IInv
  <2> QED
    BY <2>2, <2>3
    DEF IInv, LInv, TypeOK, SlowdownIsTemporary, NoPhantomReservation, Spacing, history
<1>3. CASE ~(Slots > 0)
  <2>1. used' = used
    BY <1>3 DEF Freed
  <2> QED
    BY <1>3, <2>1
    DEF IInv, LInv, TypeOK, SlowdownIsTemporary, NoPhantomReservation, Spacing, history,
        SlotsMatchHolders
<1> QED
  BY <1>1, <1>2, <1>3

LEMMA CallLemma ==
  ASSUME IInv, NEW c \in Caller, Call(c)
  PROVE  IInv'
<1>1. CASE Slots = 0
  BY <1>1
  DEF IInv, LInv, TypeOK, SlowdownIsTemporary, NoPhantomReservation, Spacing, Call, history,
      SlotsMatchHolders
<1>2. CASE Slots # 0
  <2>1. Holding' = Holding
    BY <1>2 DEF IInv, LInv, TypeOK, Holding, Call
  <2>2. SlotsMatchHolders'
    BY <2>1, SlotsKept DEF IInv, Call
  <2> QED
    BY <1>2, <2>2
    DEF IInv, LInv, TypeOK, SlowdownIsTemporary, NoPhantomReservation, Spacing, Call, history
<1> QED
  BY <1>1, <1>2

-----------------------------------------------------------------------------
LEMMA RateLimitStep == IInv /\ [Next]_vars => IInv'
<1> SUFFICES ASSUME IInv, [Next]_vars PROVE IInv'
  OBVIOUS
<1>1. CASE Tick
  <2>1. Holding' = Holding /\ used' = used
    BY <1>1 DEF Tick, Holding
  <2> QED
    BY <1>1, <2>1, TickLemma, SlotsKept DEF IInv
<1>2. ASSUME NEW c \in Caller, Call(c) PROVE IInv'
  BY <1>2, CallLemma
<1>3. ASSUME NEW c \in Caller, Enter(c) PROVE IInv'
  BY <1>3, EnterLemma
<1>4. ASSUME NEW c \in Caller, TakeOrSleep(c) PROVE IInv'
  <2>1. Holding' = Holding /\ used' = used
    BY <1>4 DEF TakeOrSleep, Holding, IInv, LInv, TypeOK
  <2> QED
    BY <1>4, <2>1, TakeLemma, SlotsKept DEF IInv
<1>5. ASSUME NEW c \in Caller, Cancel(c) PROVE IInv'
  <2>1. sleep' \in [Caller -> Nat]
    BY <1>5 DEF Cancel, IInv, LInv, TypeOK
  <2> QED
    BY <1>5, <2>1, LeaveLemma DEF Cancel
<1>6. ASSUME NEW c \in Caller, Release(c) PROVE IInv'
  <2>1. sleep' \in [Caller -> Nat]
    BY <1>6 DEF Release, IInv, LInv, TypeOK
  <2> QED
    BY <1>6, <2>1, LeaveLemma DEF Release
<1>7. ASSUME NEW c \in Caller, NEW retryAfter \in RetryAfters, RateLimited(c, retryAfter)
      PROVE  IInv'
  <2>1. Holding' = Holding /\ used' = used
    BY <1>7 DEF RateLimited, Holding, IInv, LInv, TypeOK
  <2> QED
    BY <1>7, <2>1, RateLimitedLemma, SlotsKept DEF IInv
<1>8. CASE UNCHANGED vars
  BY <1>8
  DEF vars, IInv, LInv, TypeOK, SlowdownIsTemporary, NoPhantomReservation, Spacing,
      SlotsMatchHolders, Holding
<1> QED
  BY <1>1, <1>2, <1>3, <1>4, <1>5, <1>6, <1>7, <1>8 DEF Next

\* The types, and the sums that tie the limiter to what has passed.
THEOREM RateLimitInvariant == Spec => []IInv
<1>1. Init => IInv
  <2>1. Init => Holding = {}
    BY DEF Init, Holding
  <2> QED
    BY <2>1, LimiterInit, FS_EmptySet, CallersAssumption DEF IInv, SlotsMatchHolders, Init
<1> QED
  BY <1>1, RateLimitStep, PTL DEF Spec

\* No slot leaks and none is freed twice, for any number of callers.
THEOREM SlotsCorrect == Spec => []SlotsMatchHolders
<1>1. IInv => SlotsMatchHolders
  BY DEF IInv
<1> QED
  BY <1>1, RateLimitInvariant, PTL

\* A token is never reserved further ahead than one interval of the slowest rate.
THEOREM NoReservations == Spec => []NoPhantomReservation
<1>1. IInv => NoPhantomReservation
  BY DEF IInv, LInv
<1> QED
  BY <1>1, RateLimitInvariant, PTL

\* A step that grants a token is a takeOrDelay without a delay.
LEMMA GrantLemma ==
  ASSUME IInv, [Next]_vars, NEW c \in Caller, Granted(c)
  PROVE  limiter.next = 0 /\ limiter.cooldown = 0 /\ \E d \in Caller : TakeOrSleep(d)
<1>1. pc[c] = "pace" /\ pc'[c] = "run" /\ pc \in [Caller -> {"idle", "queue", "pace", "run", "answered"}]
  BY DEF Granted, IInv, LInv, TypeOK
<1>2. PICK d \in Caller : TakeOrSleep(d) /\ Delay(Recovered(limiter)) = 0
  BY <1>1 DEF Next, vars, Tick, Call, Enter, Cancel, Release, RateLimited, TakeOrSleep
<1> QED
  BY <1>2, RecoveredLemma, DelayLemma, LimiterAssumption
  DEF IInv, LInv, TypeOK, SlowdownIsTemporary

\* Tokens are at least the base interval apart.
THEOREM PacingHolds == Spec => TokensArePaced
<1>1. IInv /\ [Next]_vars => [(\E c \in Caller : Granted(c)) => sinceTake >= Pace]_vars
  BY GrantLemma, LimiterAssumption DEF IInv, LInv, Spacing, TypeOK
<1> QED
  BY <1>1, RateLimitInvariant, PTL DEF Spec, TokensArePaced

\* No token within MinCooldown of a rate-limited answer.
THEOREM CooldownHolds == Spec => CooldownHonoured
<1>1. IInv /\ [Next]_vars => [(\E c \in Caller : Granted(c)) => sinceLimited >= MinCooldown]_vars
  BY GrantLemma, LimiterAssumption DEF IInv, LInv, Spacing, TypeOK
<1> QED
  BY <1>1, RateLimitInvariant, PTL DEF Spec, CooldownHonoured
\* The rate is reduced exactly while a recovery is pending, never for ever.
THEOREM SlowdownEnds == Spec => []SlowdownIsTemporary
<1>1. IInv => SlowdownIsTemporary
  BY DEF IInv, LInv
<1> QED
  BY <1>1, RateLimitInvariant, PTL

\* What a step of a caller that asks for a token does to rate and cooldown.
LEMMA TakeChanges ==
  ASSUME IInv, NEW c \in Caller, TakeOrSleep(c)
  PROVE  /\ limiter'.cooldown = limiter.cooldown
         /\ \/ limiter'.slowdown = limiter.slowdown
            \/ limiter.armed /\ limiter.recovery = 0 /\ limiter'.slowdown = limiter.slowdown - 1
<1> DEFINE r == Recovered(limiter)
<1>1. limiter \in LimiterRecord /\ (limiter.slowdown > 0 <=> limiter.armed)
  BY DEF IInv, LInv, TypeOK, SlowdownIsTemporary
<1>2. /\ r \in LimiterRecord /\ r.cooldown = limiter.cooldown
      /\ \/ r.slowdown = limiter.slowdown
         \/ limiter.armed /\ limiter.recovery = 0 /\ r.slowdown = limiter.slowdown - 1
  BY <1>1, RecoveredLemma, LimiterAssumption
<1>3. limiter' = Paced(r)
  BY DEF TakeOrSleep, TakeOrDelay
<1> HIDE DEF r
<1>4. Paced(r).slowdown = r.slowdown /\ Paced(r).cooldown = r.cooldown
  BY <1>2, PacedLemma, LimiterAssumption
<1> QED
  BY <1>2, <1>3, <1>4

\* The other steps: an answer raises both, time shortens the cooldown, nothing else moves them.
LEMMA OtherChanges ==
  ASSUME IInv, [Next]_vars, \A c \in Caller : ~TakeOrSleep(c)
  PROVE  /\ limiter'.slowdown >= limiter.slowdown
         /\ limiter'.cooldown >= limiter.cooldown \/ (Tick /\ limiter'.cooldown = limiter.cooldown - 1)
<1>1. limiter \in LimiterRecord
  BY DEF IInv, LInv, TypeOK
<1>2. CASE Tick
  BY <1>1, <1>2, ElapseLemma, LimiterAssumption DEF Tick, Less, LimiterRecord
<1>3. ASSUME NEW c \in Caller, NEW retryAfter \in RetryAfters, RateLimited(c, retryAfter)
      PROVE  limiter'.slowdown >= limiter.slowdown /\ limiter'.cooldown >= limiter.cooldown
  BY <1>1, <1>3, OnRateLimitedLemma, LimiterAssumption, CallersAssumption DEF RateLimited
<1>4. CASE UNCHANGED limiter
  BY <1>1, <1>4 DEF LimiterRecord
<1> QED
  BY <1>2, <1>3, <1>4 DEF Next, vars, Call, Enter, Cancel, Release

\* Only time shortens a cooldown: not a later answer with a smaller Retry-After.
THEOREM CooldownKept == Spec => CooldownNeverShortened
<1>1. IInv /\ [Next]_vars =>
        [limiter'.cooldown < limiter.cooldown => limiter'.cooldown = limiter.cooldown - 1
                                                  /\ UNCHANGED <<used, pc>>]_vars
  <2> SUFFICES ASSUME IInv, [Next]_vars, limiter'.cooldown < limiter.cooldown
               PROVE  limiter'.cooldown = limiter.cooldown - 1 /\ UNCHANGED <<used, pc>>
    OBVIOUS
  <2>1. limiter \in LimiterRecord /\ limiter' \in LimiterRecord
    BY RateLimitStep DEF IInv, LInv, TypeOK
  <2>2. \A c \in Caller : ~TakeOrSleep(c)
    BY <2>1, TakeChanges DEF LimiterRecord
  <2>3. Tick /\ limiter'.cooldown = limiter.cooldown - 1
    BY <2>1, <2>2, OtherChanges DEF LimiterRecord
  <2> QED
    BY <2>3 DEF Tick
<1> QED
  BY <1>1, RateLimitInvariant, PTL DEF Spec, CooldownNeverShortened

\* Once RecoveryTime has passed a caller that asks recovers a level, which starts it anew.
LEMMA TakeRecovers ==
  ASSUME IInv, NEW c \in Caller, TakeOrSleep(c), limiter'.slowdown > 0
  PROVE  sinceChange' < RecoveryTime
<1> DEFINE r == Recovered(limiter)
<1>1. /\ limiter \in LimiterRecord /\ (limiter.slowdown > 0 <=> limiter.armed)
      /\ limiter.armed => limiter.recovery + sinceChange = RecoveryTime
      /\ sinceChange \in Nat /\ RecoveryTime \in Nat \ {0} /\ limiter.recovery \in Nat
  BY LimiterAssumption DEF IInv, LInv, TypeOK, SlowdownIsTemporary, Spacing, LimiterRecord
<1>2. r \in LimiterRecord
  BY <1>1, RecoveredLemma, LimiterAssumption
<1>3. limiter' = Paced(r) /\ sinceChange' = IF limiter'.slowdown < limiter.slowdown THEN 0 ELSE sinceChange
  BY DEF TakeOrSleep, TakeOrDelay
<1>4. CASE limiter.armed /\ limiter.recovery = 0
  <2>1. limiter.slowdown \in Nat /\ limiter.slowdown > 0
    BY <1>1, <1>4 DEF LimiterRecord, MaxSlowdown
  <2>2. r.slowdown = limiter.slowdown - 1
    BY <1>4, <2>1 DEF Recovered, Less
  <2> HIDE DEF r
  <2>3. limiter'.slowdown = limiter.slowdown - 1
    BY <1>2, <1>3, <2>2, PacedLemma, LimiterAssumption
  <2> QED BY <1>1, <1>3, <2>1, <2>3
<1>5. CASE ~(limiter.armed /\ limiter.recovery = 0)
  <2>1. r = limiter
    BY <1>5 DEF Recovered
  <2> HIDE DEF r
  <2>2. limiter'.slowdown = limiter.slowdown /\ limiter.slowdown \in Nat
    BY <1>1, <1>2, <1>3, <2>1, PacedLemma, LimiterAssumption DEF LimiterRecord, MaxSlowdown
  <2>3. limiter.armed /\ limiter.recovery # 0
    BY <1>1, <1>5, <2>2
  <2>4. sinceChange' = sinceChange
    BY <1>3, <2>2
  <2>5. limiter.recovery + sinceChange = RecoveryTime
    BY <1>1, <2>3
  <2> QED BY <1>1, <2>3, <2>4, <2>5
<1> QED BY <1>4, <1>5

\* The rate recovers a level at a time, RecoveryTime after the last answer or level, and no
\* token is taken later than that at the slower rate: for any callers, levels and intervals.
THEOREM RecoveryPaced == Spec => RecoversOnTime
<1>1. ASSUME IInv, [Next]_vars, limiter'.slowdown < limiter.slowdown
      PROVE  limiter'.slowdown = limiter.slowdown - 1 /\ sinceChange >= RecoveryTime
  <2>1. limiter \in LimiterRecord /\ limiter' \in LimiterRecord
    BY <1>1, RateLimitStep DEF IInv, LInv, TypeOK
  <2>2. PICK c \in Caller : TakeOrSleep(c)
    BY <1>1, <2>1, OtherChanges DEF LimiterRecord
  <2>3. limiter.armed /\ limiter.recovery = 0 /\ limiter'.slowdown = limiter.slowdown - 1
    BY <1>1, <2>1, <2>2, TakeChanges DEF LimiterRecord
  <2>4. limiter.recovery + sinceChange = RecoveryTime /\ sinceChange \in Nat /\ RecoveryTime \in Nat
    BY <1>1, <2>3, LimiterAssumption DEF IInv, LInv, Spacing, TypeOK
  <2> QED BY <2>3, <2>4
<1>2. ASSUME IInv, [Next]_vars, NEW c \in Caller, Granted(c), limiter'.slowdown > 0
      PROVE  sinceChange' < RecoveryTime
  <2>1. PICK d \in Caller : TakeOrSleep(d)
    BY <1>2, GrantLemma
  <2> QED BY <1>2, <2>1, TakeRecovers
<1>3. IInv /\ [Next]_vars =>
        [/\ limiter'.slowdown < limiter.slowdown =>
              limiter'.slowdown = limiter.slowdown - 1 /\ sinceChange >= RecoveryTime
         /\ (\E c \in Caller : Granted(c)) /\ limiter'.slowdown > 0 => sinceChange' < RecoveryTime]_vars
  BY <1>1, <1>2
<1> QED
  BY <1>3, RateLimitInvariant, PTL DEF Spec, RecoversOnTime

-----------------------------------------------------------------------------
(* The calls of the authenticated client *)

\* An instance has its own names for the operators of the modules it extends.
LEMMA SameFiniteSets ==
  ASSUME NEW S
  PROVE  (Http!IsFiniteSet(S) <=> IsFiniteSet(S)) /\ Http!Cardinality(S) = Cardinality(S)
BY DEF Http!IsFiniteSet, IsFiniteSet, Http!Cardinality, Cardinality

NoDuplicates(s) == \A i, k \in DOMAIN s : s[i] = s[k] => i = k

\* Where a call is in its stack: what it has still to acquire it does not hold, but for the
\* slot whose token it waits for; and between attempts it holds nothing.
CallInv(c) ==
  /\ held[c] \subseteq Gate /\ todo[c] \in Seq(Gate) /\ attempt[c] \in Nat
  /\ at[c] \in {"idle", "queue", "pace", "flight", "limited", "backoff", "done"}
  /\ at[c] \in {"idle", "backoff", "done"} => held[c] = {}
  /\ at[c] \in {"queue", "pace"} =>
       /\ todo[c] # <<>> /\ NoDuplicates(todo[c])
       /\ \A i \in DOMAIN todo[c] : i # 1 \/ at[c] = "queue" => todo[c][i] \notin held[c]

Holders(g) == {c \in Calls : g \in held[c]}

SlotInv ==
  /\ held \in [Calls -> SUBSET Gate] /\ gates \in [Gate -> Nat]
  /\ DOMAIN at = Calls /\ DOMAIN todo = Calls /\ DOMAIN attempt = Calls
  /\ \A c \in Calls : CallInv(c)
  /\ \A g \in Gate : SlotsOf[g] > 0 => gates[g] = Cardinality(Holders(g)) /\ gates[g] <= SlotsOf[g]

LEMMA WithLimiterFacts ==
  ASSUME NEW s \in Seq(Gate), NoDuplicates(s), NEW g \in Gate \cup {NoGate}
  PROVE  Http!WithLimiter(s, g) \in Seq(Gate) /\ NoDuplicates(Http!WithLimiter(s, g))
<1>1. CASE g = NoGate \/ \E i \in DOMAIN s : s[i] = g
    BY <1>1 DEF Http!WithLimiter
<1>2. CASE g \in Gate /\ ~\E i \in DOMAIN s : s[i] = g
    <2>1. CASE g = NoGate
        BY <2>1 DEF Http!WithLimiter
    <2>2. CASE g # NoGate
        <3>1. Http!WithLimiter(s, g) = Append(s, g)
            BY <1>2, <2>2 DEF Http!WithLimiter
        <3>2. /\ Append(s, g) \in Seq(Gate) /\ DOMAIN Append(s, g) = 1 .. Len(s) + 1
              /\ DOMAIN s = 1 .. Len(s) /\ Len(s) \in Nat
              /\ \A i \in 1 .. Len(s) : Append(s, g)[i] = s[i]
              /\ Append(s, g)[Len(s) + 1] = g
            BY <1>2
        <3>3. NoDuplicates(Append(s, g))
            BY <1>2, <3>2 DEF NoDuplicates
        <3> QED BY <3>1, <3>2, <3>3
    <2> QED BY <2>1, <2>2
<1> QED BY <1>1, <1>2

LEMMA StackFacts ==
  ASSUME Http!AuthClientAssumption, NEW c \in Calls, NEW n \in Nat
  PROVE  /\ Http!Stack(c, n) \in Seq(Gate) /\ NoDuplicates(Http!Stack(c, n))
         /\ Http!Hard(c) \in Seq(Gate) /\ NoDuplicates(Http!Hard(c))
<1>1. /\ FirstOf[c] \in Gate \cup {NoGate} /\ RetryOf[c] \in Gate \cup {NoGate}
      /\ HostOf[c] \in Gate \cup {NoGate} /\ EndpointOf[c] \in Gate \cup {NoGate}
    BY DEF Http!AuthClientAssumption
<1>2. <<>> \in Seq(Gate) /\ NoDuplicates(<<>>)
    BY DEF NoDuplicates
<1> DEFINE budget == IF n = 0 THEN FirstOf[c] ELSE RetryOf[c]
           own == Http!WithLimiter(<<>>, budget)
           hostToo == Http!WithLimiter(own, HostOf[c])
           hostOnly == Http!WithLimiter(<<>>, HostOf[c])
<1>3. own \in Seq(Gate) /\ NoDuplicates(own)
    BY <1>1, <1>2, WithLimiterFacts
<1>4. hostToo \in Seq(Gate) /\ NoDuplicates(hostToo)
    <2> HIDE DEF own
    <2> QED BY <1>1, <1>3, WithLimiterFacts
<1>5. hostOnly \in Seq(Gate) /\ NoDuplicates(hostOnly)
    BY <1>1, <1>2, WithLimiterFacts
<1>6. Http!WithLimiter(hostToo, EndpointOf[c]) \in Seq(Gate) /\ NoDuplicates(Http!WithLimiter(hostToo, EndpointOf[c]))
    <2> HIDE DEF hostToo
    <2> QED BY <1>1, <1>4, WithLimiterFacts
<1>7. Http!WithLimiter(hostOnly, EndpointOf[c]) \in Seq(Gate) /\ NoDuplicates(Http!WithLimiter(hostOnly, EndpointOf[c]))
    <2> HIDE DEF hostOnly
    <2> QED BY <1>1, <1>5, WithLimiterFacts
<1> QED BY <1>6, <1>7 DEF Http!Stack, Http!Hard

LEMMA InitSlots == Http!AuthClientAssumption /\ Http!Init => SlotInv
<1> SUFFICES ASSUME Http!AuthClientAssumption, Http!Init PROVE SlotInv
    OBVIOUS
<1>1. \A c \in Calls : CallInv(c)
    BY DEF Http!Init, CallInv
<1>2. \A g \in Gate : Holders(g) = {}
    BY DEF Http!Init, Holders
<1>3. Cardinality({}) = 0
    BY FS_EmptySet
<1>4. \A g \in Gate : SlotsOf[g] \in Nat
    BY DEF Http!AuthClientAssumption
<1>5. ASSUME NEW g \in Gate PROVE gates[g] = Cardinality(Holders(g)) /\ gates[g] <= SlotsOf[g]
    <2>1. gates[g] = 0
        BY DEF Http!Init
    <2>2. Cardinality(Holders(g)) = 0
        BY <1>2, <1>3
    <2>3. SlotsOf[g] \in Nat
        BY <1>4
    <2> QED BY <2>1, <2>2, <2>3
<1>6. held \in [Calls -> SUBSET Gate] /\ gates \in [Gate -> Nat]
    BY DEF Http!Init
<1>7. DOMAIN at = Calls /\ DOMAIN todo = Calls /\ DOMAIN attempt = Calls
    BY DEF Http!Init
<1> QED BY <1>1, <1>5, <1>6, <1>7 DEF SlotInv

\* Slots are taken and given back one by one.
LEMMA Taken ==
  ASSUME Http!AuthClientAssumption, SlotInv, NEW c \in Calls, NEW g \in Gate, g \notin held[c],
         held' = [held EXCEPT ![c] = @ \cup {g}],
         SlotsOf[g] > 0 => gates[g] < SlotsOf[g],
         gates' = [gates EXCEPT ![g] = IF SlotsOf[g] > 0 THEN @ + 1 ELSE @]
  PROVE  /\ held' \in [Calls -> SUBSET Gate] /\ gates' \in [Gate -> Nat]
         /\ \A h \in Gate : SlotsOf[h] > 0 => gates'[h] = Cardinality(Holders(h)') /\ gates'[h] <= SlotsOf[h]
<1>1. held' \in [Calls -> SUBSET Gate] /\ gates' \in [Gate -> Nat]
    BY DEF SlotInv
<1>2. ASSUME NEW h \in Gate, SlotsOf[h] > 0
      PROVE  gates'[h] = Cardinality(Holders(h)') /\ gates'[h] <= SlotsOf[h]
    <2>1. IsFiniteSet(Holders(h)) /\ gates[h] = Cardinality(Holders(h)) /\ gates[h] <= SlotsOf[h] /\ gates[h] \in Nat
        <3>1. Holders(h) \subseteq Calls /\ IsFiniteSet(Calls)
            BY SameFiniteSets DEF Holders, Http!AuthClientAssumption
        <3> QED BY <1>2, <3>1, FS_Subset DEF SlotInv
    <2>2. CASE h = g
        <3>1. Holders(g)' = Holders(g) \cup {c} /\ c \notin Holders(g)
            BY DEF Holders, SlotInv
        <3>2. Cardinality(Holders(g) \cup {c}) = Cardinality(Holders(g)) + 1
            BY <2>1, <2>2, <3>1, FS_AddElement
        <3>3. gates'[g] = gates[g] + 1 /\ SlotsOf[g] \in Nat
            BY <1>2, <2>2 DEF SlotInv, Http!AuthClientAssumption
        <3> QED BY <1>2, <2>1, <2>2, <3>1, <3>2, <3>3
    <2>3. CASE h # g
        <3>1. Holders(h)' = Holders(h)
            BY <2>3 DEF Holders, SlotInv
        <3>2. gates'[h] = gates[h]
            BY <2>3 DEF SlotInv
        <3> QED BY <2>1, <3>1, <3>2
    <2> QED BY <2>2, <2>3
<1> QED BY <1>1, <1>2

LEMMA GivenBack ==
  ASSUME Http!AuthClientAssumption, SlotInv, NEW c \in Calls,
         gates' = Http!Freed(c), held' = [held EXCEPT ![c] = {}]
  PROVE  /\ held' \in [Calls -> SUBSET Gate] /\ gates' \in [Gate -> Nat]
         /\ \A h \in Gate : SlotsOf[h] > 0 => gates'[h] = Cardinality(Holders(h)') /\ gates'[h] <= SlotsOf[h]
<1>1. ASSUME NEW h \in Gate
      PROVE  /\ gates'[h] \in Nat
             /\ SlotsOf[h] > 0 => gates'[h] = Cardinality(Holders(h)') /\ gates'[h] <= SlotsOf[h]
    <2>0. gates[h] \in Nat /\ gates'[h] = (IF h \in held[c] /\ SlotsOf[h] > 0 THEN gates[h] - 1 ELSE gates[h])
        BY DEF Http!Freed, SlotInv
    <2>1. IsFiniteSet(Holders(h))
        <3>1. Holders(h) \subseteq Calls /\ IsFiniteSet(Calls)
            BY SameFiniteSets DEF Holders, Http!AuthClientAssumption
        <3> QED BY <3>1, FS_Subset
    <2>2. SlotsOf[h] > 0 => gates[h] = Cardinality(Holders(h)) /\ gates[h] <= SlotsOf[h] /\ SlotsOf[h] \in Nat
        BY DEF SlotInv, Http!AuthClientAssumption
    <2>3. CASE h \in held[c]
        <3>1. Holders(h)' = Holders(h) \ {c} /\ c \in Holders(h)
            BY <2>3 DEF Holders, SlotInv
        <3>2. Cardinality(Holders(h) \ {c}) = Cardinality(Holders(h)) - 1 /\ IsFiniteSet(Holders(h) \ {c})
            BY <2>1, <3>1, FS_RemoveElement
        <3>3. Cardinality(Holders(h) \ {c}) \in Nat
            BY <3>2, FS_CardinalityType
        <3> QED BY <2>0, <2>2, <2>3, <3>1, <3>2, <3>3
    <2>4. CASE h \notin held[c]
        <3>1. Holders(h)' = Holders(h)
            BY <2>4 DEF Holders, SlotInv
        <3> QED BY <2>0, <2>2, <2>4, <3>1
    <2> QED BY <2>3, <2>4
<1>2. held' \in [Calls -> SUBSET Gate]
    BY DEF SlotInv
<1>3. gates' \in [Gate -> Nat]
    BY <1>1 DEF Http!Freed
<1> QED BY <1>1, <1>2, <1>3

\* A step in which c acquires no slot and goes on, or begins, with the left of its stack.
LEMMA GoOnCall ==
  ASSUME SlotInv, NEW c \in Calls, NEW left \in Seq(Gate), Http!GoOn(c, left), held'[c] = held[c], attempt'[c] = attempt[c],
         left # <<>> => NoDuplicates(left) /\ \A i \in DOMAIN left : left[i] \notin held[c]
  PROVE  CallInv(c)'
<1>1. todo'[c] = left /\ at'[c] = (IF left = <<>> THEN "flight" ELSE "queue")
    BY DEF Http!GoOn, SlotInv
<1> QED BY <1>1 DEF SlotInv, CallInv

\* The other calls, in a step of c.
Others(c) ==
  \A d \in Calls \ {c} :
    held'[d] = held[d] /\ at'[d] = at[d] /\ todo'[d] = todo[d] /\ attempt'[d] = attempt[d]

Domains == DOMAIN at' = Calls /\ DOMAIN todo' = Calls /\ DOMAIN attempt' = Calls

LEMMA OneCall ==
  ASSUME SlotInv, NEW c \in Calls, Others(c), CallInv(c)', NEW d \in Calls
  PROVE  CallInv(d)'
  BY DEF SlotInv, CallInv, Others

\* The slots of a step that takes and gives back none.
LEMMA SameSlots ==
  ASSUME SlotInv, UNCHANGED <<gates, held>>
  PROVE  /\ held' \in [Calls -> SUBSET Gate] /\ gates' \in [Gate -> Nat]
         /\ \A h \in Gate : SlotsOf[h] > 0 => gates'[h] = Cardinality(Holders(h)') /\ gates'[h] <= SlotsOf[h]
  BY DEF SlotInv, Holders

LEMMA BeginSlots == ASSUME Http!AuthClientAssumption, SlotInv, NEW c \in Calls, Http!Begin(c) PROVE SlotInv'
<1>1. Http!GoOn(c, Http!Stack(c, attempt[c])) /\ UNCHANGED <<gates, attempt, held>> /\ at[c] \in {"idle", "backoff"}
    BY DEF Http!Begin
<1>2. held[c] = {} /\ attempt[c] \in Nat
    BY <1>1 DEF SlotInv, CallInv
<1>3. Http!Stack(c, attempt[c]) \in Seq(Gate) /\ NoDuplicates(Http!Stack(c, attempt[c]))
    BY <1>2, StackFacts
<1>4. CallInv(c)'
    BY <1>1, <1>2, <1>3, GoOnCall
<1>5. Others(c) /\ Domains
    BY <1>1 DEF Http!GoOn, Others, Domains, SlotInv
<1>6. \A d \in Calls : CallInv(d)'
    BY <1>4, <1>5, OneCall
<1> QED BY <1>1, <1>5, <1>6, SameSlots DEF SlotInv, Domains

LEMMA EnterSlots == ASSUME Http!AuthClientAssumption, SlotInv, NEW c \in Calls, Http!Enter(c) PROVE SlotInv'
<1> DEFINE g == Head(todo[c])
<1>1. /\ at[c] = "queue" /\ (SlotsOf[g] > 0 => gates[g] < SlotsOf[g])
      /\ gates' = [gates EXCEPT ![g] = IF SlotsOf[g] > 0 THEN @ + 1 ELSE @]
      /\ held' = [held EXCEPT ![c] = @ \cup {g}]
      /\ at' = [at EXCEPT ![c] = "pace"] /\ UNCHANGED <<attempt, todo>>
    BY DEF Http!Enter
<1>2. /\ todo[c] \in Seq(Gate) /\ todo[c] # <<>> /\ NoDuplicates(todo[c])
      /\ \A i \in DOMAIN todo[c] : todo[c][i] \notin held[c]
      /\ held[c] \subseteq Gate
    BY <1>1 DEF SlotInv, CallInv
<1>3. g = todo[c][1] /\ 1 \in DOMAIN todo[c] /\ g \in Gate
    BY <1>2
<1>4. g \notin held[c]
    BY <1>2, <1>3
<1>5. /\ held' \in [Calls -> SUBSET Gate] /\ gates' \in [Gate -> Nat]
      /\ \A h \in Gate : SlotsOf[h] > 0 => gates'[h] = Cardinality(Holders(h)') /\ gates'[h] <= SlotsOf[h]
    <2> HIDE DEF g
    <2> QED BY <1>1, <1>3, <1>4, Taken
<1>6. Others(c) /\ Domains
    BY <1>1 DEF Others, Domains, SlotInv
<1>7. CallInv(c)'
    <2>1. at'[c] = "pace" /\ held'[c] = held[c] \cup {g} /\ todo'[c] = todo[c] /\ attempt'[c] = attempt[c]
        BY <1>1 DEF SlotInv
    <2>2. \A i \in DOMAIN todo[c] : i # 1 => todo[c][i] \notin held[c] \cup {g}
        BY <1>2, <1>3 DEF NoDuplicates
    <2>3. attempt[c] \in Nat /\ held'[c] \subseteq Gate
        BY <1>2, <1>3, <2>1 DEF SlotInv, CallInv
    <2> HIDE DEF g
    <2> QED BY <1>2, <2>1, <2>2, <2>3 DEF CallInv
<1>8. \A d \in Calls : CallInv(d)'
    BY <1>6, <1>7, OneCall
<1> QED BY <1>5, <1>6, <1>8 DEF SlotInv, Domains

LEMMA TailFacts ==
  ASSUME NEW s \in Seq(Gate), s # <<>>, NoDuplicates(s)
  PROVE  /\ Tail(s) \in Seq(Gate) /\ NoDuplicates(Tail(s))
         /\ \A i \in DOMAIN Tail(s) : i + 1 \in DOMAIN s /\ i + 1 # 1 /\ Tail(s)[i] = s[i + 1]
<1>1. /\ Tail(s) \in Seq(Gate) /\ DOMAIN Tail(s) = 1 .. Len(s) - 1 /\ Len(s) \in Nat /\ DOMAIN s = 1 .. Len(s)
      /\ \A i \in 1 .. Len(s) - 1 : Tail(s)[i] = s[i + 1]
    OBVIOUS
<1>2. \A i \in DOMAIN Tail(s) : i \in Nat /\ i + 1 \in DOMAIN s /\ i + 1 # 1 /\ Tail(s)[i] = s[i + 1]
    BY <1>1
<1>3. NoDuplicates(Tail(s))
    <2> SUFFICES ASSUME NEW i \in DOMAIN Tail(s), NEW k \in DOMAIN Tail(s), Tail(s)[i] = Tail(s)[k] PROVE i = k
        BY DEF NoDuplicates
    <2>1. s[i + 1] = s[k + 1] /\ i + 1 \in DOMAIN s /\ k + 1 \in DOMAIN s
        BY <1>2
    <2>2. i + 1 = k + 1
        BY <2>1 DEF NoDuplicates
    <2> QED BY <1>2, <2>2
<1> QED BY <1>1, <1>2, <1>3

LEMMA TakeSlots == ASSUME Http!AuthClientAssumption, SlotInv, NEW c \in Calls, Http!Take(c) PROVE SlotInv'
<1>1. at[c] = "pace" /\ UNCHANGED <<gates, attempt, held>>
    BY DEF Http!Take
<1>2. Http!GoOn(c, Tail(todo[c])) \/ UNCHANGED <<at, todo>>
    BY DEF Http!Take
<1>3. CASE UNCHANGED <<at, todo>>
    <2>1. \A d \in Calls : CallInv(d)'
        BY <1>1, <1>3 DEF SlotInv, CallInv
    <2> QED BY <1>1, <1>3, <2>1, SameSlots DEF SlotInv
<1>4. CASE Http!GoOn(c, Tail(todo[c]))
    <2>1. /\ todo[c] \in Seq(Gate) /\ todo[c] # <<>> /\ NoDuplicates(todo[c])
          /\ \A i \in DOMAIN todo[c] : i # 1 => todo[c][i] \notin held[c]
        BY <1>1 DEF SlotInv, CallInv
    <2>2. /\ Tail(todo[c]) \in Seq(Gate) /\ NoDuplicates(Tail(todo[c]))
          /\ \A i \in DOMAIN Tail(todo[c]) : Tail(todo[c])[i] \notin held[c]
        BY <2>1, TailFacts
    <2>3. CallInv(c)'
        BY <1>1, <1>4, <2>2, GoOnCall
    <2>4. Others(c) /\ Domains
        BY <1>1, <1>4 DEF Http!GoOn, Others, Domains, SlotInv
    <2>5. \A d \in Calls : CallInv(d)'
        BY <2>3, <2>4, OneCall
    <2> QED BY <1>1, <2>4, <2>5, SameSlots DEF SlotInv, Domains
<1> QED BY <1>2, <1>3, <1>4

\* Every end of an attempt.
LEMMA LeaveSlots ==
  ASSUME Http!AuthClientAssumption, SlotInv, NEW c \in Calls, NEW next \in {"done", "backoff"}, Http!Leave(c, next),
         attempt' \in {attempt, [attempt EXCEPT ![c] = @ + 1]}
  PROVE  SlotInv'
<1>1. /\ gates' = Http!Freed(c) /\ held' = [held EXCEPT ![c] = {}]
      /\ todo' = [todo EXCEPT ![c] = <<>>] /\ at' = [at EXCEPT ![c] = next]
    BY DEF Http!Leave
<1>2. /\ held' \in [Calls -> SUBSET Gate] /\ gates' \in [Gate -> Nat]
      /\ \A h \in Gate : SlotsOf[h] > 0 => gates'[h] = Cardinality(Holders(h)') /\ gates'[h] <= SlotsOf[h]
    BY <1>1, GivenBack
<1>3. Others(c) /\ Domains
    BY <1>1 DEF Others, Domains, SlotInv
<1>4. CallInv(c)'
    <2>1. held'[c] = {} /\ todo'[c] = <<>> /\ at'[c] = next
        BY <1>1 DEF SlotInv
    <2>2. attempt'[c] \in Nat
        BY DEF SlotInv, CallInv
    <2>3. <<>> \in Seq(Gate)
        OBVIOUS
    <2> QED BY <2>1, <2>2, <2>3 DEF CallInv
<1>5. \A d \in Calls : CallInv(d)'
    BY <1>3, <1>4, OneCall
<1> QED BY <1>2, <1>3, <1>5 DEF SlotInv, Domains

LEMMA ReturnSlots == ASSUME Http!AuthClientAssumption, SlotInv, NEW c \in Calls, Http!Return(c) PROVE SlotInv'
  BY LeaveSlots DEF Http!Return

LEMMA RetrySlots == ASSUME Http!AuthClientAssumption, SlotInv, NEW c \in Calls, Http!RetryOrReturn(c) PROVE SlotInv'
<1>1. CASE Http!MayRetry(c)
    BY <1>1, LeaveSlots DEF Http!RetryOrReturn
<1> QED BY <1>1, ReturnSlots DEF Http!RetryOrReturn

LEMMA LimitedSlots ==
  ASSUME Http!AuthClientAssumption, SlotInv, NEW c \in Calls, NEW status, NEW code, Http!Limited(c, status, code)
  PROVE  SlotInv'
<1>1. /\ at[c] = "flight" /\ at' = [at EXCEPT ![c] = "limited"] /\ todo' = [todo EXCEPT ![c] = Http!Hard(c)]
      /\ UNCHANGED <<gates, attempt, held>>
    BY DEF Http!Limited
<1>2. Others(c) /\ Domains
    BY <1>1 DEF Others, Domains, SlotInv
<1>3. Http!Hard(c) \in Seq(Gate)
    BY StackFacts
<1>4. CallInv(c)'
    BY <1>1, <1>3 DEF CallInv, SlotInv
<1>5. \A d \in Calls : CallInv(d)'
    BY <1>2, <1>4, OneCall
<1> QED BY <1>1, <1>2, <1>5, SameSlots DEF SlotInv, Domains

LEMMA SlowDownSlots ==
  ASSUME Http!AuthClientAssumption, SlotInv, NEW c \in Calls, NEW retryAfter, Http!SlowDown(c, retryAfter)
  PROVE  SlotInv'
<1>1. /\ at[c] = "limited" /\ todo[c] # <<>> /\ todo' = [todo EXCEPT ![c] = Tail(@)]
      /\ UNCHANGED <<gates, at, attempt, held>>
    BY DEF Http!SlowDown
<1>2. Others(c) /\ Domains
    BY <1>1 DEF Others, Domains, SlotInv
<1>3. Tail(todo[c]) \in Seq(Gate)
    BY <1>1 DEF SlotInv, CallInv
<1>4. CallInv(c)'
    BY <1>1, <1>3 DEF CallInv, SlotInv
<1>5. \A d \in Calls : CallInv(d)'
    BY <1>2, <1>4, OneCall
<1> QED BY <1>1, <1>2, <1>5, SameSlots DEF SlotInv, Domains

LEMMA StepSlots == Http!AuthClientAssumption /\ SlotInv /\ [Http!Next]_(Http!vars) => SlotInv'
<1> SUFFICES ASSUME Http!AuthClientAssumption, SlotInv, [Http!Next]_(Http!vars) PROVE SlotInv'
    OBVIOUS
<1>1. CASE Http!Tick \/ UNCHANGED Http!vars
    <2>1. UNCHANGED <<gates, at, attempt, todo, held>>
        BY <1>1 DEF Http!Tick, Http!vars
    <2>2. \A d \in Calls : CallInv(d)'
        BY <2>1 DEF SlotInv, CallInv
    <2> QED BY <2>1, <2>2, SameSlots DEF SlotInv
<1>2. ASSUME NEW c \in Calls, Http!Cancel(c) PROVE SlotInv'
    BY <1>2, ReturnSlots DEF Http!Cancel
<1>3. ASSUME NEW c \in Calls, Http!Step(c) PROVE SlotInv'
    <2>1. CASE Http!Begin(c) \/ Http!Enter(c) \/ Http!Take(c)
        BY <2>1, BeginSlots, EnterSlots, TakeSlots
    <2>2. CASE Http!Fail(c) \/ Http!EndLimited(c)
        BY <2>2, ReturnSlots, RetrySlots DEF Http!Fail, Http!EndLimited
    <2>3. ASSUME NEW status \in Http!Statuses, NEW code \in Http!Codes, Http!Answer(c, status, code) \/ Http!Limited(c, status, code)
          PROVE  SlotInv'
        BY <2>3, ReturnSlots, RetrySlots, LimitedSlots DEF Http!Answer
    <2>4. ASSUME NEW retryAfter \in HttpRetryAfters, Http!SlowDown(c, retryAfter) PROVE SlotInv'
        BY <2>4, SlowDownSlots
    <2> QED BY <1>3, <2>1, <2>2, <2>3, <2>4 DEF Http!Step
<1> QED BY <1>1, <1>2, <1>3 DEF Http!Next

LEMMA AlwaysSlots == ASSUME Http!AuthClientAssumption PROVE Http!Spec => []SlotInv
<1>1. Http!Init => SlotInv
    BY InitSlots
<1>2. SlotInv /\ [Http!Next]_(Http!vars) => SlotInv'
    BY StepSlots
<1> QED BY <1>1, <1>2, PTL DEF Http!Spec

\* Wherever a call fails, is cancelled, is rate limited or starts over, the slots taken of a
\* limiter are those held by calls that will give them back.
THEOREM SlotsAlwaysMatchHolders == Http!Spec => []Http!SlotsMatchHolders
<1>1. SlotInv => Http!SlotsMatchHolders
    BY SameFiniteSets DEF SlotInv, Http!SlotsMatchHolders, Holders
<1> QED BY AlwaysSlots, HttpAssumption, <1>1, PTL
-----------------------------------------------------------------------------
(* The pace of the requests *)

Waits(l) == l.next \in Nat /\ l.cooldown \in Nat

LEMMA ElapseFacts ==
  ASSUME NEW pace \in Nat \ {0}, NEW l, Waits(l)
  PROVE  /\ Waits(Http!Limit(pace)!Elapse(l))
         /\ Http!Limit(pace)!Elapse(l).next + 1 >= l.next /\ Http!Limit(pace)!Elapse(l).cooldown + 1 >= l.cooldown
  BY DEF Waits, Http!Limit!Elapse, Http!Limit!Less

LEMMA RecoveredFacts ==
  ASSUME NEW pace \in Nat \ {0}, NEW l
  PROVE  Http!Limit(pace)!Recovered(l).next = l.next /\ Http!Limit(pace)!Recovered(l).cooldown = l.cooldown
  BY DEF Http!Limit!Recovered

\* A token is taken when neither the pace nor a cooldown holds it back, and the next one is
\* then an interval away; a caller told to wait changes neither.
LEMMA TakeOrDelayFacts ==
  ASSUME NEW pace \in Nat \ {0}, NEW l, Waits(l)
  PROVE  /\ Waits(Http!Limit(pace)!TakeOrDelay(l)) /\ Http!Limit(pace)!TakeOrDelay(l).cooldown = l.cooldown
         /\ Http!Limit(pace)!TakeOrDelay(l).next >= l.next
         /\ Http!Limit(pace)!Delay(Http!Limit(pace)!Recovered(l)) = 0 =>
              l.next = 0 /\ l.cooldown = 0 /\ Http!Limit(pace)!TakeOrDelay(l).next >= pace
<1> DEFINE r == Http!Limit(pace)!Recovered(l)
<1>1. r.next = l.next /\ r.cooldown = l.cooldown /\ Waits(r)
    BY RecoveredFacts DEF Waits
<1>2. /\ Http!Limit(pace)!Delay(r) \in Nat
      /\ Http!Limit(pace)!Delay(r) = 0 => r.next = 0 /\ r.cooldown = 0
    BY <1>1 DEF Http!Limit!Delay, Http!Limit!Later, Waits
<1>3. Http!Limit(pace)!Interval(r.slowdown) \in Nat /\ Http!Limit(pace)!Interval(r.slowdown) >= pace
    <2> HIDE DEF r
    <2> QED BY DEF Http!Limit!Interval
<1>4. Http!Limit(pace)!TakeOrDelay(l) = Http!Limit(pace)!Paced(r)
    BY DEF Http!Limit!TakeOrDelay
<1> HIDE DEF r
<1>5. CASE Http!Limit(pace)!Delay(r) > 0
    BY <1>1, <1>2, <1>4, <1>5 DEF Http!Limit!Paced, Waits, r
<1>6. CASE Http!Limit(pace)!Delay(r) = 0
    <2>1. Http!Limit(pace)!Paced(r).next = Http!Limit(pace)!Interval(r.slowdown) /\ Http!Limit(pace)!Paced(r).cooldown = r.cooldown
        BY <1>6 DEF Http!Limit!Paced
    <2> QED BY <1>1, <1>2, <1>3, <1>4, <1>6, <2>1 DEF Waits, r
<1> QED BY <1>2, <1>5, <1>6

LEMMA OnRateLimitedFacts ==
  ASSUME NEW pace \in Nat \ {0}, NEW l, Waits(l), NEW ra \in Int, HttpCooldown \in Nat
  PROVE  /\ Waits(Http!Limit(pace)!OnRateLimited(l, ra)) /\ Http!Limit(pace)!OnRateLimited(l, ra).next = l.next
         /\ Http!Limit(pace)!OnRateLimited(l, ra).cooldown >= HttpCooldown
         /\ Http!Limit(pace)!OnRateLimited(l, ra).cooldown >= l.cooldown
  BY DEF Waits, Http!Limit!OnRateLimited, Http!Limit!Later

-----------------------------------------------------------------------------
(* The order of the stack *)

LEMMA AddedLast ==
  ASSUME NEW s \in Seq(Gate), NEW g \in Gate
  PROVE  /\ \E i \in DOMAIN Http!WithLimiter(s, g) : Http!WithLimiter(s, g)[i] = g
         /\ (\A i \in DOMAIN s : s[i] # g) =>
              Http!WithLimiter(s, g)[Len(Http!WithLimiter(s, g))] = g
<1>0. g # NoGate
    BY HttpAssumption DEF Http!AuthClientAssumption
<1>1. CASE \E i \in DOMAIN s : s[i] = g
    BY <1>1 DEF Http!WithLimiter
<1>2. CASE \A i \in DOMAIN s : s[i] # g
    <2>1. Http!WithLimiter(s, g) = Append(s, g)
        BY <1>0, <1>2 DEF Http!WithLimiter
    <2>2. Len(Append(s, g)) = Len(s) + 1 /\ Len(s) + 1 \in DOMAIN Append(s, g) /\ Append(s, g)[Len(s) + 1] = g
        OBVIOUS
    <2> QED BY <2>1, <2>2
<1> QED BY <1>1, <1>2

\* What a limiter adds to, it keeps.
LEMMA KeptBefore ==
  ASSUME NEW s \in Seq(Gate), NEW g \in Gate \cup {NoGate}, NEW i \in DOMAIN s
  PROVE  i \in DOMAIN Http!WithLimiter(s, g) /\ Http!WithLimiter(s, g)[i] = s[i]
<1>1. CASE Http!WithLimiter(s, g) = s
    BY <1>1
<1>2. CASE Http!WithLimiter(s, g) = Append(s, g)
    BY <1>2
<1> QED BY <1>1, <1>2 DEF Http!WithLimiter

LEMMA OneLimiter ==
  ASSUME NEW g \in Gate \cup {NoGate}, NEW s, s = IF g = NoGate THEN <<>> ELSE <<g>>
  PROVE  s \in Seq(Gate) /\ \A i \in DOMAIN s : s[i] = g /\ g # NoGate
<1>1. CASE g = NoGate
    <2>1. s = <<>> /\ DOMAIN s = {}
        BY <1>1
    <2> QED BY <2>1
<1>2. CASE g # NoGate
    <2>1. s = <<g>> /\ g \in Gate /\ DOMAIN s = {1}
        BY <1>2
    <2> QED BY <1>2, <2>1
<1> QED BY <1>1, <1>2

\* The stack of an attempt has the hard limits of its client, and the last of them last: the
\* budgets of first attempts and retries are limiters of their own (main.go makes them).
LEMMA LastOfStack ==
  ASSUME NEW c \in Calls, NEW n \in Nat, NEW g \in Gate, Http!Through(c, g)
  PROVE  /\ \E i \in DOMAIN Http!Stack(c, n) : Http!Stack(c, n)[i] = g
         /\ Http!LastEverywhere(g) => Http!Stack(c, n)[Len(Http!Stack(c, n))] = g
<1> DEFINE h == HostOf[c]
           e == EndpointOf[c]
           budget == IF n = 0 THEN FirstOf[c] ELSE RetryOf[c]
           own == Http!WithLimiter(<<>>, budget)
           two == Http!WithLimiter(own, h)
           hard == Http!WithLimiter(<<>>, h)
<1>1. /\ h \in Gate \cup {NoGate} /\ e \in Gate \cup {NoGate} /\ budget \in Gate \cup {NoGate}
      /\ NoGate \notin Gate
      /\ budget # NoGate => budget # h /\ budget # e
    <2>1. {FirstOf[c], RetryOf[c]} \cap {h, e} \subseteq {NoGate}
        BY HttpAssumption DEF Http!AuthClientAssumption
    <2> QED BY <2>1, HttpAssumption DEF Http!AuthClientAssumption
<1>2. Http!Stack(c, n) = Http!WithLimiter(two, e) /\ Http!Hard(c) = Http!WithLimiter(hard, e)
    BY DEF Http!Stack, Http!Hard
<1> HIDE DEF h, e, budget
<1>3. own = IF budget = NoGate THEN <<>> ELSE <<budget>>
    BY DEF Http!WithLimiter
<1>4. hard = IF h = NoGate THEN <<>> ELSE <<h>>
    BY DEF Http!WithLimiter
<1>5. own \in Seq(Gate) /\ \A i \in DOMAIN own : own[i] = budget /\ budget # NoGate
    BY <1>1, <1>3, OneLimiter
<1>6. two = IF h = NoGate THEN own ELSE Append(own, h)
    BY <1>1, <1>5 DEF Http!WithLimiter
<1>7. hard \in Seq(Gate) /\ \A i \in DOMAIN hard : hard[i] = h /\ h # NoGate
    BY <1>1, <1>4, OneLimiter
<1> HIDE DEF own, hard
<1>8. /\ two \in Seq(Gate)
      /\ \A i \in DOMAIN two : two[i] \in {budget, h} /\ two[i] # NoGate
      /\ h # NoGate => Len(two) \in DOMAIN two /\ two[Len(two)] = h
    BY <1>1, <1>5, <1>6
<1> HIDE DEF two
<1>9. PICK i \in DOMAIN Http!Hard(c) : Http!Hard(c)[i] = g
    BY DEF Http!Through
<1>10. CASE e = NoGate \/ e = h
    <2>1. Http!WithLimiter(two, e) = two
        BY <1>8, <1>10 DEF Http!WithLimiter
    <2>2. Http!WithLimiter(hard, e) = hard
        BY <1>4, <1>10 DEF Http!WithLimiter, hard
    <2>3. h = g /\ h # NoGate
        BY <1>2, <1>7, <1>9, <2>2
    <2> QED BY <1>2, <1>8, <2>1, <2>3
<1>11. CASE e # NoGate /\ e # h
    <2>1. e \in Gate /\ (\A k \in DOMAIN two : two[k] # e) /\ (\A k \in DOMAIN hard : hard[k] # e)
        BY <1>1, <1>7, <1>8, <1>11
    <2>2. /\ Http!WithLimiter(two, e) = Append(two, e)
          /\ Http!WithLimiter(hard, e) = Append(hard, e)
        BY <2>1, <1>11 DEF Http!WithLimiter
    <2>3. /\ Len(Append(two, e)) = Len(two) + 1 /\ Append(two, e)[Len(two) + 1] = e
          /\ DOMAIN Append(two, e) = 1 .. Len(two) + 1 /\ Len(two) \in Nat /\ DOMAIN two = 1 .. Len(two)
          /\ \A k \in DOMAIN two : Append(two, e)[k] = two[k]
        BY <1>8
    <2>4. /\ Len(Append(hard, e)) = Len(hard) + 1 /\ Append(hard, e)[Len(hard) + 1] = e
          /\ DOMAIN Append(hard, e) = 1 .. Len(hard) + 1 /\ Len(hard) \in Nat /\ DOMAIN hard = 1 .. Len(hard)
          /\ \A k \in DOMAIN hard : Append(hard, e)[k] = hard[k]
        BY <1>7
    <2>5. g = e \/ g = h
        <3>1. i \in DOMAIN hard \/ i = Len(hard) + 1
            BY <1>2, <1>9, <2>2, <2>4
        <3> QED BY <1>2, <1>7, <1>9, <2>2, <2>4, <3>1
    <2>6. \E k \in DOMAIN Append(two, e) : Append(two, e)[k] = g
        <3>1. CASE g = e
            BY <2>3, <3>1
        <3>2. CASE g = h
            <4>1. h # NoGate
                BY <1>1, <3>2
            <4>2. Len(two) \in DOMAIN two /\ Append(two, e)[Len(two)] = h
                BY <1>8, <2>3, <4>1
            <4>3. Len(two) \in DOMAIN Append(two, e)
                BY <2>3, <4>2
            <4> QED BY <3>2, <4>2, <4>3
        <3> QED BY <2>5, <3>1, <3>2
    <2>7. Http!LastEverywhere(g) => g = e
        <3>1. SUFFICES ASSUME Http!LastEverywhere(g) PROVE g = e
            OBVIOUS
        <3>2. i = Len(Http!Hard(c))
            BY <1>9, <3>1 DEF Http!LastEverywhere
        <3> QED BY <1>2, <1>9, <2>2, <2>4, <3>2
    <2> QED BY <1>2, <2>2, <2>3, <2>6, <2>7
<1> QED BY <1>10, <1>11

\* A request under way holds every hard limit of its client; before it, what is not held is
\* still to be acquired, the last limit last.
Path(c) ==
  /\ at[c] = "pace" => todo[c][1] \in held[c]
  /\ \A g \in Gate : Http!Through(c, g) =>
       /\ at[c] \in {"flight", "limited"} => g \in held[c]
       /\ at[c] \in {"queue", "pace"} =>
            /\ g \in held[c] \/ \E i \in DOMAIN todo[c] : todo[c][i] = g
            /\ Http!LastEverywhere(g) => todo[c][Len(todo[c])] = g

PathInv == \A c \in Calls : Path(c)

LEMMA BeginPath ==
  ASSUME SlotInv, PathInv, NEW c \in Calls, Http!Begin(c)
  PROVE  /\ Path(c)' /\ Others(c)
         /\ \A g \in Gate : Http!Through(c, g) => limitedSince'[g] = limitedSince[g] /\ at'[c] # "flight"
<1> DEFINE stack == Http!Stack(c, attempt[c])
<1>1. /\ at[c] \in {"idle", "backoff"} /\ UNCHANGED <<held, limitedSince, attempt>>
      /\ todo' = [todo EXCEPT ![c] = stack]
      /\ at' = [at EXCEPT ![c] = IF stack = <<>> THEN "flight" ELSE "queue"]
    BY DEF Http!Begin, Http!GoOn
<1>2. /\ todo'[c] = stack /\ at'[c] = (IF stack = <<>> THEN "flight" ELSE "queue")
      /\ Others(c)
    BY <1>1 DEF SlotInv, Others
<1>3. attempt[c] \in Nat
    BY DEF SlotInv, CallInv
<1>4. \A g \in Gate : Http!Through(c, g) =>
        /\ \E i \in DOMAIN stack : stack[i] = g
        /\ Http!LastEverywhere(g) => stack[Len(stack)] = g
    BY <1>3, LastOfStack
<1> HIDE DEF stack
<1>5. \A g \in Gate : Http!Through(c, g) => stack # <<>>
    BY <1>4
<1>6. \A g : Http!Through(c, g)' <=> Http!Through(c, g)
    BY DEF Http!Through
<1>7. \A g : Http!LastEverywhere(g)' <=> Http!LastEverywhere(g)
    BY DEF Http!LastEverywhere
<1> QED BY <1>1, <1>2, <1>4, <1>5, <1>6, <1>7 DEF Path

LEMMA EnterPath ==
  ASSUME SlotInv, PathInv, NEW c \in Calls, Http!Enter(c)
  PROVE  Path(c)' /\ Others(c) /\ at[c] = "queue" /\ at'[c] = "pace"
<1>1. /\ at[c] = "queue" /\ UNCHANGED <<todo, attempt>>
      /\ held' = [held EXCEPT ![c] = @ \cup {Head(todo[c])}]
      /\ at' = [at EXCEPT ![c] = "pace"]
    BY DEF Http!Enter
<1>2. todo[c] \in Seq(Gate) /\ todo[c] # <<>> /\ Head(todo[c]) = todo[c][1]
    BY <1>1 DEF SlotInv, CallInv
<1>3. /\ held'[c] = held[c] \cup {todo[c][1]} /\ at'[c] = "pace" /\ todo'[c] = todo[c]
      /\ Others(c)
    BY <1>1, <1>2 DEF SlotInv, Others
<1>4. Path(c)
    BY DEF PathInv
<1> QED BY <1>1, <1>3, <1>4 DEF Path, Http!Through, Http!LastEverywhere

\* The token that lets a request leave is that of the last limiter.
LEMMA TakePath ==
  ASSUME SlotInv, PathInv, NEW c \in Calls, Http!Take(c)
  PROVE  /\ Path(c)' /\ Others(c)
         /\ at[c] = "pace" /\ at'[c] \in {"queue", "pace", "flight"}
         /\ \A g \in Gate : at'[c] = "flight" /\ Http!Through(c, g) => g \in held[c]
         /\ \A g \in Gate : at'[c] = "flight" /\ Http!Through(c, g) /\ Http!LastEverywhere(g) =>
              todo[c][1] = g
<1>1. at[c] = "pace" /\ UNCHANGED <<attempt, held>>
    BY DEF Http!Take
<1>2. Http!GoOn(c, Tail(todo[c])) \/ UNCHANGED <<at, todo>>
    BY DEF Http!Take
<1>3. /\ todo[c] \in Seq(Gate) /\ todo[c] # <<>> /\ NoDuplicates(todo[c]) /\ Path(c)
      /\ todo[c][1] \in held[c]
    BY <1>1 DEF SlotInv, CallInv, PathInv, Path
<1>4. CASE UNCHANGED <<at, todo>>
    BY <1>1, <1>3, <1>4 DEF Path, Others, Http!Through, Http!LastEverywhere
<1>5. CASE Http!GoOn(c, Tail(todo[c]))
    <2> DEFINE s == todo[c]
               t == Tail(s)
    <2>1. /\ todo'[c] = t /\ at'[c] = (IF t = <<>> THEN "flight" ELSE "queue")
          /\ Others(c)
        BY <1>1, <1>5 DEF Http!GoOn, SlotInv, Others
    <2>2. /\ s \in Seq(Gate) /\ Len(s) \in Nat \ {0} /\ DOMAIN s = 1 .. Len(s)
          /\ t \in Seq(Gate) /\ Len(t) = Len(s) - 1 /\ DOMAIN t = 1 .. Len(s) - 1
          /\ \A i \in DOMAIN t : t[i] = s[i + 1]
        BY <1>3
    <2> HIDE DEF s, t
    <2>3. t = <<>> <=> Len(s) = 1
        BY <2>2
    <2>4. ASSUME NEW g \in Gate, Http!Through(c, g)
          PROVE  /\ g \in held[c] \/ \E i \in DOMAIN t : t[i] = g
                 /\ t # <<>> /\ Http!LastEverywhere(g) => t[Len(t)] = g
                 /\ t = <<>> => g \in held[c]
                 /\ t = <<>> /\ Http!LastEverywhere(g) => s[1] = g
        <3>1. /\ g \in held[c] \/ \E i \in DOMAIN s : s[i] = g
              /\ Http!LastEverywhere(g) => s[Len(s)] = g
              /\ s[1] \in held[c]
            BY <1>1, <1>3, <2>4 DEF Path, s
        <3>2. ASSUME g \notin held[c] PROVE t # <<>> /\ \E i \in DOMAIN t : t[i] = g
            <4>1. PICK i \in DOMAIN s : s[i] = g
                BY <3>1, <3>2
            <4>2. i # 1
                BY <3>1, <3>2, <4>1
            <4>3. i - 1 \in DOMAIN t /\ (i - 1) + 1 = i
                BY <2>2, <4>2
            <4>4. t[i - 1] = g
                BY <2>2, <4>1, <4>3
            <4> QED BY <2>2, <2>3, <4>3, <4>4
        <3>3. ASSUME t # <<>>, Http!LastEverywhere(g) PROVE t[Len(t)] = g
            <4>1. Len(t) \in DOMAIN t /\ Len(t) + 1 = Len(s)
                BY <2>2, <2>3, <3>3
            <4> QED BY <2>2, <3>1, <3>3, <4>1
        <3> QED BY <2>3, <3>1, <3>2, <3>3
    <2>5. Path(c)'
        BY <1>1, <2>1, <2>4 DEF Path, Http!Through, Http!LastEverywhere
    <2> QED BY <1>1, <2>1, <2>4, <2>5 DEF s
<1> QED BY <1>2, <1>4, <1>5

\* What ends an attempt ends its path.
LEMMA LeavePath ==
  ASSUME SlotInv, NEW c \in Calls, Http!Return(c) \/ Http!RetryOrReturn(c)
  PROVE  Path(c)' /\ Others(c) /\ at'[c] \in {"done", "backoff"} /\ UNCHANGED <<limiters, Http!history>>
<1>1. PICK next \in {"done", "backoff"} : Http!Leave(c, next)
    BY DEF Http!Return, Http!RetryOrReturn
<1>2. \A d \in Calls \ {c} : attempt'[d] = attempt[d]
    <2>1. CASE Http!Return(c)
        BY <2>1 DEF Http!Return
    <2>2. CASE Http!RetryOrReturn(c) /\ ~Http!Return(c)
        <3>1. attempt' = [attempt EXCEPT ![c] = @ + 1]
            BY <2>2 DEF Http!RetryOrReturn
        <3> QED BY <3>1 DEF SlotInv
    <2> QED BY <2>1, <2>2
<1>3. UNCHANGED <<limiters, Http!history>>
    BY DEF Http!Return, Http!RetryOrReturn
<1> QED BY <1>1, <1>2, <1>3 DEF Http!Leave, SlotInv, Path, Others

LEMMA LimitedPath ==
  ASSUME SlotInv, PathInv, NEW c \in Calls, NEW status, NEW code, Http!Limited(c, status, code)
  PROVE  Path(c)' /\ Others(c) /\ at'[c] = "limited" /\ todo'[c] = Http!Hard(c)
<1>1. /\ at[c] = "flight" /\ at' = [at EXCEPT ![c] = "limited"]
      /\ todo' = [todo EXCEPT ![c] = Http!Hard(c)] /\ UNCHANGED <<held, attempt>>
    BY DEF Http!Limited
<1>2. at'[c] = "limited" /\ todo'[c] = Http!Hard(c) /\ Others(c)
    BY <1>1 DEF SlotInv, Others
<1>3. Path(c)
    BY DEF PathInv
<1> QED BY <1>1, <1>2, <1>3 DEF Path, Http!Through, Http!LastEverywhere

LEMMA SlowDownPath ==
  ASSUME SlotInv, PathInv, NEW c \in Calls, NEW ra, Http!SlowDown(c, ra)
  PROVE  Path(c)' /\ Others(c) /\ at[c] = "limited" /\ at'[c] = "limited" /\ todo'[c] = Tail(todo[c])
<1>1. /\ at[c] = "limited" /\ UNCHANGED <<at, held, attempt>>
      /\ todo' = [todo EXCEPT ![c] = Tail(@)]
    BY DEF Http!SlowDown
<1>2. Others(c) /\ todo'[c] = Tail(todo[c])
    BY <1>1 DEF SlotInv, Others
<1>3. Path(c)
    BY DEF PathInv
<1> QED BY <1>1, <1>2, <1>3 DEF Path, Http!Through, Http!LastEverywhere

LEMMA OnePath ==
  ASSUME PathInv, NEW c \in Calls, Others(c), Path(c)'
  PROVE  PathInv'
<1> SUFFICES ASSUME NEW d \in Calls, d # c PROVE Path(d)'
    BY DEF PathInv
<1>1. Path(d) /\ held'[d] = held[d] /\ at'[d] = at[d] /\ todo'[d] = todo[d]
    BY DEF PathInv, Others
<1> QED BY <1>1 DEF Path, Http!Through, Http!LastEverywhere

LEMMA StepPath == SlotInv /\ PathInv /\ [Http!Next]_(Http!vars) => PathInv'
<1> SUFFICES ASSUME SlotInv, PathInv, [Http!Next]_(Http!vars) PROVE PathInv'
    OBVIOUS
<1>1. CASE Http!Tick \/ UNCHANGED Http!vars
    <2>1. UNCHANGED <<at, todo, held>>
        BY <1>1 DEF Http!Tick, Http!vars
    <2> QED BY <2>1 DEF PathInv, Path, Http!Through, Http!LastEverywhere
<1>2. ASSUME NEW c \in Calls, Http!Step(c) \/ Http!Cancel(c) PROVE PathInv'
    <2>1. CASE Http!Begin(c)
        BY <2>1, BeginPath, OnePath
    <2>2. CASE Http!Enter(c)
        BY <2>2, EnterPath, OnePath
    <2>3. CASE Http!Take(c)
        BY <2>3, TakePath, OnePath
    <2>4. CASE Http!Return(c) \/ Http!RetryOrReturn(c)
        BY <2>4, LeavePath, OnePath
    <2>5. ASSUME NEW status \in Http!Statuses, NEW code \in Http!Codes, Http!Limited(c, status, code) PROVE PathInv'
        BY <2>5, LimitedPath, OnePath
    <2>6. ASSUME NEW ra \in HttpRetryAfters, Http!SlowDown(c, ra) PROVE PathInv'
        BY <2>6, SlowDownPath, OnePath
    <2>7. ASSUME NEW status \in Http!Statuses, NEW code \in Http!Codes, Http!Answer(c, status, code) PROVE PathInv'
        BY <2>4, <2>7 DEF Http!Answer
    <2>8. CASE Http!Fail(c) \/ Http!EndLimited(c) \/ Http!Cancel(c)
        BY <2>4, <2>8 DEF Http!Fail, Http!EndLimited, Http!Cancel
    <2> QED BY <1>2, <2>1, <2>2, <2>3, <2>5, <2>6, <2>7, <2>8 DEF Http!Step
<1> QED BY <1>1, <1>2 DEF Http!Next
-----------------------------------------------------------------------------
(* The waits that the limiters impose *)

\* A rate-limited answer of g's that has not slowed g down yet.
Unserved(g) ==
  \E c \in Calls : at[c] = "limited" /\ Http!Through(c, g) /\ \E i \in DOMAIN todo[c] : todo[c][i] = g

Wait(g) ==
  /\ Waits(limiters[g]) /\ sinceSend[g] \in Nat /\ limitedSince[g] \in Nat
  /\ Http!LastEverywhere(g) => limiters[g].next + sinceSend[g] >= PaceOf[g]
  /\ limiters[g].cooldown + limitedSince[g] >= HttpCooldown \/ Unserved(g)

WaitInv ==
  /\ DOMAIN limiters = Gate
  /\ \A g \in Gate : Wait(g)

CallsInv == SlotInv /\ PathInv /\ WaitInv

LEMMA InitCalls == Http!Init => CallsInv
<1> SUFFICES ASSUME Http!Init PROVE CallsInv
    OBVIOUS
<1>1. SlotInv
    BY HttpAssumption, InitSlots
<1>2. PathInv
    BY DEF PathInv, Path, Http!Init
<1>3. ASSUME NEW g \in Gate PROVE Wait(g)
    <2>1. limiters[g] = [slowdown |-> 0, next |-> 0, cooldown |-> 0, armed |-> FALSE, recovery |-> 0]
        BY DEF Http!Init, Http!Limit!New
    <2>2. sinceSend[g] = PaceOf[g] /\ limitedSince[g] = HttpCooldown
        BY DEF Http!Init
    <2>3. PaceOf[g] \in Nat /\ HttpCooldown \in Nat
        BY HttpAssumption DEF Http!AuthClientAssumption
    <2> QED BY <2>1, <2>2, <2>3 DEF Wait, Waits
<1>4. WaitInv
    BY <1>3 DEF WaitInv, Http!Init
<1> QED BY <1>1, <1>2, <1>4 DEF CallsInv

\* Answers that others have to serve stay so.
LEMMA OthersUnserved ==
  ASSUME NEW c \in Calls, Others(c), at[c] = "limited" => todo[c] = <<>>, NEW g \in Gate, Unserved(g)
  PROVE  Unserved(g)'
<1>1. PICK d \in Calls : at[d] = "limited" /\ Http!Through(d, g) /\ \E i \in DOMAIN todo[d] : todo[d][i] = g
    BY DEF Unserved
<1>2. d # c /\ at'[d] = at[d] /\ todo'[d] = todo[d]
    BY <1>1 DEF Others
<1> QED BY <1>1, <1>2 DEF Unserved, Http!Through

LEMMA TickWaits == ASSUME CallsInv, Http!Tick PROVE WaitInv'
<1>1. DOMAIN limiters' = Gate
    BY DEF Http!Tick
<1>2. ASSUME NEW g \in Gate PROVE Wait(g)'
    <2> DEFINE l == limiters[g]
               m == Http!Limit(PaceOf[g])!Elapse(l)
    <2>1. limiters'[g] = m /\ UNCHANGED <<at, todo>>
        BY DEF Http!Tick
    <2>2. PaceOf[g] \in Nat \ {0} /\ HttpCooldown \in Nat
        BY HttpAssumption DEF Http!AuthClientAssumption
    <2>3. Wait(g)
        BY DEF CallsInv, WaitInv
    <2>4. Waits(m) /\ m.next + 1 >= l.next /\ m.cooldown + 1 >= l.cooldown
        BY <2>2, <2>3, ElapseFacts DEF Wait
    <2> HIDE DEF l, m
    <2>5. /\ sinceSend'[g] = IF sinceSend[g] < PaceOf[g] THEN sinceSend[g] + 1 ELSE sinceSend[g]
          /\ limitedSince'[g] = IF limitedSince[g] < HttpCooldown THEN limitedSince[g] + 1 ELSE limitedSince[g]
        BY DEF Http!Tick, Http!More
    <2>6. /\ Waits(l) /\ sinceSend[g] \in Nat /\ limitedSince[g] \in Nat
          /\ Http!LastEverywhere(g) => l.next + sinceSend[g] >= PaceOf[g]
          /\ l.cooldown + limitedSince[g] >= HttpCooldown \/ Unserved(g)
        BY <2>3 DEF Wait, l
    <2>7. sinceSend'[g] \in Nat /\ limitedSince'[g] \in Nat
        BY <2>5, <2>6
    <2>8. Http!LastEverywhere(g) => m.next + sinceSend'[g] >= PaceOf[g]
        BY <2>2, <2>4, <2>5, <2>6 DEF Waits
    <2>9. l.cooldown + limitedSince[g] >= HttpCooldown => m.cooldown + limitedSince'[g] >= HttpCooldown
        BY <2>2, <2>4, <2>5, <2>6 DEF Waits
    <2>10. Unserved(g) => Unserved(g)'
        BY <2>1 DEF Unserved, Http!Through
    <2>11. Http!LastEverywhere(g)' <=> Http!LastEverywhere(g)
        BY DEF Http!LastEverywhere
    <2> QED BY <2>1, <2>4, <2>6, <2>7, <2>8, <2>9, <2>10, <2>11 DEF Wait
<1> QED BY <1>1, <1>2 DEF WaitInv

\* Steps that leave the limiters and their history alone, of a call that has served its
\* answers.
LEMMA SameWaits ==
  ASSUME CallsInv, NEW c \in Calls, Others(c), UNCHANGED <<limiters, limitedSince>>,
         at[c] = "limited" => todo[c] = <<>>,
         \A g \in Gate : sinceSend'[g] = sinceSend[g]
  PROVE  WaitInv'
<1> SUFFICES ASSUME NEW g \in Gate PROVE Wait(g)'
    BY DEF CallsInv, WaitInv
<1>1. Wait(g)
    BY DEF CallsInv, WaitInv
<1>2. Unserved(g) => Unserved(g)'
    BY OthersUnserved
<1> QED BY <1>1, <1>2 DEF Wait, Http!LastEverywhere

LEMMA BeginWaits == ASSUME CallsInv, NEW c \in Calls, Http!Begin(c) PROVE WaitInv'
<1>1. /\ Path(c)' /\ Others(c)
      /\ \A g \in Gate : Http!Through(c, g) => limitedSince'[g] = limitedSince[g] /\ at'[c] # "flight"
    BY BeginPath DEF CallsInv
<1> DEFINE stack == Http!Stack(c, attempt[c])
<1>2. /\ UNCHANGED <<limiters, limitedSince>> /\ at[c] # "limited"
      /\ at' = [at EXCEPT ![c] = IF stack = <<>> THEN "flight" ELSE "queue"]
      /\ sinceSend' = [g \in Gate |-> IF stack = <<>> /\ Http!Through(c, g) THEN 0 ELSE sinceSend[g]]
    BY DEF Http!Begin, Http!GoOn
<1> HIDE DEF stack
<1>3. stack = <<>> => at'[c] = "flight"
    BY <1>2 DEF CallsInv, SlotInv
<1>4. \A g \in Gate : sinceSend'[g] = sinceSend[g]
    BY <1>1, <1>2, <1>3
<1> QED BY <1>1, <1>2, <1>4, SameWaits

LEMMA LeaveWaits ==
  ASSUME CallsInv, NEW c \in Calls, Http!Return(c) \/ Http!RetryOrReturn(c), at[c] = "limited" => todo[c] = <<>>
  PROVE  WaitInv'
<1>1. Others(c) /\ UNCHANGED <<limiters, sinceSend, limitedSince>>
    BY LeavePath DEF CallsInv, Http!history
<1> QED BY <1>1, SameWaits

LEMMA TakeWaits == ASSUME CallsInv, NEW c \in Calls, Http!Take(c) PROVE WaitInv'
<1> DEFINE h == Head(todo[c])
           l == limiters[h]
           m == Http!Limit(PaceOf[h])!TakeOrDelay(l)
           delay == Http!Limit(PaceOf[h])!Delay(Http!Limit(PaceOf[h])!Recovered(l))
<1>1. /\ limiters' = [limiters EXCEPT ![h] = m] /\ limitedSince' = limitedSince
      /\ \/ delay = 0 /\ Http!GoOn(c, Tail(todo[c]))
         \/ UNCHANGED <<at, todo, sinceSend>>
    BY DEF Http!Take
<1>2. /\ Others(c) /\ at[c] = "pace"
      /\ \A g \in Gate : at'[c] = "flight" /\ Http!Through(c, g) /\ Http!LastEverywhere(g) => todo[c][1] = g
    BY TakePath DEF CallsInv
<1>3. h \in Gate /\ h = todo[c][1]
    BY <1>2 DEF CallsInv, SlotInv, CallInv
<1>4. PaceOf[h] \in Nat \ {0} /\ Wait(h)
    BY <1>3, HttpAssumption DEF Http!AuthClientAssumption, CallsInv, WaitInv
<1>5. /\ Waits(m) /\ m.cooldown = l.cooldown /\ m.next >= l.next
      /\ delay = 0 => m.next >= PaceOf[h]
    BY <1>4, TakeOrDelayFacts DEF Wait
<1>6. DOMAIN limiters' = Gate
    BY <1>1 DEF CallsInv, WaitInv
<1> HIDE DEF h, l, m, delay
<1>7. /\ at'[c] # "flight" => \A g \in Gate : sinceSend'[g] = sinceSend[g]
      /\ \A g \in Gate : sinceSend'[g] = sinceSend[g] \/ (sinceSend'[g] = 0 /\ delay = 0 /\ Http!Through(c, g))
    <2>1. CASE delay = 0 /\ Http!GoOn(c, Tail(todo[c]))
        <3> DEFINE t == Tail(todo[c])
        <3>1. /\ at' = [at EXCEPT ![c] = IF t = <<>> THEN "flight" ELSE "queue"]
              /\ sinceSend' = [g \in Gate |-> IF t = <<>> /\ Http!Through(c, g) THEN 0 ELSE sinceSend[g]]
            BY <2>1 DEF Http!GoOn
        <3> HIDE DEF t
        <3>2. t = <<>> => at'[c] = "flight"
            BY <3>1 DEF CallsInv, SlotInv
        <3> QED BY <2>1, <3>1, <3>2
    <2> QED BY <1>1, <2>1
<1>8. ASSUME NEW g \in Gate PROVE Wait(g)'
    <2>1. Wait(g) /\ (Unserved(g) => Unserved(g)')
        BY <1>2, OthersUnserved DEF CallsInv, WaitInv
    <2>2. limiters'[g] = IF g = h THEN m ELSE limiters[g]
        BY <1>1 DEF CallsInv, WaitInv
    <2>3. sinceSend'[g] \in Nat
        BY <1>7, <2>1 DEF Wait
    <2>4. Waits(limiters'[g]) /\ limiters'[g].next >= limiters[g].next /\ limiters'[g].cooldown = limiters[g].cooldown
        <3>1. CASE g = h
            BY <1>5, <2>2, <3>1 DEF l
        <3>2. CASE g # h
            BY <2>1, <2>2, <3>2 DEF Wait, Waits
        <3> QED BY <3>1, <3>2
    <2>5. ASSUME Http!LastEverywhere(g) PROVE limiters'[g].next + sinceSend'[g] >= PaceOf[g]
        <3>1. CASE sinceSend'[g] = sinceSend[g]
            <4>1. PaceOf[g] \in Nat
                BY HttpAssumption DEF Http!AuthClientAssumption
            <4> QED BY <2>1, <2>4, <2>5, <3>1, <4>1 DEF Wait, Waits
        <3>2. CASE sinceSend'[g] # sinceSend[g]
            <4>1. sinceSend'[g] = 0 /\ delay = 0 /\ Http!Through(c, g) /\ at'[c] = "flight"
                BY <1>7, <3>2
            <4>2. g = h
                BY <1>2, <1>3, <2>5, <4>1
            <4>3. limiters'[g].next >= PaceOf[g] /\ limiters'[g].next \in Nat /\ PaceOf[g] \in Nat
                BY <1>4, <1>5, <2>2, <2>4, <4>1, <4>2 DEF Waits
            <4> QED BY <4>1, <4>3
        <3> QED BY <3>1, <3>2
    <2>6. limitedSince'[g] = limitedSince[g]
        BY <1>1
    <2> QED BY <2>1, <2>3, <2>4, <2>5, <2>6 DEF Wait, Http!LastEverywhere
<1> QED BY <1>6, <1>8 DEF WaitInv

LEMMA LimitedWaits ==
  ASSUME CallsInv, NEW c \in Calls, NEW status, NEW code, Http!Limited(c, status, code)
  PROVE  WaitInv'
<1>1. /\ at[c] = "flight" /\ UNCHANGED <<limiters, sinceSend>>
      /\ limitedSince' = [g \in Gate |-> IF Http!Through(c, g) THEN 0 ELSE limitedSince[g]]
    BY DEF Http!Limited
<1>2. Others(c) /\ at'[c] = "limited" /\ todo'[c] = Http!Hard(c)
    BY LimitedPath DEF CallsInv
<1> SUFFICES ASSUME NEW g \in Gate PROVE Wait(g)'
    BY <1>1 DEF CallsInv, WaitInv
<1>3. Wait(g) /\ (Unserved(g) => Unserved(g)')
    BY <1>1, <1>2, OthersUnserved DEF CallsInv, WaitInv
<1>4. Http!Through(c, g) => Unserved(g)'
    BY <1>2 DEF Unserved, Http!Through
<1>5. limitedSince'[g] = IF Http!Through(c, g) THEN 0 ELSE limitedSince[g]
    BY <1>1
<1> QED BY <1>1, <1>3, <1>4, <1>5 DEF Wait, Http!LastEverywhere

LEMMA SlowDownWaits ==
  ASSUME CallsInv, NEW c \in Calls, NEW ra \in HttpRetryAfters, Http!SlowDown(c, ra)
  PROVE  WaitInv'
<1> DEFINE h == Head(todo[c])
           l == limiters[h]
           m == Http!Limit(PaceOf[h])!OnRateLimited(l, ra)
<1>1. limiters' = [limiters EXCEPT ![h] = m] /\ UNCHANGED <<sinceSend, limitedSince>> /\ todo[c] # <<>>
    BY DEF Http!SlowDown, Http!history
<1>2. Others(c) /\ at[c] = "limited" /\ at'[c] = "limited" /\ todo'[c] = Tail(todo[c])
    BY SlowDownPath DEF CallsInv
<1>3. todo[c] \in Seq(Gate) /\ h \in Gate /\ h = todo[c][1]
    BY <1>1, <1>2 DEF CallsInv, SlotInv, CallInv
<1>4. PaceOf[h] \in Nat \ {0} /\ Wait(h) /\ ra \in Int /\ HttpCooldown \in Nat
    BY <1>3, HttpAssumption DEF Http!AuthClientAssumption, CallsInv, WaitInv
<1>5. Waits(m) /\ m.next = l.next /\ m.cooldown >= HttpCooldown /\ m.cooldown >= l.cooldown
    BY <1>4, OnRateLimitedFacts DEF Wait
<1>6. DOMAIN limiters' = Gate
    BY <1>1 DEF CallsInv, WaitInv
<1> HIDE DEF h, l, m
<1>7. ASSUME NEW g \in Gate, g # h, Unserved(g) PROVE Unserved(g)'
    <2>1. PICK d \in Calls : at[d] = "limited" /\ Http!Through(d, g) /\ \E i \in DOMAIN todo[d] : todo[d][i] = g
        BY <1>7 DEF Unserved
    <2>2. CASE d # c
        BY <1>2, <2>1, <2>2 DEF Unserved, Others, Http!Through
    <2>3. CASE d = c
        <3> DEFINE s == todo[c]
        <3>1. /\ s \in Seq(Gate) /\ Len(s) \in Nat \ {0} /\ DOMAIN s = 1 .. Len(s)
              /\ DOMAIN Tail(s) = 1 .. Len(s) - 1 /\ \A i \in DOMAIN Tail(s) : Tail(s)[i] = s[i + 1]
            BY <1>1, <1>3
        <3>2. PICK i \in DOMAIN s : s[i] = g
            BY <2>1, <2>3
        <3>3. i # 1 /\ i - 1 \in DOMAIN Tail(s) /\ (i - 1) + 1 = i
            BY <1>3, <1>7, <3>1, <3>2
        <3>4. Tail(s)[i - 1] = g
            BY <3>1, <3>2, <3>3
        <3> QED BY <1>2, <2>1, <2>3, <3>3, <3>4 DEF Unserved, Http!Through
    <2> QED BY <2>2, <2>3
<1>8. ASSUME NEW g \in Gate PROVE Wait(g)'
    <2>1. Wait(g)
        BY DEF CallsInv, WaitInv
    <2>2. limiters'[g] = IF g = h THEN m ELSE limiters[g]
        BY <1>1 DEF CallsInv, WaitInv
    <2>3. CASE g = h
        <3>1. limiters'[g] = m /\ l = limiters[g]
            BY <2>2, <2>3 DEF l
        <3>2. m.cooldown + limitedSince[g] >= HttpCooldown
            BY <1>4, <1>5, <2>1 DEF Wait, Waits
        <3> QED BY <1>1, <1>5, <2>1, <3>1, <3>2 DEF Wait, Http!LastEverywhere
    <2>4. CASE g # h
        BY <1>1, <1>7, <2>1, <2>2, <2>4 DEF Wait, Http!LastEverywhere
    <2> QED BY <2>3, <2>4
<1> QED BY <1>6, <1>8 DEF WaitInv

LEMMA StepCalls == CallsInv /\ [Http!Next]_(Http!vars) => CallsInv'
<1> SUFFICES ASSUME CallsInv, [Http!Next]_(Http!vars) PROVE CallsInv'
    OBVIOUS
<1>1. SlotInv' /\ PathInv'
    BY HttpAssumption, StepSlots, StepPath DEF CallsInv
<1>2. CASE UNCHANGED Http!vars
    <2>1. UNCHANGED <<limiters, sinceSend, limitedSince, at, todo>>
        BY <1>2 DEF Http!vars
    <2>2. ASSUME NEW g \in Gate PROVE Wait(g)'
        <3>1. Wait(g)
            BY DEF CallsInv, WaitInv
        <3>2. Unserved(g) => Unserved(g)'
            BY <2>1 DEF Unserved, Http!Through
        <3> QED BY <2>1, <3>1, <3>2 DEF Wait, Http!LastEverywhere
    <2> QED BY <1>1, <2>1, <2>2 DEF CallsInv, WaitInv
<1>3. CASE Http!Tick
    BY <1>1, <1>3, TickWaits DEF CallsInv
<1>4. ASSUME NEW c \in Calls, Http!Step(c) \/ Http!Cancel(c) PROVE WaitInv'
    <2>1. CASE Http!Begin(c)
        BY <2>1, BeginWaits
    <2>2. CASE Http!Enter(c)
        <3>1. Others(c) /\ at[c] = "queue"
            BY <2>2, EnterPath DEF CallsInv
        <3>2. UNCHANGED <<limiters, sinceSend, limitedSince>>
            BY <2>2 DEF Http!Enter, Http!history
        <3> QED BY <3>1, <3>2, SameWaits
    <2>3. CASE Http!Take(c)
        BY <2>3, TakeWaits
    <2>4. CASE (Http!Return(c) \/ Http!RetryOrReturn(c)) /\ (at[c] = "limited" => todo[c] = <<>>)
        BY <2>4, LeaveWaits
    <2>5. ASSUME NEW status \in Http!Statuses, NEW code \in Http!Codes, Http!Limited(c, status, code) PROVE WaitInv'
        BY <2>5, LimitedWaits
    <2>6. ASSUME NEW ra \in HttpRetryAfters, Http!SlowDown(c, ra) PROVE WaitInv'
        BY <2>6, SlowDownWaits
    <2>7. ASSUME NEW status \in Http!Statuses, NEW code \in Http!Codes, Http!Answer(c, status, code) PROVE WaitInv'
        BY <2>4, <2>7 DEF Http!Answer
    <2>8. CASE Http!Fail(c) \/ Http!EndLimited(c) \/ Http!Cancel(c)
        BY <2>4, <2>8 DEF Http!Fail, Http!EndLimited, Http!Cancel
    <2> QED BY <1>4, <2>1, <2>2, <2>3, <2>5, <2>6, <2>7, <2>8 DEF Http!Step
<1> QED BY <1>1, <1>2, <1>3, <1>4 DEF CallsInv, Http!Next

LEMMA AlwaysCalls == Http!Spec => []CallsInv
<1>1. Http!Init => CallsInv
    BY InitCalls
<1>2. CallsInv /\ [Http!Next]_(Http!vars) => CallsInv'
    BY StepCalls
<1> QED BY <1>1, <1>2, PTL DEF Http!Spec

\* A request that leaves through its last limiter takes a token of it, while it holds a slot.
LEMMA SendFacts ==
  ASSUME CallsInv, [Http!Next]_(Http!vars), NEW c \in Calls, NEW g \in Gate,
         Http!Sends(c), Http!Through(c, g), Http!LastEverywhere(g)
  PROVE  /\ g \in held[c] /\ at[c] = "pace"
         /\ limiters[g].next = 0 /\ limiters[g].cooldown = 0
<1>1. at[c] # "flight" /\ at'[c] = "flight"
    BY DEF Http!Sends
<1>2. PICK d \in Calls : Http!Step(d) \/ Http!Cancel(d)
    BY <1>1 DEF Http!Next, Http!Tick, Http!vars
<1>3. ASSUME Others(d), at'[d] # "flight" PROVE FALSE
    BY <1>1, <1>3 DEF Others
<1>4. CASE Http!Begin(d)
    <2>1. Others(d) /\ (Http!Through(d, g) => at'[d] # "flight")
        BY <1>4, BeginPath DEF CallsInv
    <2> QED BY <1>1, <2>1 DEF Others
<1>5. CASE Http!Take(d)
    <2>1. /\ Others(d) /\ at[d] = "pace"
          /\ at'[d] = "flight" /\ Http!Through(d, g) => g \in held[d]
          /\ at'[d] = "flight" /\ Http!Through(d, g) /\ Http!LastEverywhere(g) => todo[d][1] = g
        BY <1>5, TakePath DEF CallsInv
    <2>2. d = c
        BY <1>1, <2>1 DEF Others
    <2>3. Head(todo[c]) = g
        BY <1>1, <2>1, <2>2 DEF CallsInv, SlotInv, CallInv
    <2>4. Http!Limit(PaceOf[g])!Delay(Http!Limit(PaceOf[g])!Recovered(limiters[g])) = 0
        BY <1>1, <1>5, <2>2, <2>3 DEF Http!Take
    <2>5. Waits(limiters[g]) /\ PaceOf[g] \in Nat \ {0}
        BY HttpAssumption DEF Http!AuthClientAssumption, CallsInv, WaitInv, Wait
    <2> QED BY <1>1, <2>1, <2>2, <2>4, <2>5, TakeOrDelayFacts
<1>6. CASE Http!Enter(d)
    BY <1>3, <1>6, EnterPath DEF CallsInv
<1>7. CASE Http!Return(d) \/ Http!RetryOrReturn(d)
    BY <1>3, <1>7, LeavePath DEF CallsInv
<1>8. ASSUME NEW status, NEW code, Http!Limited(d, status, code) PROVE FALSE
    BY <1>3, <1>8, LimitedPath DEF CallsInv
<1>9. ASSUME NEW ra, Http!SlowDown(d, ra) PROVE FALSE
    BY <1>3, <1>9, SlowDownPath DEF CallsInv
<1>10. ASSUME NEW status, NEW code, Http!Answer(d, status, code)
       PROVE  Http!Return(d) \/ Http!RetryOrReturn(d)
    BY <1>10 DEF Http!Answer
<1>11. CASE Http!Fail(d) \/ Http!EndLimited(d) \/ Http!Cancel(d)
    BY <1>7, <1>11 DEF Http!Fail, Http!EndLimited, Http!Cancel
<1> QED BY <1>2, <1>4, <1>5, <1>6, <1>7, <1>8, <1>9, <1>10, <1>11 DEF Http!Step

\* A limiter acquired last paces the requests that go through it, retries included: between
\* two tokens lies an interval, and its token is the last thing a request waits for.
THEOREM LastLimitPaces == Http!Spec => LastLimitPacesRequests
<1> DEFINE A ==
      \A c \in Calls, g \in Gate :
        Http!Sends(c) /\ Http!Through(c, g) /\ Http!LastEverywhere(g) => sinceSend[g] >= PaceOf[g]
<1>1. ASSUME CallsInv, [Http!Next]_(Http!vars) PROVE A
    <2> SUFFICES ASSUME NEW c \in Calls, NEW g \in Gate, Http!Sends(c), Http!Through(c, g), Http!LastEverywhere(g)
                 PROVE  sinceSend[g] >= PaceOf[g]
        OBVIOUS
    <2>1. limiters[g].next = 0
        BY <1>1, SendFacts
    <2>2. limiters[g].next + sinceSend[g] >= PaceOf[g] /\ sinceSend[g] \in Nat
        BY <1>1 DEF CallsInv, WaitInv, Wait
    <2> QED BY <2>1, <2>2
<1>2. CallsInv /\ [Http!Next]_(Http!vars) => [A]_(Http!vars)
    BY <1>1
<1>3. Http!Spec => [][A]_(Http!vars)
    BY AlwaysCalls, <1>2, PTL DEF Http!Spec
<1> QED BY <1>3 DEF LastLimitPacesRequests, Http!LastLimitPacesRequests

\* After a rate-limited answer of an API with one slot, no request goes to it for MinCooldown:
\* until the answer has slowed the limiter down, its call holds the slot.
THEOREM SingleSlotPauses == Http!Spec => SingleSlotPausesAtOnce
<1> DEFINE A ==
      \A c \in Calls, g \in Gate :
        Http!Sends(c) /\ Http!Through(c, g) /\ Http!LastEverywhere(g) /\ SlotsOf[g] = 1
          => limitedSince[g] >= HttpCooldown
<1>1. ASSUME CallsInv, [Http!Next]_(Http!vars) PROVE A
    <2> SUFFICES ASSUME NEW c \in Calls, NEW g \in Gate, Http!Sends(c), Http!Through(c, g), Http!LastEverywhere(g),
                        SlotsOf[g] = 1
                 PROVE  limitedSince[g] >= HttpCooldown
        OBVIOUS
    <2>1. g \in held[c] /\ at[c] = "pace" /\ limiters[g].cooldown = 0
        BY <1>1, SendFacts
    <2>2. ASSUME Unserved(g) PROVE FALSE
        <3>1. PICK d \in Calls : at[d] = "limited" /\ Http!Through(d, g)
            BY <2>2 DEF Unserved
        <3>2. g \in held[d]
            BY <1>1, <3>1 DEF CallsInv, PathInv, Path
        <3>3. c \in Holders(g) /\ d \in Holders(g) /\ c # d
            BY <2>1, <3>1, <3>2 DEF Holders
        <3>4. IsFiniteSet(Holders(g))
            BY SameFiniteSets, FS_Subset, HttpAssumption DEF Holders, Http!AuthClientAssumption
        <3>5. Cardinality(Holders(g)) <= 1
            BY <1>1 DEF CallsInv, SlotInv
        <3>6. Cardinality(Holders(g)) \in Nat /\ Cardinality(Holders(g)) # 0
            BY <3>3, <3>4, FS_CardinalityType, FS_EmptySet
        <3>7. \E x : Holders(g) = {x}
            <4> DEFINE n == Cardinality(Holders(g))
            <4>1. n \in Nat /\ n # 0 /\ n <= 1
                BY <3>5, <3>6
            <4> HIDE DEF n
            <4>2. n = 1
                BY <4>1
            <4> QED BY <3>4, <4>2, FS_Singleton DEF n
        <3> QED BY <3>3, <3>7
    <2>3. limiters[g].cooldown + limitedSince[g] >= HttpCooldown /\ limitedSince[g] \in Nat
        BY <1>1, <2>2 DEF CallsInv, WaitInv, Wait
    <2> QED BY <2>1, <2>3
<1>2. CallsInv /\ [Http!Next]_(Http!vars) => [A]_(Http!vars)
    BY <1>1
<1>3. Http!Spec => [][A]_(Http!vars)
    BY AlwaysCalls, <1>2, PTL DEF Http!Spec
<1> QED BY <1>3 DEF SingleSlotPausesAtOnce, Http!SingleSlotPausesAtOnce
=============================================================================
