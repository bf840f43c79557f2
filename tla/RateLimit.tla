----------------------------- MODULE RateLimit -----------------------------
(***************************************************************************)
(* Callers of one Limiter: Acquire with its concurrency gate, the pacing   *)
(* loop, cancellation at either place, and the answers that slow the       *)
(* limiter down while other callers sleep on a delay computed before.      *)
(*                                                                         *)
(* A caller is idle, in "queue" for a slot, in "pace" (it holds a slot and *)
(* sleeps or is about to ask for a token), in "run" (the request is under  *)
(* way) or in "answered" (rate limited, the slot still held).              *)
(***************************************************************************)
EXTENDS Limiter, Integers, FiniteSets

CONSTANTS
  Caller,
  Slots,          \* maxConcurrency; 0 for NewRate, which has no gate
  RetryAfters     \* what servers ask for, for TLC a small set; less than 0: the product overflowed

ASSUME CallersAssumption == IsFiniteSet(Caller) /\ Slots \in Nat /\ RetryAfters \subseteq Int

VARIABLES
  limiter,        \* the record of Limiter
  used,           \* len(l.semaphore)
  pc, sleep,      \* per caller: where it is, and the rest of its timer
  sinceTake,      \* history: time since the last token, up to Pace
  sinceLimited,   \* history: time since the last rate-limited answer, up to MinCooldown
  sinceChange     \* history: time since that or the last recovery step, up to RecoveryTime

history == <<sinceTake, sinceLimited, sinceChange>>
vars == <<limiter, used, pc, sleep, sinceTake, sinceLimited, sinceChange>>

Init ==
  /\ limiter = New /\ used = 0
  /\ pc = [c \in Caller |-> "idle"] /\ sleep = [c \in Caller |-> 0]
  /\ sinceTake = Pace /\ sinceLimited = MinCooldown /\ sinceChange = RecoveryTime

More(t, limit) == IF t < limit THEN t + 1 ELSE t

\* Goroutines wake late as well as on time, so time may pass at any moment.
Tick ==
  /\ limiter' = Elapse(limiter)
  /\ sleep' = [c \in Caller |-> Less(sleep[c])]
  /\ sinceTake' = More(sinceTake, Pace)
  /\ sinceLimited' = More(sinceLimited, MinCooldown)
  /\ sinceChange' = More(sinceChange, RecoveryTime)
  /\ UNCHANGED <<used, pc>>

Call(c) ==
  /\ pc[c] = "idle"
  /\ pc' = [pc EXCEPT ![c] = IF Slots = 0 THEN "pace" ELSE "queue"]
  /\ UNCHANGED <<limiter, used, sleep, history>>

Enter(c) ==
  /\ pc[c] = "queue" /\ used < Slots
  /\ used' = used + 1
  /\ pc' = [pc EXCEPT ![c] = "pace"]
  /\ UNCHANGED <<limiter, sleep, history>>

\* takeOrDelay, by a caller that does not sleep.
TakeOrSleep(c) ==
  /\ pc[c] = "pace" /\ sleep[c] = 0
  /\ LET delay == Delay(Recovered(limiter))
     IN /\ limiter' = TakeOrDelay(limiter)
        /\ sinceChange' = IF limiter'.slowdown < limiter.slowdown THEN 0 ELSE sinceChange
        /\ IF delay = 0
           THEN pc' = [pc EXCEPT ![c] = "run"] /\ sinceTake' = 0 /\ UNCHANGED sleep
           ELSE sleep' = [sleep EXCEPT ![c] = delay] /\ UNCHANGED <<pc, sinceTake>>
  /\ UNCHANGED <<used, sinceLimited>>

\* The semaphore after c gives back what it holds.
Freed(c) == IF pc[c] \in {"pace", "run", "answered"} /\ Slots > 0 THEN used - 1 ELSE used

\* ctx.Done, in the queue or in the pacing loop.
Cancel(c) ==
  /\ pc[c] \in {"queue", "pace"}
  /\ used' = Freed(c)
  /\ pc' = [pc EXCEPT ![c] = "idle"]
  /\ sleep' = [sleep EXCEPT ![c] = 0]
  /\ UNCHANGED <<limiter, history>>

\* The caller's request is answered with a rate limit; the slot is released after.
RateLimited(c, retryAfter) ==
  /\ pc[c] = "run"
  /\ limiter' = OnRateLimited(limiter, retryAfter)
  /\ pc' = [pc EXCEPT ![c] = "answered"]
  /\ sinceLimited' = 0 /\ sinceChange' = 0
  /\ UNCHANGED <<used, sleep, sinceTake>>

Release(c) ==
  /\ pc[c] \in {"run", "answered"}
  /\ used' = Freed(c)
  /\ pc' = [pc EXCEPT ![c] = "idle"]
  /\ UNCHANGED <<limiter, sleep, history>>

Next ==
  \/ Tick
  \/ \E c \in Caller :
        \/ Call(c) \/ Enter(c) \/ TakeOrSleep(c) \/ Cancel(c) \/ Release(c)
        \/ \E retryAfter \in RetryAfters : RateLimited(c, retryAfter)

Spec == Init /\ [][Next]_vars
-----------------------------------------------------------------------------
LimiterRecord ==
  [ slowdown : 0 .. MaxSlowdown, next : Nat, cooldown : Nat, armed : BOOLEAN, recovery : Nat ]

TypeOK ==
  /\ limiter \in LimiterRecord
  /\ used \in Nat
  /\ pc \in [Caller -> {"idle", "queue", "pace", "run", "answered"}]
  /\ sleep \in [Caller -> Nat]
  /\ sinceTake \in 0 .. Pace /\ sinceLimited \in 0 .. MinCooldown
  /\ sinceChange \in 0 .. RecoveryTime

Holding == {c \in Caller : pc[c] \in {"pace", "run", "answered"}}

\* Every slot taken is held by a caller that will give it back: no order of
\* cancellations and answers leaks a slot or frees one twice, so at most Slots
\* requests of a gated limiter run at once.
SlotsMatchHolders == Slots > 0 => used = Cardinality(Holding) /\ used <= Slots

\* The rate is reduced exactly while a recovery is pending: a slowdown is never
\* left in place for ever.
SlowdownIsTemporary == limiter.slowdown > 0 <=> limiter.armed

\* Callers given up, delayed or cancelled leave no reservation behind: the next
\* token is due one interval after the last one taken at the latest, at the
\* slowest rate.
NoPhantomReservation == limiter.next <= 16 * Pace

Granted(c) == pc[c] = "pace" /\ pc'[c] = "run"

\* Tokens are at least the base interval apart, whatever recovery does to the
\* rate between them.
TokensArePaced == [][(\E c \in Caller : Granted(c)) => sinceTake >= Pace]_vars

\* No caller gets a token within MinCooldown of a rate-limited answer, the
\* callers that slept on a shorter delay when it came included.
CooldownHonoured == [][(\E c \in Caller : Granted(c)) => sinceLimited >= MinCooldown]_vars

\* An answer never shortens the cooldown an earlier one imposed.
CooldownNeverShortened ==
  [][limiter'.cooldown < limiter.cooldown => limiter'.cooldown = limiter.cooldown - 1
                                              /\ UNCHANGED <<used, pc>>]_vars

\* A slowdown is undone level by level, no sooner and no later than DESIGN.md:385 says: never
\* before RecoveryTime without a rate-limited answer or another level; and once that has passed
\* nobody gets a token at the slower rate, whoever asks first, however many answers there were,
\* and whichever callers gave up or overslept in between.
RecoversOnTime ==
  [][/\ limiter'.slowdown < limiter.slowdown =>
          limiter'.slowdown = limiter.slowdown - 1 /\ sinceChange >= RecoveryTime
     /\ (\E c \in Caller : Granted(c)) /\ limiter'.slowdown > 0 => sinceChange' < RecoveryTime]_vars
=============================================================================
