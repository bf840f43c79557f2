------------------------------ MODULE Limiter ------------------------------
(***************************************************************************)
(* internal/limiter: one adaptive burst-one rate limiter, as operators on  *)
(* its state.  Its mutex makes each method one step; the semaphore that    *)
(* Acquire takes first is kept by the module that has the callers.         *)
(*                                                                         *)
(* Deadlines are kept as the time left until them, which is all the code   *)
(* compares: 0 is a deadline that has passed, or none.                     *)
(*                                                                         *)
(*   slowdown   currentQPS is baseQPS / 2^slowdown                         *)
(*   next       time left until l.next                                     *)
(*   cooldown   time left until l.cooldownUntil                            *)
(*   armed      whether l.recoverAfter is set                              *)
(*   recovery   time left until l.recoverAfter                             *)
(***************************************************************************)
EXTENDS Naturals

CONSTANTS
  Pace,           \* pacingInterval(baseQPS)
  MinCooldown,    \* 5 seconds
  RecoveryTime    \* 5 minutes

ASSUME LimiterAssumption ==
  Pace \in Nat \ {0} /\ MinCooldown \in Nat \ {0} /\ RecoveryTime \in Nat \ {0}

\* The rate is never less than a sixteenth of the base rate.
MaxSlowdown == 4

\* pacingInterval at the current rate.
Interval(slowdown) ==
  CASE slowdown = 0 -> Pace     [] slowdown = 1 -> 2 * Pace [] slowdown = 2 -> 4 * Pace
    [] slowdown = 3 -> 8 * Pace [] OTHER -> 16 * Pace

Later(a, b) == IF a >= b THEN a ELSE b

New == [slowdown |-> 0, next |-> 0, cooldown |-> 0, armed |-> FALSE, recovery |-> 0]

Less(left) == IF left = 0 THEN 0 ELSE left - 1

\* One unit of time passes.
Elapse(l) ==
  [ slowdown |-> l.slowdown, next |-> Less(l.next), cooldown |-> Less(l.cooldown),
    armed |-> l.armed, recovery |-> Less(l.recovery) ]

\* Bug: recoverAfter is cleared after one level.
MutRecovered(l) ==
  IF l.armed /\ l.recovery = 0
  THEN [ slowdown |-> Less(l.slowdown), next |-> l.next, cooldown |-> l.cooldown,
         armed |-> FALSE, recovery |-> 0 ]
  ELSE l

\* The first half of takeOrDelay: the rate doubles once recoverAfter has passed,
\* and doubles again after another RecoveryTime until it is the base rate.
Recovered(l) ==
  IF l.armed /\ l.recovery = 0
  THEN LET slowdown == Less(l.slowdown)
       IN [ slowdown |-> slowdown, next |-> l.next, cooldown |-> l.cooldown,
            armed |-> slowdown > 0, recovery |-> IF slowdown > 0 THEN RecoveryTime ELSE 0 ]
  ELSE l

\* Bug: only the cooldown holds a caller back once one was imposed.
MutDelay(l) == IF l.cooldown > 0 \/ l.armed THEN l.cooldown ELSE l.next

\* How long takeOrDelay tells its caller to wait; 0 is a token taken.
Delay(l) == Later(l.next, l.cooldown)

\* The second half: the pacing clock advances only with a token taken.
Paced(l) ==
  IF Delay(l) > 0 THEN l
  ELSE [ slowdown |-> l.slowdown, next |-> Interval(l.slowdown), cooldown |-> l.cooldown,
         armed |-> l.armed, recovery |-> l.recovery ]

TakeOrDelay(l) == Paced(Recovered(l))

\* Bug: an answer without Retry-After imposes no cooldown.
MutOnRateLimitedNoFloor(l, retryAfter) ==
  [ slowdown |-> IF l.slowdown = MaxSlowdown THEN l.slowdown ELSE l.slowdown + 1,
    next |-> l.next, cooldown |-> Later(l.cooldown, retryAfter),
    armed |-> TRUE, recovery |-> RecoveryTime ]

\* OnRateLimited: a cooldown of at least MinCooldown that a shorter one never
\* shortens, half the rate, and recovery put off.
OnRateLimited(l, retryAfter) ==
  [ slowdown |-> IF l.slowdown = MaxSlowdown THEN l.slowdown ELSE l.slowdown + 1,
    next |-> l.next, cooldown |-> Later(l.cooldown, Later(retryAfter, MinCooldown)),
    armed |-> TRUE, recovery |-> RecoveryTime ]
=============================================================================
