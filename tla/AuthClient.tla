----------------------------- MODULE AuthClient -----------------------------
(***************************************************************************)
(* internal/authhttp: Client.Do over a stack of shared limiters, for the   *)
(* calls of several clients at once.  An attempt acquires the budget of    *)
(* its kind (first or retry), the host's limiter and the endpoint's, each  *)
(* with its slot and its token; a rate-limited answer slows host and       *)
(* endpoint down before the slots go back; at most two retries follow.     *)
(*                                                                         *)
(* A call is idle, in "queue" for the slot of Head(todo), in "pace" for    *)
(* its token, in "flight", "limited" (todo: the limiters still to slow     *)
(* down), in "backoff" or "done".  The releases of one attempt are one     *)
(* step: each only lets others in.  Contexts end at any time (Cancel).     *)
(***************************************************************************)
EXTENDS Integers, Sequences, FiniteSets

CONSTANTS
  Calls,                               \* the calls of Do, of all clients
  Gate, NoGate,                       \* the limiters; NoGate is a nil *Limiter
  FirstOf, RetryOf, HostOf, EndpointOf,   \* the client of each call
  BusinessOf,                         \* whether it sets ExpectedBusinessCode
  SlotsOf,                            \* maxConcurrency; 0 for NewRate
  PaceOf,                             \* pacingInterval of the base rate
  MaxRetries,                         \* 0 .. 2 once clamped
  Second, MinCooldown, RecoveryTime,
  RetryAfters                         \* what parseRetryAfter returns; less than 0: the product overflowed

\* Asserted where the module is instantiated.
AuthClientAssumption ==
  /\ IsFiniteSet(Calls) /\ NoGate \notin Gate
  /\ FirstOf \in [Calls -> Gate \cup {NoGate}] /\ RetryOf \in [Calls -> Gate \cup {NoGate}]
  /\ HostOf \in [Calls -> Gate \cup {NoGate}] /\ EndpointOf \in [Calls -> Gate \cup {NoGate}]
  /\ BusinessOf \in [Calls -> BOOLEAN]
  /\ \A c \in Calls : {FirstOf[c], RetryOf[c]} \cap {HostOf[c], EndpointOf[c]} \subseteq {NoGate}
  /\ SlotsOf \in [Gate -> Nat] /\ PaceOf \in [Gate -> Nat \ {0}]
  /\ {MaxRetries, Second, MinCooldown, RecoveryTime} \subseteq Nat /\ RetryAfters \subseteq Int

Limit(pace) == INSTANCE Limiter WITH Pace <- pace

VARIABLES
  limiters, used,                     \* per limiter: its record and len(semaphore)
  pc, attempt, todo, held, sleep,     \* per call; held: the releases it owes
  sinceSend, sinceLimited             \* history per limiter: time since a request through it
                                      \* left, or was answered with a rate limit

history == <<sinceSend, sinceLimited>>
vars == <<limiters, used, pc, attempt, todo, held, sleep, sinceSend, sinceLimited>>

\* acquire: a nil limiter and one already acquired are skipped.
WithLimiter(s, g) == IF g = NoGate \/ \E i \in DOMAIN s : s[i] = g THEN s ELSE Append(s, g)

Hard(c) == WithLimiter(WithLimiter(<<>>, HostOf[c]), EndpointOf[c])

Through(c, g) == \E i \in DOMAIN Hard(c) : Hard(c)[i] = g

\* Bug: a retry draws on the retry budget instead of the hard limits.
MutStack(c, n) ==
  IF n = 0 THEN WithLimiter(WithLimiter(WithLimiter(<<>>, FirstOf[c]), HostOf[c]), EndpointOf[c])
  ELSE WithLimiter(<<>>, RetryOf[c])

\* The limiters of an attempt, in the order they are acquired.
Stack(c, n) ==
  WithLimiter(WithLimiter(WithLimiter(<<>>, IF n = 0 THEN FirstOf[c] ELSE RetryOf[c]),
                          HostOf[c]), EndpointOf[c])

Retries == IF MaxRetries > 2 THEN 2 ELSE MaxRetries

Init ==
  /\ limiters = [g \in Gate |-> Limit(PaceOf[g])!New] /\ used = [g \in Gate |-> 0]
  /\ pc = [c \in Calls |-> "idle"] /\ attempt = [c \in Calls |-> 0]
  /\ todo = [c \in Calls |-> <<>>] /\ held = [c \in Calls |-> {}] /\ sleep = [c \in Calls |-> 0]
  /\ sinceSend = [g \in Gate |-> PaceOf[g]] /\ sinceLimited = [g \in Gate |-> MinCooldown]

More(t, limit) == IF t < limit THEN t + 1 ELSE t

Tick ==
  /\ limiters' = [g \in Gate |-> Limit(PaceOf[g])!Elapse(limiters[g])]
  /\ sleep' = [c \in Calls |-> IF sleep[c] = 0 THEN 0 ELSE sleep[c] - 1]
  /\ sinceSend' = [g \in Gate |-> More(sinceSend[g], PaceOf[g])]
  /\ sinceLimited' = [g \in Gate |-> More(sinceLimited[g], MinCooldown)]
  /\ UNCHANGED <<used, pc, attempt, todo, held>>

\* The request leaves once nothing is left to acquire.
GoOn(c, rest) ==
  /\ todo' = [todo EXCEPT ![c] = rest]
  /\ pc' = [pc EXCEPT ![c] = IF rest = <<>> THEN "flight" ELSE "queue"]
  /\ sinceSend' = [g \in Gate |-> IF rest = <<>> /\ Through(c, g) THEN 0 ELSE sinceSend[g]]

\* The first attempt, or the next one when the backoff is over.
Begin(c) ==
  /\ pc[c] \in {"idle", "backoff"} /\ sleep[c] = 0
  /\ GoOn(c, Stack(c, attempt[c]))
  /\ UNCHANGED <<limiters, used, attempt, held, sleep, sinceLimited>>

\* Acquire's semaphore.
Enter(c) ==
  /\ pc[c] = "queue"
  /\ LET g == Head(todo[c])
     IN /\ SlotsOf[g] > 0 => used[g] < SlotsOf[g]
        /\ used' = [used EXCEPT ![g] = IF SlotsOf[g] > 0 THEN @ + 1 ELSE @]
        /\ held' = [held EXCEPT ![c] = @ \cup {g}]
  /\ pc' = [pc EXCEPT ![c] = "pace"]
  /\ UNCHANGED <<limiters, attempt, todo, sleep, history>>

\* Acquire's loop over takeOrDelay.
Take(c) ==
  /\ pc[c] = "pace" /\ sleep[c] = 0
  /\ LET g == Head(todo[c])
         p == PaceOf[g]
         delay == Limit(p)!Delay(Limit(p)!Recovered(limiters[g]))
     IN /\ limiters' = [limiters EXCEPT ![g] = Limit(p)!TakeOrDelay(@)]
        /\ IF delay = 0
           THEN GoOn(c, Tail(todo[c])) /\ UNCHANGED sleep
           ELSE sleep' = [sleep EXCEPT ![c] = delay] /\ UNCHANGED <<pc, todo, sinceSend>>
  /\ UNCHANGED <<used, attempt, held, sinceLimited>>

MayRetry(c) == attempt[c] < Retries

\* Bug: a failure to acquire a limiter releases those acquired before, not its slot.
MutFreed(c) ==
  [g \in Gate |-> IF g \in held[c] /\ SlotsOf[g] > 0 /\ (pc[c] = "pace" => g # Head(todo[c]))
                  THEN used[g] - 1 ELSE used[g]]

\* The semaphores after c's releases.
Freed(c) == [g \in Gate |-> IF g \in held[c] /\ SlotsOf[g] > 0 THEN used[g] - 1 ELSE used[g]]

\* What ends an attempt: its releases, and what the call does next.
Leave(c, next) ==
  /\ used' = Freed(c)
  /\ held' = [held EXCEPT ![c] = {}]
  /\ todo' = [todo EXCEPT ![c] = <<>>]
  /\ pc' = [pc EXCEPT ![c] = next]

Return(c) ==
  Leave(c, "done") /\ sleep' = [sleep EXCEPT ![c] = 0] /\ UNCHANGED <<limiters, attempt, history>>

\* waitBackoff: full jitter up to one second, then two.
RetryOrReturn(c) ==
  IF ~MayRetry(c) THEN Return(c)
  ELSE /\ Leave(c, "backoff")
       /\ attempt' = [attempt EXCEPT ![c] = @ + 1]
       /\ \E d \in 0 .. Second * (attempt[c] + 1) : sleep' = [sleep EXCEPT ![c] = d]
       /\ UNCHANGED <<limiters, history>>

\* The context ends while the call waits for a slot, a token or the backoff.
Cancel(c) == pc[c] \in {"queue", "pace", "backoff"} /\ Return(c)

\* No answer: signing failed, the transport returned nothing, or too much (no
\* retry); or an error of the transport or of the body, and the context ended or not.
Fail(c) == pc[c] = "flight" /\ (Return(c) \/ RetryOrReturn(c))

Statuses == {200, 403, 404, 429, 500}
Codes == {"expected", "403024", "other"}

\* inspectRateLimit and the business code of a 2xx.
RateLimits(c, status, code) ==
  \/ status = 429
  \/ status = 403 /\ code = "403024"
  \/ status = 200 /\ BusinessOf[c] /\ code = "403024"

\* An answer that is no rate limit; 5xx is retried, 4xx and business errors are not.
Answer(c, status, code) ==
  /\ pc[c] = "flight" /\ ~RateLimits(c, status, code)
  /\ IF status >= 500 THEN RetryOrReturn(c) ELSE Return(c)

\* A rate limit is answered; onRateLimited comes next.
Limited(c, status, code) ==
  /\ pc[c] = "flight" /\ RateLimits(c, status, code)
  /\ pc' = [pc EXCEPT ![c] = "limited"] /\ todo' = [todo EXCEPT ![c] = Hard(c)]
  /\ sinceLimited' =
       [g \in Gate |-> IF Through(c, g) THEN 0 ELSE sinceLimited[g]]
  /\ UNCHANGED <<limiters, used, attempt, held, sleep, sinceSend>>

\* onRateLimited, one limiter after the other; the slots are still held.
SlowDown(c, retryAfter) ==
  /\ pc[c] = "limited" /\ todo[c] # <<>>
  /\ LET g == Head(todo[c])
     IN limiters' = [limiters EXCEPT ![g] = Limit(PaceOf[g])!OnRateLimited(@, retryAfter)]
  /\ todo' = [todo EXCEPT ![c] = Tail(@)]
  /\ UNCHANGED <<used, pc, attempt, held, sleep, history>>

\* Bug: the slots are given back before the limiters are slowed down.
MutEndLimited(c) == pc[c] = "limited" /\ RetryOrReturn(c)

EndLimited(c) == pc[c] = "limited" /\ todo[c] = <<>> /\ RetryOrReturn(c)

Step(c) ==
  \/ Begin(c) \/ Enter(c) \/ Take(c) \/ Fail(c) \/ EndLimited(c)
  \/ \E status \in Statuses, code \in Codes : Answer(c, status, code) \/ Limited(c, status, code)
  \/ \E retryAfter \in RetryAfters : SlowDown(c, retryAfter)

Next == Tick \/ \E c \in Calls : Step(c) \/ Cancel(c)

Spec == Init /\ [][Next]_vars

\* What a call that can go on does; a request in flight ends, with whatever answer.
GoesOn(c) ==
  Begin(c) \/ Take(c) \/ Fail(c) \/ EndLimited(c) \/ \E retryAfter \in RetryAfters : SlowDown(c, retryAfter)

\* Time passes, a request ends (every job has a deadline), a call that can go on
\* does so, and a semaphore serves its senders in turn.
FairSpec == Spec /\ WF_vars(Tick) /\ \A c \in Calls : WF_vars(GoesOn(c)) /\ SF_vars(Enter(c))

-----------------------------------------------------------------------------
\* Whatever the place where a call fails, is cancelled, is rate limited or starts
\* over, the slots taken of every limiter are those held by calls that will give
\* them back: a partial failure to acquire the stack leaks nothing, and no limiter
\* exceeds its concurrency.
SlotsMatchHolders ==
  \A g \in Gate : SlotsOf[g] > 0 =>
    used[g] = Cardinality({c \in Calls : g \in held[c]}) /\ used[g] <= SlotsOf[g]

Sends(c) == pc[c] # "flight" /\ pc'[c] = "flight"

\* A limiter that every stack it is part of acquires last.
LastEverywhere(g) ==
  \A c \in Calls : \A i \in DOMAIN Hard(c) : Hard(c)[i] = g => i = Len(Hard(c))

\* A limiter acquired last (the endpoint's, or the host's where no client has
\* another) paces the requests themselves, retries included: DESIGN.md "their
\* combined traffic can never exceed any hard limit", for that limiter.
LastLimitPacesRequests ==
  [][\A c \in Calls, g \in Gate : Sends(c) /\ Through(c, g) /\ LastEverywhere(g) => sinceSend[g] >= PaceOf[g]]_vars

\* After a rate-limited answer of an API with one slot, no other request is sent to
\* it for MinCooldown, from the moment of the answer on: the limiter is slowed down
\* before the slot is given back.
SingleSlotPausesAtOnce ==
  [][\A c \in Calls, g \in Gate :
       Sends(c) /\ Through(c, g) /\ LastEverywhere(g) /\ SlotsOf[g] = 1
         => sinceLimited[g] >= MinCooldown]_vars

\* Every call returns: the stacks cannot wait on each other, and retries end.
EveryCallReturns == \A c \in Calls : pc[c] # "idle" ~> pc[c] = "done"
=============================================================================
