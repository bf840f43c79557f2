------------------------------ MODULE MCLimits ------------------------------
(***************************************************************************)
(* Two systems that share no state, of which each behaviour moves one: the *)
(* callers of one limiter with two slots (RateLimit), and the clients that *)
(* main.go builds on api.qiniu.com (AuthClient): billing, with first,      *)
(* retry and endpoint limiters of its own, and CDN discovery, which share  *)
(* the host's.  Discovery's own budgets are left out: with one call of it  *)
(* they never delay anything.                                              *)
(***************************************************************************)
EXTENDS RateLimit, Integers, Sequences

CONSTANTS
  b1, b2, d1, billingFirst, billingRetry, host, billing,
  Calls, Gate, NoGate, FirstOf, RetryOf, HostOf, EndpointOf, BusinessOf,   \* of AuthClient
  SlotsOf, PaceOf, MaxRetries, Second, HttpCooldown, HttpRecovery, HttpRetryAfters

Billing == {b1, b2}

OwnRetryAfters == {-1, 0}
BillingFirst == [c \in Calls |-> IF c \in Billing THEN billingFirst ELSE NoGate]
BillingRetry == [c \in Calls |-> IF c \in Billing THEN billingRetry ELSE NoGate]
BillingEndpoint == [c \in Calls |-> IF c \in Billing THEN billing ELSE NoGate]
OneHost == [c \in Calls |-> host]
BillingSetsBusiness == [c \in Calls |-> c \in Billing]
OwnSlots == [g \in Gate |-> CASE g = host -> 2 [] g = billing -> 1 [] OTHER -> 0]
OwnPaces == [g \in Gate |-> IF g \in {billing, billingFirst} THEN 2 ELSE 1]

VARIABLES
  focus,          \* "limiter", or the calls of Do that are made
  limiters, gates, at, attempt, todo, held, rest, sinceSend, limitedSince

http == <<limiters, gates, at, attempt, todo, held, rest, sinceSend, limitedSince>>
all == <<vars, http, focus>>

Http == INSTANCE AuthClient WITH
  MinCooldown <- HttpCooldown, RecoveryTime <- HttpRecovery, RetryAfters <- HttpRetryAfters,
  used <- gates, pc <- at, sleep <- rest, sinceLimited <- limitedSince

ASSUME HttpAssumption == Http!AuthClientAssumption

MCInit == Init /\ Http!Init /\ focus \in {{"limiter"}, {b1, b2}, {b1, d1}}

Limiting(A) == focus = {"limiter"} /\ A /\ UNCHANGED <<http, focus>>
Calling(A) == focus # {"limiter"} /\ A /\ UNCHANGED <<vars, focus>>

MCNext ==
  \/ Limiting(Next)
  \/ Calling(Http!Tick)
  \/ \E c \in Calls : c \in focus /\ Calling(Http!Step(c) \/ Http!Cancel(c))

\* The fairness of AuthClient.
MCSpec ==
  /\ MCInit /\ [][MCNext]_all
  /\ WF_all(Calling(Http!Tick))
  /\ \A c \in Calls : WF_all(c \in focus /\ Calling(Http!GoesOn(c)))
                   /\ SF_all(c \in focus /\ Calling(Http!Enter(c)))

LastLimitPacesRequests == Http!LastLimitPacesRequests
SingleSlotPausesAtOnce == Http!SingleSlotPausesAtOnce
EveryCallReturns == Http!EveryCallReturns
=============================================================================
