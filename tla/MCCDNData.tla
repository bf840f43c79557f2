------------------------------ MODULE MCCDNData ------------------------------
(***************************************************************************)
(* What CDN rounds make of the answers: MonthBandwidthCache, the isolation *)
(* of rejected domains, the rounds of one analytics domain, the usage      *)
(* totals and the top IPs.  They share no state: each behaviour moves one  *)
(* of the five.                                                            *)
(***************************************************************************)
EXTENDS MonthBandwidthCache, Sequences

CONSTANTS
  d1, d2,
  Scenarios,                        \* of MonitoringIsolation
  DayBuckets, LastHour, Answers,    \* of CDNAnalytics
  HourTicks, UsageDay, UsageMonth, LastTime,  \* of CDNUsage
  Batches, Spelling, Parse, Value, TopIPLimit       \* of TopIPs

VARIABLES
  focus,
  kind, batch, env, rejected, bad, pc, stack, answer, attempts, failed, covered, known, settled,
  hour, named, step, safe, ends, newest, shown,
  time, monitoring, usage,
  answers, top

isolation == <<kind, batch, env, rejected, bad, pc, stack, answer, attempts, failed, covered, known, settled>>
analytics == <<hour, named, step, safe, ends, newest, shown>>
totals == <<time, monitoring, usage>>
ips == <<answers, top>>
all == <<vars, focus, isolation, analytics, totals, ips>>

Scenario(k, n, r, e) == [kind |-> k, size |-> n, rejected |-> r, env |-> e]

\* Batches of many sizes with one rejected domain, or all from one on; mixtures with other
\* errors up to one attempt more than the budget; more than a pass can isolate; discoveries.
ManyScenarios ==
     {Scenario(k, n, {r} \ {0}, {}) : k \in {"monitoring", "metering"}, n \in {1, 2, 3, 9, 25, 26, 49, 50}, r \in {0, 1}}
\cup {Scenario("monitoring", n, {n}, {}) : n \in 1 .. 50}
\cup {Scenario("monitoring", n, r .. n, {}) : n \in {13, 26, 50}, r \in 1 .. 13}
\cup {Scenario("monitoring", 12, (1 .. 6) \cup s, {}) : s \in SUBSET (7 .. 12)}
\cup {Scenario(k, 9, r, {"faults"}) : k \in {"monitoring", "metering"}, r \in {{2, 7}, 1 .. 8, 1 .. 9}}
\cup {Scenario("monitoring", 4, r, {"clears", "changes"}) : r \in SUBSET (1 .. 4)}

I == INSTANCE MonitoringIsolation

\* Every sequence of at most three points of two days, in any order.
AnyAnswer == UNION {[1 .. n -> -1 .. 7] : n \in 1 .. 3}

A == INSTANCE CDNAnalytics WITH
  DayTicks <- DayBuckets, Horizon <- LastHour, now <- hour, bad <- named, pc <- step

U == INSTANCE CDNUsage WITH
  DayTicks <- UsageDay, MonthDays <- UsageMonth, Horizon <- LastTime,
  now <- time, round <- monitoring

\* Four addresses, one of them with two spellings.
Addresses == <<1, 2, 3, 4, 1>>

T == INSTANCE TopIPs

ASSUME DataAssumptions ==
  I!IsolationAssumption /\ A!AnalyticsAssumption /\ U!UsageAssumption /\ T!TopIPsAssumption

MCInit ==
  /\ Init /\ I!Init /\ A!Init /\ U!Init /\ T!Init
  /\ focus \in {"month", "isolation", "analytics", "usage", "top_ips"}
  /\ focus # "month" => now = 0
  /\ focus # "isolation" => batch = {1} /\ kind = "metering" /\ rejected = {}
  /\ focus # "analytics" => hour = 0
  /\ focus # "usage" => time = UsageDay

\* One round of top IPs is enough: it does not read what another one published.
MCNext ==
  \/ focus = "month" /\ Next /\ UNCHANGED <<focus, isolation, analytics, totals, ips>>
  \/ focus = "isolation" /\ I!Next /\ UNCHANGED <<vars, focus, analytics, totals, ips>>
  \/ focus = "analytics" /\ A!Next /\ UNCHANGED <<vars, focus, isolation, totals, ips>>
  \/ focus = "usage" /\ U!Next /\ UNCHANGED <<vars, focus, isolation, analytics, ips>>
  \/ focus = "top_ips" /\ (T!Fail \/ (top = {} /\ T!Next)) /\ UNCHANGED <<vars, focus, isolation, analytics, totals>>

MCSpec == MCInit /\ [][MCNext]_all

EveryDomainAnswered == I!EveryDomainAnswered
OnlyRejectedAreCached == I!OnlyRejectedAreCached
BudgetMakesProgress == I!BudgetMakesProgress
OneSafeBucket == A!OneSafeBucket
PeriodsAddUp == U!PeriodsAddUp
TopIsOfTheSums == T!TopIsOfTheSums
=============================================================================
