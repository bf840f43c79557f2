-------------------------- MODULE CDNRefreshProofs --------------------------
(***************************************************************************)
(* The whole-account aggregates of CDNRefresh implement UsageScope, and    *)
(* its copies of the resource set agree, for every set of domains, every   *)
(* choice of jobs, every size of batches and every bound.                  *)
(*                                                                         *)
(* That what is shown has the catalog's scope is not inductive by itself:  *)
(* ReplaceCatalog keeps it only because nothing is shown by then, which    *)
(* needs that no round published since the clears, which needs the lock.   *)
(* Nor is it inductive that the copies agree between discoveries:          *)
(* CopiesInv says for every point of reconcile which copies are of the new *)
(* listing already, RoundInv that a round loses no domain of its scope,    *)
(* HeldInv that a round whose scope a discovery changed under it reports   *)
(* only what the stores accepted, as far as the listing goes.              *)
(***************************************************************************)
EXTENDS CDNRefresh, TLAPS

\* Where the discovery goroutine holds usageScopeMu.
Critical == {"clear usage", "clear top_ips", "init usage", "init top_ips", "catalog"}

Shape ==
  /\ DOMAIN shown = {"usage", "top_ips"}
  /\ DOMAIN discovery = {"pc", "listing"}
  /\ discovery.listing \subseteq Domain

LockHeld == scopeMu = "discovery" <=> discovery.pc \in Critical

ScopesCurrent ==
  Scopes("usage") \subseteq {catalog} /\ Scopes("top_ips") \subseteq {catalog}

\* Past its clear an aggregate is not shown; the catalog is replaced with
\* nothing shown or by an equal one.
Cleared ==
  /\ discovery.pc \in {"clear top_ips", "init usage", "init top_ips"} => shown.usage = {}
  /\ discovery.pc \in {"init usage", "init top_ips"} => shown.top_ips = {}
  /\ discovery.pc = "catalog" =>
       (shown.usage = {} /\ shown.top_ips = {}) \/ catalog = discovery.listing

ScopeInv == Shape /\ LockHeld /\ ScopesCurrent /\ Cleared

LEMMA ScopeInit == Init => ScopeInv
  BY DEF Init, ScopeInv, Shape, LockHeld, Critical, ScopesCurrent, Cleared, Scopes, NoListing

\* A step that leaves the catalog, the lock, the aggregates and the discovery
\* goroutine alone.
LEMMA ScopeUntouched ==
  ASSUME ScopeInv, UNCHANGED <<catalog, scopeMu, shown, discovery>>
  PROVE  ScopeInv'
  BY DEF ScopeInv, Shape, LockHeld, Critical, ScopesCurrent, Cleared, Scopes

\* A step of the discovery goroutine outside its critical section.
LEMMA ScopeGoto ==
  ASSUME ScopeInv, NEW pc, pc \notin Critical, discovery.pc \notin Critical, Goto(pc),
         UNCHANGED <<catalog, scopeMu, shown>>
  PROVE  ScopeInv'
  BY DEF ScopeInv, Shape, LockHeld, Critical, ScopesCurrent, Cleared, Scopes, Goto

LEMMA ScopeDiscovery == ScopeInv /\ Discovery => ScopeInv'
<1> SUFFICES ASSUME ScopeInv, Discovery PROVE ScopeInv'
  OBVIOUS
<1>1. CASE DiscoveryFail
  BY <1>1, ScopeUntouched DEF DiscoveryFail, scopeVars, storeVars
<1>2. CASE DiscoveryList
  <2>1. PICK l \in SUBSET Domain : discovery' = [pc |-> "retain monitoring", listing |-> l]
    BY <1>2 DEF DiscoveryList, Listing
  <2>2. discovery.pc \notin Critical /\ UNCHANGED <<catalog, scopeMu, shown>>
    BY <1>2 DEF DiscoveryList, At, Critical, scopeVars, storeVars
  <2> QED
    BY <2>1, <2>2 DEF ScopeInv, Shape, LockHeld, Critical, ScopesCurrent, Cleared, Scopes
<1>3. ASSUME NEW job, DiscoveryRetain(job, "retain monitoring", "retain analytics") PROVE ScopeInv'
  BY <1>3, ScopeGoto DEF DiscoveryRetain, At, Critical, scopeVars
<1>4. ASSUME NEW job, DiscoveryRetain(job, "retain analytics", "inventory") PROVE ScopeInv'
  BY <1>4, ScopeGoto DEF DiscoveryRetain, At, Critical, scopeVars
<1>5. CASE DiscoveryPublishInventory
  BY <1>5, ScopeGoto DEF DiscoveryPublishInventory, At, Critical, scopeVars
<1>6. CASE DiscoveryClearBad
  BY <1>6, ScopeGoto DEF DiscoveryClearBad, At, Critical, scopeVars, storeVars
<1>7. CASE DiscoveryReplaceHealth("analytics", "analytics health", "monitoring health")
  BY <1>7, ScopeGoto DEF DiscoveryReplaceHealth, At, Critical, scopeVars, storeVars
<1>8. CASE DiscoveryReplaceHealth("monitoring", "monitoring health", "lock")
  BY <1>8, ScopeGoto DEF DiscoveryReplaceHealth, At, Critical, scopeVars, storeVars
<1>9. CASE DiscoveryLock
  BY <1>9 DEF DiscoveryLock, At, Goto, ScopeInv, Shape, LockHeld, Critical, ScopesCurrent,
              Cleared, Scopes, storeVars
<1>10. CASE DiscoveryClear("usage", "clear usage", "clear top_ips")
  BY <1>10 DEF DiscoveryClear, At, Goto, ScopeInv, Shape, LockHeld, Critical, ScopesCurrent,
               Cleared, Scopes, scopeVars
<1>11. CASE DiscoveryClear("top_ips", "clear top_ips", "init usage")
  BY <1>11 DEF DiscoveryClear, At, Goto, ScopeInv, Shape, LockHeld, Critical, ScopesCurrent,
               Cleared, Scopes, scopeVars
<1>12. CASE DiscoveryInitCollector("usage", "init usage", "init top_ips")
  BY <1>12 DEF DiscoveryInitCollector, At, Goto, ScopeInv, Shape, LockHeld, Critical,
               ScopesCurrent, Cleared, Scopes, scopeVars, storeVars
<1>13. CASE DiscoveryInitCollector("top_ips", "init top_ips", "catalog")
  BY <1>13 DEF DiscoveryInitCollector, At, Goto, ScopeInv, Shape, LockHeld, Critical,
               ScopesCurrent, Cleared, Scopes, scopeVars, storeVars
<1>14. CASE DiscoveryReplaceCatalog
  BY <1>14 DEF DiscoveryReplaceCatalog, At, Goto, ScopeInv, Shape, LockHeld, Critical,
               ScopesCurrent, Cleared, Scopes, storeVars
<1>15. CASE DiscoveryObserve
  BY <1>15 DEF DiscoveryObserve, At, ScopeInv, Shape, LockHeld, Critical, ScopesCurrent,
               Cleared, Scopes, scopeVars, storeVars, NoListing
<1> QED
  BY <1>1, <1>2, <1>3, <1>4, <1>5, <1>6, <1>7, <1>8, <1>9, <1>10, <1>11, <1>12, <1>13, <1>14,
     <1>15 DEF Discovery

\* The two critical sections of the rounds; the other steps leave the scope alone.
LEMMA ScopeUsagePublish ==
  ASSUME ScopeInv, NEW monthOK, UsagePublish(monthOK)
  PROVE  ScopeInv'
<1> USE DEF UsagePublish, scopeVars
<1>1. Shape' /\ LockHeld' /\ discovery.pc \notin Critical
  BY DEF ScopeInv, Shape, LockHeld, Critical
<1>2. /\ shown'.top_ips = shown.top_ips
      /\ \/ shown'.usage = shown.usage
         \/ /\ shown'.usage = {UsageSnapshot(rounds["monitoring"])}
            /\ catalog = rounds["monitoring"].scope
  BY DEF ScopeInv, Shape
<1>3. UsageSnapshot(rounds["monitoring"]).scope = rounds["monitoring"].scope
  BY DEF UsageSnapshot
<1>4. ScopesCurrent'
  BY <1>2, <1>3 DEF ScopeInv, ScopesCurrent, Scopes
<1> QED
  BY <1>1, <1>4 DEF ScopeInv, Cleared, Critical

LEMMA ScopeTopIPsPublish ==
  ASSUME ScopeInv, TopIPsPublish
  PROVE  ScopeInv'
<1> USE DEF TopIPsPublish, scopeVars
<1>1. Shape' /\ LockHeld' /\ discovery.pc \notin Critical
  BY DEF ScopeInv, Shape, LockHeld, Critical
<1>2. /\ shown'.usage = shown.usage
      /\ \/ shown'.top_ips = shown.top_ips
         \/ /\ shown'.top_ips = {[scope |-> rounds["top_ips"].scope]}
            /\ catalog = rounds["top_ips"].scope
  BY DEF ScopeInv, Shape
<1>3. ScopesCurrent'
  BY <1>2 DEF ScopeInv, ScopesCurrent, Scopes
<1> QED
  BY <1>1, <1>3 DEF ScopeInv, Cleared, Critical

\* A step of a round or a scrape outside the two critical sections.
OtherUntouched ==
  UNCHANGED <<catalog, scopeMu, shown, discovery>>

LEMMA OtherSteps ==
  ASSUME Collection \/ Scrape,
         ~TopIPsPublish, ~\E monthOK \in BOOLEAN : UsagePublish(monthOK)
  PROVE  OtherUntouched
<1> USE DEF OtherUntouched, scopeVars, storeVars
<1>1. CASE Scrape
  BY <1>1 DEF Scrape, ScrapeTopIPs, ScrapeInventory, ScrapeDomains, ScrapeUsage, ScrapeEnd, Load
<1>2. CASE Monitoring
  BY <1>2 DEF Monitoring, Begin, MonitoringBatch, UsageBuild, UsageReport, MonitoringObserve,
              ObserveBatch
<1>3. CASE Analytics
  BY <1>3 DEF Analytics, Begin, AnalyticsNext, AnalyticsObserve, ObserveBatch
<1>4. CASE TopIPs
  BY <1>4 DEF TopIPs, Begin, TopIPsFetch, TopIPsObserve
<1>5. ASSUME NEW j \in {"monitoring", "analytics"},
             \/ \E d \in Domain : FetchOK(j, d) \/ Stamp(j, d)
             \/ \E d \in Domain, invalid \in BOOLEAN : FetchFail(j, d, invalid)
             \/ EndBatch(j)
      PROVE  OtherUntouched
  BY <1>5 DEF FetchOK, Stamp, FetchFail, EndBatch
<1> QED
  BY <1>1, <1>2, <1>3, <1>4, <1>5 DEF Collection

\* The lock, the clears and the scopes agree in every reachable state.
THEOREM ScopeInvariant == Spec => []ScopeInv
<1>1. ScopeInv /\ [Next]_vars => ScopeInv'
  <2> SUFFICES ASSUME ScopeInv, [Next]_vars PROVE ScopeInv'
    OBVIOUS
  <2>1. CASE Discovery
    BY <2>1, ScopeDiscovery
  <2>2. CASE \E monthOK \in BOOLEAN : UsagePublish(monthOK)
    BY <2>2, ScopeUsagePublish
  <2>3. CASE TopIPsPublish
    BY <2>3, ScopeTopIPsPublish
  <2>4. CASE /\ Collection \/ Scrape
             /\ ~TopIPsPublish
             /\ ~\E monthOK \in BOOLEAN : UsagePublish(monthOK)
    BY <2>4, OtherSteps, ScopeUntouched DEF OtherUntouched
  <2>5. CASE UNCHANGED vars
    BY <2>5, ScopeUntouched DEF vars
  <2> QED
    BY <2>1, <2>2, <2>3, <2>4, <2>5 DEF Next
<1> QED
  BY <1>1, ScopeInit, PTL DEF Spec

-----------------------------------------------------------------------------
\* What a discovery step does to one aggregate and to the catalog.
LEMMA DiscoveryScopes ==
  ASSUME ScopeInv, Discovery
  PROVE  \/ UNCHANGED <<catalog, shown>>
         \/ UNCHANGED <<catalog, shown.top_ips>> /\ shown'.usage = {}
         \/ UNCHANGED <<catalog, shown.usage>> /\ shown'.top_ips = {}
         \/ /\ UNCHANGED shown
            /\ catalog' \in SUBSET Domain
            /\ (shown.usage = {} /\ shown.top_ips = {}) \/ UNCHANGED catalog
<1>1. CASE DiscoveryClear("usage", "clear usage", "clear top_ips")
  BY <1>1 DEF DiscoveryClear, scopeVars, ScopeInv, Shape
<1>2. CASE DiscoveryClear("top_ips", "clear top_ips", "init usage")
  BY <1>2 DEF DiscoveryClear, scopeVars, ScopeInv, Shape
<1>3. CASE DiscoveryReplaceCatalog
  BY <1>3 DEF DiscoveryReplaceCatalog, At, storeVars, ScopeInv, Shape, Cleared
<1> QED
  BY <1>1, <1>2, <1>3
  DEF Discovery, DiscoveryFail, DiscoveryList, DiscoveryRetain, DiscoveryPublishInventory,
      DiscoveryClearBad, DiscoveryReplaceHealth, DiscoveryLock, DiscoveryInitCollector,
      DiscoveryObserve, scopeVars, storeVars

LEMMA UsageStep == ScopeInv /\ [Next]_vars => [UsageAbs!Next]_(UsageAbs!vars)
<1> USE DEF UsageAbs!vars, Scopes
<1> SUFFICES ASSUME ScopeInv, [Next]_vars PROVE [UsageAbs!Next]_(UsageAbs!vars)
  OBVIOUS
<1> USE DEF UsageAbs!Next, UsageAbs!Collected, UsageAbs!Withdraw, UsageAbs!Rescope
<1>1. CASE Discovery
  BY <1>1, DiscoveryScopes
<1>2. ASSUME NEW monthOK \in BOOLEAN, UsagePublish(monthOK) PROVE [UsageAbs!Next]_(UsageAbs!vars)
  BY <1>2 DEF UsagePublish, UsageSnapshot, scopeVars, ScopeInv, Shape
<1>3. CASE TopIPsPublish
  BY <1>3 DEF TopIPsPublish, scopeVars, ScopeInv, Shape
<1>4. CASE /\ Collection \/ Scrape
           /\ ~TopIPsPublish
           /\ ~\E monthOK \in BOOLEAN : UsagePublish(monthOK)
  BY <1>4, OtherSteps DEF OtherUntouched
<1>5. CASE UNCHANGED vars
  BY <1>5 DEF vars
<1> QED
  BY <1>1, <1>2, <1>3, <1>4, <1>5 DEF Next

\* The usage aggregate implements UsageScope.
THEOREM UsageRefines == Spec => UsageImplementsScope
<1>1. Init => UsageAbs!Init
  BY DEF Init, UsageAbs!Init, Scopes
<1> QED
  BY <1>1, UsageStep, ScopeInvariant, PTL DEF Spec, UsageImplementsScope, UsageAbs!Spec

LEMMA TopIPsStep == ScopeInv /\ [Next]_vars => [TopIPsAbs!Next]_(TopIPsAbs!vars)
<1> USE DEF TopIPsAbs!vars, Scopes
<1> SUFFICES ASSUME ScopeInv, [Next]_vars PROVE [TopIPsAbs!Next]_(TopIPsAbs!vars)
  OBVIOUS
<1> USE DEF TopIPsAbs!Next, TopIPsAbs!Collected, TopIPsAbs!Withdraw, TopIPsAbs!Rescope
<1>1. CASE Discovery
  BY <1>1, DiscoveryScopes
<1>2. ASSUME NEW monthOK \in BOOLEAN, UsagePublish(monthOK) PROVE [TopIPsAbs!Next]_(TopIPsAbs!vars)
  BY <1>2 DEF UsagePublish, scopeVars, ScopeInv, Shape
<1>3. CASE TopIPsPublish
  BY <1>3 DEF TopIPsPublish, scopeVars, ScopeInv, Shape
<1>4. CASE /\ Collection \/ Scrape
           /\ ~TopIPsPublish
           /\ ~\E monthOK \in BOOLEAN : UsagePublish(monthOK)
  BY <1>4, OtherSteps DEF OtherUntouched
<1>5. CASE UNCHANGED vars
  BY <1>5 DEF vars
<1> QED
  BY <1>1, <1>2, <1>3, <1>4, <1>5 DEF Next

\* The top-IP aggregate implements UsageScope.
THEOREM TopIPsRefines == Spec => TopIPsImplementsScope
<1>1. Init => TopIPsAbs!Init
  BY DEF Init, TopIPsAbs!Init, Scopes
<1> QED
  BY <1>1, TopIPsStep, ScopeInvariant, PTL DEF Spec, TopIPsImplementsScope, TopIPsAbs!Spec
-----------------------------------------------------------------------------
(* The copies of the resource set *)

Collected == {"monitoring", "analytics"}    \* the jobs with a ResourceStore

Pcs == {"idle", "next", "fetch", "stamp", "publish", "report", "observe"}

Round ==
  [pc : Pcs, scope : SUBSET Domain, todo : SUBSET Domain, active : SUBSET Domain,
   current : SUBSET Domain, failed : SUBSET Domain, done : SUBSET Domain,
   err : BOOLEAN, overlap : Nat]

\* A round of domain-by-domain requests loses no domain of its scope: each is
\* done, failed, of the current batch or still to come.
Accounted(r) ==
  /\ r.pc # "idle" => r.scope = r.done \cup r.failed \cup r.active \cup r.todo
  /\ r.pc = "next" => r.active = {}
  /\ r.pc \in {"publish", "report", "observe"} => r.active = {} /\ r.todo = {}

RoundInv ==
  /\ rounds \in [RoundJobs -> Round]
  /\ catalog \in SUBSET Domain
  /\ \A j \in Collected : Accounted(rounds[j])
  /\ \A j \in Collected : rounds[j].pc = "idle" => rounds[j] = Resting

LEMMA Resumed ==
  ASSUME RoundInv, NEW j \in RoundJobs, NEW r \in Round, Continue(j, r)
  PROVE  /\ rounds' \in [RoundJobs -> Round]
         /\ rounds'[j] = r
         /\ \A i \in RoundJobs \ {j} : rounds'[i] = rounds[i]
BY DEF RoundInv, Continue

LEMMA RestingRound == Resting \in Round /\ Accounted(Resting)
BY DEF Resting, Round, Pcs, Accounted

\* A step of one round that accounts for its domains.
LEMMA RoundKept ==
  ASSUME RoundInv, ScopeInv, NEW j \in RoundJobs, NEW r \in Round, Continue(j, r),
         j \in Collected => Accounted(r) /\ (r.pc = "idle" => r = Resting), UNCHANGED catalog
  PROVE  RoundInv'
<1>1. /\ rounds' \in [RoundJobs -> Round] /\ rounds'[j] = r
      /\ \A i \in RoundJobs \ {j} : rounds'[i] = rounds[i]
  BY Resumed
<1>2. ASSUME NEW i \in Collected
      PROVE  Accounted(rounds'[i]) /\ (rounds'[i].pc = "idle" => rounds'[i] = Resting)
  <2>1. CASE i = j
    BY <1>1, <2>1
  <2>2. CASE i # j
    BY <1>1, <2>2 DEF RoundInv, Collected, RoundJobs
  <2> QED BY <2>1, <2>2
<1> QED
  BY <1>1, <1>2 DEF RoundInv

LEMMA BeginRound ==
  ASSUME RoundInv, ScopeInv, NEW j \in RoundJobs, Begin(j)
  PROVE  /\ RoundInv'
         /\ rounds'[j].pc = "next" /\ rounds'[j].scope = catalog /\ rounds'[j].done = {}
         /\ rounds'[j].overlap = IF At("idle") THEN 0 ELSE 1
         /\ \A i \in RoundJobs \ {j} : rounds'[i] = rounds[i]
         /\ UNCHANGED <<scopeVars, storeVars, bad, metricVars, discovery, scrape>>
<1> DEFINE o == IF At("idle") THEN 0 ELSE 1
           r == [Resting EXCEPT !.pc = "next", !.scope = catalog, !.todo = catalog, !.overlap = o]
<1>1. o \in Nat /\ catalog \in SUBSET Domain
  BY DEF RoundInv
<1>2. Continue(j, r) /\ UNCHANGED <<scopeVars, storeVars, bad, metricVars, discovery, scrape>>
  BY DEF Begin
<1> HIDE DEF o
<1>3. r \in Round /\ r.pc = "next" /\ r.scope = catalog /\ r.done = {} /\ r.active = {}
      /\ r.failed = {} /\ r.todo = catalog /\ r.overlap = o
  BY <1>1 DEF Resting, Round, Pcs
<1> HIDE DEF r
<1>4. Accounted(r)
  BY <1>3 DEF Accounted
<1> QED
  BY <1>2, <1>3, <1>4, RoundKept, Resumed DEF scopeVars, o

LEMMA FetchOKRound ==
  ASSUME RoundInv, ScopeInv, NEW j \in Collected, NEW d \in Domain, FetchOK(j, d)
  PROVE  /\ RoundInv'
         /\ rounds'[j].pc = "stamp" /\ rounds'[j].scope = rounds[j].scope
         /\ rounds'[j].done = rounds[j].done \cup {d} /\ rounds'[j].overlap = rounds[j].overlap
         /\ \A i \in RoundJobs \ {j} : rounds'[i] = rounds[i]
         /\ d \in rounds[j].scope /\ rounds[j].pc # "idle"
<1> DEFINE r == [rounds[j] EXCEPT !.pc = "stamp", !.current = {d}, !.active = @ \ {d},
                                  !.done = @ \cup {d}]
<1>1. rounds[j] \in Round /\ j \in RoundJobs /\ Accounted(rounds[j]) /\ rounds[j].pc = "fetch" /\ d \in rounds[j].active
  BY DEF FetchOK, RoundInv, Collected, RoundJobs, RoundAt
<1>2. r \in Round /\ r.pc = "stamp" /\ r.scope = rounds[j].scope /\ r.done = rounds[j].done \cup {d}
      /\ r.active = rounds[j].active \ {d} /\ r.failed = rounds[j].failed /\ r.todo = rounds[j].todo
      /\ r.overlap = rounds[j].overlap
  BY <1>1 DEF Round, Pcs
<1>3. Continue(j, r) /\ UNCHANGED catalog
  BY DEF FetchOK, scopeVars
<1> HIDE DEF r
<1>4. Accounted(r)
  BY <1>1, <1>2 DEF Accounted
<1>5. d \in rounds[j].scope
  BY <1>1 DEF Accounted
<1> QED
  BY <1>1, <1>2, <1>3, <1>4, <1>5, RoundKept, Resumed

\* A step within a round that leaves its scope and what it has done alone.
Steady(j) ==
  /\ RoundInv'
  /\ rounds[j].pc # "idle" /\ rounds'[j].pc # "idle"
  /\ rounds'[j].scope = rounds[j].scope /\ rounds'[j].done = rounds[j].done
  /\ rounds'[j].overlap = rounds[j].overlap
  /\ \A i \in RoundJobs \ {j} : rounds'[i] = rounds[i]

LEMMA SteadyRound ==
  ASSUME RoundInv, ScopeInv, NEW j \in Collected, NEW r \in Round, Continue(j, r), UNCHANGED catalog,
         Accounted(r), r.pc # "idle", rounds[j].pc # "idle",
         r.scope = rounds[j].scope, r.done = rounds[j].done, r.overlap = rounds[j].overlap
  PROVE  Steady(j)
<1>1. j \in RoundJobs
  BY DEF Collected, RoundJobs
<1> QED
  BY <1>1, RoundKept, Resumed DEF Steady

LEMMA StampRound ==
  ASSUME RoundInv, ScopeInv, NEW j \in Collected, NEW d \in Domain, Stamp(j, d)
  PROVE  Steady(j)
<1> DEFINE r == [rounds[j] EXCEPT !.pc = "fetch", !.current = {}]
<1>1. rounds[j] \in Round /\ Accounted(rounds[j]) /\ rounds[j].pc = "stamp"
  BY DEF Stamp, RoundInv, Collected, RoundJobs, RoundAt
<1>2. r \in Round /\ r.pc = "fetch" /\ r.scope = rounds[j].scope /\ r.done = rounds[j].done
      /\ r.active = rounds[j].active /\ r.failed = rounds[j].failed /\ r.todo = rounds[j].todo
      /\ r.overlap = rounds[j].overlap
  BY <1>1 DEF Round, Pcs
<1>3. Continue(j, r) /\ UNCHANGED catalog
  BY DEF Stamp, scopeVars
<1> HIDE DEF r
<1>4. Accounted(r)
  BY <1>1, <1>2 DEF Accounted
<1> QED
  BY <1>1, <1>2, <1>3, <1>4, SteadyRound

LEMMA FetchFailRound ==
  ASSUME RoundInv, ScopeInv, NEW j \in Collected, NEW d \in Domain, NEW invalid \in BOOLEAN,
         FetchFail(j, d, invalid)
  PROVE  Steady(j)
<1> DEFINE r == [rounds[j] EXCEPT !.active = @ \ {d}, !.failed = @ \cup {d}]
<1>1. rounds[j] \in Round /\ Accounted(rounds[j]) /\ rounds[j].pc = "fetch" /\ d \in rounds[j].active
  BY DEF FetchFail, RoundInv, Collected, RoundJobs, RoundAt
<1>2. r \in Round /\ r.pc = "fetch" /\ r.scope = rounds[j].scope /\ r.done = rounds[j].done
      /\ r.active = rounds[j].active \ {d} /\ r.failed = rounds[j].failed \cup {d}
      /\ r.todo = rounds[j].todo /\ r.overlap = rounds[j].overlap
  BY <1>1 DEF Round, Pcs
<1>3. Continue(j, r) /\ UNCHANGED catalog
  BY DEF FetchFail, scopeVars
<1> HIDE DEF r
<1>4. Accounted(r)
  BY <1>1, <1>2 DEF Accounted
<1> QED
  BY <1>1, <1>2, <1>3, <1>4, SteadyRound

LEMMA EndBatchRound ==
  ASSUME RoundInv, ScopeInv, NEW j \in Collected, EndBatch(j)
  PROVE  Steady(j)
<1> DEFINE r == [rounds[j] EXCEPT !.pc = "next"]
<1>1. rounds[j] \in Round /\ Accounted(rounds[j]) /\ rounds[j].pc = "fetch" /\ rounds[j].active = {}
  BY DEF EndBatch, RoundInv, Collected, RoundJobs, RoundAt
<1>2. r \in Round /\ r.pc = "next" /\ r.scope = rounds[j].scope /\ r.done = rounds[j].done
      /\ r.active = rounds[j].active /\ r.failed = rounds[j].failed /\ r.todo = rounds[j].todo
      /\ r.overlap = rounds[j].overlap
  BY <1>1 DEF Round, Pcs
<1>3. Continue(j, r) /\ UNCHANGED catalog
  BY DEF EndBatch, scopeVars
<1> HIDE DEF r
<1>4. Accounted(r)
  BY <1>1, <1>2 DEF Accounted
<1> QED
  BY <1>1, <1>2, <1>3, <1>4, SteadyRound

LEMMA BatchRound ==
  ASSUME RoundInv, ScopeInv, NEW B \in SUBSET Domain, MonitoringBatch(B)
  PROVE  Steady("monitoring")
<1> DEFINE r0 == rounds["monitoring"]
           r == [r0 EXCEPT !.pc = "fetch", !.todo = @ \ B, !.failed = @ \cup (B \cap bad),
                           !.active = B \ bad]
<1>1. r0 \in Round /\ Accounted(r0) /\ r0.pc = "next" /\ B \subseteq r0.todo
  BY DEF MonitoringBatch, RoundInv, Collected, RoundJobs, RoundAt
<1>2. Continue("monitoring", r) /\ UNCHANGED catalog
  BY DEF MonitoringBatch, scopeVars
<1>3. r \in Round /\ r.pc = "fetch" /\ r.scope = r0.scope /\ r.done = r0.done
      /\ r.active = B \ bad /\ r.failed = r0.failed \cup (B \cap bad)
      /\ r.todo = r0.todo \ B /\ r.overlap = r0.overlap
  BY <1>1 DEF Round, Pcs
<1> HIDE DEF r
<1>4. Accounted(r)
  BY <1>1, <1>3 DEF Accounted
<1> QED
  BY <1>1, <1>2, <1>3, <1>4, SteadyRound DEF Collected

LEMMA AnalyticsRound ==
  ASSUME RoundInv, ScopeInv, NEW d \in Domain, AnalyticsNext(d)
  PROVE  Steady("analytics")
<1> DEFINE r0 == rounds["analytics"]
           skipped == [r0 EXCEPT !.todo = @ \ {d}, !.failed = @ \cup {d}]
           taken == [r0 EXCEPT !.todo = @ \ {d}, !.active = {d}, !.pc = "fetch"]
<1>1. r0 \in Round /\ Accounted(r0) /\ r0.pc = "next" /\ d \in r0.todo
  BY DEF AnalyticsNext, RoundInv, Collected, RoundJobs, RoundAt
<1>2. (Continue("analytics", skipped) \/ Continue("analytics", taken)) /\ UNCHANGED catalog
  BY DEF AnalyticsNext, scopeVars
<1>3. skipped \in Round /\ skipped.pc = "next" /\ skipped.scope = r0.scope /\ skipped.done = r0.done
      /\ skipped.active = r0.active /\ skipped.failed = r0.failed \cup {d}
      /\ skipped.todo = r0.todo \ {d} /\ skipped.overlap = r0.overlap
  BY <1>1 DEF Round, Pcs
<1>4. taken \in Round /\ taken.pc = "fetch" /\ taken.scope = r0.scope /\ taken.done = r0.done
      /\ taken.active = {d} /\ taken.failed = r0.failed
      /\ taken.todo = r0.todo \ {d} /\ taken.overlap = r0.overlap
  BY <1>1 DEF Round, Pcs
<1> HIDE DEF skipped, taken
<1>5. Accounted(skipped) /\ Accounted(taken)
  BY <1>1, <1>3, <1>4 DEF Accounted
<1> QED
  BY <1>1, <1>2, <1>3, <1>4, <1>5, SteadyRound DEF Collected

\* The end of a monitoring round: after the last batch nothing is under way.
LEMMA UsageRound ==
  ASSUME RoundInv, ScopeInv, NEW r0, r0 = rounds["monitoring"],
         (r0.pc = "next" /\ r0.todo = {}) \/ r0.pc \in {"publish", "report"},
         NEW r \in Round, Continue("monitoring", r), UNCHANGED catalog,
         r.pc \in {"publish", "report", "observe"}, r.scope = r0.scope, r.done = r0.done,
         r.failed = r0.failed, r.active = r0.active, r.todo = r0.todo, r.overlap = r0.overlap
  PROVE  Steady("monitoring")
<1>1. r0 \in Round /\ Accounted(r0)
  BY DEF RoundInv, Collected, RoundJobs
<1>2. Accounted(r)
  BY <1>1 DEF Accounted
<1> QED
  BY <1>1, <1>2, SteadyRound DEF Collected

LEMMA UsageRounds ==
  ASSUME RoundInv, ScopeInv,
         \/ \E built \in BOOLEAN : UsageBuild(built)
         \/ \E monthOK \in BOOLEAN : UsagePublish(monthOK)
         \/ UsageReport
  PROVE  Steady("monitoring")
<1> DEFINE r0 == rounds["monitoring"]
<1>1. r0 \in Round
  BY DEF RoundInv, RoundJobs
<1>2. ASSUME NEW pc \in {"publish", "report", "observe"}, NEW err \in BOOLEAN
      PROVE  LET r == [r0 EXCEPT !.pc = pc, !.err = err]
             IN r \in Round /\ r.pc = pc /\ r.scope = r0.scope /\ r.done = r0.done
                /\ r.failed = r0.failed /\ r.active = r0.active /\ r.todo = r0.todo
                /\ r.overlap = r0.overlap
  BY <1>1, <1>2 DEF Round, Pcs
<1>3. ASSUME NEW built \in BOOLEAN, UsageBuild(built) PROVE Steady("monitoring")
  <2> DEFINE pc == IF built THEN "publish" ELSE "report"
             r == [r0 EXCEPT !.pc = pc, !.err = ~built]
  <2>1. Continue("monitoring", r) /\ UNCHANGED catalog /\ r0.pc = "next" /\ r0.todo = {}
    BY <1>3 DEF UsageBuild, RoundAt, scopeVars
  <2>2. pc \in {"publish", "report", "observe"} /\ (~built) \in BOOLEAN
    OBVIOUS
  <2> HIDE DEF pc, r0
  <2> QED BY <1>2, <2>1, <2>2, UsageRound DEF r0
<1>4. ASSUME NEW monthOK \in BOOLEAN, UsagePublish(monthOK) PROVE Steady("monitoring")
  <2>1. PICK err \in BOOLEAN : Continue("monitoring", [r0 EXCEPT !.pc = "report", !.err = err])
    BY <1>4 DEF UsagePublish
  <2>2. UNCHANGED catalog /\ r0.pc = "publish"
    BY <1>4 DEF UsagePublish, RoundAt, scopeVars
  <2> QED BY <1>2, <2>1, <2>2, UsageRound
<1>5. CASE UsageReport
  <2> DEFINE r == [r0 EXCEPT !.pc = "observe"]
  <2>1. Continue("monitoring", r) /\ UNCHANGED catalog /\ r0.pc = "report"
    BY <1>5 DEF UsageReport, RoundAt, scopeVars
  <2>2. r \in Round /\ r.pc = "observe" /\ r.scope = r0.scope /\ r.done = r0.done
        /\ r.failed = r0.failed /\ r.active = r0.active /\ r.todo = r0.todo /\ r.overlap = r0.overlap
    BY <1>1 DEF Round, Pcs
  <2> HIDE DEF r
  <2> QED BY <2>1, <2>2, UsageRound
<1> QED
  BY <1>3, <1>4, <1>5

LEMMA ObservedRound ==
  ASSUME RoundInv, ScopeInv, NEW j \in Collected, ObserveBatch(j)
  PROVE  /\ RoundInv' /\ rounds'[j] = Resting
         /\ \A i \in RoundJobs \ {j} : rounds'[i] = rounds[i]
<1>1. Continue(j, Resting) /\ UNCHANGED catalog /\ j \in RoundJobs
  BY DEF ObserveBatch, scopeVars, Collected, RoundJobs
<1> QED
  BY <1>1, RestingRound, RoundKept, Resumed

\* A step of top_ips leaves the rounds of the other jobs alone.
LEMMA TopIPsRound ==
  ASSUME RoundInv, ScopeInv, TopIPs
  PROVE  RoundInv' /\ \A i \in Collected : rounds'[i] = rounds[i]
<1> DEFINE r0 == rounds["top_ips"]
<1>1. r0 \in Round /\ "top_ips" \in RoundJobs /\ "top_ips" \notin Collected
      /\ Collected \subseteq RoundJobs \ {"top_ips"}
  BY DEF RoundInv, RoundJobs, Collected
<1>2. ASSUME NEW r \in Round, Continue("top_ips", r), UNCHANGED catalog
      PROVE  RoundInv' /\ \A i \in Collected : rounds'[i] = rounds[i]
  BY <1>1, <1>2, RoundKept, Resumed
<1>3. CASE Begin("top_ips")
  BY <1>1, <1>3, BeginRound
<1>4. ASSUME NEW ok \in BOOLEAN, TopIPsFetch(ok)
      PROVE  RoundInv' /\ \A i \in Collected : rounds'[i] = rounds[i]
  <2> DEFINE pc == IF ok THEN "publish" ELSE "observe"
             r == [r0 EXCEPT !.pc = pc, !.err = ~ok]
  <2>1. Continue("top_ips", r) /\ UNCHANGED catalog
    BY <1>4 DEF TopIPsFetch, scopeVars
  <2>2. pc \in Pcs /\ (~ok) \in BOOLEAN
    BY DEF Pcs
  <2> HIDE DEF pc, r0
  <2>3. r \in Round
    BY <1>1, <2>2 DEF Round
  <2> QED BY <1>2, <2>1, <2>3
<1>5. CASE TopIPsPublish
  <2>1. PICK r \in {[r0 EXCEPT !.pc = "observe"], [r0 EXCEPT !.pc = "observe", !.err = TRUE]} :
           Continue("top_ips", r)
    BY <1>5 DEF TopIPsPublish
  <2>2. UNCHANGED catalog
    BY <1>5 DEF TopIPsPublish, scopeVars
  <2> HIDE DEF r0
  <2>3. r \in Round
    BY <1>1, <2>1 DEF Round, Pcs
  <2> QED BY <1>2, <2>1, <2>2, <2>3
<1>6. CASE TopIPsObserve
  <2>1. Continue("top_ips", Resting) /\ UNCHANGED catalog
    BY <1>6 DEF TopIPsObserve, scopeVars
  <2> QED BY <1>2, <2>1, RestingRound
<1> QED
  BY <1>3, <1>4, <1>5, <1>6 DEF TopIPs

LEMMA ListedRounds ==
  ASSUME RoundInv, ScopeInv, DiscoveryList
  PROVE  /\ RoundInv'
         /\ \A j \in RoundJobs :
              /\ rounds[j].overlap < MaxOverlap
              /\ IF rounds[j].pc = "idle" THEN rounds'[j] = rounds[j]
                 ELSE /\ rounds'[j].pc = rounds[j].pc /\ rounds'[j].scope = rounds[j].scope
                      /\ rounds'[j].done = rounds[j].done
                      /\ rounds'[j].overlap = rounds[j].overlap + 1
<1>1. ASSUME NEW j \in RoundJobs
      PROVE  /\ rounds'[j] \in Round
             /\ rounds[j].overlap < MaxOverlap
             /\ j \in Collected => Accounted(rounds'[j]) /\ (rounds'[j].pc = "idle" => rounds'[j] = Resting)
             /\ IF rounds[j].pc = "idle" THEN rounds'[j] = rounds[j]
                ELSE /\ rounds'[j].pc = rounds[j].pc /\ rounds'[j].scope = rounds[j].scope
                     /\ rounds'[j].done = rounds[j].done
                     /\ rounds'[j].overlap = rounds[j].overlap + 1
  <2> DEFINE r == [rounds[j] EXCEPT !.overlap = @ + 1]
  <2>1. rounds[j] \in Round /\ rounds[j].overlap < MaxOverlap
    BY DEF RoundInv, DiscoveryList
  <2>2. rounds'[j] = IF rounds[j].pc = "idle" THEN rounds[j] ELSE r
    BY DEF DiscoveryList
  <2>3. r \in Round /\ r.pc = rounds[j].pc /\ r.scope = rounds[j].scope /\ r.done = rounds[j].done
        /\ r.failed = rounds[j].failed /\ r.active = rounds[j].active /\ r.todo = rounds[j].todo
        /\ r.overlap = rounds[j].overlap + 1
    BY <2>1 DEF Round
  <2> HIDE DEF r
  <2>4. j \in Collected => Accounted(r) /\ Accounted(rounds[j])
    BY <2>3 DEF Accounted, RoundInv
  <2> QED
    BY <2>1, <2>2, <2>3, <2>4 DEF RoundInv
<1>2. DOMAIN rounds' = RoundJobs /\ UNCHANGED catalog
  BY DEF DiscoveryList, scopeVars
<1>3. rounds' = [j \in RoundJobs |-> rounds'[j]]
  BY DEF DiscoveryList
<1>4. rounds' \in [RoundJobs -> Round]
  BY <1>1, <1>3
<1>5. Collected \subseteq RoundJobs
  BY DEF Collected, RoundJobs
<1> QED
  BY <1>1, <1>2, <1>4, <1>5 DEF RoundInv

-----------------------------------------------------------------------------
\* What a step of the collection goroutines is to the job j: nothing, the begin
\* of a round, an answer that is stored, a step without a stored answer, or the
\* end of the round.
Begun(j) ==
  /\ rounds'[j].pc = "next" /\ rounds'[j].scope = catalog /\ rounds'[j].done = {}
  /\ rounds'[j].overlap = IF At("idle") THEN 0 ELSE 1
  /\ stores'[j] = stores[j] /\ health'[j] = health[j]

Fetched(j) ==
  /\ rounds[j].pc # "idle" /\ rounds'[j].pc = "stamp" /\ rounds'[j].scope = rounds[j].scope
  /\ rounds'[j].overlap = rounds[j].overlap
  /\ \E d \in rounds[j].scope :
        /\ rounds'[j].done = rounds[j].done \cup {d}
        /\ stores'[j] = Snap!Publish(stores[j], d, Data)
  /\ health'[j] = health[j]

Within(j) ==
  /\ Steady(j) /\ stores'[j] = stores[j]
  /\ health'[j].configured = health[j].configured /\ health'[j].ok = health[j].ok

Ended(j) ==
  /\ rounds'[j] = Resting /\ stores'[j] = stores[j]
  /\ health'[j].configured = health[j].configured
  /\ health'[j].ok \subseteq health[j].ok \cup (rounds[j].done \cap health[j].configured)
  /\ rounds[j].pc # "idle"

Idled(j) == rounds'[j] = rounds[j] /\ stores'[j] = stores[j] /\ health'[j] = health[j]

ResourceStore == [managed : BOOLEAN, active : SUBSET Domain, values : [Domain -> SUBSET {Data}]]

Maps ==
  /\ stores \in [Collected -> ResourceStore]
  /\ health = [j \in Collected |-> health[j]]

LEMMA StampKeeps ==
  ASSUME NEW h, NEW d \in Domain, NEW h1 \in Tele!SetResourceDataTimestamp(h, d, Now)
  PROVE  h1.configured = h.configured /\ h1.ok = h.ok
BY DEF Tele!SetResourceDataTimestamp

LEMMA ObserveKeeps ==
  ASSUME NEW h, NEW good, NEW bad0, NEW h1 \in Tele!ObserveResults(h, good, bad0, Now)
  PROVE  h1.configured = h.configured /\ h1.ok \subseteq h.ok \cup (good \cap h.configured)
BY DEF Tele!ObserveResults

LEMMA ReplaceMeans ==
  ASSUME NEW h, NEW S, NEW h1 \in Tele!ReplaceResources(h, S)
  PROVE  h1.configured = S /\ h1.ok = h.ok \cap S
BY DEF Tele!ReplaceResources

LEMMA Published ==
  ASSUME NEW s \in ResourceStore,
         NEW d \in Domain
  PROVE  LET p == Snap!Publish(s, d, Data)
         IN /\ p \in ResourceStore
            /\ p.managed = s.managed /\ p.active = s.active
            /\ Snap!Held(p) = IF s.managed /\ d \notin s.active THEN Snap!Held(s)
                              ELSE Snap!Held(s) \cup {d}
BY DEF ResourceStore, Snap!Publish, Snap!Held

LEMMA Retained ==
  ASSUME NEW s \in ResourceStore,
         NEW L \in SUBSET Domain
  PROVE  LET p == Snap!Retain(s, L)
         IN /\ p \in ResourceStore
            /\ p.managed = TRUE /\ p.active = L
            /\ Snap!Held(p) = Snap!Held(s) \cap L
BY DEF ResourceStore, Snap!Retain, Snap!Held

Step(j) == Begun(j) \/ Fetched(j) \/ Within(j) \/ Ended(j) \/ Idled(j)

Untouched == UNCHANGED <<catalog, inventory, discovery>>

\* Every step of Collection is one of these to each job.
LEMMA CollectionSteps ==
  ASSUME RoundInv, ScopeInv, Maps, Collection
  PROVE  RoundInv' /\ Maps' /\ Untouched /\ \A j \in Collected : Step(j)
<1> USE DEF Step, Untouched
<1>0. Collected \subseteq RoundJobs
  BY DEF Collected, RoundJobs
<1>1. ASSUME NEW j \in Collected, NEW d \in Domain, FetchOK(j, d)
      PROVE  RoundInv' /\ Maps' /\ Untouched /\ \A i \in Collected : Step(i)
  <2>1. /\ stores' = [stores EXCEPT ![j] = Snap!Publish(@, d, Data)]
        /\ UNCHANGED <<catalog, inventory, discovery, health>>
    BY <1>1 DEF FetchOK, scopeVars, metricVars
  <2>2. Snap!Publish(stores[j], d, Data)
           \in ResourceStore
    BY Published DEF Maps
  <2>3. Maps'
    BY <2>1, <2>2 DEF Maps
  <2>4. Fetched(j)
    BY <1>1, <2>1, FetchOKRound DEF Fetched, Maps
  <2>5. \A i \in Collected \ {j} : Idled(i)
    BY <1>0, <1>1, <2>1, FetchOKRound DEF Idled, Maps
  <2> QED BY <1>1, <2>1, <2>3, <2>4, <2>5, FetchOKRound
<1>2. ASSUME NEW j \in Collected, NEW d \in Domain, Stamp(j, d)
      PROVE  RoundInv' /\ Maps' /\ Untouched /\ \A i \in Collected : Step(i)
  <2>1. PICK h \in Tele!SetResourceDataTimestamp(health[j], d, Now) :
           health' = [health EXCEPT ![j] = h]
    BY <1>2 DEF Stamp
  <2>2. UNCHANGED <<catalog, inventory, discovery, stores>>
    BY <1>2 DEF Stamp, scopeVars, storeVars
  <2>3. Steady(j)
    BY <1>2, StampRound
  <2>4. health'[j] = h /\ (\A i \in Collected \ {j} : health'[i] = health[i]) /\ Maps'
    BY <2>1, <2>2 DEF Maps
  <2>5. Within(j)
    BY <2>1, <2>2, <2>3, <2>4, StampKeeps DEF Within
  <2>6. \A i \in Collected \ {j} : Idled(i)
    BY <1>0, <2>2, <2>3, <2>4 DEF Idled, Steady
  <2> QED BY <2>2, <2>3, <2>4, <2>5, <2>6 DEF Steady
<1>3. ASSUME NEW j \in Collected, ObserveBatch(j), rounds[j].pc # "idle"
      PROVE  RoundInv' /\ Maps' /\ Untouched /\ \A i \in Collected : Step(i)
  <2>1. PICK h \in Tele!ObserveResults(health[j], rounds[j].done, rounds[j].failed, Now) :
           health' = [health EXCEPT ![j] = h]
    BY <1>3 DEF ObserveBatch
  <2>2. UNCHANGED <<catalog, inventory, discovery, stores>>
    BY <1>3 DEF ObserveBatch, scopeVars, storeVars
  <2>3. health'[j] = h /\ (\A i \in Collected \ {j} : health'[i] = health[i]) /\ Maps'
    BY <2>1, <2>2 DEF Maps
  <2>4. Ended(j)
    BY <1>3, <2>1, <2>2, <2>3, ObserveKeeps, ObservedRound DEF Ended
  <2>5. \A i \in Collected \ {j} : Idled(i)
    BY <1>0, <1>3, <2>2, <2>3, ObservedRound DEF Idled
  <2> QED BY <1>3, <2>2, <2>3, <2>4, <2>5, ObservedRound
<1>4. ASSUME NEW j \in Collected, Begin(j)
      PROVE  RoundInv' /\ Maps' /\ Untouched /\ \A i \in Collected : Step(i)
  <2>1. UNCHANGED <<catalog, inventory, discovery, stores, health>>
    BY <1>4 DEF Begin, scopeVars, storeVars, metricVars
  <2>2. Begun(j) /\ RoundInv' /\ \A i \in Collected \ {j} : Idled(i)
    BY <1>0, <1>4, <2>1, BeginRound DEF Begun, Idled
  <2> QED BY <2>1, <2>2 DEF Maps
<1>5. ASSUME NEW j \in Collected, Steady(j), UNCHANGED <<catalog, inventory, discovery, stores, health>>
      PROVE  RoundInv' /\ Maps' /\ Untouched /\ \A i \in Collected : Step(i)
  BY <1>0, <1>5 DEF Steady, Within, Idled, Maps
<1>6. CASE TopIPs
  <2>1. UNCHANGED <<catalog, inventory, discovery, stores, health>>
    BY <1>6 DEF TopIPs, Begin, TopIPsFetch, TopIPsPublish, TopIPsObserve, scopeVars, storeVars, metricVars
  <2> QED BY <1>6, <2>1, TopIPsRound DEF Idled, Maps
<1>7. CASE Monitoring
  <2>1. ASSUME NEW B \in SUBSET Domain, MonitoringBatch(B) PROVE UNCHANGED <<catalog, inventory, discovery, stores, health>>
    BY <2>1 DEF MonitoringBatch, scopeVars, storeVars, metricVars
  <2>2. ASSUME \/ \E built \in BOOLEAN : UsageBuild(built)
               \/ \E monthOK \in BOOLEAN : UsagePublish(monthOK)
               \/ UsageReport
        PROVE  UNCHANGED <<catalog, inventory, discovery, stores, health>>
    BY <2>2 DEF UsageBuild, UsagePublish, UsageReport, scopeVars, storeVars, metricVars
  <2>3. MonitoringObserve => ObserveBatch("monitoring") /\ rounds["monitoring"].pc # "idle"
    BY DEF MonitoringObserve, RoundAt
  <2>4. "monitoring" \in Collected
    BY DEF Collected
  <2> QED BY <1>3, <1>4, <1>5, <1>7, <2>1, <2>2, <2>3, <2>4, BatchRound, UsageRounds DEF Monitoring
<1>8. CASE Analytics
  <2>1. ASSUME NEW d \in Domain, AnalyticsNext(d) PROVE UNCHANGED <<catalog, inventory, discovery, stores, health>>
    BY <2>1 DEF AnalyticsNext, scopeVars, storeVars, metricVars
  <2>2. AnalyticsObserve => ObserveBatch("analytics") /\ rounds["analytics"].pc # "idle"
    BY DEF AnalyticsObserve, RoundAt
  <2>3. "analytics" \in Collected
    BY DEF Collected
  <2> QED BY <1>3, <1>4, <1>5, <1>8, <2>1, <2>2, <2>3, AnalyticsRound DEF Analytics
<1>9. ASSUME NEW j \in Collected, NEW d \in Domain, NEW invalid \in BOOLEAN, FetchFail(j, d, invalid)
      PROVE  RoundInv' /\ Maps' /\ Untouched /\ \A i \in Collected : Step(i)
  <2>1. UNCHANGED <<catalog, inventory, discovery, stores, health>>
    BY <1>9 DEF FetchFail, scopeVars, storeVars, metricVars
  <2> QED BY <1>5, <1>9, <2>1, FetchFailRound
<1>10. ASSUME NEW j \in Collected, EndBatch(j)
       PROVE  RoundInv' /\ Maps' /\ Untouched /\ \A i \in Collected : Step(i)
  <2>1. UNCHANGED <<catalog, inventory, discovery, stores, health>>
    BY <1>10 DEF EndBatch, scopeVars, storeVars, metricVars
  <2> QED BY <1>5, <1>10, <2>1, EndBatchRound
<1>11. Collected = {"monitoring", "analytics"}
  BY DEF Collected
<1> HIDE DEF Step, Untouched
<1> QED
  BY <1>1, <1>2, <1>6, <1>7, <1>8, <1>9, <1>10, <1>11 DEF Collection

-----------------------------------------------------------------------------
\* Where reconcile has not yet handed its listing to a copy, or is not at work.
BeforeRetain(j) == {"idle", "retain monitoring"} \cup (IF j = "analytics" THEN {"retain analytics"} ELSE {})

BeforeInventory == {"idle", "retain monitoring", "retain analytics", "inventory"}

BeforeHealth(j) ==
  BeforeInventory \cup {"bad domains", "analytics health"}
    \cup (IF j = "monitoring" THEN {"monitoring health"} ELSE {})

\* What a copy that is handed over after these points holds.
Copy(before) == IF discovery.pc \in before THEN catalog ELSE discovery.listing

CopiesOf(j) ==
  /\ stores[j].managed => /\ stores[j].active = Copy(BeforeRetain(j))
                          /\ Snap!Held(stores[j]) \subseteq stores[j].active
  /\ discovery.pc \notin BeforeRetain(j) => stores[j].managed
  /\ inventory # {} => stores[j].managed
  /\ health[j].configured = Copy(BeforeHealth(j))
  /\ health[j].ok \subseteq health[j].configured

CopiesInv ==
  /\ Maps
  /\ inventory \subseteq {Copy(BeforeInventory)}
  /\ discovery.pc = "observe" => catalog = discovery.listing
  /\ \A j \in Collected : CopiesOf(j)

Inv == ScopeInv /\ RoundInv /\ CopiesInv

LEMMA CopiesInit == Init => RoundInv /\ CopiesInv
<1> SUFFICES ASSUME Init PROVE RoundInv /\ CopiesInv
  OBVIOUS
<1>1. RoundInv
  BY RestingRound DEF Init, RoundInv, RoundJobs, Collected
<1>2. Maps
  <2>1. Snap!NewResourceStore \in ResourceStore
    BY DEF ResourceStore, Snap!NewResourceStore
  <2>2. stores \in [Collected -> ResourceStore]
    BY <2>1 DEF Init, Collected
  <2>3. health = [j \in Collected |-> health[j]]
    BY DEF Init, Collected
  <2> QED BY <2>2, <2>3 DEF Maps
<1>3. CopiesInv
  BY <1>2 DEF Init, CopiesInv, CopiesOf, Collected, Copy, BeforeInventory, BeforeRetain, BeforeHealth,
              Snap!NewResourceStore, Snap!Held, Tele!NewHealth
<1> QED BY <1>1, <1>3

LEMMA RoundUntouched ==
  ASSUME RoundInv, UNCHANGED <<catalog, rounds>>
  PROVE  RoundInv'
BY DEF RoundInv

LEMMA DiscoveryRounds ==
  ASSUME RoundInv, ScopeInv, Discovery
  PROVE  RoundInv'
<1>1. CASE DiscoveryList
  BY <1>1, ListedRounds
<1>2. CASE DiscoveryReplaceCatalog
  BY <1>2 DEF DiscoveryReplaceCatalog, RoundInv, ScopeInv, Shape
<1>3. CASE ~DiscoveryList /\ ~DiscoveryReplaceCatalog
  BY <1>3, RoundUntouched
  DEF Discovery, DiscoveryFail, DiscoveryRetain, DiscoveryPublishInventory, DiscoveryClearBad,
      DiscoveryReplaceHealth, DiscoveryLock, DiscoveryClear, DiscoveryInitCollector, DiscoveryObserve, scopeVars
<1> QED BY <1>1, <1>2, <1>3

\* A step of the discovery goroutine between two points that differ for no copy.
LEMMA CopiesGoto ==
  ASSUME CopiesInv, ScopeInv, NEW pc, Goto(pc), pc # "observe" /\ pc # "idle", discovery.pc # "idle",
         \A j \in Collected : /\ pc \in BeforeRetain(j) <=> discovery.pc \in BeforeRetain(j)
                              /\ pc \in BeforeHealth(j) <=> discovery.pc \in BeforeHealth(j),
         pc \in BeforeInventory <=> discovery.pc \in BeforeInventory,
         UNCHANGED <<catalog, inventory, stores, health>>
  PROVE  CopiesInv'
<1>1. discovery'.pc = pc /\ discovery'.listing = discovery.listing
  BY DEF Goto, ScopeInv, Shape
<1>2. ASSUME NEW j \in Collected PROVE CopiesOf(j)'
  BY <1>1 DEF CopiesInv, CopiesOf, Copy, BeforeRetain, BeforeHealth, Snap!Held
<1> QED
  BY <1>1, <1>2 DEF CopiesInv, Maps, Copy, BeforeInventory

LEMMA RetainCopies ==
  ASSUME CopiesInv, ScopeInv, NEW job \in Collected,
         NEW pc, NEW next, DiscoveryRetain(job, pc, next),
         \/ (job = "monitoring" /\ pc = "retain monitoring" /\ next = "retain analytics")
         \/ (job = "analytics" /\ pc = "retain analytics" /\ next = "inventory")
  PROVE  /\ CopiesInv'
         /\ Snap!Held(stores'[job]) = Snap!Held(stores[job]) \cap discovery.listing
         /\ \A j \in Collected \ {job} : stores'[j] = stores[j]
<1>1. /\ discovery.pc = pc /\ discovery'.pc = next /\ discovery'.listing = discovery.listing
      /\ discovery.listing \in SUBSET Domain
  BY DEF DiscoveryRetain, At, Goto, ScopeInv, Shape
<1>2. UNCHANGED <<catalog, inventory, health>>
  BY DEF DiscoveryRetain, scopeVars, metricVars
<1>3. /\ stores'[job] = Snap!Retain(stores[job], discovery.listing)
      /\ \A j \in Collected \ {job} : stores'[j] = stores[j]
      /\ DOMAIN stores' = Collected /\ stores' = [j \in Collected |-> stores'[j]]
  BY DEF DiscoveryRetain, CopiesInv, Maps
<1>4. /\ stores'[job].managed = TRUE /\ stores'[job].active = discovery.listing
      /\ Snap!Held(stores'[job]) = Snap!Held(stores[job]) \cap discovery.listing
      /\ stores'[job] \in ResourceStore
  <2>1. stores[job] \in ResourceStore
    BY DEF CopiesInv, Maps
  <2>2. LET p == Snap!Retain(stores[job], discovery.listing)
        IN /\ p \in ResourceStore
           /\ p.managed = TRUE /\ p.active = discovery.listing
           /\ Snap!Held(p) = Snap!Held(stores[job]) \cap discovery.listing
    BY <1>1, <2>1, Retained
  <2> QED BY <1>3, <2>2 DEF Snap!Held
<1>5. Maps'
  BY <1>2, <1>3, <1>4 DEF CopiesInv, Maps
<1>6. ASSUME NEW j \in Collected PROVE CopiesOf(j)'
  <2>1. CASE j = job
    BY <1>1, <1>2, <1>4, <2>1 DEF CopiesInv, CopiesOf, Copy, BeforeRetain, BeforeHealth, BeforeInventory, Snap!Held
  <2>2. CASE j # job
    BY <1>1, <1>2, <1>3, <2>2
    DEF CopiesInv, CopiesOf, Copy, BeforeRetain, BeforeHealth, BeforeInventory, Collected, Snap!Held
  <2> QED BY <2>1, <2>2
<1>7. CopiesInv'
  BY <1>1, <1>2, <1>5, <1>6 DEF CopiesInv, Copy, BeforeInventory
<1> QED BY <1>3, <1>4, <1>7

LEMMA HealthCopies ==
  ASSUME CopiesInv, ScopeInv, NEW job \in Collected,
         NEW pc, NEW next, DiscoveryReplaceHealth(job, pc, next),
         \/ (job = "monitoring" /\ pc = "monitoring health" /\ next = "lock")
         \/ (job = "analytics" /\ pc = "analytics health" /\ next = "monitoring health")
  PROVE  /\ CopiesInv'
         /\ health'[job].ok = health[job].ok \cap discovery.listing
         /\ \A j \in Collected \ {job} : health'[j] = health[j]
<1>1. /\ discovery.pc = pc /\ discovery'.pc = next /\ discovery'.listing = discovery.listing
  BY DEF DiscoveryReplaceHealth, At, Goto, ScopeInv, Shape
<1>2. UNCHANGED <<catalog, inventory, stores>>
  BY DEF DiscoveryReplaceHealth, scopeVars, storeVars
<1>3. PICK h \in Tele!ReplaceResources(health[job], discovery.listing) :
         health' = [health EXCEPT ![job] = h]
  BY DEF DiscoveryReplaceHealth
<1>4. /\ health'[job] = h /\ \A j \in Collected \ {job} : health'[j] = health[j]
      /\ health' = [j \in Collected |-> health'[j]]
  BY <1>3 DEF CopiesInv, Maps
<1>5. health'[job].configured = discovery.listing /\ health'[job].ok = health[job].ok \cap discovery.listing
  <2>1. h \in Tele!ReplaceResources(health[job], discovery.listing)
    BY <1>3
  <2>2. h.configured = discovery.listing /\ h.ok = health[job].ok \cap discovery.listing
    BY <2>1, ReplaceMeans
  <2> QED BY <1>4, <2>2
<1>6. ASSUME NEW j \in Collected PROVE CopiesOf(j)'
  <2>1. CASE j = job
    BY <1>1, <1>2, <1>5, <2>1 DEF CopiesInv, CopiesOf, Copy, BeforeRetain, BeforeHealth, BeforeInventory, Snap!Held
  <2>2. CASE j # job
    <3>1. stores'[j] = stores[j] /\ health'[j] = health[j] /\ UNCHANGED <<catalog, inventory>>
      BY <1>2, <1>4, <2>2
    <3>2. \/ (job = "monitoring" /\ j = "analytics" /\ pc = "monitoring health" /\ next = "lock")
          \/ (job = "analytics" /\ j = "monitoring" /\ pc = "analytics health" /\ next = "monitoring health")
      BY <2>2 DEF Collected
    <3> QED
      BY <1>1, <3>1, <3>2
      DEF CopiesInv, CopiesOf, Copy, BeforeRetain, BeforeHealth, BeforeInventory, Snap!Held
  <2> QED BY <2>1, <2>2
<1>7. CopiesInv'
  BY <1>1, <1>2, <1>4, <1>6 DEF CopiesInv, Maps, Copy, BeforeInventory
<1> QED BY <1>4, <1>5, <1>7

LEMMA DiscoveryCopies ==
  ASSUME CopiesInv, ScopeInv, Discovery
  PROVE  CopiesInv'
<1> USE DEF At, Collected, BeforeRetain, BeforeInventory, BeforeHealth, scopeVars, storeVars, metricVars
<1>1. CASE DiscoveryFail
  BY <1>1 DEF DiscoveryFail, CopiesInv, CopiesOf, Copy, Maps, Snap!Held
<1>2. CASE DiscoveryList
  <2>1. discovery.pc = "idle" /\ discovery'.pc = "retain monitoring"
        /\ UNCHANGED <<catalog, inventory, stores, health>>
    <3>1. PICK l \in Listing : discovery' = [pc |-> "retain monitoring", listing |-> l]
      BY <1>2 DEF DiscoveryList
    <3> QED BY <1>2, <3>1 DEF DiscoveryList
  <2> QED BY <2>1 DEF CopiesInv, CopiesOf, Copy, Maps, Snap!Held
<1>3. CASE DiscoveryRetain("monitoring", "retain monitoring", "retain analytics")
  BY <1>3, RetainCopies
<1>4. CASE DiscoveryRetain("analytics", "retain analytics", "inventory")
  BY <1>4, RetainCopies
<1>5. CASE DiscoveryPublishInventory
  <2>1. /\ discovery.pc = "inventory" /\ discovery'.pc = "bad domains"
        /\ discovery'.listing = discovery.listing /\ inventory' = {discovery.listing}
        /\ UNCHANGED <<catalog, stores, health>>
    BY <1>5 DEF DiscoveryPublishInventory, Goto, ScopeInv, Shape
  <2> QED BY <2>1 DEF CopiesInv, CopiesOf, Copy, Maps, Snap!Held
<1>6. CASE DiscoveryClearBad
  BY <1>6, CopiesGoto DEF DiscoveryClearBad
<1>7. CASE DiscoveryReplaceHealth("analytics", "analytics health", "monitoring health")
  BY <1>7, HealthCopies
<1>8. CASE DiscoveryReplaceHealth("monitoring", "monitoring health", "lock")
  BY <1>8, HealthCopies
<1>9. CASE DiscoveryLock
  BY <1>9, CopiesGoto DEF DiscoveryLock
<1>10. CASE DiscoveryClear("usage", "clear usage", "clear top_ips")
  BY <1>10, CopiesGoto DEF DiscoveryClear
<1>11. CASE DiscoveryClear("top_ips", "clear top_ips", "init usage")
  BY <1>11, CopiesGoto DEF DiscoveryClear
<1>12. CASE DiscoveryInitCollector("usage", "init usage", "init top_ips")
  BY <1>12, CopiesGoto DEF DiscoveryInitCollector
<1>13. CASE DiscoveryInitCollector("top_ips", "init top_ips", "catalog")
  BY <1>13, CopiesGoto DEF DiscoveryInitCollector
<1>14. CASE DiscoveryReplaceCatalog
  <2>1. /\ discovery.pc = "catalog" /\ discovery'.pc = "observe"
        /\ discovery'.listing = discovery.listing /\ catalog' = discovery.listing
        /\ UNCHANGED <<inventory, stores, health>>
    BY <1>14 DEF DiscoveryReplaceCatalog, Goto, ScopeInv, Shape
  <2> QED BY <2>1 DEF CopiesInv, CopiesOf, Copy, Maps, Snap!Held
<1>15. CASE DiscoveryObserve
  <2>1. /\ discovery.pc = "observe" /\ discovery'.pc = "idle"
        /\ UNCHANGED <<catalog, inventory, stores, health>>
    BY <1>15 DEF DiscoveryObserve
  <2> QED BY <2>1 DEF CopiesInv, CopiesOf, Copy, Maps, Snap!Held
<1> QED
  BY <1>1, <1>2, <1>3, <1>4, <1>5, <1>6, <1>7, <1>8, <1>9, <1>10, <1>11, <1>12, <1>13, <1>14,
     <1>15 DEF Discovery

\* An answer that arrives late is dropped, so what a store holds stays among the
\* domains it was last told of.
LEMMA CollectionCopies ==
  ASSUME CopiesInv, Maps', Untouched, NEW j \in Collected, Step(j)
  PROVE  CopiesOf(j)'
<1>1. UNCHANGED <<catalog, inventory, discovery>>
  BY DEF Untouched
<1>2. ASSUME stores'[j] = stores[j], health'[j].configured = health[j].configured,
             health'[j].ok \subseteq health[j].configured
      PROVE  CopiesOf(j)'
  BY <1>1, <1>2 DEF CopiesInv, CopiesOf, Copy, Snap!Held
<1>3. CASE Fetched(j)
  <2>1. PICK d \in rounds[j].scope : stores'[j] = Snap!Publish(stores[j], d, Data)
    BY <1>3 DEF Fetched
  <2>2. stores[j] \in ResourceStore
    BY DEF CopiesInv, Maps
  <2>3. /\ stores'[j].managed = stores[j].managed /\ stores'[j].active = stores[j].active
        /\ stores[j].managed /\ Snap!Held(stores[j]) \subseteq stores[j].active
              => Snap!Held(stores'[j]) \subseteq stores[j].active
    BY <2>1, <2>2 DEF Snap!Publish, Snap!Held
  <2> QED
    BY <1>1, <1>3, <2>3 DEF Fetched, CopiesInv, CopiesOf, Copy, Snap!Held
<1>4. CASE Begun(j) \/ Within(j) \/ Ended(j) \/ Idled(j)
  BY <1>2, <1>4 DEF Begun, Within, Ended, Idled, CopiesInv, CopiesOf
<1> QED BY <1>3, <1>4 DEF Step

LEMMA CollectionInv ==
  ASSUME CopiesInv, RoundInv, ScopeInv, Collection
  PROVE  CopiesInv' /\ RoundInv'
<1>1. RoundInv' /\ Maps' /\ Untouched /\ \A j \in Collected : Step(j)
  BY CollectionSteps DEF CopiesInv
<1>2. \A j \in Collected : CopiesOf(j)'
  BY <1>1, CollectionCopies
<1> QED
  BY <1>1, <1>2 DEF CopiesInv, Untouched, Copy

LEMMA ScrapeUntouched ==
  ASSUME Scrape
  PROVE  UNCHANGED <<scopeVars, storeVars, bad, metricVars, discovery, rounds>>
BY DEF Scrape, ScrapeTopIPs, ScrapeInventory, ScrapeDomains, ScrapeUsage, ScrapeEnd, Load

LEMMA InvUntouched ==
  ASSUME CopiesInv, RoundInv, UNCHANGED <<catalog, inventory, stores, health, discovery, rounds>>
  PROVE  CopiesInv' /\ RoundInv'
BY RoundUntouched DEF CopiesInv, Maps, CopiesOf, Copy, Snap!Held

\* At every point of reconcile each copy is of the old or of the new listing.
THEOREM CopiesInvariant == Spec => [](RoundInv /\ CopiesInv)
<1>1. ScopeInv /\ RoundInv /\ CopiesInv /\ [Next]_vars => (RoundInv /\ CopiesInv)'
  <2> SUFFICES ASSUME ScopeInv, RoundInv, CopiesInv, [Next]_vars PROVE RoundInv' /\ CopiesInv'
    OBVIOUS
  <2>1. CASE Discovery
    BY <2>1, DiscoveryRounds, DiscoveryCopies
  <2>2. CASE Collection
    BY <2>2, CollectionInv
  <2>3. CASE Scrape
    BY <2>3, ScrapeUntouched, InvUntouched DEF scopeVars, storeVars, metricVars
  <2>4. CASE UNCHANGED vars
    BY <2>4, InvUntouched DEF vars
  <2> QED BY <2>1, <2>2, <2>3, <2>4 DEF Next
<1> QED
  BY <1>1, CopiesInit, ScopeInvariant, PTL DEF Spec

-----------------------------------------------------------------------------
(* A complete usage snapshot *)

ShownInv == \A u \in shown.usage : u.complete => u.covered = u.scope

LEMMA ShownUntouched == ShownInv /\ UNCHANGED shown => ShownInv'
BY DEF ShownInv

\* What a round publishes as complete has every domain of its scope: by then
\* each is done or failed.
LEMMA ShownPublish ==
  ASSUME ShownInv, RoundInv, ScopeInv, NEW monthOK, UsagePublish(monthOK)
  PROVE  ShownInv'
<1> DEFINE r == rounds["monitoring"]
<1>1. r \in Round /\ Accounted(r) /\ r.pc = "publish"
  BY DEF RoundInv, Collected, RoundJobs, UsagePublish, RoundAt
<1>2. r.failed = {} => r.done = r.scope
  BY <1>1 DEF Accounted
<1>3. UsageSnapshot(r).complete => UsageSnapshot(r).covered = UsageSnapshot(r).scope
  BY <1>2 DEF UsageSnapshot
<1>4. shown'.usage = shown.usage \/ shown'.usage = {UsageSnapshot(r)}
  BY DEF UsagePublish, ScopeInv, Shape
<1> QED
  BY <1>3, <1>4 DEF ShownInv

\* No domain is left out of an account total that is shown as complete.
THEOREM CompleteIsWhole == Spec => []CompleteCoversScope
<1>1. Init => ShownInv
  BY DEF Init, ShownInv
<1>2. ShownInv /\ RoundInv /\ ScopeInv /\ [Next]_vars => ShownInv'
  <2> SUFFICES ASSUME ShownInv, RoundInv, ScopeInv, [Next]_vars PROVE ShownInv'
    OBVIOUS
  <2>1. CASE Discovery
    <3>1. shown'.usage = shown.usage \/ shown'.usage = {}
      BY <2>1, DiscoveryScopes DEF ScopeInv, Shape
    <3> QED BY <3>1 DEF ShownInv
  <2>2. CASE \E monthOK \in BOOLEAN : UsagePublish(monthOK)
    BY <2>2, ShownPublish
  <2>3. CASE TopIPsPublish
    BY <2>3 DEF TopIPsPublish, ScopeInv, Shape, ShownInv
  <2>4. CASE /\ Collection \/ Scrape
             /\ ~TopIPsPublish
             /\ ~\E monthOK \in BOOLEAN : UsagePublish(monthOK)
    BY <2>4, OtherSteps, ShownUntouched DEF OtherUntouched
  <2>5. CASE UNCHANGED vars
    BY <2>5, ShownUntouched DEF vars
  <2> QED BY <2>1, <2>2, <2>3, <2>4, <2>5 DEF Next
<1>3. ShownInv /\ ScopeInv => CompleteCoversScope
  BY DEF ShownInv, ScopeInv, ScopesCurrent, Scopes, CompleteCoversScope
<1> QED
  BY <1>1, <1>2, <1>3, CopiesInvariant, ScopeInvariant, PTL DEF Spec

-----------------------------------------------------------------------------
(* A scrape that no discovery overlaps *)

ScrapeInv ==
  /\ DOMAIN scrape = {"pc", "inventory", "domains", "scopes", "quiet"}
  /\ scrape.pc # "idle" /\ scrape.quiet =>
       /\ discovery.pc = "idle"
       /\ scrape.scopes \subseteq {catalog}
       /\ scrape.pc = "inventory" => scrape.domains = {}
       /\ scrape.pc # "inventory" => scrape.inventory = inventory
       /\ inventory # {} => scrape.domains \subseteq catalog

LEMMA ScrapeSteps ==
  ASSUME ScrapeInv, CopiesInv, ScopeInv, Scrape
  PROVE  ScrapeInv'
<1>1. UNCHANGED <<catalog, inventory, discovery, stores, shown>>
  BY ScrapeUntouched DEF scopeVars, storeVars
<1>2. Scopes("usage") \subseteq {catalog} /\ Scopes("top_ips") \subseteq {catalog}
  BY DEF ScopeInv, ScopesCurrent
<1>3. ASSUME NEW j \in Collected, discovery.pc = "idle", inventory # {}
      PROVE  Snap!Held(stores[j]) \subseteq catalog
  BY <1>3 DEF CopiesInv, CopiesOf, Copy, BeforeRetain
<1>4. CASE ScrapeTopIPs
  BY <1>1, <1>2, <1>4 DEF ScrapeTopIPs, Load, NoScrape, At, ScrapeInv
<1>5. CASE ScrapeInventory
  BY <1>1, <1>5 DEF ScrapeInventory, Load, ScrapeInv
<1>6. CASE ScrapeDomains("monitoring", "analytics")
  BY <1>1, <1>3, <1>6 DEF ScrapeDomains, Load, ScrapeInv, Collected
<1>7. CASE ScrapeDomains("analytics", "usage")
  BY <1>1, <1>3, <1>7 DEF ScrapeDomains, Load, ScrapeInv, Collected
<1>8. CASE ScrapeUsage
  BY <1>1, <1>2, <1>8 DEF ScrapeUsage, Load, ScrapeInv
<1>9. CASE ScrapeEnd
  BY <1>1, <1>9 DEF ScrapeEnd, Load, NoScrape, ScrapeInv
<1> QED BY <1>4, <1>5, <1>6, <1>7, <1>8, <1>9 DEF Scrape

LEMMA ScrapeDiscovery ==
  ASSUME ScrapeInv, Discovery
  PROVE  ScrapeInv'
<1>1. CASE DiscoveryList
  BY <1>1 DEF DiscoveryList, ScrapeInv
<1>2. CASE DiscoveryFail
  BY <1>2 DEF DiscoveryFail, ScrapeInv, scopeVars, storeVars
<1>3. CASE ~DiscoveryList /\ ~DiscoveryFail
  <2>1. discovery.pc # "idle" /\ UNCHANGED scrape
    BY <1>3
    DEF Discovery, DiscoveryRetain, DiscoveryPublishInventory, DiscoveryClearBad, DiscoveryReplaceHealth,
        DiscoveryLock, DiscoveryClear, DiscoveryInitCollector, DiscoveryReplaceCatalog,
        DiscoveryObserve, At
  <2> QED BY <2>1 DEF ScrapeInv
<1> QED BY <1>1, <1>2, <1>3

LEMMA CollectionScrape ==
  ASSUME Collection
  PROVE  UNCHANGED <<catalog, inventory, discovery, scrape>>
<1> USE DEF scopeVars, storeVars
<1>1. CASE Monitoring
  BY <1>1 DEF Monitoring, Begin, MonitoringBatch, UsageBuild, UsagePublish, UsageReport,
              MonitoringObserve, ObserveBatch
<1>2. CASE Analytics
  BY <1>2 DEF Analytics, Begin, AnalyticsNext, AnalyticsObserve, ObserveBatch
<1>3. CASE TopIPs
  BY <1>3 DEF TopIPs, Begin, TopIPsFetch, TopIPsPublish, TopIPsObserve
<1>4. ASSUME NEW j, \/ \E d \in Domain : FetchOK(j, d) \/ Stamp(j, d)
                    \/ \E d \in Domain, invalid \in BOOLEAN : FetchFail(j, d, invalid)
                    \/ EndBatch(j)
      PROVE  UNCHANGED <<catalog, inventory, discovery, scrape>>
  BY <1>4 DEF FetchOK, Stamp, FetchFail, EndBatch
<1> QED BY <1>1, <1>2, <1>3, <1>4 DEF Collection

\* A scrape no discovery overlaps shows the domains and the aggregates of one listing.
THEOREM QuietScrapesAgree == Spec => []QuietScrapeAgrees
<1>1. Init => ScrapeInv
  BY DEF Init, ScrapeInv, NoScrape
<1>2. ScrapeInv /\ CopiesInv /\ ScopeInv /\ [Next]_vars => ScrapeInv'
  <2> SUFFICES ASSUME ScrapeInv, CopiesInv, ScopeInv, [Next]_vars PROVE ScrapeInv'
    OBVIOUS
  <2>1. CASE Discovery
    BY <2>1, ScrapeDiscovery
  <2>2. CASE Collection
    BY <2>2, CollectionScrape DEF ScrapeInv
  <2>3. CASE Scrape
    BY <2>3, ScrapeSteps
  <2>4. CASE UNCHANGED vars
    BY <2>4 DEF vars, ScrapeInv
  <2> QED BY <2>1, <2>2, <2>3, <2>4 DEF Next
<1>3. ScrapeInv /\ CopiesInv => QuietScrapeAgrees
  BY DEF ScrapeInv, CopiesInv, Copy, BeforeInventory, QuietScrapeAgrees
<1> QED
  BY <1>1, <1>2, <1>3, CopiesInvariant, ScopeInvariant, PTL DEF Spec

-----------------------------------------------------------------------------
(* Health and values, of rounds that at most one discovery runs into *)

Listed == Copy({"idle"})

HeldOf(j) ==
  /\ health[j].ok \cap Listed \subseteq Snap!Held(stores[j])
  /\ rounds[j].pc # "idle" =>
       /\ rounds[j].overlap = 0 => discovery.pc = "idle"
       /\ rounds[j].overlap = 0 \/ discovery.pc \in BeforeRetain(j) \ {"idle"} => rounds[j].scope = catalog
       /\ rounds[j].done \cap Listed \subseteq Snap!Held(stores[j])

HeldInv == \A j \in Collected : HeldOf(j)

LEMMA HeldInit == Init => HeldInv
BY DEF Init, HeldInv, HeldOf, Resting, RoundJobs, Collected, Tele!NewHealth

LEMMA CollectionHeld ==
  ASSUME HeldInv, CopiesInv, RoundInv, ScopeInv, Untouched, NEW j \in Collected, Step(j)
  PROVE  HeldOf(j)'
<1>1. UNCHANGED <<catalog, inventory, discovery>> /\ Listed' = Listed
  BY DEF Untouched, Listed, Copy
<1>2. HeldOf(j) /\ CopiesOf(j) /\ Accounted(rounds[j]) /\ rounds[j].done \subseteq Domain
  <2>1. rounds[j] \in Round
    BY DEF RoundInv, Collected, RoundJobs
  <2> QED BY <2>1 DEF HeldInv, CopiesInv, RoundInv, Round
<1>3. CASE Begun(j)
  <2>1. Snap!Held(stores'[j]) = Snap!Held(stores[j]) /\ health'[j].ok = health[j].ok
    BY <1>3 DEF Begun, Snap!Held
  <2>2. rounds'[j].overlap = 0 => discovery.pc = "idle"
    BY <1>3 DEF Begun, At
  <2>3. rounds'[j].scope = catalog /\ rounds'[j].done = {}
    BY <1>3 DEF Begun
  <2> QED BY <1>1, <1>2, <2>1, <2>2, <2>3 DEF HeldOf
<1>4. CASE Fetched(j)
  <2>1. PICK d \in rounds[j].scope : /\ rounds'[j].done = rounds[j].done \cup {d}
                                     /\ stores'[j] = Snap!Publish(stores[j], d, Data)
    BY <1>4 DEF Fetched
  <2>2. stores[j] \in ResourceStore
    BY DEF CopiesInv, Maps
  <2>3. d \in Domain
    BY DEF RoundInv, Collected, RoundJobs, Round
  <2>4. LET p == Snap!Publish(stores[j], d, Data)
        IN Snap!Held(p) = IF stores[j].managed /\ d \notin stores[j].active THEN Snap!Held(stores[j])
                          ELSE Snap!Held(stores[j]) \cup {d}
    BY <2>2, <2>3, Published
  <2>5. Snap!Held(stores'[j]) = IF stores[j].managed /\ d \notin stores[j].active THEN Snap!Held(stores[j])
                                ELSE Snap!Held(stores[j]) \cup {d}
    BY <2>1, <2>4 DEF Snap!Held
  <2>6. stores[j].managed /\ d \notin stores[j].active => d \notin Listed
    BY <1>2, <1>4 DEF Fetched, CopiesOf, HeldOf, Listed, Copy, BeforeRetain
  <2>7. rounds'[j].done \cap Listed \subseteq Snap!Held(stores'[j])
    BY <1>2, <1>4, <2>1, <2>5, <2>6 DEF Fetched, HeldOf
  <2>8. health'[j].ok \cap Listed \subseteq Snap!Held(stores'[j])
    BY <1>2, <1>4, <2>5 DEF Fetched, HeldOf
  <2> QED BY <1>1, <1>2, <1>4, <2>7, <2>8 DEF Fetched, HeldOf
<1>5. CASE Within(j)
  BY <1>1, <1>2, <1>5 DEF Within, Steady, HeldOf, Snap!Held
<1>6. CASE Ended(j)
  BY <1>1, <1>2, <1>6 DEF Ended, Resting, HeldOf, Snap!Held
<1>7. CASE Idled(j)
  BY <1>1, <1>2, <1>7 DEF Idled, HeldOf, Snap!Held
<1> QED BY <1>3, <1>4, <1>5, <1>6, <1>7 DEF Step

\* A step of the discovery goroutine after its listing that leaves values and health alone.
LEMMA HeldGoto ==
  ASSUME HeldInv, discovery.pc # "idle", discovery'.pc # "idle", discovery'.listing = discovery.listing,
         \A j \in Collected : discovery'.pc \in BeforeRetain(j) => discovery.pc \in BeforeRetain(j),
         UNCHANGED <<catalog, stores, health, rounds>>
  PROVE  HeldInv'
BY DEF HeldInv, HeldOf, Listed, Copy, Snap!Held, BeforeRetain

LEMMA DiscoveryHeld ==
  ASSUME MaxOverlap = 1, HeldInv, CopiesInv, RoundInv, ScopeInv, Discovery
  PROVE  HeldInv'
<1> USE DEF At, Collected, BeforeRetain, scopeVars, storeVars, metricVars
<1>1. CASE DiscoveryFail
  BY <1>1 DEF DiscoveryFail, HeldInv, HeldOf, Listed, Copy, Snap!Held
<1>2. CASE DiscoveryList
  <2>1. discovery.pc = "idle" /\ discovery'.pc = "retain monitoring"
        /\ UNCHANGED <<catalog, inventory, stores, health>>
    <3>1. PICK l \in Listing : discovery' = [pc |-> "retain monitoring", listing |-> l]
      BY <1>2 DEF DiscoveryList
    <3> QED BY <1>2, <3>1 DEF DiscoveryList
  <2>2. ASSUME NEW j \in Collected PROVE HeldOf(j)'
    <3>1. rounds[j] \in Round /\ Accounted(rounds[j]) /\ HeldOf(j) /\ CopiesOf(j) /\ j \in RoundJobs
      BY DEF RoundInv, RoundJobs, HeldInv, CopiesInv
    <3>2. health[j].ok \subseteq Snap!Held(stores[j])
      BY <2>1, <3>1 DEF HeldOf, CopiesOf, Listed, Copy, BeforeHealth, BeforeInventory
    <3>3. CASE rounds[j].pc = "idle"
      BY <1>2, <2>1, <3>1, <3>2, <3>3, ListedRounds DEF HeldOf, Snap!Held
    <3>4. CASE rounds[j].pc # "idle"
      <4>1. rounds[j].overlap = 0 /\ rounds'[j].overlap = 1 /\ rounds'[j].scope = rounds[j].scope
            /\ rounds'[j].done = rounds[j].done
        BY <1>2, <3>1, <3>4, ListedRounds DEF Round
      <4>2. rounds[j].done \subseteq catalog /\ rounds[j].scope = catalog
        BY <3>1, <3>4, <4>1 DEF HeldOf, Accounted
      <4>3. rounds[j].done \subseteq Snap!Held(stores[j])
        BY <2>1, <3>1, <3>4, <4>2 DEF HeldOf, Listed, Copy
      <4>4. Snap!Held(stores'[j]) = Snap!Held(stores[j]) /\ health'[j].ok = health[j].ok
        BY <2>1 DEF Snap!Held
      <4>5. rounds'[j].overlap # 0
        BY <4>1
      <4> QED BY <2>1, <3>2, <4>1, <4>2, <4>3, <4>4, <4>5 DEF HeldOf
    <3> QED BY <3>3, <3>4
  <2> QED BY <2>2 DEF HeldInv
<1>3. ASSUME NEW job \in Collected, NEW pc, NEW next, DiscoveryRetain(job, pc, next),
             \/ (job = "monitoring" /\ pc = "retain monitoring" /\ next = "retain analytics")
             \/ (job = "analytics" /\ pc = "retain analytics" /\ next = "inventory")
      PROVE  HeldInv'
  <2>1. /\ Snap!Held(stores'[job]) = Snap!Held(stores[job]) \cap discovery.listing
        /\ \A j \in Collected \ {job} : stores'[j] = stores[j]
    BY <1>3, RetainCopies
  <2>2. /\ discovery.pc = pc /\ discovery'.pc = next /\ discovery'.listing = discovery.listing
        /\ UNCHANGED <<catalog, health, rounds>>
    BY <1>3 DEF DiscoveryRetain, Goto, ScopeInv, Shape
  <2>3. Listed = discovery.listing /\ Listed' = discovery.listing
    BY <1>3, <2>2 DEF Listed, Copy
  <2>4. ASSUME NEW j \in Collected PROVE HeldOf(j)'
    <3>1. Snap!Held(stores'[j]) = Snap!Held(stores[j]) \/ Snap!Held(stores'[j]) = Snap!Held(stores[j]) \cap Listed
      BY <2>1, <2>3 DEF Snap!Held
    <3>2. HeldOf(j)
      BY DEF HeldInv
    <3> QED BY <1>3, <2>2, <2>3, <3>1, <3>2 DEF HeldOf
  <2> QED BY <2>4 DEF HeldInv
<1>4. DiscoveryRetain("monitoring", "retain monitoring", "retain analytics") => HeldInv'
  BY <1>3
<1>5. DiscoveryRetain("analytics", "retain analytics", "inventory") => HeldInv'
  BY <1>3
<1>6. ASSUME NEW job \in Collected, NEW pc, NEW next, DiscoveryReplaceHealth(job, pc, next),
             \/ (job = "monitoring" /\ pc = "monitoring health" /\ next = "lock")
             \/ (job = "analytics" /\ pc = "analytics health" /\ next = "monitoring health")
      PROVE  HeldInv'
  <2>1. /\ health'[job].ok = health[job].ok \cap discovery.listing
        /\ \A j \in Collected \ {job} : health'[j] = health[j]
    BY <1>6, HealthCopies
  <2>2. /\ discovery.pc = pc /\ discovery'.pc = next /\ discovery'.listing = discovery.listing
        /\ UNCHANGED <<catalog, stores, rounds>>
    BY <1>6 DEF DiscoveryReplaceHealth, Goto, ScopeInv, Shape
  <2>3. Listed = discovery.listing /\ Listed' = discovery.listing
    BY <1>6, <2>2 DEF Listed, Copy
  <2>4. ASSUME NEW j \in Collected PROVE HeldOf(j)'
    <3>1. health'[j].ok \subseteq health[j].ok
      BY <2>1
    <3>2. HeldOf(j)
      BY DEF HeldInv
    <3> QED BY <1>6, <2>2, <2>3, <3>1, <3>2 DEF HeldOf, Snap!Held
  <2> QED BY <2>4 DEF HeldInv
<1>7. DiscoveryReplaceHealth("analytics", "analytics health", "monitoring health") => HeldInv'
  BY <1>6
<1>8. DiscoveryReplaceHealth("monitoring", "monitoring health", "lock") => HeldInv'
  BY <1>6
<1>9. CASE DiscoveryReplaceCatalog
  <2>1. /\ discovery.pc = "catalog" /\ discovery'.pc = "observe" /\ discovery'.listing = discovery.listing
        /\ UNCHANGED <<stores, health, rounds>>
    BY <1>9 DEF DiscoveryReplaceCatalog, Goto, ScopeInv, Shape
  <2> QED BY <2>1 DEF HeldInv, HeldOf, Listed, Copy, Snap!Held
<1>10. CASE DiscoveryObserve
  <2>1. /\ discovery.pc = "observe" /\ discovery'.pc = "idle" /\ catalog = discovery.listing
        /\ UNCHANGED <<catalog, stores, health, rounds>>
    BY <1>10 DEF DiscoveryObserve, CopiesInv
  <2> QED BY <2>1 DEF HeldInv, HeldOf, Listed, Copy, Snap!Held
<1>11. CASE \/ DiscoveryPublishInventory
            \/ DiscoveryClearBad
            \/ DiscoveryLock
            \/ DiscoveryClear("usage", "clear usage", "clear top_ips")
            \/ DiscoveryClear("top_ips", "clear top_ips", "init usage")
            \/ DiscoveryInitCollector("usage", "init usage", "init top_ips")
            \/ DiscoveryInitCollector("top_ips", "init top_ips", "catalog")
  BY <1>11, HeldGoto
  DEF DiscoveryPublishInventory, DiscoveryClearBad, DiscoveryLock, DiscoveryClear, DiscoveryInitCollector,
      Goto, ScopeInv, Shape
<1> QED
  BY <1>1, <1>2, <1>4, <1>5, <1>7, <1>8, <1>9, <1>10, <1>11 DEF Discovery

LEMMA HeldUntouched == HeldInv /\ UNCHANGED <<catalog, stores, health, discovery, rounds>> => HeldInv'
BY DEF HeldInv, HeldOf, Listed, Copy, Snap!Held

\* Between discoveries the copies of the resource set are equal and every healthy
\* domain has a value, when no round outlives two discoveries.
THEOREM SettledCopies ==
  ASSUME MaxOverlap = 1
  PROVE  Spec => []SettledCopiesAgree
<1>1. ASSUME HeldInv, CopiesInv, RoundInv, ScopeInv, [Next]_vars PROVE HeldInv'
  <2>1. CASE Discovery
    BY <1>1, <2>1, DiscoveryHeld
  <2>2. CASE Collection
    <3>1. Untouched /\ \A j \in Collected : Step(j)
      BY <1>1, <2>2, CollectionSteps DEF CopiesInv
    <3> QED BY <1>1, <3>1, CollectionHeld DEF HeldInv
  <2>3. CASE Scrape
    BY <1>1, <2>3, ScrapeUntouched, HeldUntouched DEF scopeVars, storeVars, metricVars
  <2>4. CASE UNCHANGED vars
    BY <1>1, <2>4, HeldUntouched DEF vars
  <2> QED BY <1>1, <2>1, <2>2, <2>3, <2>4 DEF Next
<1>2. HeldInv /\ CopiesInv => SettledCopiesAgree
  <2> SUFFICES ASSUME HeldInv, CopiesInv, discovery.pc = "idle", NEW j \in Collected
               PROVE  /\ inventory # {} => /\ Online = catalog /\ Online = stores[j].active
                                           /\ Online = health[j].configured
                      /\ health[j].ok \subseteq Snap!Held(stores[j])
    BY DEF SettledCopiesAgree, At, CopiesInv, Maps
  <2>1. HeldOf(j) /\ CopiesOf(j)
    BY DEF HeldInv, CopiesInv
  <2>2. inventory # {} => inventory = {catalog}
    BY DEF CopiesInv, Copy, BeforeInventory
  <2>3. inventory # {} => Online = catalog
    BY <2>2 DEF Online
  <2> QED
    BY <2>1, <2>3 DEF HeldOf, CopiesOf, Listed, Copy, BeforeRetain, BeforeHealth, BeforeInventory
<1>3. (HeldInv /\ CopiesInv /\ RoundInv /\ ScopeInv /\ [Next]_vars) => HeldInv'
  BY <1>1
<1> QED
  BY <1>2, <1>3, HeldInit, CopiesInvariant, ScopeInvariant, PTL DEF Spec
=============================================================================
