----------------------------- MODULE CDNRefresh -----------------------------
(***************************************************************************)
(* The jobs RegisterCDN schedules, each a goroutine that runs its rounds   *)
(* one after the other, over the stores, the resource catalog, the         *)
(* negative cache and the metrics they share.  A step is what a goroutine  *)
(* does between two points where another can see or change shared state.   *)
(*                                                                         *)
(*   discovery   list the domains, then apply the listing store by store   *)
(*   monitoring  batches of domains, then the whole-account usage          *)
(*   analytics   one domain after the other                                *)
(*   top_ips     one whole-account ranking                                 *)
(*   scrape      CDNCollector.Collect, which loads the stores one by one   *)
(*                                                                         *)
(* Upstream answers are arbitrary.  Time is left out: every observation    *)
(* carries the time Now, and nothing goes stale.                           *)
(***************************************************************************)
EXTENDS Naturals, FiniteSets

CONSTANTS
  Domain,
  Jobs,           \* the jobs of this instance beside discovery
  BatchSize,      \* domains per monitoring request (50 in the code)
  MaxOverlap      \* discoveries that may run into one round of another job

RoundJobs == {"monitoring", "analytics", "top_ips"}

ASSUME JobsAssumption == Jobs \subseteq RoundJobs \cup {"scrape"}
ASSUME BoundsAssumption == BatchSize \in Nat \ {0} /\ MaxOverlap \in Nat \ {0}

VARIABLES
  catalog,      \* resourceCatalog: the domains collection rounds begin with
  inventory,    \* {} or {listing}: stores.Inventory
  stores,       \* stores.Monitoring and stores.Analytics
  shown,        \* {} or {snapshot} each: stores.Usage and stores.TopIPs
  bad,          \* the keys of badDomains
  scopeMu,      \* usageScopeMu: "free" or "discovery"; others hold it within a step
  health,       \* Metrics: the resource collectors monitoring and analytics
  success,      \* Metrics: collector_success of discovery, usage and top_ips
  usageDataAt,  \* Metrics: whether cdn/usage exports a data timestamp
  discovery,    \* the discovery goroutine: pc and the listing being applied
  rounds,       \* the goroutines of RoundJobs
  scrape        \* the scrape being answered

metricVars == <<health, success, usageDataAt>>
storeVars == <<inventory, stores, shown>>
scopeVars == <<catalog, scopeMu>>
vars == <<catalog, inventory, stores, shown, bad, scopeMu, health, success, usageDataAt,
          discovery, rounds, scrape>>

Snap == INSTANCE Snapshots WITH Resource <- Domain
Tele == INSTANCE Telemetry WITH Resource <- Domain

Now == 1
Data == "data"

\* A listing, as the set of its domains whose operating state is "success";
\* the others are published in the inventory but never collected.
Listing == SUBSET Domain

NoListing == {}

\* A goroutine between two rounds.  `scope' is the catalog snapshot of the
\* round, `todo' what it has not turned to, `active' the rest of the current
\* batch, `current' the domain whose answer is being recorded.
Resting == [pc |-> "idle", scope |-> {}, todo |-> {}, active |-> {}, current |-> {},
            failed |-> {}, done |-> {}, err |-> FALSE, overlap |-> 0]

\* A scrape and what it has gathered; `quiet' until a discovery is under way.
NoScrape == [pc |-> "idle", inventory |-> {}, domains |-> {}, scopes |-> {}, quiet |-> TRUE]

\* RegisterCDN, with the statistics time zone and units verified.
Init ==
  /\ catalog = {} /\ inventory = {} /\ bad = {}
  /\ stores = [monitoring |-> Snap!NewResourceStore, analytics |-> Snap!NewResourceStore]
  /\ shown = [usage |-> {}, top_ips |-> {}]
  /\ scopeMu = "free"
  /\ health = [monitoring |-> Tele!NewHealth, analytics |-> Tele!NewHealth]
  /\ success = [discovery |-> "0", usage |-> "0", top_ips |-> "0"]
  /\ usageDataAt = FALSE
  /\ discovery = [pc |-> "idle", listing |-> NoListing]
  /\ rounds = [j \in RoundJobs |-> Resting]
  /\ scrape = NoScrape

-----------------------------------------------------------------------------
(* cdn/discovery: reconcile *)

At(pc) == discovery.pc = pc

Goto(pc) == discovery' = [discovery EXCEPT !.pc = pc]

\* ListDomains fails or ValidateCDNResourceCounts rejects the listing: the
\* last complete result stays in every store.
DiscoveryFail ==
  /\ At("idle")
  /\ success' = [success EXCEPT !.discovery = "0"]
  /\ UNCHANGED <<scopeVars, storeVars, bad, health, usageDataAt, discovery, rounds, scrape>>

DiscoveryList ==
  /\ At("idle")
  /\ \A j \in RoundJobs : rounds[j].overlap < MaxOverlap
  /\ \E l \in Listing : discovery' = [pc |-> "retain monitoring", listing |-> l]
  /\ rounds' = [j \in RoundJobs |->
                  IF rounds[j].pc = "idle" THEN rounds[j] ELSE [rounds[j] EXCEPT !.overlap = @ + 1]]
  /\ scrape' = [scrape EXCEPT !.quiet = scrape.pc = "idle"]
  /\ UNCHANGED <<scopeVars, storeVars, bad, metricVars>>

DiscoveryRetain(job, pc, next) ==
  /\ At(pc)
  /\ stores' = [stores EXCEPT ![job] = Snap!Retain(@, discovery.listing)]
  /\ Goto(next)
  /\ UNCHANGED <<scopeVars, inventory, shown, bad, metricVars, rounds, scrape>>

DiscoveryPublishInventory ==
  /\ At("inventory")
  /\ inventory' = {discovery.listing}
  /\ Goto("bad domains")
  /\ UNCHANGED <<scopeVars, stores, shown, bad, metricVars, rounds, scrape>>

DiscoveryClearBad ==
  /\ At("bad domains")
  /\ bad' = {}
  /\ Goto("analytics health")
  /\ UNCHANGED <<scopeVars, storeVars, metricVars, rounds, scrape>>

\* Bug: the health is rebuilt from the catalog, not yet replaced.
MutDiscoveryReplaceHealth(job, pc, next) ==
  /\ At(pc)
  /\ \E h \in Tele!ReplaceResources(health[job], catalog) :
       health' = [health EXCEPT ![job] = h]
  /\ Goto(next)
  /\ UNCHANGED <<scopeVars, storeVars, bad, success, usageDataAt, rounds, scrape>>

DiscoveryReplaceHealth(job, pc, next) ==
  /\ At(pc)
  /\ \E h \in Tele!ReplaceResources(health[job], discovery.listing) :
       health' = [health EXCEPT ![job] = h]
  /\ Goto(next)
  /\ UNCHANGED <<scopeVars, storeVars, bad, success, usageDataAt, rounds, scrape>>

\* usageScopeMu.Lock, and the comparison that decides whether the aggregates go.
DiscoveryLock ==
  /\ At("lock")
  /\ scopeMu = "free"
  /\ scopeMu' = "discovery"
  /\ Goto(IF catalog = discovery.listing THEN "catalog" ELSE "clear usage")
  /\ UNCHANGED <<catalog, storeVars, bad, metricVars, rounds, scrape>>

\* Bug: an aggregate of the previous scope is left in place.
MutDiscoveryClear(aggregate, pc, next) ==
  /\ At(pc)
  /\ Goto(next)
  /\ UNCHANGED <<scopeVars, storeVars, bad, metricVars, rounds, scrape>>

DiscoveryClear(aggregate, pc, next) ==
  /\ At(pc)
  /\ shown' = [shown EXCEPT ![aggregate] = {}]
  /\ Goto(next)
  /\ UNCHANGED <<scopeVars, inventory, stores, bad, metricVars, rounds, scrape>>

\* InitCollector
DiscoveryInitCollector(aggregate, pc, next) ==
  /\ At(pc)
  /\ success' = [success EXCEPT ![aggregate] = "0"]
  /\ Goto(next)
  /\ UNCHANGED <<scopeVars, storeVars, bad, health, usageDataAt, rounds, scrape>>

\* catalog.Replace and Unlock.
DiscoveryReplaceCatalog ==
  /\ At("catalog")
  /\ catalog' = discovery.listing
  /\ scopeMu' = "free"
  /\ Goto("observe")
  /\ UNCHANGED <<storeVars, bad, metricVars, rounds, scrape>>

DiscoveryObserve ==
  /\ At("observe")
  /\ success' = [success EXCEPT !.discovery = "1"]
  /\ discovery' = [pc |-> "idle", listing |-> NoListing]
  /\ UNCHANGED <<scopeVars, storeVars, bad, health, usageDataAt, rounds, scrape>>

Discovery ==
  \/ DiscoveryFail
  \/ DiscoveryList
  \/ DiscoveryRetain("monitoring", "retain monitoring", "retain analytics")
  \/ DiscoveryRetain("analytics", "retain analytics", "inventory")
  \/ DiscoveryPublishInventory
  \/ DiscoveryClearBad
  \/ DiscoveryReplaceHealth("analytics", "analytics health", "monitoring health")
  \/ DiscoveryReplaceHealth("monitoring", "monitoring health", "lock")
  \/ DiscoveryLock
  \/ DiscoveryClear("usage", "clear usage", "clear top_ips")
  \/ DiscoveryClear("top_ips", "clear top_ips", "init usage")
  \/ DiscoveryInitCollector("usage", "init usage", "init top_ips")
  \/ DiscoveryInitCollector("top_ips", "init top_ips", "catalog")
  \/ DiscoveryReplaceCatalog
  \/ DiscoveryObserve

-----------------------------------------------------------------------------
(* What the rounds of the other jobs share *)

RoundAt(j, pc) == j \in Jobs /\ rounds[j].pc = pc

Continue(j, round) == rounds' = [rounds EXCEPT ![j] = round]

\* catalog.Snapshot; an empty catalog skips the round (cdn/top_ips waits up to
\* ten seconds for it first), which leaves everything as it was.
Begin(j) ==
  /\ RoundAt(j, "idle")
  /\ catalog # {}
  /\ Continue(j, [Resting EXCEPT !.pc = "next", !.scope = catalog, !.todo = catalog,
                                 !.overlap = IF At("idle") THEN 0 ELSE 1])
  /\ UNCHANGED <<scopeVars, storeVars, bad, metricVars, discovery, scrape>>

\* A domain of the batch whose requests succeed: ResourceStore.Publish.
FetchOK(j, d) ==
  /\ RoundAt(j, "fetch") /\ d \in rounds[j].active
  /\ stores' = [stores EXCEPT ![j] = Snap!Publish(@, d, Data)]
  /\ Continue(j, [rounds[j] EXCEPT !.pc = "stamp", !.current = {d}, !.active = @ \ {d},
                                   !.done = @ \cup {d}])
  /\ UNCHANGED <<scopeVars, inventory, shown, bad, metricVars, discovery, scrape>>

\* SetResourceDataTimestamp, which does not run under the store's lock.
Stamp(j, d) ==
  /\ RoundAt(j, "stamp") /\ d \in rounds[j].current
  /\ \E h \in Tele!SetResourceDataTimestamp(health[j], d, Now) :
       health' = [health EXCEPT ![j] = h]
  /\ Continue(j, [rounds[j] EXCEPT !.pc = "fetch", !.current = {}])
  /\ UNCHANGED <<scopeVars, storeVars, bad, success, usageDataAt, discovery, scrape>>

\* A domain whose requests fail; `invalid' is API error 400032, which enters
\* the domain in the negative cache.
FetchFail(j, d, invalid) ==
  /\ RoundAt(j, "fetch") /\ d \in rounds[j].active
  /\ bad' = IF invalid THEN bad \cup {d} ELSE bad
  /\ Continue(j, [rounds[j] EXCEPT !.active = @ \ {d}, !.failed = @ \cup {d}])
  /\ UNCHANGED <<scopeVars, storeVars, metricVars, discovery, scrape>>

EndBatch(j) ==
  /\ RoundAt(j, "fetch") /\ rounds[j].active = {}
  /\ Continue(j, [rounds[j] EXCEPT !.pc = "next"])
  /\ UNCHANGED <<scopeVars, storeVars, bad, metricVars, discovery, scrape>>

\* The scheduler observes the batch: ObserveResourceBatchJob.
ObserveBatch(j) ==
  /\ \E h \in Tele!ObserveResults(health[j], rounds[j].done, rounds[j].failed, Now) :
       health' = [health EXCEPT ![j] = h]
  /\ Continue(j, Resting)
  /\ UNCHANGED <<scopeVars, storeVars, bad, success, usageDataAt, discovery, scrape>>

-----------------------------------------------------------------------------
(* cdn/monitoring *)

\* A batch of at most BatchSize domains; the cached rejections are read when
\* it begins, not when the round does.  The requests themselves, split until
\* a rejected domain is found alone, are FetchOK and FetchFail steps.
MonitoringBatch(B) ==
  /\ RoundAt("monitoring", "next")
  /\ B \subseteq rounds["monitoring"].todo /\ B # {}
  /\ Cardinality(B) <= BatchSize
  /\ (Cardinality(B) < BatchSize => B = rounds["monitoring"].todo)
  /\ Continue("monitoring",
       [rounds["monitoring"] EXCEPT !.pc = "fetch", !.todo = @ \ B,
                                    !.failed = @ \cup (B \cap bad), !.active = B \ bad])
  /\ UNCHANGED <<scopeVars, storeVars, bad, metricVars, discovery, scrape>>

\* collectAndPublishCDNUsage up to its critical section: without a successful
\* domain, or with batches that do not aggregate, there is nothing to publish.
UsageBuild(built) ==
  /\ RoundAt("monitoring", "next") /\ rounds["monitoring"].todo = {}
  /\ built => rounds["monitoring"].done # {}
  /\ Continue("monitoring",
       [rounds["monitoring"] EXCEPT !.pc = IF built THEN "publish" ELSE "report", !.err = ~built])
  /\ UNCHANGED <<scopeVars, storeVars, bad, metricVars, discovery, scrape>>

\* Bug: a round is complete as soon as it collected something.
MutUsageSnapshot(round) ==
  [scope |-> round.scope, covered |-> round.done, complete |-> round.done # {}]

UsageSnapshot(round) ==
  [scope |-> round.scope, covered |-> round.done, complete |-> round.failed = {}]

\* Bug: published without comparing the catalog with the round's scope.
MutUsagePublish(monthOK) ==
  LET round == rounds["monitoring"]
  IN /\ RoundAt("monitoring", "publish")
     /\ scopeMu = "free"
     /\ shown' = [shown EXCEPT !.usage = {UsageSnapshot(round)}]
     /\ usageDataAt' = TRUE
     /\ Continue("monitoring",
          [round EXCEPT !.pc = "report", !.err = round.failed # {} \/ ~monthOK])
     /\ UNCHANGED <<scopeVars, inventory, stores, bad, health, success, discovery, scrape>>

\* The critical section.  `monthOK' tells whether the month-to-date requests
\* succeeded too; without them the snapshot is published all the same and the
\* round reports an error.
UsagePublish(monthOK) ==
  LET round == rounds["monitoring"]
  IN /\ RoundAt("monitoring", "publish")
     /\ scopeMu = "free"
     /\ IF catalog = round.scope
        THEN /\ shown' = [shown EXCEPT !.usage = {UsageSnapshot(round)}]
             /\ usageDataAt' = TRUE
             /\ Continue("monitoring",
                  [round EXCEPT !.pc = "report", !.err = round.failed # {} \/ ~monthOK])
        ELSE /\ UNCHANGED <<shown, usageDataAt>>
             /\ Continue("monitoring", [round EXCEPT !.pc = "report", !.err = TRUE])
     /\ UNCHANGED <<scopeVars, inventory, stores, bad, health, success, discovery, scrape>>

\* metrics.ObserveJob("cdn/usage"), after the lock is released.
UsageReport ==
  /\ RoundAt("monitoring", "report")
  /\ success' = [success EXCEPT !.usage = Tele!BoolFloat(~rounds["monitoring"].err)]
  /\ Continue("monitoring", [rounds["monitoring"] EXCEPT !.pc = "observe"])
  /\ UNCHANGED <<scopeVars, storeVars, bad, health, usageDataAt, discovery, scrape>>

MonitoringObserve == RoundAt("monitoring", "observe") /\ ObserveBatch("monitoring")

Monitoring ==
  \/ Begin("monitoring")
  \/ \E B \in SUBSET Domain : MonitoringBatch(B)
  \/ \E built \in BOOLEAN : UsageBuild(built)
  \/ \E monthOK \in BOOLEAN : UsagePublish(monthOK)
  \/ UsageReport
  \/ MonitoringObserve

-----------------------------------------------------------------------------
(* cdn/analytics *)

\* The next domain; the negative cache is read before its first request.
AnalyticsNext(d) ==
  /\ RoundAt("analytics", "next") /\ d \in rounds["analytics"].todo
  /\ Continue("analytics",
       IF d \in bad
       THEN [rounds["analytics"] EXCEPT !.todo = @ \ {d}, !.failed = @ \cup {d}]
       ELSE [rounds["analytics"] EXCEPT !.todo = @ \ {d}, !.active = {d}, !.pc = "fetch"])
  /\ UNCHANGED <<scopeVars, storeVars, bad, metricVars, discovery, scrape>>

AnalyticsObserve ==
  RoundAt("analytics", "next") /\ rounds["analytics"].todo = {} /\ ObserveBatch("analytics")

Analytics ==
  \/ Begin("analytics")
  \/ \E d \in Domain : AnalyticsNext(d)
  \/ AnalyticsObserve

-----------------------------------------------------------------------------
(* cdn/top_ips: collectAndPublishCDNTopIPs *)

TopIPsFetch(ok) ==
  /\ RoundAt("top_ips", "next")
  /\ Continue("top_ips", [rounds["top_ips"] EXCEPT !.pc = IF ok THEN "publish" ELSE "observe",
                                                   !.err = ~ok])
  /\ UNCHANGED <<scopeVars, storeVars, bad, metricVars, discovery, scrape>>

\* Bug: the lock is not taken around the comparison and the publication.
MutTopIPsPublishUnlocked ==
  LET round == rounds["top_ips"]
  IN /\ RoundAt("top_ips", "publish")
     /\ shown' = [shown EXCEPT !.top_ips = IF catalog = round.scope
                                           THEN {[scope |-> round.scope]} ELSE @]
     /\ Continue("top_ips", [round EXCEPT !.pc = "observe", !.err = catalog # round.scope])
     /\ UNCHANGED <<scopeVars, inventory, stores, bad, metricVars, discovery, scrape>>

TopIPsPublish ==
  LET round == rounds["top_ips"]
  IN /\ RoundAt("top_ips", "publish")
     /\ scopeMu = "free"
     /\ IF catalog = round.scope
        THEN /\ shown' = [shown EXCEPT !.top_ips = {[scope |-> round.scope]}]
             /\ Continue("top_ips", [round EXCEPT !.pc = "observe"])
        ELSE /\ Continue("top_ips", [round EXCEPT !.pc = "observe", !.err = TRUE])
             /\ UNCHANGED shown
     /\ UNCHANGED <<scopeVars, inventory, stores, bad, metricVars, discovery, scrape>>

TopIPsObserve ==
  /\ RoundAt("top_ips", "observe")
  /\ success' = [success EXCEPT !.top_ips = Tele!BoolFloat(~rounds["top_ips"].err)]
  /\ Continue("top_ips", Resting)
  /\ UNCHANGED <<scopeVars, storeVars, bad, health, usageDataAt, discovery, scrape>>

TopIPs ==
  \/ Begin("top_ips")
  \/ \E ok \in BOOLEAN : TopIPsFetch(ok)
  \/ TopIPsPublish
  \/ TopIPsObserve

-----------------------------------------------------------------------------
(* A scrape: CDNCollector.Collect loads one store after the other *)

Scopes(aggregate) == {a.scope : a \in shown[aggregate]}

Load(pc, loaded) ==
  /\ scrape.pc = pc
  /\ scrape' = loaded
  /\ UNCHANGED <<scopeVars, storeVars, bad, metricVars, discovery, rounds>>

ScrapeTopIPs ==
  /\ "scrape" \in Jobs
  /\ Load("idle", [NoScrape EXCEPT !.pc = "inventory", !.scopes = Scopes("top_ips"),
                                   !.quiet = At("idle")])

ScrapeInventory ==
  Load("inventory", [scrape EXCEPT !.pc = "monitoring", !.inventory = inventory])

ScrapeDomains(job, next) ==
  Load(job, [scrape EXCEPT !.pc = next, !.domains = @ \cup Snap!Held(stores[job])])

ScrapeUsage ==
  Load("usage", [scrape EXCEPT !.pc = "done", !.scopes = @ \cup Scopes("usage")])

ScrapeEnd == Load("done", NoScrape)

Scrape ==
  \/ ScrapeTopIPs
  \/ ScrapeInventory
  \/ ScrapeDomains("monitoring", "analytics")
  \/ ScrapeDomains("analytics", "usage")
  \/ ScrapeUsage
  \/ ScrapeEnd

-----------------------------------------------------------------------------
Collection ==
  \/ \E j \in {"monitoring", "analytics"} :
        \/ \E d \in Domain : FetchOK(j, d) \/ Stamp(j, d)
        \/ \E d \in Domain, invalid \in BOOLEAN : FetchFail(j, d, invalid)
        \/ EndBatch(j)
  \/ Monitoring
  \/ Analytics
  \/ TopIPs

Next == Discovery \/ Collection \/ Scrape

Spec == Init /\ [][Next]_vars

(***************************************************************************)
(* Fairness.  Every request has a timeout, so a round or a discovery that  *)
(* has begun goes on; nothing obliges one to begin, or an answer to be     *)
(* good.  A goroutine waiting for usageScopeMu gets it at last, however    *)
(* often the others take it (sync.Mutex hands over to a starved waiter).   *)
(***************************************************************************)
DiscoveryStep == ~At("idle") /\ Discovery

RoundStep(j) ==
  \/ \E d \in Domain : FetchOK(j, d) \/ Stamp(j, d) \/ FetchFail(j, d, FALSE)
  \/ EndBatch(j)
  \/ rounds[j].pc # "idle" /\ CASE j = "monitoring" -> Monitoring
                                [] j = "analytics"  -> Analytics
                                [] j = "top_ips"    -> TopIPs

Fairness ==
  /\ WF_vars(DiscoveryStep) /\ SF_vars(DiscoveryLock)
  /\ \A j \in RoundJobs : WF_vars(RoundStep(j))
  /\ SF_vars(\E monthOK \in BOOLEAN : UsagePublish(monthOK)) /\ SF_vars(TopIPsPublish)
-----------------------------------------------------------------------------
Online == UNION inventory

\* Between discoveries the copies of the resource set that reconcile hands
\* out one by one are equal: the catalog, the two stores, the two resource
\* collectors' health and the inventory's online domains.  And a domain that a
\* collector calls healthy has a value in its store: its health does not outlive
\* the value across a removal and a return.  The last part is of rounds that at
\* most one discovery runs into, as at the default intervals: a domain that
\* leaves and returns between two discoveries of one round loses the value that
\* the round then reports as a success.
SettledCopiesAgree ==
  At("idle") => \A j \in DOMAIN stores :
    /\ inventory # {} => Online = catalog /\ Online = stores[j].active /\ Online = health[j].configured
    /\ health[j].ok \subseteq Snap!Held(stores[j])

\* An exposed usage snapshot that calls itself complete covers the whole
\* catalog: nothing a round skipped (cached rejection, failed batch, changed
\* scope) is left out of an account total.
CompleteCoversScope ==
  \A u \in shown.usage : u.complete => u.covered = catalog

\* Each aggregate keeps the promise of UsageScope: what is shown was collected
\* over the current catalog, and the catalog changes only while nothing is.
UsageAbs == INSTANCE UsageScope
              WITH Resource <- Domain, scope <- catalog, shown <- Scopes("usage")
TopIPsAbs == INSTANCE UsageScope
              WITH Resource <- Domain, scope <- catalog, shown <- Scopes("top_ips")

UsageImplementsScope == UsageAbs!Spec
TopIPsImplementsScope == TopIPsAbs!Spec

\* A scrape that no discovery overlaps exposes one resource set, though it
\* loads five stores while rounds publish.
QuietScrapeAgrees ==
  scrape.pc = "done" /\ scrape.quiet =>
    \A l \in scrape.inventory : scrape.domains \subseteq l /\ scrape.scopes \subseteq {l}

Exposed(d) ==
  \/ d \in catalog
  \/ \E j \in DOMAIN stores : d \in Snap!Held(stores[j]) \cup health[j].configured
  \/ \E aggregate \in DOMAIN shown : \E S \in Scopes(aggregate) : d \in S

\* A domain missing from a listing that was accepted leaves the catalog, the
\* exported series, the health and the aggregates: reconcile never stays
\* behind the lock, whatever the rounds in flight do.
DepartedLeaves ==
  \A d \in Domain :
    (~At("idle") /\ d \notin discovery.listing) ~> ~Exposed(d)

\* "Inventory and statistics catalogs use the same last-good resource set"
\* (DESIGN.md), of every scrape.  Refuted: reconcile publishes the inventory
\* before it withdraws the aggregates of the previous set.
ScrapeUsesOneResourceSet ==
  scrape.pc = "done" => \A l \in scrape.inventory : scrape.scopes \subseteq {l}

\* data_timestamp is the "effective upstream data time represented by the
\* current snapshot" (DESIGN.md).  Refuted: Usage.Clear leaves it behind.
DataTimestampHasSnapshot == usageDataAt => shown.usage # {}
=============================================================================
