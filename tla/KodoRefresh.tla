---------------------------- MODULE KodoRefresh ----------------------------
(***************************************************************************)
(* The jobs RegisterKodo schedules: discovery, and three collection jobs   *)
(* that take the buckets of their catalog snapshot one after the other.    *)
(* They share one ResourceStore (keys "capacity/b", "activity/b",          *)
(* "summary/b"), the inventory and the catalog, and no lock.               *)
(***************************************************************************)
EXTENDS Naturals

CONSTANTS
  Bucket,         \* name and region, the key of a resource
  Jobs,           \* the collection jobs of this instance
  DataTimes,      \* the bucket ends that answers carry
  MaxOverlap      \* discoveries that may run into one round

AllJobs == {"capacity", "activity", "summary"}

ASSUME KodoAssumption ==
  Jobs \subseteq AllJobs /\ DataTimes \subseteq Nat \ {0} /\ MaxOverlap \in Nat \ {0}

VARIABLES
  catalog, inventory,
  store,          \* the ResourceStore of samples, by job and bucket
  health,         \* Metrics: the three resource collectors
  discovery,      \* pc and the listing being applied
  rounds          \* per job: pc, scope, todo, current, failed, overlap

vars == <<catalog, inventory, store, health, discovery, rounds>>

Snap == INSTANCE Snapshots WITH Resource <- Jobs \X Bucket
Tele == INSTANCE Telemetry WITH Resource <- Bucket

Now == 1

Resting == [pc |-> "idle", scope |-> {}, todo |-> {}, current |-> {}, failed |-> {}, overlap |-> 0]

Init ==
  /\ catalog = {} /\ inventory = {} /\ store = Snap!NewResourceStore
  /\ health = [j \in AllJobs |-> Tele!NewHealth]
  /\ discovery = [pc |-> "idle", listing |-> {}]
  /\ rounds = [j \in Jobs |-> Resting]

At(pc) == discovery.pc = pc
Goto(pc) == discovery' = [discovery EXCEPT !.pc = pc]
-----------------------------------------------------------------------------
(* reconcile.  A failed or rejected listing changes nothing here. *)

List ==
  /\ At("idle") /\ \A j \in Jobs : rounds[j].overlap < MaxOverlap
  /\ \E l \in SUBSET Bucket : discovery' = [pc |-> "retain", listing |-> l]
  /\ rounds' = [j \in Jobs |->
                  IF rounds[j].pc = "idle" THEN rounds[j] ELSE [rounds[j] EXCEPT !.overlap = @ + 1]]
  /\ UNCHANGED <<catalog, inventory, store, health>>

RetainSamples ==
  /\ At("retain")
  /\ store' = Snap!Retain(store, Jobs \X discovery.listing)
  /\ Goto("inventory")
  /\ UNCHANGED <<catalog, inventory, health, rounds>>

PublishInventory ==
  /\ At("inventory")
  /\ inventory' = {discovery.listing}
  /\ Goto("capacity")
  /\ UNCHANGED <<catalog, store, health, rounds>>

\* Bug: only the buckets that are new are handed to the metrics.
MutReplaceHealth(job, next) ==
  /\ At(job)
  /\ \E h \in Tele!ReplaceResources(health[job], discovery.listing \ catalog) :
       health' = [health EXCEPT ![job] = h]
  /\ Goto(next)
  /\ UNCHANGED <<catalog, inventory, store, rounds>>

ReplaceHealth(job, next) ==
  /\ At(job)
  /\ \E h \in Tele!ReplaceResources(health[job], discovery.listing) :
       health' = [health EXCEPT ![job] = h]
  /\ Goto(next)
  /\ UNCHANGED <<catalog, inventory, store, rounds>>

ReplaceCatalog ==
  /\ At("catalog")
  /\ catalog' = discovery.listing
  /\ discovery' = [pc |-> "idle", listing |-> {}]
  /\ UNCHANGED <<inventory, store, health, rounds>>

Discovery ==
  \/ List \/ RetainSamples \/ PublishInventory \/ ReplaceCatalog
  \/ ReplaceHealth("capacity", "activity") \/ ReplaceHealth("activity", "summary")
  \/ ReplaceHealth("summary", "catalog")
-----------------------------------------------------------------------------
(* The rounds of the three collection jobs *)

RoundAt(j, pc) == rounds[j].pc = pc
Continue(j, round) == rounds' = [rounds EXCEPT ![j] = round]

\* catalog.Snapshot; an empty one skips the round.
Begin(j) ==
  /\ RoundAt(j, "idle") /\ catalog # {}
  /\ Continue(j, [pc |-> "fetch", scope |-> catalog, todo |-> catalog, current |-> {}, failed |-> {},
                  overlap |-> IF At("idle") THEN 0 ELSE 1])
  /\ UNCHANGED <<catalog, inventory, store, health, discovery>>

\* Bug: the data time is reported although the samples were not stored.
MutFetched(j, b, dataAt) ==
  /\ UNCHANGED store
  /\ Continue(j, [rounds[j] EXCEPT !.pc = "stamp", !.current = {<<b, dataAt>>}, !.todo = @ \ {b}])

\* The requests for b succeed and their samples agree on the bucket: Publish.
Fetched(j, b, dataAt) ==
  /\ store' = Snap!Publish(store, <<j, b>>, dataAt)
  /\ Continue(j, [rounds[j] EXCEPT !.pc = "stamp", !.current = {<<b, dataAt>>}, !.todo = @ \ {b}])

Fetch(j) ==
  /\ RoundAt(j, "fetch")
  /\ \E b \in rounds[j].todo, dataAt \in DataTimes : Fetched(j, b, dataAt)
  /\ UNCHANGED <<catalog, inventory, health, discovery>>

\* SetResourceDataTimestamp
Stamp(j) ==
  /\ RoundAt(j, "stamp")
  /\ \E c \in rounds[j].current : \E h \in Tele!SetResourceDataTimestamp(health[j], c[1], c[2]) :
       health' = [health EXCEPT ![j] = h]
  /\ Continue(j, [rounds[j] EXCEPT !.pc = "fetch", !.current = {}])
  /\ UNCHANGED <<catalog, inventory, store, discovery>>

\* A request for b fails, or its samples do not agree.
FetchFail(j) ==
  /\ RoundAt(j, "fetch")
  /\ \E b \in rounds[j].todo :
       Continue(j, [rounds[j] EXCEPT !.todo = @ \ {b}, !.failed = @ \cup {b}])
  /\ UNCHANGED <<catalog, inventory, store, health, discovery>>

\* ObserveResourceBatchJob, with the round's own resources.
Observe(j) ==
  /\ RoundAt(j, "fetch") /\ rounds[j].todo = {}
  /\ \E h \in Tele!ObserveResults(health[j], rounds[j].scope \ rounds[j].failed,
                                  rounds[j].failed, Now) :
       health' = [health EXCEPT ![j] = h]
  /\ Continue(j, Resting)
  /\ UNCHANGED <<catalog, inventory, store, discovery>>

RoundStep(j) == Fetch(j) \/ Stamp(j) \/ FetchFail(j) \/ Observe(j)

Next == Discovery \/ \E j \in Jobs : Begin(j) \/ RoundStep(j)

Spec == Init /\ [][Next]_vars
-----------------------------------------------------------------------------
Shown(j) == {b \in Bucket : store.values[<<j, b>>] # {}}

\* Between discoveries the catalog, the store, the inventory and the three collectors'
\* health name the same buckets, though reconcile writes them without a lock while rounds
\* of the previous set go on; and a bucket that a collector calls healthy has samples in the
\* store, as long as at most one discovery runs into a round (see CDNRefresh).
SettledCopiesAgree ==
  /\ At("idle") /\ inventory # {} =>
       /\ inventory = {catalog} /\ store.active = Jobs \X catalog
       /\ \A j \in AllJobs : health[j].configured = catalog
  /\ At("idle") => \A j \in Jobs : health[j].ok \subseteq Shown(j)

\* The data time a collector exports for a bucket is that of the samples exposed for it,
\* except while a round is between the two writes or a discovery between its own: the late
\* publication of a round cannot leave the one without the other, as long as at most one
\* discovery runs into it.
TimesDescribeSamples ==
  At("idle") => \A j \in Jobs : \A b \in catalog :
    RoundAt(j, "fetch") \/ RoundAt(j, "idle") =>
      store.values[<<j, b>>] =
        (IF health[j].dataTime[b] = Tele!NoTime THEN {} ELSE {health[j].dataTime[b]})
=============================================================================
