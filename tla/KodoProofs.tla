----------------------------- MODULE KodoProofs -----------------------------
(***************************************************************************)
(* KodoRefresh, KodoCollect and Discovery for every set of buckets, jobs,  *)
(* answers and limits.                                                     *)
(*                                                                         *)
(* That names, health, times and samples agree between discoveries is not  *)
(* inductive: Copies says for every point of reconcile which copies are    *)
(* of the new listing already, Scoped that a round that at most one        *)
(* discovery runs into is of the catalog until that discovery replaces it, *)
(* Samples what the two writes of each answer have left so far.  A round   *)
(* of KodoCollect selects what was newest in each answer, or days of the   *)
(* month it began in; every page of a listing but the last adds a name.    *)
(***************************************************************************)
EXTENDS MCKodo, SafeBucketProofs, SequenceTheorems

USE KodoAssumption

Pcs == {"idle", "retain", "inventory", "capacity", "activity", "summary", "catalog"}

BeforeRetain == {"idle", "retain"}
BeforeInventory == {"idle", "retain", "inventory"}
BeforeHealth(j) ==
  BeforeInventory \cup {"capacity"} \cup (IF j = "capacity" THEN {} ELSE {"activity"})
                  \cup (IF j = "summary" THEN {"summary"} ELSE {})

\* What a copy of the resource set is while discovery has yet to reach it, and after.
Copy(before) == IF discovery.pc \in before THEN catalog ELSE discovery.listing
Listed == Copy({"idle"})

Round ==
  [pc : {"idle", "fetch", "stamp"}, scope : SUBSET Bucket, todo : SUBSET Bucket,
   current : SUBSET (Bucket \X DataTimes), failed : SUBSET Bucket, overlap : Nat]

Shape ==
  /\ catalog \in SUBSET Bucket
  /\ discovery.pc \in Pcs /\ discovery.listing \in SUBSET Bucket
  /\ DOMAIN discovery = {"pc", "listing"}
  /\ store.managed \in BOOLEAN /\ store.values \in [Jobs \X Bucket -> SUBSET DataTimes]
  /\ DOMAIN health = AllJobs
  /\ rounds \in [Jobs -> Round]

Copies ==
  /\ store.active = Jobs \X Copy(BeforeRetain)
  /\ ~store.managed => catalog = {} /\ discovery.pc \in BeforeRetain
  /\ ~store.managed => \A j \in Jobs : rounds[j].pc = "idle"
  /\ inventory # {} => inventory = {Copy(BeforeInventory)}
  /\ \A j \in AllJobs :
       health[j].configured = Copy(BeforeHealth(j)) /\ health[j].ok \subseteq health[j].configured

\* The answer between its two writes.
RoundOK(r) ==
  /\ r.todo \subseteq r.scope
  /\ r.pc # "stamp" => r.current = {}
  /\ r.pc = "stamp" => \E b \in r.scope, at \in DataTimes : r.current = {<<b, at>>}

CopiesInv == Shape /\ Copies /\ \A j \in Jobs : RoundOK(rounds[j])
-----------------------------------------------------------------------------
(* The operators of the stores and of the metrics *)

Held(s, j) == {b \in Bucket : s.values[<<j, b>>] # {}}

LEMMA Published ==
  ASSUME Shape, NEW j \in Jobs, NEW b \in Bucket, NEW at \in DataTimes,
         store' = Snap!Publish(store, <<j, b>>, at)
  PROVE  /\ store'.managed = store.managed /\ store'.active = store.active
         /\ store'.values \in [Jobs \X Bucket -> SUBSET DataTimes]
         /\ \A i \in Jobs, a \in Bucket : <<i, a>> # <<j, b>> => store'.values[<<i, a>>] = store.values[<<i, a>>]
         /\ store'.values[<<j, b>>] =
              IF store.managed /\ <<j, b>> \notin store.active THEN store.values[<<j, b>>] ELSE {at}
<1>1. CASE store.managed /\ <<j, b>> \notin store.active
  BY <1>1 DEF Snap!Publish, Shape
<1>2. CASE ~(store.managed /\ <<j, b>> \notin store.active)
  <2>1. /\ store'.managed = store.managed /\ store'.active = store.active
        /\ store'.values = [store.values EXCEPT ![<<j, b>>] = {at}]
    BY <1>2 DEF Snap!Publish
  <2>2. <<j, b>> \in Jobs \X Bucket /\ {at} \in SUBSET DataTimes
    OBVIOUS
  <2> QED BY <1>2, <2>1, <2>2 DEF Shape
<1> QED BY <1>1, <1>2

LEMMA Retained ==
  ASSUME Shape, NEW L \in SUBSET Bucket, store' = Snap!Retain(store, Jobs \X L)
  PROVE  /\ store'.managed = TRUE /\ store'.active = Jobs \X L
         /\ store'.values \in [Jobs \X Bucket -> SUBSET DataTimes]
         /\ \A j \in Jobs, b \in Bucket :
              store'.values[<<j, b>>] = IF b \in L THEN store.values[<<j, b>>] ELSE {}
<1>1. /\ store'.managed = TRUE /\ store'.active = Jobs \X L
      /\ store'.values = [r \in Jobs \X Bucket |-> IF r \in Jobs \X L THEN store.values[r] ELSE {}]
  BY DEF Snap!Retain
<1>2. store.values \in [Jobs \X Bucket -> SUBSET DataTimes]
  BY DEF Shape
<1>3. ASSUME NEW j \in Jobs, NEW b \in Bucket
      PROVE  store'.values[<<j, b>>] = IF b \in L THEN store.values[<<j, b>>] ELSE {}
  <2>1. <<j, b>> \in Jobs \X Bucket /\ (<<j, b>> \in Jobs \X L <=> b \in L)
    OBVIOUS
  <2> QED BY <1>1, <2>1
<1>4. \A r \in Jobs \X Bucket : store.values[r] \in SUBSET DataTimes
  BY <1>2
<1> QED BY <1>1, <1>3, <1>4

LEMMA Stamped ==
  ASSUME NEW h, NEW b \in Bucket, NEW at \in DataTimes,
         NEW h1 \in Tele!SetResourceDataTimestamp(h, b, at)
  PROVE  /\ h1.configured = h.configured /\ h1.ok = h.ok
         /\ b \notin h.configured => h1.dataTime = h.dataTime
         /\ b \in h.configured =>
              h1.dataTime = [r \in Bucket |-> IF r = b THEN at ELSE h.dataTime[r]]
<1>1. at # Tele!NoTime
  BY DEF Tele!NoTime
<1>2. CASE b \notin h.configured
  BY <1>2 DEF Tele!SetResourceDataTimestamp
<1>3. CASE b \in h.configured
  <2> DEFINE dataTime == Tele!Advanced(h.dataTime, {b}, at)
  <2>1. /\ h1.configured = h.configured /\ h1.ok = h.ok
        /\ h1.dataTime = dataTime
    BY <1>1, <1>3 DEF Tele!SetResourceDataTimestamp
  <2>2. dataTime = [r \in Bucket |-> IF r \in {b} THEN at ELSE h.dataTime[r]]
    BY DEF Tele!Advanced
  <2>3. dataTime = [r \in Bucket |-> IF r = b THEN at ELSE h.dataTime[r]]
    BY <2>2
  <2> QED BY <1>3, <2>1, <2>3
<1> QED BY <1>2, <1>3

LEMMA Observed ==
  ASSUME NEW h, NEW good, NEW bad, NEW h1 \in Tele!ObserveResults(h, good, bad, Now)
  PROVE  /\ h1.configured = h.configured /\ h1.dataTime = h.dataTime
         /\ h1.ok \subseteq h.ok \cup (good \cap h.configured)
BY DEF Tele!ObserveResults

LEMMA Replaced ==
  ASSUME NEW h, NEW S, NEW h1 \in Tele!ReplaceResources(h, S)
  PROVE  /\ h1.configured = S /\ h1.ok = h.ok \cap S
         /\ h1.dataTime = [r \in Bucket |-> IF r \in S THEN h.dataTime[r] ELSE Tele!NoTime]
<1>1. h1.configured = S /\ h1.ok = h.ok \cap S /\ h1.dataTime = Tele!Kept(h.dataTime, S)
  BY DEF Tele!ReplaceResources
<1> QED BY <1>1 DEF Tele!Kept
-----------------------------------------------------------------------------
(* What a step of the collection goroutine of j leaves alone, and does *)

Collects(j) ==
  /\ UNCHANGED <<catalog, inventory, discovery>>
  /\ store'.managed = store.managed /\ store'.active = store.active
  /\ store'.values \in [Jobs \X Bucket -> SUBSET DataTimes]
  /\ \A i \in Jobs \ {j} : /\ rounds'[i] = rounds[i]
                           /\ \A b \in Bucket : store'.values[<<i, b>>] = store.values[<<i, b>>]
  /\ DOMAIN health' = AllJobs
  /\ \A i \in AllJobs \ {j} : health'[i] = health[i]
  /\ health'[j].configured = health[j].configured
  /\ rounds' \in [Jobs -> Round] /\ RoundOK(rounds'[j])
  /\ rounds[j].pc = "idle" => catalog # {}

\* A round begins with the catalog.
Begun(j) ==
  /\ store' = store /\ health' = health
  /\ rounds[j].pc = "idle" /\ rounds'[j].pc = "fetch"
  /\ rounds'[j].scope = catalog /\ rounds'[j].todo = catalog
  /\ rounds'[j].overlap = IF At("idle") THEN 0 ELSE 1

Goes(j) ==
  /\ rounds[j].pc # "idle" /\ rounds'[j].pc # "idle"
  /\ rounds'[j].scope = rounds[j].scope /\ rounds'[j].overlap = rounds[j].overlap

\* An answer for b is handed to the store.
Answered(j, b, at) ==
  /\ Goes(j) /\ rounds[j].pc = "fetch" /\ rounds'[j].pc = "stamp"
  /\ b \in rounds[j].todo /\ rounds'[j].current = {<<b, at>>}
  /\ rounds'[j].todo = rounds[j].todo \ {b} /\ rounds'[j].failed = rounds[j].failed
  /\ store' = Snap!Publish(store, <<j, b>>, at) /\ health' = health

\* Its time is handed to the metrics.
Timed(j, b, at) ==
  /\ Goes(j) /\ rounds[j].pc = "stamp" /\ rounds'[j].pc = "fetch" /\ rounds[j].current = {<<b, at>>} /\ b \in rounds[j].scope
  /\ rounds'[j].todo = rounds[j].todo /\ rounds'[j].failed = rounds[j].failed
  /\ store' = store /\ health'[j].ok = health[j].ok
  /\ b \notin health[j].configured => health'[j].dataTime = health[j].dataTime
  /\ b \in health[j].configured =>
       health'[j].dataTime = [r \in Bucket |-> IF r = b THEN at ELSE health[j].dataTime[r]]

Failed(j) ==
  /\ Goes(j) /\ rounds[j].pc = "fetch" /\ rounds'[j].pc = "fetch"
  /\ \E b \in rounds[j].todo : /\ rounds'[j].todo = rounds[j].todo \ {b}
                               /\ rounds'[j].failed = rounds[j].failed \cup {b}
  /\ store' = store /\ health' = health

Ended(j) ==
  /\ rounds[j].pc = "fetch" /\ rounds[j].todo = {} /\ rounds'[j] = Resting
  /\ store' = store /\ health'[j].dataTime = health[j].dataTime
  /\ health'[j].ok \subseteq
       health[j].ok \cup ((rounds[j].scope \ rounds[j].failed) \cap health[j].configured)

Collected(j) ==
  /\ Collects(j)
  /\ \/ Begun(j) \/ Failed(j) \/ Ended(j)
     \/ \E b \in Bucket, at \in DataTimes : Answered(j, b, at) \/ Timed(j, b, at)

LEMMA Continued ==
  ASSUME Shape, NEW j \in Jobs, NEW r \in Round, Continue(j, r)
  PROVE  /\ rounds' \in [Jobs -> Round] /\ rounds'[j] = r
         /\ \A i \in Jobs \ {j} : rounds'[i] = rounds[i]
BY DEF Shape, Continue

LEMMA BeginStep == ASSUME CopiesInv, NEW j \in Jobs, Begin(j) PROVE Collected(j)
<1> DEFINE o == IF At("idle") THEN 0 ELSE 1
           r == [pc |-> "fetch", scope |-> catalog, todo |-> catalog, current |-> {}, failed |-> {},
                 overlap |-> o]
<1>1. Continue(j, r) /\ UNCHANGED <<catalog, inventory, store, health, discovery>>
      /\ rounds[j].pc = "idle" /\ catalog # {}
  BY DEF Begin, RoundAt
<1>2. r \in Round /\ r.pc = "fetch" /\ r.scope = catalog /\ r.todo = catalog /\ r.current = {} /\ r.overlap = o
  BY DEF CopiesInv, Shape, Round
<1> HIDE DEF r
<1> QED BY <1>1, <1>2, Continued DEF Collected, Collects, Begun, RoundOK, CopiesInv, Shape

LEMMA FetchStep == ASSUME CopiesInv, NEW j \in Jobs, Fetch(j) PROVE Collected(j)
<1>1. PICK b \in rounds[j].todo, at \in DataTimes : Fetched(j, b, at)
  BY DEF Fetch
<1> DEFINE r == [rounds[j] EXCEPT !.pc = "stamp", !.current = {<<b, at>>}, !.todo = @ \ {b}]
<1>2. rounds[j] \in Round /\ rounds[j].pc = "fetch" /\ RoundOK(rounds[j])
  BY DEF Fetch, RoundAt, CopiesInv, Shape
<1>3. b \in Bucket /\ b \in rounds[j].scope
  BY <1>2 DEF Round, RoundOK
<1>0. {<<b, at>>} \in SUBSET (Bucket \X DataTimes)
  BY <1>3
<1>4. r \in Round /\ r.pc = "stamp" /\ r.scope = rounds[j].scope /\ r.overlap = rounds[j].overlap
      /\ r.current = {<<b, at>>} /\ r.todo = rounds[j].todo \ {b} /\ r.failed = rounds[j].failed
  BY <1>0, <1>2, <1>3 DEF Round
<1>5. Continue(j, r) /\ store' = Snap!Publish(store, <<j, b>>, at)
      /\ UNCHANGED <<catalog, inventory, health, discovery>>
  BY <1>1 DEF Fetch, Fetched
<1> HIDE DEF r
<1>6. RoundOK(r)
  BY <1>2, <1>3, <1>4 DEF RoundOK
<1>7. rounds' \in [Jobs -> Round] /\ rounds'[j] = r /\ \A i \in Jobs \ {j} : rounds'[i] = rounds[i]
  BY <1>4, <1>5, Continued DEF CopiesInv
<1>8. Answered(j, b, at)
  BY <1>2, <1>4, <1>5, <1>7 DEF Answered, Goes
<1>9. Collects(j)
  <2>1. Shape
    BY DEF CopiesInv
  <2>2. /\ store'.managed = store.managed /\ store'.active = store.active
        /\ store'.values \in [Jobs \X Bucket -> SUBSET DataTimes]
        /\ \A i \in Jobs, a \in Bucket : <<i, a>> # <<j, b>> => store'.values[<<i, a>>] = store.values[<<i, a>>]
    BY <1>3, <1>5, <2>1, Published
  <2>3. \A i \in Jobs \ {j}, a \in Bucket : store'.values[<<i, a>>] = store.values[<<i, a>>]
    BY <2>2
  <2> QED BY <1>2, <1>5, <1>6, <1>7, <2>1, <2>2, <2>3 DEF Collects, Shape
<1> QED BY <1>3, <1>8, <1>9 DEF Collected

LEMMA StampStep == ASSUME CopiesInv, NEW j \in Jobs, Stamp(j) PROVE Collected(j)
<1> DEFINE r == [rounds[j] EXCEPT !.pc = "fetch", !.current = {}]
<1>1. rounds[j] \in Round /\ rounds[j].pc = "stamp" /\ RoundOK(rounds[j])
  BY DEF Stamp, RoundAt, CopiesInv, Shape
<1>2. PICK b \in rounds[j].scope, at \in DataTimes : rounds[j].current = {<<b, at>>}
  BY <1>1 DEF RoundOK
<1>3. b \in Bucket
  BY <1>1 DEF Round
<1>4. r \in Round /\ r.pc = "fetch" /\ r.scope = rounds[j].scope /\ r.overlap = rounds[j].overlap
      /\ r.current = {} /\ r.todo = rounds[j].todo /\ r.failed = rounds[j].failed
  BY <1>1 DEF Round
<1>5. Continue(j, r) /\ UNCHANGED <<catalog, inventory, store, discovery>>
  BY DEF Stamp
<1>6. PICK h \in Tele!SetResourceDataTimestamp(health[j], b, at) : health' = [health EXCEPT ![j] = h]
  <2>1. PICK c \in rounds[j].current : \E h \in Tele!SetResourceDataTimestamp(health[j], c[1], c[2]) :
           health' = [health EXCEPT ![j] = h]
    BY DEF Stamp
  <2>2. c = <<b, at>>
    BY <1>2, <2>1
  <2> QED BY <2>1, <2>2
<1> HIDE DEF r
<1>7. j \in AllJobs /\ health'[j] = h /\ DOMAIN health' = AllJobs
      /\ \A i \in AllJobs \ {j} : health'[i] = health[i]
  BY <1>6 DEF CopiesInv, Shape
<1>8. rounds' \in [Jobs -> Round] /\ rounds'[j] = r /\ \A i \in Jobs \ {j} : rounds'[i] = rounds[i]
  BY <1>4, <1>5, Continued DEF CopiesInv
<1>11. /\ h.configured = health[j].configured /\ h.ok = health[j].ok
       /\ b \notin health[j].configured => h.dataTime = health[j].dataTime
       /\ b \in health[j].configured =>
            h.dataTime = [q \in Bucket |-> IF q = b THEN at ELSE health[j].dataTime[q]]
  BY <1>3, <1>6, Stamped
<1>9. Timed(j, b, at)
  BY <1>1, <1>2, <1>4, <1>5, <1>7, <1>8, <1>11 DEF Timed, Goes
<1>10. Collects(j)
  BY <1>1, <1>4, <1>5, <1>7, <1>8, <1>11 DEF Collects, CopiesInv, Shape, RoundOK
<1> QED BY <1>3, <1>9, <1>10 DEF Collected

LEMMA FetchFailStep == ASSUME CopiesInv, NEW j \in Jobs, FetchFail(j) PROVE Collected(j)
<1>1. PICK b \in rounds[j].todo :
         Continue(j, [rounds[j] EXCEPT !.todo = @ \ {b}, !.failed = @ \cup {b}])
  BY DEF FetchFail
<1> DEFINE r == [rounds[j] EXCEPT !.todo = @ \ {b}, !.failed = @ \cup {b}]
<1>2. rounds[j] \in Round /\ rounds[j].pc = "fetch" /\ RoundOK(rounds[j])
  BY DEF FetchFail, RoundAt, CopiesInv, Shape
<1>3. r \in Round /\ r.pc = "fetch" /\ r.scope = rounds[j].scope /\ r.overlap = rounds[j].overlap
      /\ r.current = rounds[j].current /\ r.todo = rounds[j].todo \ {b} /\ r.failed = rounds[j].failed \cup {b}
  BY <1>2 DEF Round
<1>4. Continue(j, r) /\ UNCHANGED <<catalog, inventory, store, health, discovery>>
  BY <1>1 DEF FetchFail
<1> HIDE DEF r
<1>5. rounds' \in [Jobs -> Round] /\ rounds'[j] = r /\ \A i \in Jobs \ {j} : rounds'[i] = rounds[i]
  BY <1>3, <1>4, Continued DEF CopiesInv
<1>6. Failed(j)
  BY <1>2, <1>3, <1>4, <1>5 DEF Failed, Goes
<1>7. Collects(j)
  BY <1>2, <1>3, <1>4, <1>5 DEF Collects, CopiesInv, Shape, RoundOK
<1> QED BY <1>6, <1>7 DEF Collected

LEMMA ObserveStep == ASSUME CopiesInv, NEW j \in Jobs, Observe(j) PROVE Collected(j)
<1>1. PICK h \in Tele!ObserveResults(health[j], rounds[j].scope \ rounds[j].failed, rounds[j].failed, Now) :
         health' = [health EXCEPT ![j] = h]
  BY DEF Observe
<1>2. rounds[j].pc = "fetch" /\ rounds[j].todo = {} /\ Continue(j, Resting)
      /\ UNCHANGED <<catalog, inventory, store, discovery>>
  BY DEF Observe, RoundAt
<1>3. Resting \in Round /\ RoundOK(Resting)
  BY DEF Resting, Round, RoundOK
<1>4. j \in AllJobs /\ health'[j] = h /\ DOMAIN health' = AllJobs
      /\ \A i \in AllJobs \ {j} : health'[i] = health[i]
  BY <1>1 DEF CopiesInv, Shape
<1>5. rounds' \in [Jobs -> Round] /\ rounds'[j] = Resting /\ \A i \in Jobs \ {j} : rounds'[i] = rounds[i]
  BY <1>2, <1>3, Continued DEF CopiesInv
<1>6. h.configured = health[j].configured /\ h.dataTime = health[j].dataTime
      /\ h.ok \subseteq health[j].ok \cup ((rounds[j].scope \ rounds[j].failed) \cap health[j].configured)
  BY Observed
<1>7. Ended(j)
  BY <1>2, <1>4, <1>5, <1>6 DEF Ended
<1>8. Collects(j)
  BY <1>2, <1>3, <1>4, <1>5, <1>6 DEF Collects, CopiesInv, Shape
<1> QED BY <1>7, <1>8 DEF Collected

LEMMA RoundSteps ==
  ASSUME CopiesInv, NEW j \in Jobs, Begin(j) \/ RoundStep(j)
  PROVE  Collected(j)
BY BeginStep, FetchStep, StampStep, FetchFailStep, ObserveStep DEF RoundStep
-----------------------------------------------------------------------------
(* Which copies are of the new listing: for any number of discoveries *)

LEMMA CopiesInit == Init => CopiesInv
<1> SUFFICES ASSUME Init PROVE CopiesInv
  OBVIOUS
<1>1. Resting \in Round /\ RoundOK(Resting)
  BY DEF Resting, Round, RoundOK
<1>2. Shape
  <2>1. store.managed = FALSE /\ store.values = [r \in Jobs \X Bucket |-> {}]
    BY DEF Init, Snap!NewResourceStore
  <2>2. rounds = [j \in Jobs |-> Resting]
    BY DEF Init
  <2>3. rounds \in [Jobs -> Round]
    BY <1>1, <2>2
  <2> QED BY <2>1, <2>3 DEF Init, Shape, Pcs
<1>3. store.active = {} /\ store.managed = FALSE
  BY DEF Init, Snap!NewResourceStore
<1>4. \A j \in AllJobs : health[j].configured = {} /\ health[j].ok = {}
  BY DEF Init, Tele!NewHealth
<1>5. \A j \in Jobs : rounds[j] = Resting
  BY DEF Init
<1> QED
  BY <1>1, <1>2, <1>3, <1>4, <1>5
  DEF Init, CopiesInv, Copies, Copy, BeforeRetain, BeforeInventory, BeforeHealth, Resting

\* Collection moves no copy of the resource set.
LEMMA CollectionCopies ==
  ASSUME CopiesInv, NEW j \in Jobs, Collected(j)
  PROVE  CopiesInv'
<1> USE DEF CopiesInv
<1>1. Collects(j) /\ j \in AllJobs
  BY DEF Collected
<1>2. Shape'
  BY <1>1 DEF Collects, Shape
<1>3. \A i \in Jobs : RoundOK(rounds'[i])
  BY <1>1 DEF Collects
<1>4. /\ \A before : Copy(before)' = Copy(before)
      /\ \A i : BeforeHealth(i)' = BeforeHealth(i)
  BY <1>1 DEF Collects, Copy, BeforeHealth, BeforeInventory
<1>5. ASSUME NEW i \in AllJobs
      PROVE  health'[i].configured = health[i].configured /\ health'[i].ok \subseteq health'[i].configured
  <2>0. health[i].ok \subseteq health[i].configured
    BY DEF Copies
  <2>1. CASE i # j
    BY <1>1, <2>0, <2>1 DEF Collects
  <2>2. CASE i = j
    BY <1>1, <2>0, <2>2 DEF Collects, Collected, Begun, Failed, Ended, Answered, Timed
  <2> QED BY <2>1, <2>2
<1>6. ~store.managed => rounds'[j].pc = "idle" /\ \A i \in Jobs : rounds'[i].pc = "idle"
  <2>1. store.managed
    BY <1>1 DEF Collected, Collects, Begun, Failed, Ended, Answered, Timed, Goes, Copies
  <2> QED BY <2>1
<1>7. Copies'
  BY <1>1, <1>4, <1>5, <1>6 DEF Collects, Copies, Copy, BeforeRetain, BeforeInventory, BeforeHealth
<1> QED BY <1>2, <1>3, <1>7

\* A step of the discovery goroutine after its listing, but for the copy it may write.
LEMMA Went ==
  ASSUME Shape, NEW pc \in Pcs, Goto(pc)
  PROVE  /\ discovery'.pc = pc /\ discovery'.listing = discovery.listing
         /\ DOMAIN discovery' = {"pc", "listing"}
BY DEF Shape, Goto

LEMMA ListRounds ==
  ASSUME CopiesInv, List
  PROVE  /\ rounds' \in [Jobs -> Round] /\ \A j \in Jobs : RoundOK(rounds'[j])
         /\ \A j \in Jobs :
              /\ rounds[j].overlap < MaxOverlap
              /\ rounds'[j].pc = rounds[j].pc /\ rounds'[j].scope = rounds[j].scope
              /\ rounds'[j].todo = rounds[j].todo /\ rounds'[j].failed = rounds[j].failed
              /\ rounds'[j].current = rounds[j].current
              /\ rounds[j].pc # "idle" => rounds'[j].overlap = rounds[j].overlap + 1
<1>1. ASSUME NEW j \in Jobs
      PROVE  /\ rounds'[j] \in Round /\ RoundOK(rounds'[j])
             /\ rounds[j].overlap < MaxOverlap
             /\ rounds'[j].pc = rounds[j].pc /\ rounds'[j].scope = rounds[j].scope
             /\ rounds'[j].todo = rounds[j].todo /\ rounds'[j].failed = rounds[j].failed
             /\ rounds'[j].current = rounds[j].current
             /\ rounds[j].pc # "idle" => rounds'[j].overlap = rounds[j].overlap + 1
  <2> DEFINE r == [rounds[j] EXCEPT !.overlap = @ + 1]
  <2>1. rounds[j] \in Round /\ RoundOK(rounds[j]) /\ rounds[j].overlap < MaxOverlap
    BY DEF CopiesInv, Shape, List
  <2>2. rounds'[j] = IF rounds[j].pc = "idle" THEN rounds[j] ELSE r
    BY DEF List
  <2>3. r \in Round /\ r.pc = rounds[j].pc /\ r.scope = rounds[j].scope /\ r.todo = rounds[j].todo
        /\ r.failed = rounds[j].failed /\ r.current = rounds[j].current
        /\ r.overlap = rounds[j].overlap + 1
    BY <2>1 DEF Round
  <2> HIDE DEF r
  <2>4. RoundOK(r)
    BY <2>1, <2>3 DEF RoundOK
  <2> QED BY <2>1, <2>2, <2>3, <2>4
<1>2. rounds' = [j \in Jobs |-> rounds'[j]]
  BY DEF List
<1>3. rounds' \in [Jobs -> Round]
  BY <1>1, <1>2
<1> QED BY <1>1, <1>3

LEMMA Listing ==
  ASSUME List
  PROVE  discovery.pc = "idle" /\ discovery'.pc = "retain" /\ discovery'.listing \in SUBSET Bucket
         /\ DOMAIN discovery' = {"pc", "listing"} /\ UNCHANGED <<catalog, inventory, store, health>>
<1>1. PICK l \in SUBSET Bucket : discovery' = [pc |-> "retain", listing |-> l]
  BY DEF List
<1> QED BY <1>1 DEF List, At

\* The metrics of one collector, and the place of the discovery.
LEMMA ReplacedHealth ==
  ASSUME CopiesInv, NEW k \in AllJobs, NEW next \in Pcs, ReplaceHealth(k, next)
  PROVE  /\ discovery.pc = k /\ discovery'.pc = next /\ discovery'.listing = discovery.listing
         /\ DOMAIN discovery' = {"pc", "listing"}
         /\ UNCHANGED <<catalog, inventory, store, rounds>>
         /\ DOMAIN health' = AllJobs /\ \A i \in AllJobs \ {k} : health'[i] = health[i]
         /\ health'[k].configured = discovery.listing
         /\ health'[k].ok = health[k].ok \cap discovery.listing
         /\ health'[k].dataTime =
              [b \in Bucket |-> IF b \in discovery.listing THEN health[k].dataTime[b] ELSE Tele!NoTime]
<1>1. PICK h \in Tele!ReplaceResources(health[k], discovery.listing) :
         health' = [health EXCEPT ![k] = h]
  BY DEF ReplaceHealth
<1>2. DOMAIN health' = AllJobs /\ health'[k] = h /\ \A i \in AllJobs \ {k} : health'[i] = health[i]
  BY <1>1 DEF CopiesInv, Shape
<1>3. h.configured = discovery.listing /\ h.ok = health[k].ok \cap discovery.listing
      /\ h.dataTime = [b \in Bucket |-> IF b \in discovery.listing THEN health[k].dataTime[b] ELSE Tele!NoTime]
  BY <1>1, Replaced
<1> QED BY <1>2, <1>3, Went DEF ReplaceHealth, At, CopiesInv

Replacing(k, next) ==
  \/ k = "capacity" /\ next = "activity"
  \/ k = "activity" /\ next = "summary"
  \/ k = "summary" /\ next = "catalog"

LEMMA DiscoveryCopies == ASSUME CopiesInv, Discovery PROVE CopiesInv'
<1> USE DEF Pcs, BeforeRetain, BeforeInventory, BeforeHealth
<1>1. CASE List
  <2>1. Shape' /\ \A j \in Jobs : RoundOK(rounds'[j])
    BY <1>1, Listing, ListRounds DEF CopiesInv, Shape
  <2>2. Copies'
    BY <1>1, Listing, ListRounds DEF CopiesInv, Copies, Copy
  <2> QED BY <2>1, <2>2 DEF CopiesInv
<1>2. CASE RetainSamples
  <2>1. /\ discovery.pc = "retain" /\ discovery'.pc = "inventory" /\ discovery'.listing = discovery.listing
        /\ DOMAIN discovery' = {"pc", "listing"} /\ UNCHANGED <<catalog, inventory, health, rounds>>
    BY <1>2, Went DEF RetainSamples, At, CopiesInv
  <2>2. /\ store'.managed = TRUE /\ store'.active = Jobs \X discovery.listing
        /\ store'.values \in [Jobs \X Bucket -> SUBSET DataTimes]
    BY <1>2, Retained DEF RetainSamples, CopiesInv, Shape
  <2> QED BY <2>1, <2>2 DEF CopiesInv, Shape, Copies, Copy
<1>3. CASE PublishInventory
  <2>1. /\ discovery.pc = "inventory" /\ discovery'.pc = "capacity" /\ discovery'.listing = discovery.listing
        /\ DOMAIN discovery' = {"pc", "listing"} /\ UNCHANGED <<catalog, store, health, rounds>>
        /\ inventory' = {discovery.listing}
    BY <1>3, Went DEF PublishInventory, At, CopiesInv
  <2> QED BY <2>1 DEF CopiesInv, Shape, Copies, Copy
<1>4. CASE ReplaceCatalog
  <2>1. /\ discovery.pc = "catalog" /\ discovery'.pc = "idle" /\ discovery'.listing \in SUBSET Bucket
        /\ DOMAIN discovery' = {"pc", "listing"} /\ UNCHANGED <<inventory, store, health, rounds>>
        /\ catalog' = discovery.listing
    BY <1>4 DEF ReplaceCatalog, At
  <2> QED BY <2>1 DEF CopiesInv, Shape, Copies, Copy
<1>5. ASSUME NEW k \in AllJobs, NEW next \in Pcs, Replacing(k, next), ReplaceHealth(k, next)
      PROVE  CopiesInv'
  <2> DEFINE L == discovery.listing
  <2>1. /\ discovery.pc = k /\ discovery'.pc = next /\ discovery'.listing = L
        /\ DOMAIN discovery' = {"pc", "listing"}
        /\ UNCHANGED <<catalog, inventory, store, rounds>>
        /\ DOMAIN health' = AllJobs /\ \A i \in AllJobs \ {k} : health'[i] = health[i]
        /\ health'[k].configured = L /\ health'[k].ok \subseteq L
    BY <1>5, ReplacedHealth
  <2>2. Shape' /\ \A j \in Jobs : RoundOK(rounds'[j])
    BY <2>1 DEF CopiesInv, Shape
  <2>3. ASSUME NEW i \in AllJobs
        PROVE  health'[i].configured = Copy(BeforeHealth(i))' /\ health'[i].ok \subseteq health'[i].configured
    BY <1>5, <2>1 DEF CopiesInv, Copies, Copy, AllJobs, Replacing
  <2>4. Copies'
    BY <1>5, <2>1, <2>3 DEF CopiesInv, Copies, Copy, Replacing
  <2> QED BY <2>2, <2>4 DEF CopiesInv
<1> QED
  BY <1>1, <1>2, <1>3, <1>4, <1>5 DEF Discovery, Replacing, AllJobs

LEMMA Untouched == ASSUME CopiesInv, UNCHANGED vars PROVE CopiesInv'
BY DEF CopiesInv, Shape, Copies, Copy, BeforeHealth, BeforeInventory, RoundOK, vars

\* At every point of reconcile each copy is of the old or of the new listing, however many
\* discoveries run into a round.
THEOREM CopiesInvariant == Spec => []CopiesInv
<1>1. CopiesInv /\ [Next]_vars => CopiesInv'
  BY RoundSteps, CollectionCopies, DiscoveryCopies, Untouched DEF Next
<1> QED BY <1>1, CopiesInit, PTL DEF Spec
-----------------------------------------------------------------------------
(* Health, times and samples, of rounds that at most one discovery runs into *)

Done(r) == r.scope \ (r.todo \cup r.failed)
Pending(r) == {c[1] : c \in r.current}
TimeOf(h, b) == IF h.dataTime[b] = Tele!NoTime THEN {} ELSE {h.dataTime[b]}

Scoped(j) ==
  rounds[j].pc # "idle" =>
    /\ rounds[j].overlap = 0 => At("idle")
    /\ rounds[j].overlap = 0 \/ ~At("idle") => rounds[j].scope = catalog

Samples(j) ==
  /\ \A b \in Bucket : <<j, b>> \notin store.active => store.values[<<j, b>>] = {}
  /\ \A b \in Bucket : b \notin health[j].configured => health[j].dataTime[b] = Tele!NoTime
  /\ health[j].ok \cap Listed \subseteq Shown(j)
  /\ rounds[j].pc # "idle" => Done(rounds[j]) \cap Listed \subseteq Shown(j)
  /\ \A b \in Listed \ Pending(rounds[j]) : store.values[<<j, b>>] = TimeOf(health[j], b)
  /\ \A c \in rounds[j].current : c[1] \in Listed => store.values[<<j, c[1]>>] = {c[2]}

SamplesInv == \A j \in Jobs : Scoped(j) /\ Samples(j)

LEMMA Sorts ==
  ASSUME CopiesInv, NEW j \in Jobs
  PROVE  /\ rounds[j] \in Round /\ RoundOK(rounds[j])
         /\ Listed \subseteq Bucket /\ catalog \subseteq Bucket /\ j \in AllJobs
         /\ \A c \in rounds[j].current : c[1] \in Bucket
BY DEF CopiesInv, Shape, Listed, Copy, Round

LEMMA SamplesInit == Init => SamplesInv
<1> SUFFICES ASSUME Init, NEW j \in Jobs PROVE Scoped(j) /\ Samples(j)
  BY DEF SamplesInv
<1>1. \A b \in Bucket : store.values[<<j, b>>] = {}
  BY DEF Init, Snap!NewResourceStore
<1>2. health[j].ok = {} /\ \A b \in Bucket : health[j].dataTime[b] = Tele!NoTime
  BY DEF Init, Tele!NewHealth
<1>3. Listed = {} /\ rounds[j] = Resting
  BY DEF Init, Listed, Copy
<1> QED BY <1>1, <1>2, <1>3 DEF Scoped, Samples, Resting

\* A copy that is behind the listing is the catalog, and so is the scope of a round then.
LEMMA Behind ==
  ASSUME CopiesInv, NEW j \in Jobs, Scoped(j), rounds[j].pc # "idle", NEW b \in rounds[j].scope
  PROVE  /\ <<j, b>> \in store.active \/ b \notin Listed
         /\ b \in health[j].configured \/ b \notin Listed
         /\ store.managed
<1>1. /\ store.active = Jobs \X Copy(BeforeRetain)
      /\ health[j].configured = Copy(BeforeHealth(j))
      /\ store.managed
  BY DEF CopiesInv, Copies
<1> QED
  BY <1>1 DEF Scoped, At, Listed, Copy, BeforeRetain, BeforeHealth, BeforeInventory

\* The collection of one job leaves the samples of the others alone.
LEMMA OtherSamples ==
  ASSUME CopiesInv, SamplesInv, NEW j \in Jobs, Collects(j), NEW i \in Jobs \ {j}
  PROVE  Scoped(i)' /\ Samples(i)'
<1>1. /\ UNCHANGED <<catalog, discovery>> /\ rounds'[i] = rounds[i] /\ health'[i] = health[i]
      /\ store'.active = store.active
      /\ \A b \in Bucket : store'.values[<<i, b>>] = store.values[<<i, b>>]
  BY DEF Collects
<1>2. Listed' = Listed /\ Shown(i)' = Shown(i)
  BY <1>1 DEF Listed, Copy, Shown
<1>3. Scoped(i) /\ Samples(i)
  BY DEF SamplesInv
<1>4. Scoped(i)'
  BY <1>1, <1>3 DEF Scoped, At
<1>5. Done(rounds[i])' = Done(rounds[i]) /\ Pending(rounds[i])' = Pending(rounds[i])
      /\ \A b : TimeOf(health[i], b)' = TimeOf(health[i], b)
  BY <1>1 DEF Done, Pending, TimeOf
<1>6. Listed \subseteq Bucket /\ \A c \in rounds[i].current : c[1] \in Bucket
  BY Sorts
<1> QED BY <1>1, <1>2, <1>3, <1>4, <1>5, <1>6 DEF Samples
LEMMA BegunSamples ==
  ASSUME CopiesInv, SamplesInv, NEW j \in Jobs, Collects(j), Begun(j)
  PROVE  Scoped(j)' /\ Samples(j)'
<1>1. Scoped(j)'
  BY DEF Collects, Begun, Scoped, At
<1>2. Samples(j) /\ rounds[j].current = {}
  BY Sorts DEF SamplesInv, Begun, RoundOK
<1>3. rounds'[j].current = {} /\ Done(rounds'[j]) = {}
  BY DEF Collects, Begun, RoundOK, Done
<1>4. Listed' = Listed /\ Shown(j)' = Shown(j) /\ store' = store /\ health' = health
  BY DEF Collects, Begun, Listed, Copy, Shown
<1> QED BY <1>1, <1>2, <1>3, <1>4 DEF Samples, Pending, TimeOf

LEMMA FailedSamples ==
  ASSUME CopiesInv, SamplesInv, NEW j \in Jobs, Collects(j), Failed(j)
  PROVE  Scoped(j)' /\ Samples(j)'
<1>1. Scoped(j) /\ Samples(j) /\ RoundOK(rounds[j])
  BY Sorts DEF SamplesInv
<1>2. Scoped(j)'
  BY <1>1 DEF Collects, Failed, Goes, Scoped, At
<1>3. rounds'[j].current = {} /\ rounds[j].current = {}
  BY <1>1 DEF Collects, Failed, RoundOK
<1>4. Done(rounds'[j]) = Done(rounds[j])
  BY <1>1 DEF Done, Failed, Goes, RoundOK
<1>5. Listed' = Listed /\ Shown(j)' = Shown(j) /\ store' = store /\ health' = health
  BY DEF Collects, Failed, Listed, Copy, Shown
<1> QED BY <1>1, <1>2, <1>3, <1>4, <1>5 DEF Samples, Pending, TimeOf, Failed, Goes

LEMMA EndedSamples ==
  ASSUME CopiesInv, SamplesInv, NEW j \in Jobs, Collects(j), Ended(j)
  PROVE  Scoped(j)' /\ Samples(j)'
<1>1. Scoped(j) /\ Samples(j) /\ RoundOK(rounds[j]) /\ rounds[j].pc = "fetch"
  BY Sorts DEF SamplesInv, Ended
<1>2. Scoped(j)'
  BY DEF Ended, Resting, Scoped
<1>3. rounds'[j].current = {} /\ rounds'[j].pc = "idle" /\ rounds[j].current = {}
  BY <1>1 DEF Ended, Resting, RoundOK
<1>4. Listed' = Listed /\ Shown(j)' = Shown(j) /\ store' = store
      /\ health'[j].configured = health[j].configured /\ health'[j].dataTime = health[j].dataTime
  BY DEF Collects, Ended, Listed, Copy, Shown
<1>5. health'[j].ok \subseteq health[j].ok \cup Done(rounds[j])
  BY DEF Ended, Done
<1> QED BY <1>1, <1>2, <1>3, <1>4, <1>5 DEF Samples, Pending, TimeOf

LEMMA AnsweredSamples ==
  ASSUME CopiesInv, SamplesInv, NEW j \in Jobs, NEW b \in Bucket, NEW at \in DataTimes,
         Collects(j), Answered(j, b, at)
  PROVE  Scoped(j)' /\ Samples(j)'
<1>1. Scoped(j) /\ Samples(j) /\ RoundOK(rounds[j]) /\ Shape /\ Listed \subseteq Bucket
  BY Sorts DEF SamplesInv, CopiesInv
<1>2. Scoped(j)'
  BY <1>1 DEF Collects, Answered, Goes, Scoped, At
<1>3. rounds[j].current = {} /\ rounds'[j].current = {<<b, at>>}
  BY <1>1 DEF Answered, RoundOK
<1>4. Pending(rounds[j]) = {} /\ Pending(rounds'[j]) = {b}
  BY <1>3 DEF Pending
<1>5. <<j, b>> \in store.active \/ b \notin Listed
  BY <1>1, Behind DEF Answered, RoundOK, Goes
<1>6. Listed' = Listed /\ store'.active = store.active /\ health' = health
  BY DEF Collects, Answered, Listed, Copy
<1>7. /\ \A a \in Bucket \ {b} : store'.values[<<j, a>>] = store.values[<<j, a>>]
      /\ store'.values[<<j, b>>] =
           IF store.managed /\ <<j, b>> \notin store.active THEN store.values[<<j, b>>] ELSE {at}
  <2>1. \A a \in Bucket \ {b} : <<j, a>> # <<j, b>>
    OBVIOUS
  <2>2. store' = Snap!Publish(store, <<j, b>>, at)
    BY DEF Answered
  <2>3. /\ \A i \in Jobs, a \in Bucket : <<i, a>> # <<j, b>> => store'.values[<<i, a>>] = store.values[<<i, a>>]
        /\ store'.values[<<j, b>>] =
             IF store.managed /\ <<j, b>> \notin store.active THEN store.values[<<j, b>>] ELSE {at}
    BY <1>1, <2>2, Published
  <2> QED BY <2>1, <2>3
<1>8. store.managed
  BY <1>1, Behind DEF Answered, RoundOK, Goes
<1>9. Shown(j) \subseteq Shown(j)' /\ (b \in Listed => b \in Shown(j)')
  BY <1>5, <1>7 DEF Shown
<1>10. Done(rounds'[j]) \subseteq Done(rounds[j]) \cup {b}
  BY DEF Done, Answered, Goes
<1>11. \A a \in Listed \ {b} : store'.values[<<j, a>>] = TimeOf(health'[j], a)
  BY <1>1, <1>4, <1>6, <1>7 DEF Samples
<1>12. \A a \in Bucket : <<j, a>> \notin store'.active => store'.values[<<j, a>>] = {}
  BY <1>1, <1>6, <1>7, <1>8 DEF Samples
<1>13. b \in Listed => store'.values[<<j, b>>] = {at}
  BY <1>5, <1>7
<1>14. health'[j].ok \cap Listed' \subseteq Shown(j)'
  BY <1>1, <1>6, <1>9 DEF Samples
<1>15. Done(rounds'[j]) \cap Listed' \subseteq Shown(j)'
  BY <1>1, <1>6, <1>9, <1>10 DEF Samples, Answered, Goes
<1>16. \A a \in Bucket : a \notin health'[j].configured => health'[j].dataTime[a] = Tele!NoTime
  BY <1>1, <1>6 DEF Samples
<1> QED
  BY <1>2, <1>3, <1>4, <1>6, <1>11, <1>12, <1>13, <1>14, <1>15, <1>16 DEF Samples, TimeOf

LEMMA TimedSamples ==
  ASSUME CopiesInv, SamplesInv, NEW j \in Jobs, NEW b \in Bucket, NEW at \in DataTimes,
         Collects(j), Timed(j, b, at)
  PROVE  Scoped(j)' /\ Samples(j)'
<1>1. Scoped(j) /\ Samples(j) /\ Listed \subseteq Bucket
  BY Sorts DEF SamplesInv
<1>2. Scoped(j)'
  BY <1>1 DEF Collects, Timed, Goes, Scoped, At
<1>3. Pending(rounds[j]) = {b} /\ (b \in Listed => store.values[<<j, b>>] = {at})
  <2>1. rounds[j].current = {<<b, at>>} /\ <<b, at>>[1] = b /\ <<b, at>>[2] = at
    BY DEF Timed
  <2>2. Pending(rounds[j]) = {b}
    BY <2>1 DEF Pending
  <2>3. <<b, at>> \in rounds[j].current
    BY <2>1
  <2>4. \A c \in rounds[j].current : c[1] \in Listed => store.values[<<j, c[1]>>] = {c[2]}
    BY <1>1 DEF Samples
  <2> QED BY <2>1, <2>2, <2>3, <2>4
<1>4. b \in health[j].configured \/ b \notin Listed
  BY <1>1, Behind DEF Timed, Goes
<1>5. Listed' = Listed /\ store' = store /\ Shown(j)' = Shown(j)
      /\ health'[j].configured = health[j].configured /\ health'[j].ok = health[j].ok
  BY DEF Collects, Timed, Listed, Copy, Shown
<1>6. Done(rounds'[j]) = Done(rounds[j]) /\ rounds[j].pc # "idle"
  BY DEF Done, Timed, Goes
<1>7. at # Tele!NoTime
  BY DEF Tele!NoTime
<1>8. /\ \A a \in Bucket \ {b} : health'[j].dataTime[a] = health[j].dataTime[a]
      /\ b \in health[j].configured => health'[j].dataTime[b] = at
      /\ b \notin health[j].configured => health'[j].dataTime[b] = health[j].dataTime[b]
  BY DEF Timed
<1>9. \A a \in Listed : store'.values[<<j, a>>] = TimeOf(health'[j], a)
  <2>1. ASSUME NEW a \in Listed, a # b PROVE store'.values[<<j, a>>] = TimeOf(health'[j], a)
    BY <1>1, <1>3, <1>5, <1>8, <2>1 DEF Samples, TimeOf
  <2>2. b \in Listed => store'.values[<<j, b>>] = TimeOf(health'[j], b)
    BY <1>3, <1>4, <1>5, <1>7, <1>8 DEF TimeOf
  <2> QED BY <2>1, <2>2
<1>10. \A a \in Bucket : a \notin health'[j].configured => health'[j].dataTime[a] = Tele!NoTime
  BY <1>1, <1>5, <1>8 DEF Samples
<1>11. rounds'[j].current = {}
  BY DEF Collects, RoundOK, Timed
<1> QED
  BY <1>1, <1>2, <1>5, <1>6, <1>9, <1>10, <1>11 DEF Samples, TimeOf

LEMMA CollectionSamples ==
  ASSUME CopiesInv, SamplesInv, NEW j \in Jobs, Collected(j)
  PROVE  SamplesInv'
<1>1. Collects(j)
  BY DEF Collected
<1>2. Scoped(j)' /\ Samples(j)'
  BY BegunSamples, FailedSamples, EndedSamples, AnsweredSamples, TimedSamples DEF Collected
<1> QED BY <1>1, <1>2, OtherSamples DEF SamplesInv
\* The listing: nothing is known of a bucket that is new to the catalog, and every round
\* that it runs into is of the catalog.
LEMMA ListSamples ==
  ASSUME MaxOverlap = 1, CopiesInv, SamplesInv, List, NEW j \in Jobs
  PROVE  Scoped(j)' /\ Samples(j)'
<1>1. /\ discovery.pc = "idle" /\ discovery'.pc = "retain" /\ UNCHANGED <<catalog, store, health>>
      /\ Listed = catalog /\ Shown(j)' = Shown(j) /\ Listed' \subseteq Bucket
  BY Listing DEF Listed, Copy, Shown
<1>2. Scoped(j) /\ Samples(j) /\ rounds[j] \in Round /\ RoundOK(rounds[j])
  BY Sorts DEF SamplesInv
<1>3. /\ rounds'[j].pc = rounds[j].pc /\ rounds'[j].scope = rounds[j].scope
      /\ rounds'[j].current = rounds[j].current
      /\ Done(rounds'[j]) = Done(rounds[j]) /\ Pending(rounds'[j]) = Pending(rounds[j])
  BY ListRounds DEF Done, Pending
<1>4. rounds[j].pc # "idle" => rounds[j].overlap = 0 /\ rounds'[j].overlap = 1
  <2>1. rounds[j].overlap \in Nat /\ rounds[j].overlap < 1
    BY <1>2, ListRounds DEF Round
  <2> QED BY <2>1, ListRounds
<1>5. rounds[j].pc # "idle" => rounds[j].scope = catalog
  BY <1>2, <1>4 DEF Scoped
<1>6. Scoped(j)'
  BY <1>1, <1>3, <1>4, <1>5 DEF Scoped, At
<1>7. health[j].configured = catalog /\ health[j].ok \subseteq catalog /\ store.active = Jobs \X catalog
  BY <1>1, Sorts DEF CopiesInv, Copies, Copy, BeforeHealth, BeforeInventory, BeforeRetain
<1>8. Done(rounds[j]) \subseteq rounds[j].scope
  BY DEF Done
<1>9. \A c \in rounds[j].current : c[1] \in catalog /\ rounds[j].pc # "idle"
  BY <1>2, <1>5 DEF RoundOK
<1>10. ASSUME NEW b \in Bucket, b \notin catalog PROVE store.values[<<j, b>>] = TimeOf(health[j], b)
  BY <1>2, <1>7, <1>10 DEF Samples, TimeOf
<1>11. \A b \in Listed' \ Pending(rounds'[j]) : store'.values[<<j, b>>] = TimeOf(health'[j], b)
  BY <1>1, <1>2, <1>3, <1>10 DEF Samples
<1>12. \A c \in rounds'[j].current : store'.values[<<j, c[1]>>] = {c[2]}
  BY <1>1, <1>2, <1>3, <1>9 DEF Samples
<1> QED
  BY <1>1, <1>2, <1>3, <1>5, <1>6, <1>7, <1>8, <1>11, <1>12 DEF Samples, TimeOf

\* After it, a step that changes neither samples nor health of j.
LEMMA GoneOnSamples ==
  ASSUME CopiesInv, SamplesInv, NEW j \in Jobs, discovery.pc # "idle",
         discovery'.pc = "idle" => catalog' = discovery.listing,
         discovery'.pc # "idle" => discovery'.listing = discovery.listing /\ catalog' = catalog,
         store' = store, rounds' = rounds, health'[j] = health[j]
  PROVE  Scoped(j)' /\ Samples(j)'
<1>1. Scoped(j) /\ Samples(j)
  BY DEF SamplesInv
<1>2. Listed' = Listed /\ Shown(j)' = Shown(j)
  BY DEF Listed, Copy, Shown
<1>3. Scoped(j)'
  BY <1>1 DEF Scoped, At
<1> QED BY <1>1, <1>2, <1>3 DEF Samples, TimeOf, Pending, Done

LEMMA RetainedSamples ==
  ASSUME CopiesInv, SamplesInv, RetainSamples, NEW j \in Jobs
  PROVE  Scoped(j)' /\ Samples(j)'
<1> DEFINE L == discovery.listing
<1>1. /\ discovery.pc = "retain" /\ discovery'.pc = "inventory" /\ discovery'.listing = L
      /\ UNCHANGED <<catalog, health, rounds>> /\ L \in SUBSET Bucket /\ Shape
  BY Went DEF RetainSamples, At, CopiesInv, Pcs, Shape
<1>2. /\ store'.active = Jobs \X L
      /\ \A b \in Bucket : store'.values[<<j, b>>] = IF b \in L THEN store.values[<<j, b>>] ELSE {}
  <2>1. store' = Snap!Retain(store, Jobs \X L)
    BY DEF RetainSamples
  <2>2. L \in SUBSET Bucket /\ Shape
    BY <1>1
  <2> HIDE DEF L
  <2>3. /\ store'.active = Jobs \X L
        /\ \A i \in Jobs, b \in Bucket : store'.values[<<i, b>>] = IF b \in L THEN store.values[<<i, b>>] ELSE {}
    BY <2>1, <2>2, Retained
  <2> QED BY <2>3
<1>3. Scoped(j) /\ Samples(j) /\ \A c \in rounds[j].current : c[1] \in Bucket
  BY Sorts DEF SamplesInv
<1>4. Listed = L /\ Listed' = L
  BY <1>1 DEF Listed, Copy
<1> HIDE DEF L
<1>5. Shown(j) \cap L \subseteq Shown(j)'
  BY <1>2 DEF Shown
<1>6. Scoped(j)'
  BY <1>1, <1>3 DEF Scoped, At
<1> QED
  BY <1>1, <1>2, <1>3, <1>4, <1>5, <1>6 DEF Samples, TimeOf, Pending, Done

LEMMA ReplacedSamples ==
  ASSUME CopiesInv, SamplesInv, NEW j \in Jobs, NEW next \in Pcs \ {"idle"}, ReplaceHealth(j, next)
  PROVE  Scoped(j)' /\ Samples(j)'
<1> DEFINE L == discovery.listing
<1>1. /\ discovery.pc = j /\ discovery'.pc = next /\ discovery'.listing = L
      /\ UNCHANGED <<catalog, store, rounds>>
      /\ health'[j].configured = L /\ health'[j].ok = health[j].ok \cap L
      /\ health'[j].dataTime = [b \in Bucket |-> IF b \in L THEN health[j].dataTime[b] ELSE Tele!NoTime]
  BY ReplacedHealth
<1>2. Scoped(j) /\ Samples(j)
  BY DEF SamplesInv
<1>3. discovery.pc # "idle"
  BY <1>1, Sorts DEF AllJobs
<1>4. Listed = L /\ Listed' = L /\ Shown(j)' = Shown(j) /\ L \subseteq Bucket
  BY <1>1, <1>3 DEF Listed, Copy, Shown, CopiesInv, Shape
<1> HIDE DEF L
<1>5. Scoped(j)'
  BY <1>1, <1>2, <1>3 DEF Scoped, At
<1>6. \A b \in L : TimeOf(health'[j], b) = TimeOf(health[j], b)
  BY <1>1, <1>4 DEF TimeOf
<1> QED
  BY <1>1, <1>2, <1>4, <1>5, <1>6 DEF Samples, Pending, Done

LEMMA DiscoverySamples ==
  ASSUME MaxOverlap = 1, CopiesInv, SamplesInv, Discovery
  PROVE  SamplesInv'
<1> SUFFICES ASSUME NEW j \in Jobs PROVE Scoped(j)' /\ Samples(j)'
  BY DEF SamplesInv
<1>1. CASE List
  BY <1>1, ListSamples
<1>2. CASE RetainSamples
  BY <1>2, RetainedSamples
<1>3. CASE PublishInventory
  <2>1. /\ discovery.pc = "inventory" /\ discovery'.pc = "capacity" /\ discovery'.listing = discovery.listing
        /\ UNCHANGED <<catalog, store, health, rounds>>
    BY <1>3, Went DEF PublishInventory, At, CopiesInv, Pcs
  <2> QED BY <2>1, GoneOnSamples
<1>4. CASE ReplaceCatalog
  <2>1. /\ discovery.pc = "catalog" /\ discovery'.pc = "idle" /\ catalog' = discovery.listing
        /\ UNCHANGED <<store, health, rounds>>
    BY <1>4 DEF ReplaceCatalog, At
  <2> QED BY <2>1, GoneOnSamples
<1>5. ASSUME NEW k \in AllJobs, NEW next \in Pcs \ {"idle"}, Replacing(k, next), ReplaceHealth(k, next)
      PROVE  Scoped(j)' /\ Samples(j)'
  <2>1. CASE j = k
    BY <1>5, <2>1, ReplacedSamples
  <2>2. CASE j # k
    <3>1. /\ discovery.pc = k /\ discovery'.pc = next /\ discovery'.listing = discovery.listing
          /\ UNCHANGED <<catalog, store, rounds>> /\ health'[j] = health[j] /\ k # "idle"
      <4>1. j \in AllJobs \ {k} /\ k # "idle" /\ next \in Pcs
        BY <2>2 DEF AllJobs
      <4> QED BY <1>5, <4>1, ReplacedHealth
    <3> QED BY <3>1, GoneOnSamples
  <2> QED BY <2>1, <2>2
<1> QED
  BY <1>1, <1>2, <1>3, <1>4, <1>5 DEF Discovery, Replacing, AllJobs, Pcs

LEMMA SamplesUntouched == ASSUME SamplesInv, UNCHANGED vars PROVE SamplesInv'
BY DEF SamplesInv, Scoped, Samples, Listed, Copy, At, Shown, TimeOf, Pending, Done, vars

\* With at most one discovery running into a round, what the two writes of an answer leave
\* behind belongs together.
LEMMA SamplesInvariant == ASSUME MaxOverlap = 1 PROVE Spec => []SamplesInv
<1>1. CopiesInv /\ SamplesInv /\ [Next]_vars => SamplesInv'
  BY RoundSteps, CollectionSamples, DiscoverySamples, SamplesUntouched DEF Next
<1> QED BY <1>1, SamplesInit, CopiesInvariant, PTL DEF Spec

\* Between discoveries catalog, store, inventory and health name the same buckets, and a
\* healthy bucket has samples.
THEOREM KodoCopiesAgree == ASSUME MaxOverlap = 1 PROVE Spec => []SettledCopiesAgree
<1>1. CopiesInv /\ SamplesInv => SettledCopiesAgree
  <2> SUFFICES ASSUME CopiesInv, SamplesInv, discovery.pc = "idle" PROVE SettledCopiesAgree
    BY DEF SettledCopiesAgree, At
  <2>1. /\ store.active = Jobs \X catalog /\ (inventory # {} => inventory = {catalog})
        /\ \A j \in AllJobs : health[j].configured = catalog /\ health[j].ok \subseteq catalog
    BY DEF CopiesInv, Copies, Copy, BeforeRetain, BeforeInventory, BeforeHealth
  <2>2. \A j \in Jobs : health[j].ok \cap catalog \subseteq Shown(j)
    BY DEF SamplesInv, Samples, Listed, Copy
  <2> QED BY <2>1, <2>2, KodoAssumption DEF SettledCopiesAgree
<1> QED BY <1>1, CopiesInvariant, SamplesInvariant, PTL

\* Between discoveries a collector exports the data time of the very samples it shows.
THEOREM KodoTimesAgree == ASSUME MaxOverlap = 1 PROVE Spec => []TimesDescribeSamples
<1>1. CopiesInv /\ SamplesInv => TimesDescribeSamples
  <2> SUFFICES ASSUME CopiesInv, SamplesInv, discovery.pc = "idle", NEW j \in Jobs, NEW b \in catalog,
                      rounds[j].pc \in {"fetch", "idle"}
               PROVE  store.values[<<j, b>>] = TimeOf(health[j], b)
    BY DEF TimesDescribeSamples, At, RoundAt, TimeOf
  <2>1. Pending(rounds[j]) = {}
    BY Sorts DEF Pending, RoundOK
  <2> QED BY <2>1 DEF SamplesInv, Samples, Listed, Copy
<1> QED BY <1>1, CopiesInvariant, SamplesInvariant, PTL
-----------------------------------------------------------------------------
(* The bucket that a round selects *)

\* An instance has its own names for the operators of the modules it extends.
LEMMA SameSelection ==
  ASSUME NEW points, NEW safe, NEW ends
  PROVE  /\ C!KodoBucketEnd(points, safe) = KodoBucketEnd(points, safe)
         /\ C!KodoRateBucketEnd(points, safe) = KodoRateBucketEnd(points, safe)
         /\ C!MatchingBucketEnd(ends) = MatchingBucketEnd(ends)
         /\ C!NewestEnd(points, safe) = Max(SafeEnds(points, safe))
BY DEF C!KodoBucketEnd, C!KodoRateBucketEnd, C!MatchingBucketEnd, C!NewestEnd, C!NewestSafe,
       C!Increasing, C!Max, KodoBucketEnd, KodoRateBucketEnd, MatchingBucketEnd, NewestSafe,
       Increasing, Max, SafeEnds

OneBucket(s) ==
  /\ Len(s.ends) = Requests /\ \A i \in DOMAIN s.ends : s.ends[i] = s.dataAt
  /\ s.dataAt \in Int /\ s.dataAt + Lag <= now

\* What a round selected is as old as its window asks, and the window as old as the lag.
CollectInv ==
  /\ job \in {"capacity", "activity", "summary"} /\ now \in Nat
  /\ job # "summary" =>
       /\ \/ round = C!Resting
          \/ /\ DOMAIN round = {"step", "begin", "end", "selected", "newest"}
             /\ round.step \in 1 .. Requests /\ round.end \in Int /\ round.end + Lag <= now
             /\ round.selected \in Seq(Int) /\ Len(round.selected) = round.step - 1
             /\ \A i \in DOMAIN round.selected : round.selected[i] <= round.end
             /\ round.newest = round.selected
       /\ \A s \in samples : OneBucket(s)

LEMMA CollectConstants ==
  /\ Requests \in Nat \ {0} /\ DayTicks \in Nat \ {0} /\ MonthDays \in Nat \ {0}
  /\ Lag \in Nat /\ Horizon \in Nat
  /\ Answers \subseteq Seq(Int) /\ DayAnswers \subseteq Seq(Int)
BY ComponentAssumptions DEF C!KodoCollectAssumption

LEMMA SelectOneBucket ==
  ASSUME CollectInv, NEW points \in Answers, C!Select(points)
  PROVE  CollectInv'
<1>1. job # "summary" /\ round.step # 0 /\ UNCHANGED <<job, now>>
  BY DEF C!Select, C!Summary
<1>2. /\ round.step \in 1 .. Requests /\ round.end \in Int /\ round.end + Lag <= now
      /\ round.selected \in Seq(Int) /\ Len(round.selected) = round.step - 1
      /\ \A i \in DOMAIN round.selected : round.selected[i] <= round.end
      /\ round.newest = round.selected
      /\ DOMAIN round = {"step", "begin", "end", "selected", "newest"}
      /\ now \in Nat /\ Lag \in Nat /\ Requests \in Nat /\ points \in Seq(Int)
  BY <1>1, CollectConstants DEF CollectInv, C!Resting
<1>3. PICK e \in C!BucketEnd(points, round.end) :
        LET ends == Append(round.selected, e)
        IN IF round.step < Requests
           THEN /\ round' = [round EXCEPT !.step = @ + 1, !.selected = ends,
                                          !.newest = Append(@, C!NewestEnd(points, round.end))]
                /\ UNCHANGED samples
           ELSE /\ round' = C!Resting
                /\ samples' = IF C!MatchingBucketEnd(ends) = {} THEN samples
                              ELSE {[dataAt |-> at, ends |-> ends, days |-> {}] : at \in C!MatchingBucketEnd(ends)}
  BY DEF C!Select
<1>4. e \in KodoBucketEnd(points, round.end) \cup KodoRateBucketEnd(points, round.end)
  BY SameSelection DEF C!BucketEnd
<1>5. e \in Int /\ e <= round.end /\ e = C!NewestEnd(points, round.end)
  <2>1. points \in Seq(Int) /\ round.end \in Int
    BY <1>2
  <2>2. Selected(e, points, round.end)
    BY <1>4, <2>1, KodoSelects
  <2>3. C!NewestEnd(points, round.end) = Max(SafeEnds(points, round.end))
    BY SameSelection
  <2> QED BY <2>2, <2>3 DEF Selected
<1> DEFINE ends == Append(round.selected, e)
<1>6. /\ ends \in Seq(Int) /\ Len(ends) = round.step /\ DOMAIN ends = 1 .. round.step
      /\ \A i \in DOMAIN ends : ends[i] <= round.end
  <2> DEFINE old == round.selected
  <2>1. /\ old \in Seq(Int) /\ Len(old) = round.step - 1 /\ DOMAIN old = 1 .. round.step - 1
        /\ \A i \in DOMAIN old : old[i] <= round.end
    BY <1>2
  <2> HIDE DEF old
  <2>2. /\ Append(old, e) \in Seq(Int) /\ Len(Append(old, e)) = Len(old) + 1
        /\ DOMAIN Append(old, e) = 1 .. Len(old) + 1
        /\ \A i \in 1 .. Len(old) : Append(old, e)[i] = old[i]
        /\ Append(old, e)[Len(old) + 1] = e
    BY <1>5, <2>1
  <2>3. \A i \in 1 .. round.step : i \in 1 .. round.step - 1 \/ i = Len(old) + 1
    BY <1>2, <2>1
  <2>4. Len(old) + 1 = round.step
    BY <1>2, <2>1
  <2> QED BY <1>5, <2>1, <2>2, <2>3, <2>4 DEF old
<1>7. CASE round.step < Requests
  <2>1. /\ round' = [round EXCEPT !.step = round.step + 1, !.selected = ends, !.newest = ends]
        /\ samples' = samples
    BY <1>2, <1>3, <1>5, <1>7
  <2> HIDE DEF ends
  <2>2. /\ DOMAIN round' = {"step", "begin", "end", "selected", "newest"}
        /\ round'.step = round.step + 1 /\ round'.end = round.end
        /\ round'.selected = ends /\ round'.newest = ends
    BY <1>2, <2>1
  <2>3. \A s \in samples : OneBucket(s)
    BY <1>1 DEF CollectInv
  <2> QED BY <1>1, <1>2, <1>6, <1>7, <2>1, <2>2, <2>3 DEF CollectInv, OneBucket
<1>8. CASE ~(round.step < Requests)
  <2>1. round' = C!Resting /\ round.step = Requests
    BY <1>2, <1>3, <1>8
  <2>2. \/ samples' = samples
        \/ samples' = {[dataAt |-> at, ends |-> ends, days |-> {}] : at \in MatchingBucketEnd(ends)}
    BY <1>3, <1>8, SameSelection
  <2> HIDE DEF ends
  <2>3. ASSUME NEW at \in MatchingBucketEnd(ends)
        PROVE  at \in Int /\ at + Lag <= now /\ \A i \in DOMAIN ends : ends[i] = at
    <3>1. \A i \in DOMAIN ends : ends[i] = at
      BY <1>6, MatchingAreEqual
    <3>2. 1 \in DOMAIN ends
      BY <1>2, <1>6
    <3>3. at \in Int /\ at <= round.end
      BY <1>6, <3>1, <3>2
    <3> QED BY <1>2, <3>1, <3>3
  <2>4. ASSUME NEW s \in samples' PROVE OneBucket(s)'
    <3>1. CASE samples' = samples
      BY <1>1, <3>1 DEF CollectInv, OneBucket
    <3>2. CASE samples' = {[dataAt |-> at, ends |-> ends, days |-> {}] : at \in MatchingBucketEnd(ends)}
      <4>1. PICK at \in MatchingBucketEnd(ends) : s = [dataAt |-> at, ends |-> ends, days |-> {}]
        BY <3>2
      <4>2. s.dataAt = at /\ s.ends = ends
        BY <4>1
      <4> QED BY <1>1, <1>6, <2>1, <2>3, <4>2 DEF OneBucket
    <3> QED BY <2>2, <3>1, <3>2
  <2> QED BY <1>1, <2>1, <2>4 DEF CollectInv
<1> QED BY <1>7, <1>8

LEMMA CollectStep == CollectInv /\ [C!Next]_(C!vars) => CollectInv'
<1> SUFFICES ASSUME CollectInv, [C!Next]_(C!vars) PROVE CollectInv'
  OBVIOUS
<1>1. now \in Nat /\ Lag \in Nat /\ Requests \in Nat \ {0}
  BY CollectConstants DEF CollectInv
<1>2. CASE UNCHANGED C!vars
  BY <1>2 DEF C!vars, CollectInv, OneBucket
<1>3. CASE C!Tick
  <2>1. now' = now + 1 /\ UNCHANGED <<job, round, samples>>
    BY <1>3 DEF C!Tick
  <2>2. \A s \in samples : OneBucket(s) => OneBucket(s)'
    BY <1>1, <2>1 DEF OneBucket
  <2>3. round.end \in Int /\ round.end + Lag <= now => round.end + Lag <= now'
    BY <1>1, <2>1
  <2> QED BY <1>1, <2>1, <2>2, <2>3 DEF CollectInv
<1>4. CASE C!Begin
  <2>1. /\ job # "summary" /\ round' = C!Window(C!SafeEnd - 3) /\ UNCHANGED <<job, now, samples>>
    BY <1>4 DEF C!Begin, C!Summary
  <2>2. /\ DOMAIN round' = {"step", "begin", "end", "selected", "newest"}
        /\ round'.step = 1 /\ round'.end = now - Lag /\ round'.selected = <<>> /\ round'.newest = <<>>
    BY <2>1 DEF C!Window, C!SafeEnd
  <2>3. <<>> \in Seq(Int) /\ Len(<<>>) = 0 /\ DOMAIN <<>> = {}
    OBVIOUS
  <2>4. round'.end \in Int /\ round'.end + Lag <= now' /\ 1 \in 1 .. Requests /\ Len(<<>>) = 1 - 1
    BY <1>1, <2>1, <2>2, <2>3
  <2>5. \A s \in samples' : OneBucket(s)'
    BY <2>1 DEF CollectInv, OneBucket
  <2>6. round'.selected \in Seq(Int) /\ \A i \in DOMAIN round'.selected : round'.selected[i] <= round'.end
    BY <2>2, <2>3
  <2> QED BY <2>1, <2>2, <2>4, <2>5, <2>6 DEF CollectInv
<1>5. CASE C!Error
  BY <1>5 DEF C!Error, CollectInv, OneBucket
<1>6. ASSUME NEW points \in Answers, C!Select(points) PROVE CollectInv'
  BY <1>6, SelectOneBucket
<1>7. CASE C!BeginSummary \/ \E points \in DayAnswers : C!SelectSummary(points)
  BY <1>7 DEF C!BeginSummary, C!SelectSummary, C!Summary, CollectInv
<1> QED BY <1>2, <1>3, <1>4, <1>5, <1>6, <1>7 DEF C!Next

\* The capacity and activity that a snapshot exports are of one bucket of all their answers,
\* the newest that was safe in each: no answer, gaps and all, makes it an older one.
THEOREM CollectedIsOneBucket == C!Spec => []OneSafeBucket
<1>1. C!Init => CollectInv
  <2>1. \A n \in 0 .. DayTicks * MonthDays - 1 : n \in Nat
    OBVIOUS
  <2> QED BY <2>1 DEF C!Init, CollectInv
<1>2. CollectInv /\ [C!Next]_(C!vars) => CollectInv'
  BY CollectStep
<1>3. CollectInv => OneSafeBucket
  BY DEF CollectInv, OneBucket, OneSafeBucket, C!OneSafeBucket, C!Summary, C!Resting
<1> QED BY <1>1, <1>2, <1>3, PTL DEF C!Spec
-----------------------------------------------------------------------------
(* The month of the totals *)

MonthTicks == DayTicks * MonthDays

\* A time between the start of a month and a time of that month is of that month.
LEMMA OfTheMonth ==
  ASSUME NEW n \in Nat, NEW d \in Int, C!MonthStart(n) <= d, d <= n
  PROVE  C!MonthStart(d) = C!MonthStart(n) /\ C!MonthStart(n) \in Int /\ C!MonthStart(n) <= n
<1> DEFINE m == MonthTicks
<1>1. m \in Nat \ {0}
  BY CollectConstants DEF MonthTicks
<1>2. C!MonthStart(n) = (n \div m) * m /\ C!MonthStart(d) = (d \div m) * m
  BY DEF C!MonthStart, MonthTicks
<1> HIDE DEF m
<1>3. /\ n \div m \in Int /\ (n \div m) * m <= n /\ n < (n \div m) * m + m
      /\ d \div m \in Int /\ (d \div m) * m <= d /\ d < (d \div m) * m + m
  BY <1>1
<1> DEFINE p == n \div m
           q == d \div m
<1>4. p \in Int /\ q \in Int /\ p * m <= d /\ d < q * m + m /\ q * m <= d /\ d < p * m + m
  BY <1>1, <1>2, <1>3
<1> HIDE DEF p, q
<1>5. ~(p < q)
  <2>1. p < q => (p + 1) * m <= q * m
    BY <1>1, <1>4
  <2> QED BY <1>1, <1>4, <2>1
<1>6. ~(q < p)
  <2>1. q < p => (q + 1) * m <= p * m
    BY <1>1, <1>4
  <2> QED BY <1>1, <1>4, <2>1
<1>7. p = q
  BY <1>4, <1>5, <1>6
<1>8. C!MonthStart(n) = p * m /\ C!MonthStart(d) = q * m
  BY <1>2 DEF p, q
<1>9. p * m \in Int /\ p * m <= n
  BY <1>1, <1>3, <1>4 DEF p
<1> QED BY <1>7, <1>8, <1>9

LEMMA MonthOfTime == ASSUME NEW n \in Nat PROVE C!MonthStart(n) \in Int /\ C!MonthStart(n) <= n
<1>1. MonthTicks \in Nat \ {0}
  BY CollectConstants DEF MonthTicks
<1>2. C!MonthStart(n) = (n \div MonthTicks) * MonthTicks
  BY DEF C!MonthStart, MonthTicks
<1>3. n \div MonthTicks \in Int /\ (n \div MonthTicks) * MonthTicks \in Int /\ (n \div MonthTicks) * MonthTicks <= n
  BY <1>1
<1> QED BY <1>2, <1>3

\* The window of a round begins where its month does and ends in that month; so do the totals.
MonthInv ==
  /\ job \in {"capacity", "activity", "summary"} /\ now \in Nat
  /\ job = "summary" =>
       /\ round.step # 0 =>
            /\ DOMAIN round = {"step", "begin", "end", "selected", "newest"} /\ round.step \in {1, 2}
            /\ round.end \in Int /\ round.begin < round.end /\ round.end <= now
            /\ \A d \in Int : round.begin <= d /\ d < round.end =>
                 C!MonthStart(d) = C!MonthStart(round.end)
            /\ round.step = 2 => \A d \in round.selected[1] : d \in Int /\ round.begin <= d /\ d < round.end
       /\ \A s \in samples :
            /\ s.dataAt \in Int /\ s.dataAt <= now
            /\ \A d \in s.days : d \in Int /\ d < s.dataAt /\ C!MonthStart(d) = C!MonthStart(s.dataAt)

LEMMA BeginMonth == ASSUME MonthInv, C!BeginSummary PROVE MonthInv'
<1> DEFINE begin == C!MonthStart(now)
<1>1. /\ job = "summary" /\ UNCHANGED <<job, now>> /\ now \in Nat /\ Lag \in Nat
      /\ begin \in Int /\ begin <= now
  <2>1. job = "summary" /\ UNCHANGED <<job, now>> /\ now \in Nat /\ Lag \in Nat
    BY CollectConstants DEF C!BeginSummary, C!Summary, MonthInv
  <2> QED BY <2>1, MonthOfTime
<1>2. \/ /\ begin < now - Lag /\ round' = C!Window(begin) /\ samples' = samples
      \/ samples' = {[dataAt |-> begin, ends |-> <<>>, days |-> {}]} /\ round' = round
  BY DEF C!BeginSummary, C!MonthBegin, C!SafeEnd
<1> HIDE DEF begin
<1>3. CASE begin < now - Lag /\ round' = C!Window(begin) /\ samples' = samples
  <2>1. /\ DOMAIN round' = {"step", "begin", "end", "selected", "newest"}
        /\ round'.step = 1 /\ round'.begin = begin /\ round'.end = now - Lag
    BY <1>3 DEF C!Window, C!SafeEnd
  <2>2. now - Lag \in Int /\ now - Lag <= now
    BY <1>1
  <2>3. ASSUME NEW d \in Int, begin <= d, d <= now PROVE C!MonthStart(d) = begin
    BY <1>1, <2>3, OfTheMonth DEF begin
  <2>4. \A d \in Int : begin <= d /\ d < now - Lag => C!MonthStart(d) = begin
    BY <1>1, <2>3
  <2>5. C!MonthStart(now - Lag) = begin
    BY <1>1, <1>3, <2>2, <2>3
  <2>6. \A d \in Int : round'.begin <= d /\ d < round'.end => C!MonthStart(d) = C!MonthStart(round'.end)
    BY <2>1, <2>4, <2>5
  <2> QED BY <1>1, <1>3, <2>1, <2>2, <2>6 DEF MonthInv, C!MonthStart
<1>4. CASE samples' = {[dataAt |-> begin, ends |-> <<>>, days |-> {}]} /\ round' = round
  <2>1. \A s \in samples' : s.dataAt = begin /\ s.days = {}
    BY <1>4
  <2> QED BY <1>1, <1>4, <2>1 DEF MonthInv, C!MonthStart
<1> QED BY <1>2, <1>3, <1>4

LEMMA SelectMonth ==
  ASSUME MonthInv, NEW points \in DayAnswers, C!SelectSummary(points)
  PROVE  MonthInv'
<1>1. job = "summary" /\ round.step # 0 /\ UNCHANGED <<job, now>> /\ now \in Nat
  BY DEF C!SelectSummary, C!Summary, MonthInv
<1>2. PICK days \in C!Summed(points, round.begin, round.end) :
        IF round.step = 1
        THEN round' = [round EXCEPT !.step = 2, !.selected = <<days>>] /\ UNCHANGED samples
        ELSE /\ samples' = {[dataAt |-> round.end, ends |-> <<>>, days |-> days \cup round.selected[1]]}
             /\ round' = C!Resting
  BY DEF C!SelectSummary
<1>3. \A d \in days : d \in Int /\ round.begin <= d /\ d < round.end
  <2>1. points \in Seq(Int)
    BY CollectConstants
  <2>2. /\ \A i \in DOMAIN points : round.begin <= points[i] /\ points[i] < round.end
        /\ days = {points[i] : i \in DOMAIN points}
    BY <1>2 DEF C!Summed
  <2>3. \A i \in DOMAIN points : points[i] \in Int
    BY <2>1
  <2> QED BY <2>2, <2>3
<1>4. /\ DOMAIN round = {"step", "begin", "end", "selected", "newest"} /\ round.step \in {1, 2}
      /\ round.end \in Int /\ round.begin < round.end /\ round.end <= now
      /\ \A d \in Int : round.begin <= d /\ d < round.end => C!MonthStart(d) = C!MonthStart(round.end)
      /\ round.step = 2 => \A d \in round.selected[1] : d \in Int /\ round.begin <= d /\ d < round.end
  BY <1>1 DEF MonthInv
<1>5. \A t : C!MonthStart(t)' = C!MonthStart(t')
  BY DEF C!MonthStart
<1>6. CASE round.step = 1
  <2>1. round' = [round EXCEPT !.step = 2, !.selected = <<days>>] /\ samples' = samples
    BY <1>2, <1>6
  <2>2. /\ DOMAIN round' = {"step", "begin", "end", "selected", "newest"}
        /\ round'.step = 2 /\ round'.begin = round.begin /\ round'.end = round.end
        /\ round'.selected = <<days>>
    BY <1>4, <2>1
  <2>3. round'.selected[1] = days
    BY <2>2
  <2>4. \A s \in samples' :
          /\ s.dataAt \in Int /\ s.dataAt <= now'
          /\ \A d \in s.days : d \in Int /\ d < s.dataAt /\ C!MonthStart(d) = C!MonthStart(s.dataAt)
    BY <1>1, <2>1 DEF MonthInv
  <2> QED BY <1>1, <1>3, <1>4, <2>2, <2>3, <2>4 DEF MonthInv, C!MonthStart
<1>7. CASE round.step = 2
  <2>1. /\ samples' = {[dataAt |-> round.end, ends |-> <<>>, days |-> days \cup round.selected[1]]}
        /\ round' = C!Resting
    BY <1>2, <1>7
  <2>2. \A s \in samples' : s.dataAt = round.end /\ s.days = days \cup round.selected[1]
    BY <2>1
  <2>3. round'.step = 0
    BY <2>1 DEF C!Resting
  <2>4. \A d \in days \cup round.selected[1] :
          d \in Int /\ d < round.end /\ C!MonthStart(d) = C!MonthStart(round.end)
    BY <1>3, <1>4, <1>7
  <2> QED BY <1>1, <1>4, <2>2, <2>3, <2>4 DEF MonthInv, C!MonthStart
<1> QED BY <1>4, <1>6, <1>7

LEMMA MonthStep == MonthInv /\ [C!Next]_(C!vars) => MonthInv'
<1> SUFFICES ASSUME MonthInv, [C!Next]_(C!vars) PROVE MonthInv'
  OBVIOUS
<1>1. CASE UNCHANGED C!vars
  BY <1>1 DEF C!vars, MonthInv, C!MonthStart
<1>2. CASE C!Tick
  <2>1. now' = now + 1 /\ now \in Nat /\ UNCHANGED <<job, round, samples>>
    BY <1>2 DEF C!Tick, MonthInv
  <2>2. \A t \in Int : t <= now => t <= now'
    BY <2>1
  <2> QED BY <2>1, <2>2 DEF MonthInv, C!MonthStart
<1>3. CASE C!Error
  BY <1>3 DEF C!Error, C!Resting, MonthInv, C!MonthStart
<1>4. CASE C!BeginSummary
  BY <1>4, BeginMonth
<1>5. ASSUME NEW points \in DayAnswers, C!SelectSummary(points) PROVE MonthInv'
  BY <1>5, SelectMonth
<1>6. CASE C!Begin \/ \E points \in Answers : C!Select(points)
  BY <1>6 DEF C!Begin, C!Select, C!Summary, MonthInv
<1> QED BY <1>1, <1>2, <1>3, <1>4, <1>5, <1>6 DEF C!Next

\* No scrape shows a total as the current month's that counts a day of another month, or a
\* day later than its data time, wherever in the month's end the round was.
THEOREM TotalsAreTheMonths == C!Spec => []TotalsAreOfThisMonth
<1>1. C!Init => MonthInv
  <2>1. \A n \in 0 .. DayTicks * MonthDays - 1 : n \in Nat
    OBVIOUS
  <2> QED BY <2>1 DEF C!Init, C!Resting, MonthInv
<1>2. MonthInv /\ [C!Next]_(C!vars) => MonthInv'
  BY MonthStep
<1>3. MonthInv => TotalsAreOfThisMonth
  BY DEF MonthInv, TotalsAreOfThisMonth, C!TotalsAreOfThisMonth, C!Summary, C!ShownTotals, C!SameMonth
<1> QED BY <1>1, <1>2, <1>3, PTL DEF C!Spec
-----------------------------------------------------------------------------
(* The listing of buckets and domains *)

LEMMA SameCardinality == ASSUME NEW S PROVE D!Cardinality(S) = Cardinality(S)
BY DEF D!Cardinality, Cardinality

LEMMA ListingConstants ==
  /\ Last \in Nat \ {0} /\ PageSize \in Nat \ {0} /\ MaxResources \in Nat \ {0} /\ MaxPages \in Nat \ {0}
  /\ Dcdn \subseteq 1 .. Last
BY ComponentAssumptions DEF D!DiscoveryAssumption

\* A set of resources that is not empty has a last one.
LEMMA LastOfPage ==
  ASSUME NEW S \in SUBSET (1 .. Last), S # {}
  PROVE  D!Max(S) \in S /\ \A r \in S : r <= D!Max(S)
<1>0. Last \in Nat
  BY ListingConstants
<1> DEFINE T == {Last - r : r \in S}
<1>1. T \in SUBSET Nat /\ T # {}
  <2>1. \A r \in S : Last - r \in Nat
    BY <1>0
  <2> QED BY <2>1
<1>2. PICK n \in T : \A m \in T : n <= m
  BY <1>1, LeastNatural
<1>3. PICK x \in S : n = Last - x
  BY <1>2
<1>4. ASSUME NEW r \in S PROVE r <= x
  <2>1. n <= Last - r
    BY <1>2
  <2> QED BY <1>0, <1>3, <2>1
<1>5. \E y \in S : \A r \in S : y >= r
  BY <1>4
<1>6. D!Max(S) \in S /\ \A r \in S : D!Max(S) >= r
  <2> HIDE DEF T
  <2> QED BY <1>5 DEF D!Max
<1> QED BY <1>6

Counted == IF api = "domains" THEN Dcdn ELSE {}

\* While a call lasts, a truncated page has added a name each; and what was there all through
\* it has been found up to the marker.
ListInv ==
  /\ live \subseteq 1 .. Last /\ found \subseteq 1 .. Last /\ marker \in Nat
  /\ pages \in Nat /\ pages <= MaxResources
  /\ busy => pages <= Cardinality(found) /\ Cardinality(found) < MaxResources
  /\ honest =>
       /\ busy => /\ always \subseteq live /\ live \subseteq ever /\ found \subseteq ever
                  /\ \A r \in always : r <= marker => r \in found
       /\ \A l \in listed : l.always \ Counted \subseteq l.names /\ l.names \subseteq l.ever \ Counted

\* The bounds, whatever the page.
LEMMA AnswerBounds ==
  ASSUME ListInv, NEW page \in SUBSET (1 .. Last), NEW more \in BOOLEAN, NEW next \in Nat, D!Answer(page, more, next)
  PROVE  /\ found' = found \cup page /\ found' \subseteq 1 .. Last /\ marker' \in Nat
         /\ pages' \in Nat /\ pages' <= MaxResources
         /\ busy' => pages' <= Cardinality(found') /\ Cardinality(found') < MaxResources
<1>1. /\ busy /\ D!Fits(page) /\ (more => D!GoesOn(page, next))
      /\ found' = found \cup page /\ pages' = pages + 1
      /\ \/ more /\ marker' = next
         \/ busy' = FALSE /\ marker' = marker
  BY DEF D!Answer
<1>2. IsFiniteSet(1 .. Last)
  BY ListingConstants, FS_Interval
<1>3. IsFiniteSet(found) /\ IsFiniteSet(page)
  BY <1>2, FS_Subset DEF ListInv
<1>4. /\ Cardinality(found) \in Nat /\ Cardinality(page) \in Nat
      /\ Cardinality(found \cup page) = Cardinality(found) + Cardinality(page)
  <2>1. found \cap page = {}
    BY <1>1 DEF D!Fits
  <2>2. /\ Cardinality(found \cup page) = Cardinality(found) + Cardinality(page) - Cardinality(found \cap page)
        /\ Cardinality(found) \in Nat /\ Cardinality(page) \in Nat
    BY <1>3, FS_Union, FS_CardinalityType
  <2> QED BY <2>1, <2>2, FS_EmptySet
<1>5. pages' \in Nat /\ pages' <= MaxResources
  BY <1>1, <1>4, ListingConstants DEF ListInv
<1>6. ASSUME more PROVE pages' <= Cardinality(found') /\ Cardinality(found') < MaxResources
  <2>1. page # {} /\ Cardinality(found \cup page) < MaxResources
    BY <1>1, <1>6, SameCardinality DEF D!GoesOn
  <2>2. Cardinality(page) # 0
    BY <1>3, <2>1, FS_EmptySet
  <2>3. Cardinality(page) >= 1 /\ pages <= Cardinality(found) /\ pages \in Nat
    BY <1>1, <1>4, <2>2 DEF ListInv
  <2> QED BY <1>1, <1>4, <2>1, <2>3
<1> QED BY <1>1, <1>5, <1>6 DEF ListInv

\* The pages of a server that answers truly leave nothing out before the next marker.
LEMMA TruePages ==
  ASSUME ListInv, D!TruePage # D!After, D!TruePage # {}, NEW r \in live, r <= D!Max(D!TruePage), r > marker
  PROVE  r \in D!TruePage
<1> DEFINE m == D!Max(D!TruePage)
           upto(x) == {q \in D!After : q <= x}
<1>1. D!After \subseteq live /\ D!TruePage \subseteq D!After /\ live \in SUBSET (1 .. Last) /\ Last \in Nat
  BY ListingConstants DEF ListInv, D!After, D!TruePage
<1>2. m \in D!TruePage
  BY <1>1, LastOfPage
<1>3. Cardinality(upto(m)) <= PageSize
  BY <1>2, SameCardinality DEF D!TruePage
<1>4. IsFiniteSet(upto(m))
  <2> HIDE DEF m
  <2>1. IsFiniteSet(1 .. Last)
    BY <1>1, FS_Interval
  <2>2. upto(m) \in SUBSET (1 .. Last)
    BY <1>1
  <2> HIDE DEF upto
  <2> QED BY <2>1, <2>2, FS_Subset
<1>5. upto(r) \subseteq upto(m)
  <2>0. r <= m
    OBVIOUS
  <2> HIDE DEF m
  <2>1. r \in Nat /\ m \in Nat /\ r <= m /\ \A q \in D!After : q \in Nat
    BY <1>1, <1>2, <2>0
  <2>2. \A q \in Nat : q <= r => q <= m
    BY <2>1
  <2> QED BY <2>1, <2>2
<1>6. Cardinality(upto(r)) <= Cardinality(upto(m)) /\ Cardinality(upto(r)) \in Nat /\ Cardinality(upto(m)) \in Nat
  <2> HIDE DEF upto, m
  <2> QED BY <1>4, <1>5, FS_Subset, FS_CardinalityType
<1>7. Cardinality(upto(r)) <= PageSize /\ r \in D!After
  BY <1>3, <1>6, ListingConstants DEF D!After
<1>8. D!Cardinality(upto(r)) <= PageSize
  BY <1>7, SameCardinality
<1> QED BY <1>7, <1>8 DEF D!TruePage

LEMMA HonestPage == ASSUME ListInv, D!Page PROVE ListInv'
<1> DEFINE page == D!TruePage
           more == D!TruePage # D!After
           next == IF more THEN D!Max(page) ELSE 0
<1>1. honest /\ D!Answer(page, more, next) /\ more \in BOOLEAN
  BY DEF D!Page
<1>2. page \subseteq D!After /\ D!After \subseteq live /\ page \in SUBSET (1 .. Last)
  BY DEF D!After, D!TruePage, ListInv
<1>3. /\ busy /\ (more => page # {} /\ next # 0)
      /\ \/ more /\ marker' = next /\ listed' = listed
         \/ /\ ~more /\ busy' = FALSE
            /\ listed' = {[names |-> found' \ Counted, always |-> always, ever |-> ever]}
      /\ UNCHANGED <<api, live, always, ever, honest>>
  BY <1>1 DEF D!Answer, D!GoesOn, Counted
<1>4. more => D!Max(page) \in page
  BY <1>2, <1>3, LastOfPage
<1>5. next \in Nat
  <2>1. ASSUME more PROVE D!Max(page) \in Nat
    <3>1. D!Max(page) \in page
      BY <1>4, <2>1
    <3>2. \A r \in 1 .. Last : r \in Nat
      OBVIOUS
    <3> HIDE DEF page
    <3> QED BY <1>2, <3>1, <3>2
  <2> QED BY <2>1
<1>6. more => \A r \in live : r <= next /\ r > marker => r \in page
  BY <1>3, TruePages
<1> HIDE DEF page, more, next
<1>7. /\ found' = found \cup page /\ found' \subseteq 1 .. Last /\ marker' \in Nat
      /\ pages' \in Nat /\ pages' <= MaxResources
      /\ busy' => pages' <= Cardinality(found') /\ Cardinality(found') < MaxResources
  BY <1>1, <1>2, <1>5, AnswerBounds
<1>8. /\ always \subseteq live /\ live \subseteq ever /\ found \subseteq ever
      /\ \A r \in always : r <= marker => r \in found
      /\ marker \in Nat /\ live \subseteq 1 .. Last
  BY <1>1, <1>3 DEF ListInv
<1>9. found' \subseteq ever
  BY <1>2, <1>7, <1>8
<1>10. Counted' = Counted
  BY <1>3 DEF Counted
<1>11. CASE more
  <2>1. ASSUME NEW r \in always, r <= next PROVE r \in found'
    <3>1. r \in live /\ r \in Nat /\ (r <= marker \/ r > marker)
      BY <1>8
    <3> QED BY <1>6, <1>7, <1>8, <1>11, <2>1, <3>1
  <2> QED BY <1>1, <1>3, <1>7, <1>8, <1>9, <1>10, <1>11, <2>1 DEF ListInv
<1>12. CASE ~more
  <2>1. page = D!After
    BY <1>12 DEF more, page
  <2>2. ASSUME NEW r \in always PROVE r \in found'
    <3>1. r \in live /\ r \in Nat /\ (r <= marker \/ r > marker)
      BY <1>8
    <3>2. r > marker => r \in page
      BY <2>1, <3>1 DEF D!After
    <3> QED BY <1>7, <1>8, <3>1, <3>2
  <2>3. \A l \in listed' : l.always = always /\ l.ever = ever /\ l.names = found' \ Counted
    BY <1>3, <1>12
  <2>4. \A l \in listed' : l.always \ Counted \subseteq l.names /\ l.names \subseteq l.ever \ Counted
    BY <1>9, <2>2, <2>3
  <2> QED BY <1>3, <1>7, <1>8, <1>10, <1>12, <2>4 DEF ListInv
<1> QED BY <1>11, <1>12

LEMMA ListStep == ListInv /\ [D!Next]_(D!vars) => ListInv'
<1> SUFFICES ASSUME ListInv, [D!Next]_(D!vars) PROVE ListInv'
  OBVIOUS
<1>1. CASE UNCHANGED D!vars
  BY <1>1 DEF D!vars, D!call, ListInv, Counted
<1>2. CASE D!Begin
  <2>1. /\ found' = {} /\ pages' = 0 /\ marker' = 0 /\ always' = live /\ ever' = live
        /\ UNCHANGED <<api, live, honest, listed>>
    BY <1>2 DEF D!Begin
  <2>2. Cardinality({}) = 0 /\ MaxResources \in Nat \ {0}
    BY FS_EmptySet, ListingConstants
  <2>3. \A r \in live : ~(r <= 0)
    BY DEF ListInv
  <2> QED BY <2>1, <2>2, <2>3 DEF ListInv, Counted
<1>3. CASE D!Fail
  BY <1>3 DEF D!Fail, ListInv, Counted
<1>4. CASE D!Page
  BY <1>4, HonestPage
<1>5. CASE D!AnyPage
  <2>1. PICK page \in SUBSET (1 .. Last), more \in BOOLEAN, next \in 0 .. Last : D!Answer(page, more, next)
    BY <1>5 DEF D!AnyPage
  <2>2. ~honest /\ honest' = honest /\ live' = live
    BY <1>5, <2>1 DEF D!AnyPage, D!Answer
  <2>3. next \in Nat
    BY <2>1, ListingConstants
  <2>4. /\ found' \subseteq 1 .. Last /\ marker' \in Nat
        /\ pages' \in Nat /\ pages' <= MaxResources
        /\ busy' => pages' <= Cardinality(found') /\ Cardinality(found') < MaxResources
    BY <2>1, <2>3, AnswerBounds
  <2> QED BY <2>2, <2>4 DEF ListInv
<1>6. ASSUME NEW r \in 1 .. Last, D!Change(r) PROVE ListInv'
  <2>1. /\ live' \subseteq 1 .. Last /\ always' = always \cap live' /\ ever' = ever \cup live'
        /\ UNCHANGED <<api, busy, marker, found, pages, honest, listed>>
    BY <1>6 DEF D!Change, D!call, ListInv
  <2> QED BY <2>1 DEF ListInv, Counted
<1> QED BY <1>1, <1>2, <1>3, <1>4, <1>5, <1>6 DEF D!Next

\* Whatever the server answers, a call asks for no more pages than there may be resources; and
\* of a server that answers truly it lists what was there all through the call and nothing
\* that never was, whatever changed between pages.
THEOREM ListingsHold == D!Init /\ [][D!Next]_(D!vars) => []ListingsAreWhole
<1>1. D!Init => ListInv
  BY ListingConstants DEF D!Init, ListInv
<1>2. ListInv /\ [D!Next]_(D!vars) => ListInv'
  BY ListStep
<1>3. ListInv => ListingsAreWhole
  BY DEF ListInv, Counted, ListingsAreWhole, D!ListingsAreWhole
<1> QED BY <1>1, <1>2, <1>3, PTL
=============================================================================
