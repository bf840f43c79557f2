------------------------ MODULE ResourceHealthProofs ------------------------
(***************************************************************************)
(* What ResourceHealth promises, for every set of resources and every      *)
(* clock.  The inductive invariant adds to the checked invariants that no  *)
(* recorded time lies in the future: without it a gauge kept across a      *)
(* failing round could exceed the last success recorded next.              *)
(***************************************************************************)
EXTENDS ResourceHealth, TLAPS

NothingInTheFuture ==
  /\ health.last <= clock
  /\ \A r \in Resource : health.lastSuccess[r] <= clock

IInv ==
  /\ TypeOK
  /\ NothingInTheFuture
  /\ MapsAgree
  /\ SuccessIsConjunction
  /\ FreshnessNotOverstated
  /\ DataTimestampIsOldest
  /\ SeriesMirrorMaps

\* The relation FreshnessNotOverstated states, of any gauge, set and times.
NotLater(gauge, configured, times) ==
  gauge # NoTime =>
    \A r \in configured : times[r] # NoTime => gauge <= times[r]

-----------------------------------------------------------------------------
\* Whatever order the map is read in, the aggregate gauges are of their type,
\* success is the conjunction, and the last-success gauge is either deleted,
\* kept, or the least of all the times.
LEMMA AggregateLemma ==
  ASSUME NEW configured \in SUBSET Resource, NEW ok \in SUBSET configured,
         NEW times \in Times, NEW gauge \in Nat,
         \A r \in ok : times[r] # NoTime,
         NEW a \in AggregateOutcomes(configured, ok, times, gauge)
  PROVE  /\ a.success \in {"absent", "0", "1"}
         /\ a.last \in Nat
         /\ a.success = "absent" <=> configured = {}
         /\ a.success = "1" <=> configured # {} /\ ok = configured
         /\ \/ a.last = NoTime
            \/ a.last = gauge
            \/ IsOldest(a.last, times, configured)
<1> DEFINE missing == {r \in configured : times[r] = NoTime}
           failing == {r \in configured \ missing : r \notin ok}
<1>1. CASE configured = {}
  <2>1. a = [success |-> "absent", last |-> NoTime]
    BY <1>1 DEF AggregateOutcomes
  <2> QED BY <1>1, <2>1 DEF NoTime
<1>2. CASE configured # {}
  <2>1. \/ \E r \in missing : a = [success |-> "0", last |-> NoTime]
        \/ \E r \in failing : a = [success |-> "0", last |-> gauge]
        \/ \E t \in OldestOf(times, IF missing \cup failing = {} THEN configured ELSE {}) :
              a = [success |-> "1", last |-> t]
    BY <1>2 DEF AggregateOutcomes
  <2>2. CASE \E r \in missing : a = [success |-> "0", last |-> NoTime]
    BY <1>2, <2>2 DEF NoTime
  <2>3. CASE \E r \in failing : a = [success |-> "0", last |-> gauge]
    BY <1>2, <2>3
  <2>4. CASE \E t \in OldestOf(times, IF missing \cup failing = {} THEN configured ELSE {}) :
                a = [success |-> "1", last |-> t]
    <3>1. PICK t \in OldestOf(times, IF missing \cup failing = {} THEN configured ELSE {}) :
                 a = [success |-> "1", last |-> t]
      BY <2>4
    <3>2. missing \cup failing = {}
      BY <3>1 DEF OldestOf
    <3>3. t \in {times[r] : r \in configured} /\ \A r \in configured : t <= times[r]
      BY <3>1, <3>2 DEF OldestOf
    <3>4. ok = configured
      BY <3>2
    <3>5. t \in Nat
      BY <3>3 DEF Times
    <3> QED BY <1>2, <3>1, <3>3, <3>4, <3>5 DEF IsOldest
  <2> QED BY <2>1, <2>2, <2>3, <2>4
<1> QED BY <1>1, <1>2

\* The data gauge is the least of all the times, or deleted.
LEMMA DataLemma ==
  ASSUME NEW configured \in SUBSET Resource, NEW times \in Times,
         NEW d \in DataTimestampOutcomes(configured, times)
  PROVE  /\ d \in Nat
         /\ IF configured = {} \/ \E r \in configured : times[r] = NoTime
            THEN d = NoTime
            ELSE IsOldest(d, times, configured)
BY DEF DataTimestampOutcomes, OldestOf, IsOldest, Times, NoTime

\* A record whose maps are right and whose gauges the aggregates just computed
\* satisfies the invariant, and its last-success gauge did not move back.
LEMMA RebuildLemma ==
  ASSUME NEW configured \in SUBSET Resource, NEW ok \in SUBSET configured,
         NEW lastSuccess \in Times, NEW dataTime \in Times,
         NEW series \in [Resource -> Series],
         NEW success \in {"absent", "0", "1"}, NEW last \in Nat, NEW data \in Nat,
         NEW gauge \in Nat,
         health' = [ configured |-> configured, ok |-> ok, lastSuccess |-> lastSuccess,
                     dataTime |-> dataTime, series |-> series,
                     success |-> success, last |-> last, data |-> data ],
         clock' \in Nat \ {0},
         gauge <= clock',
         \A r \in Resource : lastSuccess[r] <= clock',
         \A r \in ok : lastSuccess[r] # NoTime,
         \A r \in Resource : lastSuccess[r] # NoTime \/ dataTime[r] # NoTime => r \in configured,
         NotLater(gauge, configured, lastSuccess),
         success = "absent" <=> configured = {},
         success = "1" <=> configured # {} /\ ok = configured,
         \/ last = NoTime
         \/ last = gauge
         \/ IsOldest(last, lastSuccess, configured),
         IF configured = {} \/ \E r \in configured : dataTime[r] = NoTime
         THEN data = NoTime
         ELSE IsOldest(data, dataTime, configured),
         \A r \in Resource :
           series[r] = IF r \in configured
                       THEN [ success |-> BoolFloat(r \in ok),
                              last |-> lastSuccess[r], data |-> dataTime[r] ]
                       ELSE NoSeries
  PROVE  IInv' /\ (last # NoTime /\ gauge # NoTime => last >= gauge)
<1>1. TypeOK'
  <2>1. health' \in HealthRecord
    BY DEF HealthRecord
  <2> QED BY <2>1 DEF TypeOK
<1>2. NothingInTheFuture'
  BY DEF NothingInTheFuture, IsOldest, NoTime, Times
<1>3. MapsAgree'
  BY DEF MapsAgree
<1>4. SuccessIsConjunction'
  BY DEF SuccessIsConjunction
<1>5. FreshnessNotOverstated'
  <2>1. NotLater(last, configured, lastSuccess)
    BY DEF NotLater, IsOldest
  <2> QED BY <2>1 DEF NotLater, FreshnessNotOverstated
<1>6. DataTimestampIsOldest'
  BY DEF DataTimestampIsOldest, IsOldest
<1>7. SeriesMirrorMaps'
  BY DEF SeriesMirrorMaps
<1>8. last # NoTime /\ gauge # NoTime => last >= gauge
  <2>1. CASE last = gauge
    BY <2>1
  <2>2. CASE IsOldest(last, lastSuccess, configured)
    BY <2>2 DEF IsOldest, NotLater, Times
  <2> QED BY <2>1, <2>2
<1> QED BY <1>1, <1>2, <1>3, <1>4, <1>5, <1>6, <1>7, <1>8 DEF IInv
-----------------------------------------------------------------------------
LEMMA InitInvariant == Init => IInv
BY DEF Init, NewHealth, NoSeries, IInv, TypeOK, HealthRecord, Times, Series, NoTime,
       NothingInTheFuture, MapsAgree, SuccessIsConjunction, FreshnessNotOverstated,
       DataTimestampIsOldest, SeriesMirrorMaps

LEMMA TickStep == ASSUME IInv, Tick PROVE IInv'
<1>1. health' = health /\ clock' = clock + 1 /\ clock \in Nat \ {0} /\ health \in HealthRecord
  BY DEF Tick, IInv, TypeOK
<1>2. NothingInTheFuture'
  <2>1. health.last \in Nat /\ \A r \in Resource : health.lastSuccess[r] \in Nat
    BY <1>1 DEF HealthRecord, Times
  <2> QED BY <1>1, <2>1 DEF IInv, NothingInTheFuture
<1>3. TypeOK'
  BY <1>1 DEF TypeOK
<1>4. MapsAgree' /\ SuccessIsConjunction'
  BY <1>1 DEF IInv, MapsAgree, SuccessIsConjunction
<1>5. FreshnessNotOverstated'
  BY <1>1 DEF IInv, FreshnessNotOverstated
<1>6. DataTimestampIsOldest'
  BY <1>1 DEF IInv, DataTimestampIsOldest, IsOldest
<1>7. SeriesMirrorMaps'
  BY <1>1 DEF IInv, SeriesMirrorMaps
<1> QED
  BY <1>2, <1>3, <1>4, <1>5, <1>6, <1>7 DEF IInv

\* A refresh of the resource set.
LEMMA ReplaceStep ==
  ASSUME IInv, NEW S \in SUBSET Resource, Replace(S)
  PROVE  IInv' /\ (health'.last # NoTime /\ health.last # NoTime => health'.last >= health.last)
<1> DEFINE ok          == health.ok \cap S
           lastSuccess == Kept(health.lastSuccess, S)
           dataTime    == Kept(health.dataTime, S)
           series      == ReplacedSeries(health, S)
<1>1. PICK a \in AggregateOutcomes(S, ok, lastSuccess, health.last),
           d \in DataTimestampOutcomes(S, dataTime) :
        health' = [ configured |-> S, ok |-> ok, lastSuccess |-> lastSuccess,
                    dataTime |-> dataTime, series |-> series,
                    success |-> a.success, last |-> a.last, data |-> d ]
  BY DEF Replace, ReplaceResources
<1>2. /\ health \in HealthRecord /\ clock \in Nat \ {0} /\ clock' = clock
      /\ health.last \in Nat /\ health.last <= clock
      /\ ok \in SUBSET S /\ lastSuccess \in Times /\ dataTime \in Times
      /\ \A r \in ok : lastSuccess[r] # NoTime
      /\ \A r \in Resource : lastSuccess[r] <= clock
  BY DEF IInv, TypeOK, HealthRecord, Times, Kept, MapsAgree, NothingInTheFuture, NoTime, Replace
<1>3. \A r \in Resource :
        /\ lastSuccess[r] = IF r \in S THEN health.lastSuccess[r] ELSE NoTime
        /\ dataTime[r] = IF r \in S THEN health.dataTime[r] ELSE NoTime
  BY DEF Kept
<1>4. series \in [Resource -> Series]
  BY <1>2 DEF HealthRecord, Series, ReplacedSeries, NoSeries, BoolFloat, NoTime
<1>5. \A r \in Resource :
        series[r] = IF r \in S
                    THEN [ success |-> BoolFloat(r \in ok),
                           last |-> lastSuccess[r], data |-> dataTime[r] ]
                    ELSE NoSeries
  <2> SUFFICES ASSUME NEW r \in Resource
               PROVE  series[r] = IF r \in S
                                  THEN [ success |-> BoolFloat(r \in ok),
                                         last |-> lastSuccess[r], data |-> dataTime[r] ]
                                  ELSE NoSeries
    OBVIOUS
  <2>1. health.series[r] =
          IF r \in health.configured
          THEN [ success |-> BoolFloat(r \in health.ok),
                 last |-> health.lastSuccess[r], data |-> health.dataTime[r] ]
          ELSE NoSeries
    BY DEF IInv, SeriesMirrorMaps
  <2>2. series[r] = IF r \in S THEN [health.series[r] EXCEPT !.success = BoolFloat(r \in health.ok)]
                    ELSE IF r \in health.configured THEN NoSeries ELSE health.series[r]
    BY DEF ReplacedSeries
  <2>3. r \in S => BoolFloat(r \in ok) = BoolFloat(r \in health.ok)
    BY DEF BoolFloat
  <2>4. r \notin health.configured =>
           health.lastSuccess[r] = NoTime /\ health.dataTime[r] = NoTime
    BY DEF IInv, MapsAgree
  <2>5. CASE r \in S /\ r \in health.configured
    BY <1>3, <2>1, <2>2, <2>3, <2>5
  <2>6. CASE r \in S /\ r \notin health.configured
    BY <1>3, <2>1, <2>2, <2>3, <2>4, <2>6 DEF NoSeries
  <2>7. CASE r \notin S
    BY <2>1, <2>2, <2>7
  <2> QED BY <2>5, <2>6, <2>7
<1>6. NotLater(health.last, S, lastSuccess)
  <2>1. \A r \in S : lastSuccess[r] # NoTime =>
           r \in health.configured /\ health.lastSuccess[r] = lastSuccess[r]
    BY <1>3 DEF IInv, MapsAgree
  <2> QED BY <2>1 DEF NotLater, IInv, FreshnessNotOverstated
<1>7. /\ \A r \in Resource : lastSuccess[r] # NoTime \/ dataTime[r] # NoTime => r \in S
  BY <1>3
<1> HIDE DEF ok, lastSuccess, dataTime, series
<1>8. /\ a.success \in {"absent", "0", "1"}
      /\ a.last \in Nat
      /\ a.success = "absent" <=> S = {}
      /\ a.success = "1" <=> S # {} /\ ok = S
      /\ \/ a.last = NoTime
         \/ a.last = health.last
         \/ IsOldest(a.last, lastSuccess, S)
  BY <1>1, <1>2, AggregateLemma
<1>9. /\ d \in Nat
      /\ IF S = {} \/ \E r \in S : dataTime[r] = NoTime
         THEN d = NoTime
         ELSE IsOldest(d, dataTime, S)
  BY <1>1, <1>2, DataLemma
<1>10. IInv' /\ (a.last # NoTime /\ health.last # NoTime => a.last >= health.last)
  BY <1>1, <1>2, <1>4, <1>5, <1>6, <1>7, <1>8, <1>9, RebuildLemma
<1> QED
  BY <1>1, <1>10

\* The end of a round, whatever set of resources it reports.
LEMMA ObserveStep ==
  ASSUME IInv, NEW good0 \in SUBSET Resource, NEW bad0 \in SUBSET Resource, Observe(good0, bad0)
  PROVE  IInv' /\ (health'.last # NoTime /\ health.last # NoTime => health'.last >= health.last)
<1> DEFINE S           == health.configured
           good        == good0 \cap S
           bad         == bad0 \cap S
           ok          == (health.ok \cup good) \ bad
           lastSuccess == Advanced(health.lastSuccess, good, clock)
           dataTime    == health.dataTime
           series      == ObservedSeries(health, good, bad, clock)
<1>1. PICK a \in AggregateOutcomes(S, ok, lastSuccess, health.last) :
        health' = [ configured |-> S, ok |-> ok, lastSuccess |-> lastSuccess,
                    dataTime |-> dataTime, series |-> series,
                    success |-> a.success, last |-> a.last, data |-> health.data ]
  BY DEF Observe, ObserveResults
<1>2. /\ health \in HealthRecord /\ clock \in Nat \ {0} /\ clock' = clock
      /\ S \in SUBSET Resource
      /\ health.last \in Nat /\ health.last <= clock /\ health.data \in Nat
      /\ lastSuccess \in Times /\ dataTime \in Times
      /\ \A r \in Resource : lastSuccess[r] <= clock
  BY DEF IInv, TypeOK, HealthRecord, Times, Advanced, NothingInTheFuture, Observe
<1>3. \A r \in Resource : lastSuccess[r] = IF r \in good THEN clock ELSE health.lastSuccess[r]
  BY DEF Advanced
<1>4. ok \in SUBSET S /\ \A r \in ok : lastSuccess[r] # NoTime
  <2>1. \A r \in health.ok : r \in S /\ health.lastSuccess[r] # NoTime
    BY DEF IInv, MapsAgree
  <2> QED BY <1>2, <1>3, <2>1 DEF NoTime
<1>5. series \in [Resource -> Series]
  BY <1>2 DEF HealthRecord, Series, ObservedSeries
<1>6. good0 \cap bad0 = {}
  BY DEF Observe
<1>7. \A r \in Resource :
        series[r] = IF r \in S
                    THEN [ success |-> BoolFloat(r \in ok),
                           last |-> lastSuccess[r], data |-> dataTime[r] ]
                    ELSE NoSeries
  <2> SUFFICES ASSUME NEW r \in Resource
               PROVE  series[r] = IF r \in S
                                  THEN [ success |-> BoolFloat(r \in ok),
                                         last |-> lastSuccess[r], data |-> dataTime[r] ]
                                  ELSE NoSeries
    OBVIOUS
  <2>1. health.series[r] =
          IF r \in S
          THEN [ success |-> BoolFloat(r \in health.ok),
                 last |-> health.lastSuccess[r], data |-> health.dataTime[r] ]
          ELSE NoSeries
    BY DEF IInv, SeriesMirrorMaps
  <2>2. series[r] = IF r \in good THEN [success |-> "1", last |-> clock, data |-> health.series[r].data]
                    ELSE IF r \in bad THEN [health.series[r] EXCEPT !.success = "0"]
                    ELSE health.series[r]
    BY DEF ObservedSeries
  <2>3. CASE r \in good
    <3>1. BoolFloat(r \in ok) = "1"
      BY <1>6, <2>3 DEF BoolFloat
    <3>2. lastSuccess[r] = clock /\ r \in S
      BY <1>3, <2>3
    <3>3. series[r] = [success |-> "1", last |-> clock, data |-> health.dataTime[r]]
      BY <2>1, <2>2, <2>3, <3>2
    <3> HIDE DEF series, lastSuccess, good, ok
    <3> QED BY <3>1, <3>2, <3>3
  <2>4. CASE r \in bad
    <3>1. BoolFloat(r \in ok) = "0" /\ r \notin good
      BY <1>6, <2>4 DEF BoolFloat
    <3> QED BY <1>3, <2>1, <2>2, <2>4, <3>1
  <2>5. CASE r \notin good /\ r \notin bad
    <3>1. BoolFloat(r \in ok) = BoolFloat(r \in health.ok)
      BY <2>5 DEF BoolFloat
    <3> QED BY <1>3, <2>1, <2>2, <2>5, <3>1
  <2> QED BY <2>3, <2>4, <2>5
<1>8. NotLater(health.last, S, lastSuccess)
  BY <1>2, <1>3 DEF NotLater, IInv, FreshnessNotOverstated
<1>9. \A r \in Resource : lastSuccess[r] # NoTime \/ dataTime[r] # NoTime => r \in S
  BY <1>3 DEF IInv, MapsAgree
<1>10. IF S = {} \/ \E r \in S : dataTime[r] = NoTime
       THEN health.data = NoTime
       ELSE IsOldest(health.data, dataTime, S)
  BY DEF IInv, DataTimestampIsOldest
<1> HIDE DEF S, good, bad, ok, lastSuccess, dataTime, series
<1>11. /\ a.success \in {"absent", "0", "1"}
       /\ a.last \in Nat
       /\ a.success = "absent" <=> S = {}
       /\ a.success = "1" <=> S # {} /\ ok = S
       /\ \/ a.last = NoTime
          \/ a.last = health.last
          \/ IsOldest(a.last, lastSuccess, S)
  BY <1>1, <1>2, <1>4, AggregateLemma
<1>12. IInv' /\ (a.last # NoTime /\ health.last # NoTime => a.last >= health.last)
  BY <1>1, <1>2, <1>4, <1>5, <1>7, <1>8, <1>9, <1>10, <1>11, RebuildLemma, SMTT(60)
<1> QED BY <1>1, <1>12

\* A data timestamp set in the middle of a round.
LEMMA StampStep ==
  ASSUME IInv, NEW resource \in Resource, Stamp(resource)
  PROVE  IInv' /\ (health'.last # NoTime /\ health.last # NoTime => health'.last >= health.last)
<1>1. PICK dataAt \in 1 .. clock : health' \in SetResourceDataTimestamp(health, resource, dataAt)
  BY DEF Stamp
<1>2. /\ health \in HealthRecord /\ clock \in Nat \ {0} /\ clock' = clock
      /\ health.last \in Nat /\ health.last <= clock
      /\ \A r \in Resource : health.lastSuccess[r] <= clock
  BY DEF IInv, TypeOK, HealthRecord, NothingInTheFuture, Stamp
<1>3. CASE resource \notin health.configured
  <2>1. health' = health
    BY <1>1, <1>3 DEF SetResourceDataTimestamp
  <2>2. TypeOK' /\ NothingInTheFuture' /\ MapsAgree' /\ SuccessIsConjunction'
    BY <1>2, <2>1 DEF IInv, TypeOK, NothingInTheFuture, MapsAgree, SuccessIsConjunction
  <2>3. FreshnessNotOverstated' /\ DataTimestampIsOldest' /\ SeriesMirrorMaps'
    BY <2>1 DEF IInv, FreshnessNotOverstated, DataTimestampIsOldest, IsOldest, SeriesMirrorMaps
  <2> QED BY <1>2, <2>1, <2>2, <2>3 DEF IInv
<1>4. CASE resource \in health.configured
  <2> DEFINE dataTime == Advanced(health.dataTime, {resource}, dataAt)
             series   == StampedSeries(health, resource, dataAt)
  <2>1. PICK d \in DataTimestampOutcomes(health.configured, dataTime) :
          health' = [ configured |-> health.configured, ok |-> health.ok,
                      lastSuccess |-> health.lastSuccess, dataTime |-> dataTime,
                      series |-> series, success |-> health.success,
                      last |-> health.last, data |-> d ]
    <3>1. dataAt # NoTime
      BY DEF NoTime
    <3> QED BY <1>1, <1>4, <3>1 DEF SetResourceDataTimestamp
  <2>2. \A r \in Resource : dataTime[r] = IF r = resource THEN dataAt ELSE health.dataTime[r]
    BY DEF Advanced
  <2>3. dataAt \in Nat /\ dataTime \in Times /\ series \in [Resource -> Series]
    BY <1>2 DEF HealthRecord, Times, Series, Advanced, StampedSeries
  <2>4. /\ health.configured \in SUBSET Resource /\ health.ok \in SUBSET health.configured
        /\ health.lastSuccess \in Times /\ health.success \in {"absent", "0", "1"}
        /\ \A r \in health.ok : health.lastSuccess[r] # NoTime
    BY <1>2 DEF HealthRecord, IInv, MapsAgree
  <2>5. /\ d \in Nat
        /\ IF health.configured = {} \/ \E r \in health.configured : dataTime[r] = NoTime
           THEN d = NoTime
           ELSE IsOldest(d, dataTime, health.configured)
    BY <2>1, <2>3, <2>4, DataLemma
  <2>6. \A r \in Resource :
          series[r] = IF r \in health.configured
                      THEN [ success |-> BoolFloat(r \in health.ok),
                             last |-> health.lastSuccess[r], data |-> dataTime[r] ]
                      ELSE NoSeries
    <3> SUFFICES ASSUME NEW r \in Resource
                 PROVE  series[r] = IF r \in health.configured
                                    THEN [ success |-> BoolFloat(r \in health.ok),
                                           last |-> health.lastSuccess[r], data |-> dataTime[r] ]
                                    ELSE NoSeries
      OBVIOUS
    <3>1. health.series[r] =
            IF r \in health.configured
            THEN [ success |-> BoolFloat(r \in health.ok),
                   last |-> health.lastSuccess[r], data |-> health.dataTime[r] ]
            ELSE NoSeries
      BY DEF IInv, SeriesMirrorMaps
    <3>2. series[r] = IF r = resource THEN [health.series[r] EXCEPT !.data = dataAt]
                      ELSE health.series[r]
      BY DEF StampedSeries
    <3>3. CASE r = resource
      BY <1>4, <2>2, <3>1, <3>2, <3>3
    <3>4. CASE r # resource
      BY <2>2, <3>1, <3>2, <3>4
    <3> QED BY <3>3, <3>4
  <2>7. \A r \in Resource : health.lastSuccess[r] # NoTime \/ dataTime[r] # NoTime
                               => r \in health.configured
    BY <1>4, <2>2 DEF IInv, MapsAgree
  <2>8. NotLater(health.last, health.configured, health.lastSuccess)
    BY DEF NotLater, IInv, FreshnessNotOverstated
  <2>9. /\ health.success = "absent" <=> health.configured = {}
        /\ health.success = "1" <=> health.configured # {} /\ health.ok = health.configured
    BY DEF IInv, SuccessIsConjunction
  <2> HIDE DEF dataTime, series
  <2>10. IInv'
    BY <1>2, <2>1, <2>3, <2>4, <2>5, <2>6, <2>7, <2>8, <2>9, RebuildLemma, SMTT(60)
  <2> QED BY <1>2, <2>1, <2>10
<1> QED BY <1>3, <1>4

-----------------------------------------------------------------------------
LEMMA NextStep ==
  ASSUME IInv, [Next]_vars
  PROVE  IInv' /\ (health'.last # NoTime /\ health.last # NoTime => health'.last >= health.last)
<1>1. CASE Tick
  BY <1>1, TickStep DEF Tick, IInv, TypeOK, HealthRecord
<1>2. CASE \E S \in SUBSET Resource : Replace(S)
  BY <1>2, ReplaceStep
<1>3. CASE \E good, bad \in SUBSET Resource : Observe(good, bad)
  BY <1>3, ObserveStep
<1>4. CASE \E r \in Resource : Stamp(r)
  BY <1>4, StampStep
<1>5. CASE UNCHANGED vars
  <2>1. health' = health /\ clock' = clock
    BY <1>5 DEF vars
  <2>2. TypeOK' /\ NothingInTheFuture' /\ MapsAgree' /\ SuccessIsConjunction'
    BY <2>1 DEF IInv, TypeOK, NothingInTheFuture, MapsAgree, SuccessIsConjunction
  <2>3. FreshnessNotOverstated' /\ DataTimestampIsOldest' /\ SeriesMirrorMaps'
    BY <2>1 DEF IInv, FreshnessNotOverstated, DataTimestampIsOldest, IsOldest, SeriesMirrorMaps
  <2> QED BY <2>1, <2>2, <2>3 DEF IInv, TypeOK, HealthRecord
<1> QED BY <1>1, <1>2, <1>3, <1>4, <1>5 DEF Next

\* Every invariant of the ResourceHealth run holds of every set of resources.
THEOREM HealthInvariant == Spec => []IInv
<1>1. Init => IInv
  BY InitInvariant
<1>2. IInv /\ [Next]_vars => IInv'
  BY NextStep
<1> QED BY <1>1, <1>2, PTL DEF Spec

\* A collector is reported healthy only while every resource of the latest
\* discovery is.
THEOREM SuccessCorrect == Spec => []SuccessIsConjunction
<1>1. IInv => SuccessIsConjunction
  BY DEF IInv
<1> QED BY <1>1, HealthInvariant, PTL

\* The exported last-success time never overstates how fresh the data is.
THEOREM FreshnessCorrect == Spec => []FreshnessNotOverstated
<1>1. IInv => FreshnessNotOverstated
  BY DEF IInv
<1> QED BY <1>1, HealthInvariant, PTL

\* No departed resource leaves a series behind.
THEOREM SeriesCorrect == Spec => []SeriesMirrorMaps
<1>1. IInv => SeriesMirrorMaps
  BY DEF IInv
<1> QED BY <1>1, HealthInvariant, PTL

\* From one exported value to the next, last success does not move back.
THEOREM LastSuccessMonotone == Spec => LastSuccessNeverRegresses
<1>1. IInv /\ [Next]_vars =>
        [health.last # NoTime /\ health'.last # NoTime => health'.last >= health.last]_vars
  BY NextStep
<1> QED BY <1>1, HealthInvariant, PTL DEF Spec, LastSuccessNeverRegresses

\* The two maps of metrics.go stay over the configured resources, whatever late results do.
THEOREM MapsCorrect == Spec => []MapsAgree
<1>1. IInv => MapsAgree
  BY DEF IInv
<1> QED BY <1>1, HealthInvariant, PTL

\* The collector's data timestamp is never newer than the data of one of its resources.
THEOREM DataTimestampCorrect == Spec => []DataTimestampIsOldest
<1>1. IInv => DataTimestampIsOldest
  BY DEF IInv
<1> QED BY <1>1, HealthInvariant, PTL

\* A refresh of the resource set keeps what the survivors have reported.
THEOREM SurvivorsRemembered == Spec => SurvivorsKeepHistory
<1>1. ASSUME IInv, [Next]_vars, NEW r \in Resource, r \in health'.configured
      PROVE  health'.lastSuccess[r] >= health.lastSuccess[r]
  <2>1. /\ health.lastSuccess[r] \in Nat /\ health.lastSuccess[r] <= clock /\ clock \in Nat
    BY <1>1 DEF IInv, TypeOK, HealthRecord, Times, NothingInTheFuture
  <2>2. CASE \E S \in SUBSET Resource : Replace(S)
    <3>1. PICK S \in SUBSET Resource : health' \in ReplaceResources(health, S)
      BY <2>2 DEF Replace
    <3>2. health'.configured = S /\ health'.lastSuccess = Kept(health.lastSuccess, S)
      BY <3>1 DEF ReplaceResources
    <3> QED BY <1>1, <2>1, <3>2 DEF Kept
  <2>3. CASE \E good, bad \in SUBSET Resource : Observe(good, bad)
    <3>1. PICK good, bad \in SUBSET Resource : health' \in ObserveResults(health, good, bad, clock)
      BY <2>3 DEF Observe
    <3>2. health'.lastSuccess = Advanced(health.lastSuccess, good \cap health.configured, clock)
      BY <3>1 DEF ObserveResults
    <3> QED BY <1>1, <2>1, <3>2 DEF Advanced
  <2>4. CASE \E s \in Resource : Stamp(s)
    BY <2>1, <2>4 DEF Stamp, SetResourceDataTimestamp
  <2>5. CASE UNCHANGED health
    BY <2>1, <2>5
  <2> QED BY <1>1, <2>2, <2>3, <2>4, <2>5 DEF Next, Tick, vars
<1>2. IInv => health.configured \subseteq Resource
  BY DEF IInv, TypeOK, HealthRecord
<1>3. IInv /\ [Next]_vars =>
        [\A r \in health.configured \cap health'.configured :
            health'.lastSuccess[r] >= health.lastSuccess[r]]_vars
  BY <1>1, <1>2
<1> QED BY <1>3, HealthInvariant, PTL DEF Spec, SurvivorsKeepHistory
=============================================================================
