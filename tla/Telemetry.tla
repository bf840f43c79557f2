----------------------------- MODULE Telemetry -----------------------------
(***************************************************************************)
(* The health that internal/telemetry/metrics.go keeps for ONE collector   *)
(* over a discovered set of resources (one "module/collector" key of       *)
(* Metrics), as operators on a record.  Composed modules hold one such     *)
(* record per collector.                                                   *)
(*                                                                         *)
(*   configured   the keys of resourceStates[key]                          *)
(*   ok           the resources whose resourceStates entry is true         *)
(*   lastSuccess  resourceLastSuccessTimes[key], NoTime where no entry     *)
(*   dataTime     resourceDataTimes[key], NoTime where no entry            *)
(*   series       the exported per-resource label sets                     *)
(*   success      the exported qiniu_exporter_collector_success            *)
(*   last, data   the exported collector last-success and data timestamps, *)
(*                NoTime when the label set is deleted                     *)
(*                                                                         *)
(* resourceMu makes each Go method below one atomic step.                  *)
(***************************************************************************)
EXTENDS Naturals

CONSTANT Resource

\* time.Time's zero value, and the absence of a map entry or a label set.
NoTime == 0

NoSeries == [success |-> "absent", last |-> NoTime, data |-> NoTime]

\* Metrics as New leaves it for a collector that was never configured.
NewHealth ==
  [ configured  |-> {},
    ok          |-> {},
    lastSuccess |-> [r \in Resource |-> NoTime],
    dataTime    |-> [r \in Resource |-> NoTime],
    series      |-> [r \in Resource |-> NoSeries],
    success     |-> "absent",
    last        |-> NoTime,
    data        |-> NoTime ]

BoolFloat(b) == IF b THEN "1" ELSE "0"

\* Bug: the newest time instead of the oldest.
MutNewestOf(f, S) == {t \in {f[r] : r \in S} : \A r \in S : f[r] <= t}

\* The least of the times f gives the members of S, as a set of one member
\* (of none when S is empty).
OldestOf(f, S) == {t \in {f[r] : r \in S} : \A r \in S : t <= f[r]}

\* Bug: resources that never succeeded are skipped instead of counted unhealthy.
MutAggregateSkippingNewcomers(configured, ok, lastSuccess, gauge) ==
  LET known == {r \in configured : lastSuccess[r] # NoTime}
  IN IF known = {} THEN {[success |-> "absent", last |-> NoTime]}
     ELSE    {[success |-> "0", last |-> gauge] : r \in known \ ok}
        \cup {[success |-> "1", last |-> t] :
                t \in OldestOf(lastSuccess, IF known \subseteq ok THEN known ELSE {})}

(***************************************************************************)
(* updateResourceAggregatesLocked ranges over a Go map and returns at the  *)
(* first resource that never succeeded (the last-success gauge is deleted) *)
(* or that failed (the gauge keeps its value), so with resources of both   *)
(* kinds the outcome depends on the iteration order.                       *)
(***************************************************************************)
AggregateOutcomes(configured, ok, lastSuccess, gauge) ==
  LET missing == {r \in configured : lastSuccess[r] = NoTime}
      failing == {r \in configured \ missing : r \notin ok}
  IN IF configured = {} THEN {[success |-> "absent", last |-> NoTime]}
     ELSE    {[success |-> "0", last |-> NoTime] : r \in missing}
        \cup {[success |-> "0", last |-> gauge] : r \in failing}
        \cup {[success |-> "1", last |-> t] :
                t \in OldestOf(lastSuccess,
                        IF missing \cup failing = {} THEN configured ELSE {})}

\* updateResourceDataTimestampLocked
DataTimestampOutcomes(configured, dataTime) ==
  IF configured = {} \/ \E r \in configured : dataTime[r] = NoTime
  THEN {NoTime}
  ELSE OldestOf(dataTime, configured)

\* The entries of f that belong to resources.
Kept(f, resources) == [r \in Resource |-> IF r \in resources THEN f[r] ELSE NoTime]

\* Bug: the label sets of departed resources are not deleted.
MutReplacedSeriesLeaking(h, resources) ==
  [r \in Resource |->
     IF r \in resources THEN [h.series[r] EXCEPT !.success = BoolFloat(r \in h.ok)]
     ELSE h.series[r]]

\* The label sets ReplaceResources leaves: those of departed resources deleted.
ReplacedSeries(h, resources) ==
  [r \in Resource |->
     IF r \in resources THEN [h.series[r] EXCEPT !.success = BoolFloat(r \in h.ok)]
     ELSE IF r \in h.configured THEN NoSeries ELSE h.series[r]]

\* ReplaceResources: a survivor keeps its state, a newcomer starts unhealthy.
ReplaceResources(h, resources) ==
  { [ configured |-> resources, ok |-> h.ok \cap resources,
      lastSuccess |-> Kept(h.lastSuccess, resources),
      dataTime |-> Kept(h.dataTime, resources),
      series |-> ReplacedSeries(h, resources),
      success |-> a.success, last |-> a.last, data |-> d ] :
    a \in AggregateOutcomes(resources, h.ok \cap resources,
                            Kept(h.lastSuccess, resources), h.last),
    d \in DataTimestampOutcomes(resources, Kept(h.dataTime, resources)) }

Advanced(f, resources, now) == [r \in Resource |-> IF r \in resources THEN now ELSE f[r]]

\* The label sets observeResourceResults sets.
ObservedSeries(h, good, bad, now) ==
  [r \in Resource |->
     IF r \in good THEN [success |-> "1", last |-> now, data |-> h.series[r].data]
     ELSE IF r \in bad THEN [h.series[r] EXCEPT !.success = "0"]
     ELSE h.series[r]]

\* observeResourceResults: the attempt's outcomes, `succeeded' and `failed',
\* except those of resources that are not configured (late results).
ObserveResults(h, succeeded, failed, now) ==
  LET good == succeeded \cap h.configured
      bad  == failed \cap h.configured
  IN { [ configured |-> h.configured, ok |-> (h.ok \cup good) \ bad,
         lastSuccess |-> Advanced(h.lastSuccess, good, now),
         dataTime |-> h.dataTime, series |-> ObservedSeries(h, good, bad, now),
         success |-> a.success, last |-> a.last, data |-> h.data ] :
       a \in AggregateOutcomes(h.configured, (h.ok \cup good) \ bad,
                               Advanced(h.lastSuccess, good, now), h.last) }

\* The label sets SetResourceDataTimestamp sets.
StampedSeries(h, resource, dataAt) ==
  [r \in Resource |-> IF r = resource THEN [h.series[r] EXCEPT !.data = dataAt] ELSE h.series[r]]

\* SetResourceDataTimestamp: ignored for a zero time and for a resource that
\* is not configured.
SetResourceDataTimestamp(h, resource, dataAt) ==
  IF dataAt = NoTime \/ resource \notin h.configured THEN {h}
  ELSE LET dataTime == Advanced(h.dataTime, {resource}, dataAt)
       IN { [ configured |-> h.configured, ok |-> h.ok, lastSuccess |-> h.lastSuccess,
              dataTime |-> dataTime, series |-> StampedSeries(h, resource, dataAt),
              success |-> h.success, last |-> h.last, data |-> d ] :
            d \in DataTimestampOutcomes(h.configured, dataTime) }
=============================================================================
