--------------------------- MODULE ResourceHealth ---------------------------
(***************************************************************************)
(* The health of one resource collector under every order of calls its     *)
(* callers can make: a discovery that replaces the resource set, rounds    *)
(* that report the outcomes of a resource set snapshotted when they began  *)
(* (which may name resources that have left since), and data timestamps    *)
(* set while a round is under way.                                         *)
(***************************************************************************)
EXTENDS Telemetry

CONSTANT MaxTime        \* bound on the clock, for TLC only

ASSUME MaxTimeAssumption == MaxTime \in Nat

VARIABLES
  health,   \* the record of Telemetry
  clock     \* time.Now(), at least 1

vars == <<health, clock>>

Init == health = NewHealth /\ clock = 1

Tick == clock < MaxTime /\ clock' = clock + 1 /\ UNCHANGED health

\* reconcile, after a discovery that listed every page.
Replace(resources) ==
  /\ health' \in ReplaceResources(health, resources)
  /\ UNCHANGED clock

\* ObserveResourceBatchJob at the end of a round over succeeded \cup failed.
\* A batch without a failure passes a nil error, a PartialResourceError gives
\* each failed resource its own error.
Observe(succeeded, failed) ==
  /\ succeeded \cap failed = {}
  /\ succeeded \cup failed # {}
  /\ health' \in ObserveResults(health, succeeded, failed, clock)
  /\ UNCHANGED clock

\* The data a round publishes ended in the past.
Stamp(resource) ==
  /\ \E dataAt \in 1 .. clock :
        health' \in SetResourceDataTimestamp(health, resource, dataAt)
  /\ UNCHANGED clock

Next ==
  \/ Tick
  \/ \E S \in SUBSET Resource : Replace(S)
  \/ \E good, bad \in SUBSET Resource : Observe(good, bad)
  \/ \E r \in Resource : Stamp(r)

Spec == Init /\ [][Next]_vars
-----------------------------------------------------------------------------
Times == [Resource -> Nat]

Series == [success : {"absent", "0", "1"}, last : Nat, data : Nat]

HealthRecord ==
  [ configured : SUBSET Resource, ok : SUBSET Resource,
    lastSuccess : Times, dataTime : Times, series : [Resource -> Series],
    success : {"absent", "0", "1"}, last : Nat, data : Nat ]

IsOldest(t, times, S) == (\E r \in S : t = times[r]) /\ (\A r \in S : t <= times[r])

\* The record has its type and the clock stays positive, so that no observed
\* time is mistaken for a missing one.
TypeOK == health \in HealthRecord /\ clock \in Nat \ {0}

\* Only configured resources have an entry, and a resource is healthy only if
\* it has a last-success time, however discoveries and late results interleave
\* (metrics.go keeps the two in maps of their own).
MapsAgree ==
  /\ health.ok \subseteq {r \in health.configured : health.lastSuccess[r] # NoTime}
  /\ \A r \in Resource : health.lastSuccess[r] # NoTime \/ health.dataTime[r] # NoTime
                            => r \in health.configured

\* collector_success is 1 exactly while every resource of the latest discovery
\* last ended well, and is absent exactly when there is none: neither a late
\* result nor a new resource can leave a 1 behind.
SuccessIsConjunction ==
  /\ health.success = "absent" <=> health.configured = {}
  /\ health.success = "1" <=> health.configured # {} /\ health.ok = health.configured

\* collector_last_success never claims more than it may: when exported it is
\* not later than the last success of any resource of the set that ever
\* succeeded, although a failing round leaves the gauge as it was.
FreshnessNotOverstated ==
  health.last # NoTime =>
    \A r \in health.configured : health.lastSuccess[r] # NoTime => health.last <= health.lastSuccess[r]

\* The collector's data timestamp is the oldest of its resources', and is
\* absent while one of them has none.
DataTimestampIsOldest ==
  IF health.configured = {} \/ \E r \in health.configured : health.dataTime[r] = NoTime
  THEN health.data = NoTime
  ELSE IsOldest(health.data, health.dataTime, health.configured)

\* The exported label sets are those of the configured resources, with the
\* values the maps hold: a departed resource leaves no series behind and one
\* that returns does not find its old values.
SeriesMirrorMaps ==
  \A r \in Resource :
    health.series[r] =
      IF r \in health.configured
      THEN [ success |-> BoolFloat(r \in health.ok),
             last |-> health.lastSuccess[r], data |-> health.dataTime[r] ]
      ELSE NoSeries

\* A refresh of the resource set does not disturb the resources that stay, and
\* no step takes a last success back: while a resource stays configured its
\* last-success time only grows.
SurvivorsKeepHistory ==
  [][\A r \in health.configured \cap health'.configured :
        health'.lastSuccess[r] >= health.lastSuccess[r]]_vars

\* The collector's last-success gauge never moves backwards from one exported
\* value to the next, which is what lets an alert compare it with now.
LastSuccessNeverRegresses ==
  [][health.last # NoTime /\ health'.last # NoTime => health'.last >= health.last]_vars

\* DESIGN.md's contract for collector_last_success of a resource collector:
\* "the oldest latest-success time across resources".  Refuted: a round with a
\* failing resource leaves the gauge at an older value.
LastSuccessIsOldest ==
  health.configured # {} /\ (\A r \in health.configured : health.lastSuccess[r] # NoTime)
    => IsOldest(health.last, health.lastSuccess, health.configured)
=============================================================================
