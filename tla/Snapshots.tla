----------------------------- MODULE Snapshots -----------------------------
(***************************************************************************)
(* internal/snapshot: the two stores between collection rounds and         *)
(* scrapes, as operators on their contents.  A lock or an atomic pointer   *)
(* makes each method one step.                                             *)
(*                                                                         *)
(* A Store holds {} or {v}.  A ResourceStore is a record: `values' maps a  *)
(* resource to {} or {v}; once `managed' by a discovery it accepts only    *)
(* the resources in `active'.                                              *)
(***************************************************************************)
EXTENDS Integers

CONSTANT Resource

NewResourceStore ==
  [managed |-> FALSE, active |-> {}, values |-> [r \in Resource |-> {}]]

\* Bug: the value of a resource that is not active is stored all the same.
MutPublishUnchecked(store, resource, v) ==
  [managed |-> store.managed, active |-> store.active,
   values |-> [store.values EXCEPT ![resource] = {v}]]

\* ResourceStore.Publish: the late value of a departed resource is dropped.
Publish(store, resource, v) ==
  IF store.managed /\ resource \notin store.active THEN store
  ELSE [managed |-> store.managed, active |-> store.active,
        values |-> [store.values EXCEPT ![resource] = {v}]]

\* ResourceStore.Retain
Retain(store, resources) ==
  [managed |-> TRUE, active |-> resources,
   values |-> [r \in Resource |-> IF r \in resources THEN store.values[r] ELSE {}]]

\* The resources that have a value.
Held(store) == {r \in Resource : store.values[r] # {}}
-----------------------------------------------------------------------------
\* time.Time's zero value.
ZeroTime == 0

\* stale: the age of a snapshot counts from the older of its collection and
\* data times; a StaleAfter that is not positive never expires.
Stale(now, meta) ==
  LET useData   == meta.dataAt # ZeroTime
                     /\ (meta.collectedAt = ZeroTime \/ meta.dataAt < meta.collectedAt)
      reference == IF useData THEN meta.dataAt ELSE meta.collectedAt
  IN meta.staleAfter > 0 /\ now - reference > meta.staleAfter

\* Store.Load and ResourceStore.Load of one value: {} or {v}.
Load(value, now) == {v \in value : ~Stale(now, v.meta)}
=============================================================================
