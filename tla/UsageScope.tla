----------------------------- MODULE UsageScope -----------------------------
(***************************************************************************)
(* What a whole-account aggregate (CDN usage, CDN top IPs) promises its    *)
(* readers, without the jobs and the lock that keep the promise: whatever  *)
(* is shown was collected over the current resource set, because the set   *)
(* changes only while nothing is shown.                                    *)
(***************************************************************************)
CONSTANT Resource

VARIABLES
  scope,    \* the resource set of the latest applied discovery
  shown     \* {} or {S}: the resource set the exposed aggregate covers

vars == <<scope, shown>>

Init == scope = {} /\ shown = {}

Collected == shown' = {scope} /\ UNCHANGED scope

Withdraw == shown' = {} /\ UNCHANGED scope

Rescope(S) == shown = {} /\ scope' = S /\ UNCHANGED shown

Next ==
  \/ Collected
  \/ Withdraw
  \/ \E S \in SUBSET Resource : Rescope(S)

Spec == Init /\ [][Next]_vars
=============================================================================
