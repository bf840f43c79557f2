---------------------------- MODULE MCCDNRefresh ----------------------------
(***************************************************************************)
(* All jobs over all domains are beyond TLC.  Each behaviour runs one      *)
(* instance: some of the jobs over some of the domains, against every      *)
(* discovery of those.                                                     *)
(***************************************************************************)
EXTENDS CDNRefresh

CONSTANTS a, b
VARIABLE instance

Instances ==
  {[jobs |-> {"monitoring"}, domains |-> {a, b}],
   [jobs |-> {"analytics"}, domains |-> {a, b}],
   [jobs |-> {"top_ips", "scrape"}, domains |-> {a, b}],
   [jobs |-> {"monitoring", "analytics"}, domains |-> {a}],
   [jobs |-> {"monitoring", "scrape"}, domains |-> {a}],
   [jobs |-> {"analytics", "scrape"}, domains |-> {a}]}

MCInit == Init /\ instance \in Instances

MCNext ==
  /\ Next
  /\ discovery'.listing \subseteq instance.domains
  /\ \A j \in RoundJobs \ instance.jobs : rounds'[j].pc = "idle"
  /\ "scrape" \in instance.jobs \/ scrape'.pc = "idle"
  /\ UNCHANGED instance

MCSpec == MCInit /\ [][MCNext]_<<vars, instance>>

\* Another, with the fairness of CDNRefresh.
RoundsInit == Init /\ instance = [jobs |-> {"monitoring", "top_ips"}, domains |-> {a}]

RoundsSpec == RoundsInit /\ [][MCNext]_<<vars, instance>> /\ Fairness
=============================================================================
