----------------------------- MODULE MCBilling -----------------------------
(***************************************************************************)
(* The billing jobs: BillingHistory, BillingEstimates and ResourcePacks    *)
(* share no state; each behaviour moves one of the three.                  *)
(***************************************************************************)
EXTENDS BillingHistory, Sequences

CONSTANTS
  p1, p2, p3, p4,
  MonthDays, EstimateHorizon, Answers,      \* of BillingEstimates
  Pack, Allowed, PageSize, MaxPages         \* of ResourcePacks

VARIABLES
  focus,
  time, snapshots, month, run, estimate, daily,
  account, page, all, packs

estimates == <<time, snapshots, month, run, estimate, daily>>
packages == <<account, page, all, packs>>
everything == <<vars, focus, estimates, packages>>

Snapshots ==
  {[money |-> 1, currency |-> "CNY"], [money |-> 3, currency |-> "CNY"],
   [money |-> 3, currency |-> "USD"], [money |-> 1, currency |-> "other"]}

E == INSTANCE BillingEstimates WITH Horizon <- EstimateHorizon, now <- time, cache <- snapshots

R == INSTANCE ResourcePacks

ASSUME ComponentAssumptions == E!EstimatesAssumption /\ R!PacksAssumption

MCInit ==
  /\ Init /\ E!Init /\ R!Init
  /\ focus \in {"history", "estimates", "packs"}
  /\ lucky => focus = "history"
  /\ focus # "estimates" => time = 0

Historical(A) == focus = "history" /\ A /\ UNCHANGED <<focus, estimates, packages>>

MCNext ==
  \/ Historical(Next)
  \/ focus = "estimates" /\ E!Next /\ UNCHANGED <<vars, focus, packages>>
  \/ focus = "packs" /\ R!Next /\ UNCHANGED <<vars, focus, estimates>>

\* With the fairness of BillingHistory.
MCSpec ==
  /\ MCInit /\ [][MCNext]_everything
  /\ WF_everything(Historical(Tick)) /\ WF_everything(Historical(Begin))
  /\ WF_everything(Historical(FetchLatest \/ FetchHistory \/ Complete))

DailyAddsUp == E!DailyAddsUp
SeriesAreUnique == R!SeriesAreUnique
=============================================================================
