------------------------------- MODULE MCKodo -------------------------------
(***************************************************************************)
(* KodoRefresh, the rounds of one bucket (KodoCollect) and the listing of  *)
(* buckets and domains (Discovery): each behaviour moves one of the three, *)
(* KodoRefresh with one job over two buckets or with three over one.       *)
(***************************************************************************)
EXTENDS KodoRefresh, Integers, Sequences

CONSTANTS
  b1, b2,
  DayTicks, MonthDays, Lag, Horizon, Requests, Answers, DayAnswers,   \* of KodoCollect
  Last, Dcdn, PageSize, MaxResources, MaxPages                        \* of Discovery

VARIABLES
  focus, moving,          \* which of the three moves; KodoRefresh's jobs and buckets that do
  job, now, round, samples,
  api, live, busy, marker, seen, found, pages, always, ever, honest, listed

collect == <<job, now, round, samples>>
listing == <<api, live, busy, marker, seen, found, pages, always, ever, honest, listed>>
all == <<vars, focus, moving, collect, listing>>

\* Sequences of at most three points, in any order, with gaps.
ShortAnswers == UNION {[1 .. n -> -1 .. 5] : n \in 0 .. 3}
\* Days before, in and after the months of the clock.
MonthAnswers == UNION {[1 .. n -> {-2, 0, 1, 2, 4, 6, 8}] : n \in 0 .. 2}

C == INSTANCE KodoCollect WITH store <- samples

D == INSTANCE Discovery

ASSUME ComponentAssumptions == C!KodoCollectAssumption /\ D!DiscoveryAssumption

NotCollecting == job = "capacity" /\ now = 1
NotListing == api = "domains" /\ live = {} /\ honest

MCInit ==
  /\ Init /\ C!Init /\ D!Init
  /\ moving \in {[jobs |-> {"capacity"}, buckets |-> {b1, b2}], [jobs |-> Jobs, buckets |-> {b1}]}
  /\ \/ focus = "refresh" /\ NotCollecting /\ NotListing
     \/ focus = "collect" /\ NotListing /\ moving.jobs = Jobs
     \/ focus = "listing" /\ NotCollecting /\ moving.jobs = Jobs

Refreshing(A) ==
  /\ focus = "refresh" /\ A
  /\ discovery'.listing \subseteq moving.buckets
  /\ \A j \in Jobs \ moving.jobs : rounds'[j].pc = "idle"
  /\ UNCHANGED <<focus, moving, collect, listing>>

MCNext ==
  \/ Refreshing(Next)
  \/ focus = "collect" /\ C!Next /\ (job = "summary" \/ now' <= 5) /\ UNCHANGED <<vars, focus, moving, listing>>
  \/ focus = "listing" /\ D!Next /\ UNCHANGED <<vars, focus, moving, collect>>

MCSpec == MCInit /\ [][MCNext]_all

OneSafeBucket == C!OneSafeBucket
TotalsAreOfThisMonth == C!TotalsAreOfThisMonth
ListingsAreWhole == D!ListingsAreWhole
=============================================================================
