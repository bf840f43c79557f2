---------------------------- MODULE MCScheduling ----------------------------
(***************************************************************************)
(* Scheduler with a job whose snapshot Freshness follows, and Process:     *)
(* each behaviour moves one of the two.  The rounds of "fixed" may go on   *)
(* past its interval, those of "job" last as long as collectionTimeout     *)
(* lets them; packs opens a unit before its mark.                          *)
(***************************************************************************)
EXTENDS Freshness

CONSTANTS
  fixed, daily, packs,
  ProcessJob, MaxScrapes  \* the jobs of Process and its bound

VARIABLES focus, signal, goroutine, main, listening, failed, scrapes, code

MCInterval == [j \in Job |-> IF j \in {fixed, job} THEN 10 ELSE 0]
MCMaxRound == [j \in Job |-> CASE j = fixed -> 12 [] j = job -> 8 [] OTHER -> 1]
MCMark == [j \in Job |-> CASE j = packs -> 3 [] j = daily -> 2 [] OTHER -> 0]
MCOpen == [j \in Job |-> IF j \in {daily, packs} THEN 2 ELSE 0]
MCRegistrations == {{}, {fixed}, {job}, {daily, packs}}

P == INSTANCE Process WITH Job <- ProcessJob, ctx <- signal, pc <- goroutine

process == <<signal, goroutine, main, listening, failed, scrapes, code>>
all == <<freshVars, process, focus>>

\* Freshness is about goroutines on time.
MCInit ==
  /\ FreshInit /\ (Up(job) => punctual)
  /\ P!Init /\ focus \in {"jobs", "process"}
  /\ (focus = "process") = (\A j \in Job : ~Up(j)) /\ (focus = "process" => punctual /\ clock = 0)

Scheduled(A) == focus = "jobs" /\ A /\ UNCHANGED <<process, focus>>
Running(A) == focus = "process" /\ A /\ UNCHANGED <<freshVars, focus>>

MCNext == Scheduled(FreshNext) \/ Running(P!Next)

\* With the fairness of Process.
MCSpec ==
  /\ MCInit /\ [][MCNext]_all /\ WF_all(Running(P!Main))
  /\ \A j \in ProcessJob :
       WF_all(Running(P!Jobs(P!Finish(j)))) /\ SF_all(Running(P!Jobs(P!Stop(j))))

CleanExit == P!CleanExit
ProcessEnds == P!ProcessEnds
=============================================================================
