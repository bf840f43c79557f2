------------------------------ MODULE Process ------------------------------
(***************************************************************************)
(* cmd/qiniu-exporter: the main goroutine of run from scheduler.Run on,    *)
(* with the HTTP server and the jobs' goroutines, here without the timing  *)
(* that Scheduler gives them.  It is "serving" until a signal ends its     *)
(* context or the server fails, then in "shutdown" (of the server),        *)
(* "waiting" (scheduler.Wait, perhaps "failed") and "exited".              *)
(***************************************************************************)
EXTENDS Integers

CONSTANTS
  Job,
  MaxScrapes            \* bound on the requests under way

VARIABLES
  ctx,                  \* "live" or "cancelled"
  pc,                   \* per job: "wait", "run" or "stopped"
  main,
  listening,            \* the server accepts connections
  failed,               \* ListenAndServe has returned an error
  scrapes,              \* requests being answered
  code                  \* of the process: -1 before its end

vars == <<ctx, pc, main, listening, failed, scrapes, code>>

Init ==
  /\ ctx = "live" /\ pc = [j \in Job |-> "wait"]
  /\ main = "serving" /\ listening = TRUE /\ failed = FALSE /\ scrapes = 0 /\ code = -1

Exit(c) == main' = "exited" /\ code' = c

Signal ==
  /\ ctx = "live" /\ ctx' = "cancelled"
  /\ UNCHANGED <<pc, main, listening, failed, scrapes, code>>

\* A job's timer fires, its round ends, or its select takes the end of the context.
Begin(j) == pc[j] = "wait" /\ pc' = [pc EXCEPT ![j] = "run"]
Finish(j) == pc[j] = "run" /\ pc' = [pc EXCEPT ![j] = "wait"]
Stop(j) == pc[j] = "wait" /\ ctx = "cancelled" /\ pc' = [pc EXCEPT ![j] = "stopped"]

Jobs(A) == main # "exited" /\ A /\ UNCHANGED <<ctx, main, listening, failed, scrapes, code>>

Accept ==
  /\ main # "exited" /\ listening /\ scrapes < MaxScrapes /\ scrapes' = scrapes + 1
  /\ UNCHANGED <<ctx, pc, main, listening, failed, code>>

Reply ==
  /\ main # "exited" /\ scrapes > 0 /\ scrapes' = scrapes - 1
  /\ UNCHANGED <<ctx, pc, main, listening, failed, code>>

ServeFails ==
  /\ listening /\ listening' = FALSE /\ failed' = TRUE
  /\ UNCHANGED <<ctx, pc, main, scrapes, code>>

\* <-ctx.Done(): server.Shutdown closes the listener at once.
TakeDone ==
  /\ main = "serving" /\ ctx = "cancelled"
  /\ main' = "shutdown" /\ listening' = FALSE
  /\ UNCHANGED <<ctx, pc, failed, scrapes, code>>

\* Bug: the jobs' context goes on when the server fails.
MutTakeError ==
  /\ main = "serving" /\ failed /\ main' = "waiting, failed"
  /\ UNCHANGED <<ctx, pc, listening, failed, scrapes, code>>

\* <-serveErrors: stop ends the context of the jobs.
TakeError ==
  /\ main = "serving" /\ failed
  /\ ctx' = "cancelled" /\ main' = "waiting, failed"
  /\ UNCHANGED <<pc, listening, failed, scrapes, code>>

\* Shutdown returns once no request is under way.
Shutdown ==
  /\ main = "shutdown" /\ scrapes = 0 /\ main' = "waiting"
  /\ UNCHANGED <<ctx, pc, listening, failed, scrapes, code>>

\* Requests go on past the ten seconds of its context: run returns, without Wait.
ShutdownTimesOut ==
  /\ main = "shutdown" /\ scrapes > 0 /\ Exit(1)
  /\ UNCHANGED <<ctx, pc, listening, failed, scrapes>>

Waiting == main \in {"waiting", "waiting, failed"}

\* Bug: the end of the jobs' context is taken for theirs.
MutWaited ==
  /\ Waiting /\ ctx = "cancelled" /\ Exit(IF main = "waiting" THEN 0 ELSE 1)
  /\ UNCHANGED <<ctx, pc, listening, failed, scrapes>>

\* scheduler.Wait returns, and run with the error it received, if any.
Waited ==
  /\ Waiting /\ \A j \in Job : pc[j] = "stopped"
  /\ Exit(IF main = "waiting" THEN 0 ELSE 1)
  /\ UNCHANGED <<ctx, pc, listening, failed, scrapes>>

Main == TakeDone \/ TakeError \/ Shutdown \/ ShutdownTimesOut \/ Waited

Gone == main = "exited" /\ UNCHANGED vars

Next ==
  \/ \E j \in Job : Jobs(Begin(j) \/ Finish(j) \/ Stop(j))
  \/ Signal \/ Accept \/ Reply \/ ServeFails \/ Main \/ Gone

\* The main goroutine goes on, rounds end, and a select whose context is done takes it at
\* some point: Go chooses among ready cases at random.
Spec ==
  /\ Init /\ [][Next]_vars /\ WF_vars(Main)
  /\ \A j \in Job : WF_vars(Jobs(Finish(j))) /\ SF_vars(Jobs(Stop(j)))
-----------------------------------------------------------------------------
\* A process that ends with code 0 cut nothing off: no round is under way that would leave half
\* of its publications behind, and no scrape is left without its answer.
CleanExit == code = 0 => scrapes = 0 /\ \A j \in Job : pc[j] = "stopped"

\* Told to stop, or without its server, the process ends, whatever rounds are under way.
ProcessEnds == ctx = "cancelled" \/ failed ~> main = "exited"
=============================================================================
