--------------------------- MODULE BillingHistory ---------------------------
(***************************************************************************)
(* The finalized-bill job of app/billing.go: the bill of the latest        *)
(* finalized month and the rolling history of Window months, fetched one   *)
(* after the other, oldest first, and kept in a cache that a restart       *)
(* empties.  A half of a month is a tick: SelectPeriods waits for the      *)
(* fifth day before it takes the previous month as finalized.              *)
(***************************************************************************)
EXTENDS Integers, FiniteSets

CONSTANTS
  Window,         \* 12 months
  Horizon,        \* bound on the clock, in half months
  MaxRestarts     \* bound on the restarts of the process

ASSUME HistoryAssumption == Window \in Nat \ {0} /\ Horizon \in Nat /\ MaxRestarts \in Nat

VARIABLES
  lucky,          \* whether every run fetches a month it did not have; of the whole behaviour
  now, restarts,
  cache,          \* finalizedHistoryCache: the months it holds
  round,          \* the job's run: step, the latest month, whether it fetched one
  latest, last12, \* the stores: {} or {the month}, {} or {the months}
  fetched         \* history: the months this process has fetched

vars == <<lucky, now, restarts, cache, round, latest, last12, fetched>>

\* SelectPeriods: before the fifth day the month before last is the latest finalized one.
Finalized(t) == IF t % 2 = 0 THEN t \div 2 - 2 ELSE t \div 2 - 1

\* Last12FinalizedPeriods
Last12(m) == (m - Window + 1) .. m

Resting == [step |-> "idle", month |-> 0, got |-> FALSE]

Init ==
  /\ lucky \in BOOLEAN /\ now = 0 /\ restarts = 0 /\ cache = {} /\ round = Resting
  /\ latest = {} /\ last12 = {} /\ fetched = {}

Tick ==
  /\ now < Horizon /\ now' = now + 1
  /\ UNCHANGED <<lucky, restarts, cache, round, latest, last12, fetched>>

Begin ==
  /\ round.step = "idle"
  /\ round' = [step |-> "latest", month |-> Finalized(now), got |-> FALSE]
  /\ UNCHANGED <<lucky, now, restarts, cache, latest, last12, fetched>>

Missing(months) == months \ cache

\* cache.fetch of a month that it does not hold.
Fetch(m) ==
  /\ cache' = cache \cup {m} /\ fetched' = fetched \cup {m}
  /\ UNCHANGED <<lucky, now, restarts, latest, last12>>

FetchLatest ==
  /\ round.step = "latest"
  /\ \/ \E m \in Missing({round.month}) :
          Fetch(m) /\ round' = [round EXCEPT !.step = "history", !.got = TRUE]
     \/ /\ Missing({round.month}) = {}
        /\ round' = [round EXCEPT !.step = "history"]
        /\ UNCHANGED <<lucky, now, restarts, cache, latest, last12, fetched>>

\* The latest bill is not answered: nothing changes, the history is not tried.
LatestFails ==
  /\ ~lucky /\ round.step = "latest" /\ Missing({round.month}) # {}
  /\ round' = Resting /\ UNCHANGED <<lucky, now, restarts, cache, latest, last12, fetched>>

FetchHistory ==
  /\ round.step = "history"
  /\ \E m \in Missing(Last12(round.month)) :
       /\ \A n \in Missing(Last12(round.month)) : m <= n
       /\ Fetch(m) /\ round' = [round EXCEPT !.got = TRUE]

\* Bug: a run that fails keeps nothing but the latest month.
MutKept(complete) ==
  IF complete THEN cache \cap (Last12(round.month) \cup {round.month}) ELSE {round.month}

\* What the cache keeps when the run ends.
Kept(complete) == cache \cap (Last12(round.month) \cup {round.month})

\* Bug: what was fetched is published as the history.
MutPublished(complete) == {cache \cap Last12(round.month)}

\* The rolling history is replaced as a whole or not at all.
Published(complete) == IF complete THEN {cache \cap Last12(round.month)} ELSE last12

End(complete) ==
  /\ round.step = "history"
  /\ cache' = Kept(complete) /\ last12' = Published(complete)
  /\ latest' = {round.month} /\ round' = Resting
  /\ UNCHANGED <<lucky, now, restarts, fetched>>

Complete == Missing(Last12(round.month)) = {} /\ End(TRUE)

\* A month of the history is not answered, or the job's deadline passes.
HistoryFails == (lucky => round.got) /\ Missing(Last12(round.month)) # {} /\ End(FALSE)

Restart ==
  /\ restarts < MaxRestarts /\ restarts' = restarts + 1
  /\ cache' = {} /\ round' = Resting /\ latest' = {} /\ last12' = {} /\ fetched' = {}
  /\ UNCHANGED <<lucky, now>>

Next ==
  Tick \/ Begin \/ FetchLatest \/ LatestFails \/ FetchHistory \/ Complete \/ HistoryFails \/ Restart

Spec == Init /\ [][Next]_vars

\* The clock, the schedule and a run that has begun go on.
FairSpec ==
  Spec /\ WF_vars(Tick) /\ WF_vars(Begin) /\ WF_vars(FetchLatest \/ FetchHistory \/ Complete)
-----------------------------------------------------------------------------
\* The rolling history is always a full window of consecutive months, whichever runs failed.
HistoryIsWhole ==
  \A months \in last12 : \E m \in months : months = (m - Window + 1) .. m

\* No bill is exposed as final before the fifth day of the month after it: month m ends at
\* tick 2m + 2.
OnlyFinalBills == \A m \in latest \cup UNION last12 : now > 2 * m + 2

\* The cache holds one window at most between runs, however long the process lives.
CacheIsBounded == round.step = "idle" => Cardinality(cache) <= Window

\* A month is asked for successfully once: failed runs lose nothing they fetched, and the
\* window never comes back to a month it has left.
FetchedOnce ==
  [][\A m \in cache' \ cache : m \notin fetched]_vars

\* Runs that never manage more than one new month still complete the history.
HistoryCompletes == lucky => <>[](\E months \in last12 : Finalized(now) \in months)
=============================================================================
