------------------------ MODULE MonitoringIsolation ------------------------
(***************************************************************************)
(* app/cdn.go: how one batch of domains is asked for.  The upstream        *)
(* rejects a batch (code 400032) for any one domain in it, so a rejected   *)
(* batch is halved until the rejected domains are alone; a pass makes at   *)
(* most Budget attempts.  Monitoring (collectCDNMonitoring) remembers the  *)
(* domains it isolated in the negative cache `bad' and leaves them out;    *)
(* metering (fetchCDNMeteringBatches) does not.  A discovery clears `bad'. *)
(* The domains are sorted and every call is for a part of them in order:   *)
(* the set of its domains is all there is to say of it.                    *)
(***************************************************************************)
EXTENDS Naturals, Sequences, FiniteSets, SequencesExt

\* Each [kind, size, rejected, env]: what the pass asks for, how many domains, which of
\* them the upstream rejects, and what else may happen: requests that fail for other
\* reasons ("faults"), discoveries that clear the cache ("clears"), rejected domains that
\* are accepted again ("changes").
CONSTANT Scenarios

Budget == 16      \* cdnMonitoringIsolationAttemptLimit

\* Asserted where the module is instantiated.
IsolationAssumption ==
  \A s \in Scenarios :
    /\ s.kind \in {"monitoring", "metering"} /\ s.size \in 1 .. 50
    /\ s.rejected \subseteq 1 .. s.size /\ s.env \subseteq {"faults", "clears", "changes"}

VARIABLES
  kind, batch, env,   \* of the whole behaviour
  rejected,       \* upstream: the domains it rejects
  bad,            \* the negative cache
  pc,             \* "idle", "collect", "answered" or "ended"
  stack,          \* the calls of collect that are due, outermost last
  answer,         \* of the request for Head(stack)
  attempts, failed,
  covered,        \* the usage batches, in order
  known,          \* history: the negative cache when the pass began
  settled         \* history: domains accepted at a discovery between two passes

scenario == <<kind, batch, env>>
progress == <<attempts, failed, covered>>
history == <<known, settled>>
vars == <<scenario, rejected, bad, pc, stack, answer, progress, history>>

Init ==
  /\ \E s \in Scenarios :
       kind = s.kind /\ batch = 1 .. s.size /\ env = s.env /\ rejected = s.rejected
  /\ bad = {} /\ pc = "idle" /\ stack = <<>> /\ answer = "ok"
  /\ attempts = 0 /\ failed = {} /\ covered = <<>> /\ known = {} /\ settled = {}

Current == Head(stack)

\* Monitoring leaves out what the cache names, and asks for nothing if that is all;
\* metering asks for the whole batch.
Asked == IF kind = "monitoring" THEN batch \ bad ELSE batch

Begin ==
  /\ pc \in {"idle", "ended"}
  /\ stack' = IF Asked = {} THEN <<>> ELSE <<Asked>>
  /\ failed' = batch \ Asked /\ known' = bad
  /\ pc' = "collect" /\ attempts' = 0 /\ covered' = <<>>
  /\ UNCHANGED <<scenario, rejected, bad, answer, settled>>

\* collect with the budget exhausted.
Exhausted ==
  /\ pc = "collect" /\ stack # <<>> /\ attempts >= Budget
  /\ failed' = failed \cup Current
  /\ stack' = Tail(stack)
  /\ UNCHANGED <<scenario, rejected, bad, pc, answer, attempts, covered, history>>

\* Bug: the status of an answer does not count if its body can be read.
MutOutcome(r) ==
  CASE r.code = 200 /\ r.fits -> "ok" [] r.code = 400032 -> "rejected" [] OTHER -> "error"

\* postJSON and checkBusinessCode; fits: the answer can be read, and what it says agrees with
\* the domains that were asked for.
Outcome(r) ==
  CASE r.status # 200 -> "error"
    [] r.status = 200 /\ r.code = 200 /\ r.fits -> "ok"
    [] r.status = 200 /\ r.code = 400032 -> "rejected"
    [] OTHER -> "error"

Reply == [status : {200, 400, 500}, code : {200, 400000, 400032}, fits : BOOLEAN]

\* Any reply but those that say on the upstream's behalf what it did with the batch.
Fault == {r \in Reply : r.status # 200 \/ r.code = 400000 \/ (r.code = 200 /\ ~r.fits)}

Replies(domains) ==
  {[status |-> 200, code |-> IF domains \cap rejected = {} THEN 200 ELSE 400032, fits |-> TRUE]}
  \cup IF "faults" \in env THEN Fault ELSE {}

\* The bandwidth of the domains, and only if that is all right the flow, of metering one of
\* the two: the attempt fails with the first answer that is not.
FirstNotOk(a, b) == IF a = "ok" THEN b ELSE a

Request ==
  /\ pc = "collect" /\ stack # <<>> /\ attempts < Budget
  /\ attempts' = attempts + 1
  /\ \E a, b \in {Outcome(r) : r \in Replies(Current)} :
       answer' = IF kind = "monitoring" THEN FirstNotOk(a, b) ELSE a
  /\ pc' = "answered"
  /\ UNCHANGED <<scenario, rejected, bad, stack, failed, covered, history>>

Publish ==
  /\ pc = "answered" /\ answer = "ok"
  /\ covered' = Append(covered, Current)
  /\ stack' = Tail(stack) /\ pc' = "collect"
  /\ UNCHANGED <<scenario, rejected, bad, answer, attempts, failed, history>>

Before(domains, d) == Cardinality({c \in domains : c < d})

\* Bug: the domains are taken off one at a time.
MutHalves(domains) ==
  LET first == {d \in domains : Before(domains, d) < 1} IN <<first, domains \ first>>

\* Bug: the second half starts after the middle.
MutHalvesGap(domains) ==
  LET middle == Cardinality(domains) \div 2 IN
  <<{d \in domains : Before(domains, d) < middle}, {d \in domains : Before(domains, d) > middle}>>

Halves(domains) ==
  LET first == {d \in domains : Before(domains, d) < Cardinality(domains) \div 2}
  IN  <<first, domains \ first>>

Split ==
  /\ pc = "answered" /\ answer = "rejected" /\ Cardinality(Current) > 1
  /\ stack' = Halves(Current) \o Tail(stack) /\ pc' = "collect"
  /\ UNCHANGED <<scenario, rejected, bad, answer, progress, history>>

\* What the negative cache learns from the answer.
Isolated == IF kind = "monitoring" /\ answer = "rejected" THEN Current ELSE {}

Fail ==
  /\ pc = "answered" /\ (answer = "rejected" => Cardinality(Current) = 1) /\ answer # "ok"
  /\ failed' = failed \cup Current /\ bad' = bad \cup Isolated
  /\ stack' = Tail(stack) /\ pc' = "collect"
  /\ UNCHANGED <<scenario, rejected, answer, attempts, covered, history>>

End ==
  /\ pc = "collect" /\ stack = <<>> /\ pc' = "ended"
  /\ UNCHANGED <<scenario, rejected, bad, stack, answer, progress, history>>

\* Those that no pass in flight can put into the cache again.
Accepted == IF pc \in {"idle", "ended"} THEN batch \ rejected ELSE {}

\* reconcile's clear(badDomains), at any point of a pass.
Clear ==
  /\ "clears" \in env /\ bad' = {} /\ settled' = settled \cup Accepted
  /\ UNCHANGED <<scenario, rejected, pc, stack, answer, progress, known>>

\* The upstream accepts what it rejected.
Accept ==
  /\ "changes" \in env /\ \E r \in SUBSET rejected : r # rejected /\ rejected' = r
  /\ UNCHANGED <<scenario, bad, pc, stack, answer, progress, history>>

Pass == Exhausted \/ Request \/ Publish \/ Split \/ Fail \/ End

Next == Begin \/ Pass \/ Clear \/ Accept
-----------------------------------------------------------------------------
\* A pass answers for every domain exactly once: it is reported failed, or it is in one of
\* the usage batches, which follow each other in the order of the domains.  The usage round
\* compares that list with the scope to call its totals complete.
EveryDomainAnswered ==
  pc = "ended" =>
    /\ UNION ToSet(covered) = batch \ failed
    /\ \A i, j \in DOMAIN covered : i < j => \A c \in covered[i], d \in covered[j] : c < d

\* Only a domain that was rejected alone enters the negative cache, never one that failed
\* for another reason or that the budget did not reach; and one that the upstream accepts
\* again stays there until the next discovery at most, or until the one after it if an
\* answer was in flight then.
OnlyRejectedAreCached == ("changes" \notin env => bad \subseteq rejected) /\ bad \cap settled = {}

\* The budget is enough for a batch of any size, whichever of its domains are rejected: one
\* of them costs nobody else a round, and a pass that leaves an accepted domain unserved has
\* found a rejected one that was not known, so that the passes get round the budget.
BudgetMakesProgress ==
  pc = "ended" /\ env = {} =>
    /\ (\A c, d \in rejected : c = d) => failed = rejected
    /\ kind = "monitoring" /\ ~(failed \subseteq rejected) => bad \ known # {}
=============================================================================
