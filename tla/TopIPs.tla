-------------------------------- MODULE TopIPs --------------------------------
(***************************************************************************)
(* app/cdn.go, cdn/topip.go: a round of cdn/top_ips asks for the top IPs   *)
(* of every batch of domains in turn and publishes the largest of their    *)
(* sums.  (CDNRefresh has the round's scope check.)  Traffic and requests  *)
(* are merged alike, each on its own: here is one of them.                 *)
(***************************************************************************)
EXTENDS Naturals, Sequences, FiniteSets, SequencesExt, FiniteSetsExt

CONSTANTS
  Batches,        \* how many batches the domains of the round make
  Spelling,       \* what an answer calls an address
  Parse,          \* net.ParseIP(...).String() of each, numbers for the order of strings
  Value,          \* what an answer says of one
  TopIPLimit

\* Asserted where the module is instantiated.
TopIPsAssumption ==
  /\ Batches \in Nat \ {0} /\ TopIPLimit \in Nat \ {0} /\ Value \subseteq Nat
  /\ IsFiniteSet(Spelling) /\ Parse \in [Spelling -> Nat]

VARIABLES
  answers,        \* of the round in progress, in the order of the batches
  top             \* {} or {the published list, with the answers it was made of (history)}

vars == <<answers, top>>

Init == answers = <<>> /\ top = {}

\* The next batch, of which any addresses are answered.
Fetch ==
  /\ Len(answers) < Batches
  /\ \E named \in SUBSET Spelling : \E values \in [named -> Value] : answers' = Append(answers, values)
  /\ UNCHANGED top

\* A request fails, or an answer is not valid: the round is an error.
Fail == answers' = <<>> /\ UNCHANGED top

Named(as) == UNION {{Parse[s] : s \in DOMAIN as[i]} : i \in DOMAIN as}

Total(as, ip) ==
  FoldSeq(LAMBDA values, sum :
            FoldSet(LAMBDA s, n : n + values[s], sum, {s \in DOMAIN values : Parse[s] = ip}), 0, as)

\* The larger first; of equals, the one whose text comes first.
Before(a, b) == a.value > b.value \/ (a.value = b.value /\ a.ip < b.ip)

\* sort.Slice and the cut: Before tells any two apart, so n - 1 of them are before the one at n.
Largest(values) ==
  [n \in 1 .. Min({TopIPLimit, Cardinality(values)}) |->
     CHOOSE v \in values : Cardinality({w \in values : Before(w, v)}) = n - 1]

Sums(as) == {[ip |-> ip, value |-> Total(as, ip)] : ip \in Named(as)}

\* Bug: the largest of every batch are kept before they are added up.
MutMergeTopIPValues(as) ==
  LET kept == UNION {{Largest(Sums(<<as[i]>>))[n].ip : n \in DOMAIN Largest(Sums(<<as[i]>>))} : i \in DOMAIN as}
  IN Largest({v \in Sums(as) : v.ip \in kept})

MergeTopIPValues(as) == Largest(Sums(as))

Publish ==
  /\ Len(answers) = Batches
  /\ top' = {[list |-> MergeTopIPValues(answers), from |-> answers]}
  /\ answers' = <<>>

Next == Fetch \/ Fail \/ Publish
-----------------------------------------------------------------------------
\* The list has an address once, whatever it was called, with all that the batches said of
\* it; it is full unless there are no more addresses; and none that was left out has more
\* than one that is listed: an address that is nowhere near the top of any one batch may be
\* the first of all.
TopIsOfTheSums ==
  \A t \in top :
    LET entries == {e \in (1 .. Batches) \X Spelling : e[2] \in DOMAIN t.from[e[1]]}
        Of(ip) == MapThenSumSet(LAMBDA e : t.from[e[1]][e[2]], {e \in entries : Parse[e[2]] = ip})
        listed == {t.list[n].ip : n \in DOMAIN t.list}
        named == {Parse[e[2]] : e \in entries}
    IN /\ listed \subseteq named /\ Cardinality(listed) = Len(t.list)
       /\ Len(t.list) = Min({TopIPLimit, Cardinality(named)})
       /\ \A n \in DOMAIN t.list : t.list[n].value = Of(t.list[n].ip)
       /\ \A m, n \in DOMAIN t.list : m < n => t.list[m].value >= t.list[n].value
       /\ \A ip \in named \ listed : \A n \in DOMAIN t.list : Of(ip) <= t.list[n].value
=============================================================================
