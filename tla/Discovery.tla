----------------------------- MODULE Discovery -----------------------------
(***************************************************************************)
(* ListDomains and ListBuckets: a listing gathered page by page while the  *)
(* account changes, from a server that may answer anything.  A marker is   *)
(* the name after which the next page begins (0: from the start), names    *)
(* being numbered in the server's order.  Names and fields that are not    *)
(* valid make the page an error, as do answers that cannot be read.        *)
(***************************************************************************)
EXTENDS Naturals, FiniteSets, FiniteSetsExt

CONSTANTS
  Last,           \* resources are 1 .. Last
  Dcdn,           \* those whose product is dcdn
  PageSize,       \* 1000 domains, 100 buckets
  MaxResources,   \* 10000 domains, 200 buckets
  MaxPages        \* of ListDomains: 100

\* Asserted where the module is instantiated.
DiscoveryAssumption ==
  {Last, PageSize, MaxResources, MaxPages} \subseteq Nat \ {0} /\ Dcdn \subseteq 1 .. Last

VARIABLES
  api,            \* "domains" or "buckets"; of the whole behaviour
  live,           \* the account's resources now
  busy, marker, seen, found, pages,   \* the call: seen are the markers so far
  always, ever,   \* history: what was there all through the call, or at some time in it
  honest,         \* whether the server answers truly; of the whole behaviour
  listed          \* {} or {the last result, with the history of its call}

call == <<busy, marker, seen, found, pages>>
vars == <<api, live, call, always, ever, honest, listed>>

Init ==
  /\ api \in {"domains", "buckets"} /\ honest \in BOOLEAN
  /\ live \in SUBSET (1 .. Last) /\ (~honest => live = {})
  /\ busy = FALSE /\ marker = 0 /\ seen = {} /\ found = {} /\ pages = 0
  /\ always = {} /\ ever = {} /\ listed = {}

\* Resources come and go at any time.
Change(r) ==
  /\ honest
  /\ live' = IF r \in live THEN live \ {r} ELSE live \cup {r}
  /\ always' = always \cap live' /\ ever' = ever \cup live'
  /\ UNCHANGED <<api, call, honest, listed>>

Begin ==
  /\ ~busy /\ busy' = TRUE
  /\ marker' = 0 /\ seen' = {} /\ found' = {} /\ pages' = 0
  /\ always' = live /\ ever' = live
  /\ UNCHANGED <<api, live, honest, listed>>

\* An error of any page: the call returns nothing.
Fail == busy /\ busy' = FALSE /\ UNCHANGED <<api, live, marker, seen, found, pages, always, ever, honest, listed>>

Fits(page) ==
  /\ Cardinality(page) <= PageSize /\ page \cap found = {}
  /\ Cardinality(found) + Cardinality(page) <= MaxResources

\* Bug: a page without resources may be continued.
MutGoesOn(page, next) == next # 0 /\ next # marker /\ next \notin seen

\* A further page is asked for.
GoesOn(page, next) ==
  /\ page # {} /\ next # 0 /\ next # marker /\ next \notin seen
  /\ Cardinality(found \cup page) < MaxResources
  /\ api = "domains" => pages + 1 < MaxPages

\* A page is answered; more: is_truncated, or a marker that is not empty.
Answer(page, more, next) ==
  /\ busy /\ Fits(page) /\ (more => GoesOn(page, next))
  /\ found' = found \cup page /\ pages' = pages + 1
  /\ IF more
     THEN marker' = next /\ seen' = seen \cup {next} /\ UNCHANGED <<busy, listed>>
     ELSE /\ busy' = FALSE /\ UNCHANGED <<marker, seen>>
          /\ listed' = {[names |-> found' \ (IF api = "domains" THEN Dcdn ELSE {}),
                         always |-> always, ever |-> ever]}
  /\ UNCHANGED <<api, live, always, ever, honest>>

After == {r \in live : r > marker}

\* The first names after the marker.
TruePage == {r \in After : Cardinality({s \in After : s <= r}) <= PageSize}

Page ==
  /\ honest
  /\ Answer(TruePage, TruePage # After, IF TruePage # After THEN Max(TruePage) ELSE 0)

AnyPage ==
  /\ ~honest
  /\ \E page \in SUBSET (1 .. Last), more \in BOOLEAN, next \in 0 .. Last :
       (api = "domains" => (more <=> next # 0)) /\ Answer(page, more, next)

Next == Begin \/ Fail \/ Page \/ AnyPage \/ \E r \in 1 .. Last : Change(r)
-----------------------------------------------------------------------------
\* Whatever the server answers, a call asks for no more pages than there may be resources
\* (ListBuckets has no limit of pages: that truncated pages are not empty is what ends it);
\* and of a server that answers truly the result names everything that was there all
\* through the call and nothing that never was, though the account changed between pages.
ListingsAreWhole ==
  /\ pages <= MaxResources
  /\ honest => \A l \in listed :
       /\ l.always \ (IF api = "domains" THEN Dcdn ELSE {}) \subseteq l.names
       /\ l.names \subseteq l.ever \ (IF api = "domains" THEN Dcdn ELSE {})
=============================================================================
