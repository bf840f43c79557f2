--------------------------- MODULE ResourcePacks ---------------------------
(***************************************************************************)
(* The resource-pack job of app/billing.go: pages are asked for by number  *)
(* while the account's list changes, and published as a whole or not at    *)
(* all.  A pack stands for its labels; values that are not valid are       *)
(* failures.                                                               *)
(***************************************************************************)
EXTENDS Naturals, Sequences, FiniteSets, SequencesExt

CONSTANTS
  Pack,           \* label sets
  Allowed,        \* resource_pack_allowlist
  PageSize,       \* resourcePackPageSize, 200
  MaxPages        \* resourcePackMaxPages, 50

\* Asserted where the module is instantiated.
PacksAssumption == {PageSize, MaxPages} \subseteq Nat \ {0} /\ Allowed \subseteq Pack

VARIABLES
  account,        \* the upstream's list now
  page, all,      \* the next page of the call, 0 between calls; what it has
  packs           \* the store: {} or {what is published}

vars == <<account, page, all, packs>>

Init == account = <<>> /\ page = 0 /\ all = <<>> /\ packs = {}

\* A pack is bought or ends, anywhere in the list.
Change ==
  /\ \/ \E p \in Pack \ ToSet(account), i \in 1 .. Len(account) + 1 : account' = InsertAt(account, i, p)
     \/ \E i \in DOMAIN account : account' = RemoveAt(account, i)
  /\ UNCHANGED <<page, all, packs>>

Begin ==
  /\ page = 0 /\ page' = 1 /\ all' = <<>>
  /\ UNCHANGED <<account, packs>>

\* A page fails, or the last admitted one is full.
Fail == page # 0 /\ page' = 0 /\ UNCHANGED <<account, all, packs>>

\* Bug: labels that were seen are not looked at.
MutValid(list) == ToSet(list) \subseteq Allowed

\* validateResourcePacks
Valid(list) == ToSet(list) \subseteq Allowed /\ IsInjective(list)

Answered ==
  LET from == (page - 1) * PageSize
  IN [i \in 1 .. Cardinality(DOMAIN account \cap (from + 1 .. from + PageSize)) |-> account[from + i]]

\* A page that is not full is the last one.
Page ==
  /\ page # 0 /\ all' = all \o Answered
  /\ IF Len(Answered) = PageSize
     THEN page' = (IF page < MaxPages THEN page + 1 ELSE 0) /\ UNCHANGED packs
     ELSE page' = 0 /\ packs' = IF Valid(all') THEN {all'} ELSE packs
  /\ UNCHANGED account

Next == Change \/ Begin \/ Fail \/ Page
-----------------------------------------------------------------------------
\* However the list moves between two pages, no pack is exposed twice (which would fail the
\* scrape), none that is not allowed, and more than the pages have room for never.
SeriesAreUnique ==
  \A list \in packs :
    /\ \A i, j \in DOMAIN list : list[i] = list[j] => i = j
    /\ ToSet(list) \subseteq Allowed /\ Len(list) < MaxPages * PageSize
=============================================================================
