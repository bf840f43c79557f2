----------------------------- MODULE SafeBucket -----------------------------
(***************************************************************************)
(* The choice of the bucket to export, of the CDN and the Kodo clients.    *)
(* Time counts buckets of five minutes: a point p is the start of the      *)
(* bucket that ends at p + 1.  {} stands for an error.  Values, and the    *)
(* checks that reject malformed ones, are left out: a rejected answer is   *)
(* the caller's "error".                                                   *)
(***************************************************************************)
EXTENDS Integers, Sequences, FiniteSetsExt

\* Bug: the first safe point of the answer.
MutFirstSafe(points, safeBefore) ==
  LET safe == {i \in DOMAIN points : points[i] + 1 <= safeBefore}
  IN {i \in safe : \A k \in safe : i <= k}

\* The position of the newest bucket that ended by safeBefore.
NewestSafe(points, safeBefore) ==
  LET safe == {i \in DOMAIN points : points[i] + 1 <= safeBefore}
  IN {i \in safe : \A k \in safe : k <= i}

Continuous(points) == \A i \in 2 .. Len(points) : points[i] = points[i - 1] + 1
Increasing(points) == \A i \in 2 .. Len(points) : points[i] > points[i - 1]

\* cdn: latestSafeIndex accepts a continuous axis only.
CDNBucketEnd(points, safeBefore) ==
  IF Continuous(points) THEN {points[i] + 1 : i \in NewestSafe(points, safeBefore)} ELSE {}

\* kodo: SelectLatestSafe5Min accepts gaps.
KodoBucketEnd(points, safeBefore) ==
  IF Increasing(points) THEN {points[i] + 1 : i \in NewestSafe(points, safeBefore)} ELSE {}

\* Bug: an older pair of buckets is taken when the newest safe bucket has a gap before it.
MutKodoRateBucketEnd(points, safeBefore) ==
  LET pairs == {i \in 2 .. Len(points) : points[i] + 1 <= safeBefore /\ points[i] = points[i - 1] + 1}
  IN IF Increasing(points) THEN {points[i] + 1 : i \in {k \in pairs : \A n \in pairs : n <= k}} ELSE {}

\* kodo: SelectLatestSafeRate5Min wants the bucket before it too, and never falls back.
KodoRateBucketEnd(points, safeBefore) ==
  {points[i] + 1 : i \in {k \in NewestSafe(points, safeBefore) :
                            Increasing(points) /\ k > 1 /\ points[k] = points[k - 1] + 1}}

\* matchingCDNBucketEnd and publishKodoSnapshot: samples of one snapshot share their bucket.
MatchingBucketEnd(ends) ==
  IF \A i \in DOMAIN ends : ends[i] = ends[1] THEN {ends[i] : i \in DOMAIN ends} ELSE {}
=============================================================================
