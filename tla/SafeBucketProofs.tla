-------------------------- MODULE SafeBucketProofs --------------------------
(***************************************************************************)
(* What the choice of a bucket returns, for every sequence of points.  The *)
(* code compares neighbours only: that they are in order however far apart *)
(* is an induction, here by the pair that is closest to each other.        *)
(***************************************************************************)
EXTENDS SafeBucket, FiniteSetTheorems, WellFoundedInduction, TLAPS

\* A set of naturals has a least member.
LEMMA LeastNatural ==
  ASSUME NEW T \in SUBSET Nat, T # {}
  PROVE  \E n \in T : \A m \in T : n <= m
<1> DEFINE S == {0 .. n : n \in T}
<1>1. S \subseteq FiniteSubsetsOf(Nat) /\ S # {}
  <2>1. ASSUME NEW n \in T PROVE 0 .. n \in FiniteSubsetsOf(Nat)
    BY FS_Interval DEF FiniteSubsetsOf
  <2> QED BY <2>1
<1>2. \E x \in S : \A y \in S : ~ (<<y, x>> \in StrictSubsetOrdering(Nat))
  BY <1>1, FS_StrictSubsetOrderingWellFounded, WFMin
<1>3. PICK n \in T : \A m \in T : ~(<<0 .. m, 0 .. n>> \in StrictSubsetOrdering(Nat))
  BY <1>2
<1>4. ASSUME NEW m \in T PROVE n <= m
  <2> DEFINE pair == <<0 .. m, 0 .. n>>
  <2>1. pair \in (SUBSET Nat) \X (SUBSET Nat) /\ pair[1] = 0 .. m /\ pair[2] = 0 .. n
    OBVIOUS
  <2>2. pair \notin StrictSubsetOrdering(Nat)
    BY <1>3
  <2> HIDE DEF pair
  <2>3. ~(0 .. m \subseteq 0 .. n /\ 0 .. m # 0 .. n)
    BY <2>1, <2>2 DEF StrictSubsetOrdering
  <2>4. ASSUME m < n PROVE FALSE
    <3>1. 0 .. m \subseteq 0 .. n /\ n \in 0 .. n /\ n \notin 0 .. m
      BY <2>4
    <3> QED BY <2>3, <3>1
  <2> QED BY <2>4
<1> QED BY <1>4

\* Neighbours in order are all in order.
LEMMA IncreasingOrder ==
  ASSUME NEW s \in Seq(Int), Increasing(s), NEW i \in DOMAIN s, NEW k \in DOMAIN s, i < k
  PROVE  s[i] < s[k]
<1> DEFINE T == {n \in Nat : \E a, b \in DOMAIN s : b = a + n + 1 /\ ~(s[a] < s[b])}
<1>1. DOMAIN s = 1 .. Len(s) /\ Len(s) \in Nat /\ \A a \in 1 .. Len(s) : s[a] \in Int
  OBVIOUS
<1>2. ASSUME T # {} PROVE FALSE
  <2>1. PICK n \in T : \A m \in T : n <= m
    BY <1>2, LeastNatural
  <2>2. PICK a \in DOMAIN s, b \in DOMAIN s : b = a + n + 1 /\ ~(s[a] < s[b])
    BY <2>1
  <2>3. a \in Int /\ b \in Int /\ n \in Nat /\ 1 <= a /\ b = a + n + 1 /\ b <= Len(s)
    BY <1>1, <2>1, <2>2
  <2>4. b \in 2 .. Len(s) /\ b - 1 \in 1 .. Len(s)
    <3>1. \A x, l \in Int : x >= 2 /\ x <= l => x \in 2 .. l /\ x - 1 \in 1 .. l
      OBVIOUS
    <3>2. Len(s) \in Int /\ b >= 2 /\ b <= Len(s) /\ b \in Int
      BY <1>1, <2>3
    <3> HIDE DEF T
    <3> QED BY <3>1, <3>2
  <2>5. s[b - 1] < s[b] /\ s[a] \in Int /\ s[b] \in Int /\ s[b - 1] \in Int
    BY <1>1, <2>2, <2>4 DEF Increasing
  <2>6. n # 0
    <3>1. n = 0 => b - 1 = a
      BY <2>3
    <3> QED BY <2>2, <2>5, <3>1
  <2>7. n - 1 \in Nat /\ n - 1 \notin T
    <3>1. n - 1 \in Nat /\ ~(n <= n - 1)
      BY <2>3, <2>6
    <3> QED BY <2>1, <3>1
  <2>8. s[a] < s[b - 1]
    <3>1. b - 1 = a + (n - 1) + 1 /\ b - 1 \in DOMAIN s
      BY <1>1, <2>3, <2>4
    <3> QED BY <2>2, <2>7, <3>1
  <2>9. s[a] < s[b]
    <3>1. \A x, y, z \in Int : x < y /\ y < z => x < z
      OBVIOUS
    <3> HIDE DEF T
    <3> QED BY <2>5, <2>8, <3>1
  <2> QED BY <2>2, <2>9
<1>3. k - i - 1 \in Nat /\ k = i + (k - i - 1) + 1
  BY <1>1
<1>4. k - i - 1 \notin T
  BY <1>2
<1> QED BY <1>3, <1>4

LEMMA ContinuousIncreasing == ASSUME NEW s \in Seq(Int), Continuous(s) PROVE Increasing(s)
<1>1. \A i \in 2 .. Len(s) : s[i - 1] \in Int /\ s[i] = s[i - 1] + 1
  BY DEF Continuous
<1> QED BY <1>1 DEF Increasing

\* The maximum is the one its definition asks for.
LEMMA MaxIs ==
  ASSUME NEW S \in SUBSET Int, NEW x \in S, \A y \in S : y <= x
  PROVE  Max(S) = x
<1>1. \A z \in S : (\A y \in S : z >= y) => z = x
  OBVIOUS
<1> QED BY <1>1 DEF Max

\* The ends of the safe buckets of an answer.
SafeEnds(points, safe) == {points[i] + 1 : i \in DOMAIN points} \cap {t \in Int : t <= safe}

\* What is selected is the newest safe bucket.
LEMMA NewestIsMax ==
  ASSUME NEW s \in Seq(Int), Increasing(s), NEW safe \in Int, NEW i \in NewestSafe(s, safe)
  PROVE  /\ s[i] + 1 \in Int /\ s[i] + 1 <= safe
         /\ s[i] + 1 = Max(SafeEnds(s, safe))
<1>1. i \in DOMAIN s /\ s[i] + 1 <= safe /\ \A k \in DOMAIN s : s[k] + 1 <= safe => k <= i
  BY DEF NewestSafe
<1>2. \A k \in DOMAIN s : s[k] \in Int /\ k \in Int
  OBVIOUS
<1>3. ASSUME NEW t \in SafeEnds(s, safe) PROVE t <= s[i] + 1
  <2>1. PICK k \in DOMAIN s : t = s[k] + 1 /\ t <= safe
    BY DEF SafeEnds
  <2>2. k < i \/ k = i
    BY <1>1, <1>2, <2>1
  <2>3. k < i => s[k] < s[i]
    BY <1>1, IncreasingOrder
  <2> QED BY <1>1, <1>2, <2>1, <2>2, <2>3
<1>4. SafeEnds(s, safe) \in SUBSET Int /\ s[i] + 1 \in SafeEnds(s, safe)
  BY <1>1, <1>2 DEF SafeEnds
<1> QED BY <1>1, <1>2, <1>3, <1>4, MaxIs

Selected(e, s, safe) == e \in Int /\ e <= safe /\ e = Max(SafeEnds(s, safe))

LEMMA CDNSelects ==
  ASSUME NEW s \in Seq(Int), NEW safe \in Int, NEW e \in CDNBucketEnd(s, safe)
  PROVE  Selected(e, s, safe)
BY ContinuousIncreasing, NewestIsMax DEF CDNBucketEnd, Selected

LEMMA KodoSelects ==
  ASSUME NEW s \in Seq(Int), NEW safe \in Int,
         NEW e \in KodoBucketEnd(s, safe) \cup KodoRateBucketEnd(s, safe)
  PROVE  Selected(e, s, safe)
<1>1. PICK i \in NewestSafe(s, safe) : e = s[i] + 1 /\ Increasing(s)
  BY DEF KodoBucketEnd, KodoRateBucketEnd
<1> QED BY <1>1, NewestIsMax DEF Selected

\* Ends that match are all the same.
LEMMA MatchingAreEqual ==
  ASSUME NEW ends \in Seq(Int), NEW at \in MatchingBucketEnd(ends)
  PROVE  \A i \in DOMAIN ends : ends[i] = at
BY DEF MatchingBucketEnd
=============================================================================
