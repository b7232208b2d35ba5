------------------------ MODULE LeapfrogJoin_proofs ------------------------
(***************************************************************************)
(* Proofs about the searches of KeySearch, for every size of a group,      *)
(* every limit and every sorted span, and about the intersection of        *)
(* LeapfrogJoin that rests on them, for all sorted spans, on both sides,   *)
(* with every search that narrows a bracket.  The block seek of the host   *)
(* is left to the model checker: its map of separators is built by         *)
(* recursion.                                                              *)
(***************************************************************************)
EXTENDS LeapfrogJoin, SequenceTheorems, FiniteSetTheorems, WellFoundedInduction, TLAPS

-----------------------------------------------------------------------------
(***************************************************************************)
(* Counting and least elements                                             *)
(***************************************************************************)

(* A set of numbers below n with no gap is counted by its first absentee.  *)
LEMMA CountOfPrefix ==
    ASSUME NEW n \in Nat, NEW S \in SUBSET (0 .. n - 1),
           \A k \in S : \A j \in 0 .. k : j \in S
    PROVE  Cardinality(S) \in 0 .. n /\ S = 0 .. Cardinality(S) - 1
<1>1. IsFiniteSet(0 .. n - 1) /\ Cardinality(0 .. n - 1) = n
  BY FS_Interval
<1>2. IsFiniteSet(S) /\ Cardinality(S) <= n /\ Cardinality(S) \in Nat
  BY <1>1, FS_Subset, FS_CardinalityType
<1> DEFINE c == Cardinality(S)
<1>3. ASSUME NEW k \in S
      PROVE  k \in 0 .. c - 1
  <2>1. k \in Nat /\ (0 .. k) \in SUBSET S
    BY <1>3
  <2>2. Cardinality(0 .. k) = k + 1
    BY <2>1, FS_Interval
  <2>3. Cardinality(0 .. k) <= c
    BY <1>2, <2>1, FS_Subset
  <2> QED
    BY <1>2, <2>1, <2>2, <2>3
<1>4. c = Cardinality(S)
  OBVIOUS
<1> HIDE DEF c
<1>5. S \in SUBSET (0 .. c - 1)
  BY <1>3
<1>6. IsFiniteSet(0 .. c - 1) /\ Cardinality(0 .. c - 1) = c
  <2>1. c \in Nat /\ c - 1 \in Int
    BY <1>2, <1>4
  <2>2. IsFiniteSet(0 .. c - 1) /\ Cardinality(0 .. c - 1) = IF 0 > c - 1 THEN 0 ELSE c - 1 - 0 + 1
    BY <2>1, FS_Interval
  <2> QED
    BY <2>1, <2>2
<1>7. S = 0 .. c - 1
  BY <1>4, <1>5, <1>6, FS_Subset
<1> QED
  BY <1>2, <1>4, <1>7

(* A set of numbers below n that is not empty has a least element.         *)
LEMMA LeastExists ==
    ASSUME NEW n \in Nat, NEW S \in SUBSET (0 .. n - 1), S # {}
    PROVE  \E m \in S : \A k \in S : m <= k
<1> DEFINE R == {ss \in Nat \X Nat : ss[1] < ss[2]}
<1>1. IsWellFoundedOn(R, Nat)
  BY NatLessThanWellFounded DEF OpToRel
<1>2. S \subseteq Nat
  OBVIOUS
<1>3. PICK m \in S : \A k \in S : <<k, m>> \notin R
  <2> HIDE DEF R
  <2> QED
    BY <1>1, <1>2, WFMin
<1>4. ASSUME NEW k \in S
      PROVE  m <= k
  <2>1. <<k, m>> \notin R /\ k \in Nat /\ m \in Nat
    BY <1>2, <1>3
  <2>2. ~(k < m)
    BY <2>1
  <2> QED
    BY <2>1, <2>2
<1> QED
  BY <1>4

(* The least element is the minimum.                                       *)
LEMMA LeastIsMin ==
    ASSUME NEW S \in SUBSET Int, NEW m \in S, \A k \in S : m <= k
    PROVE  Min(S) = m
<1>1. Min(S) \in S /\ \A k \in S : Min(S) <= k
  BY DEF Min
<1>2. Min(S) \in Int /\ m \in Int /\ Min(S) <= m /\ m <= Min(S)
  BY <1>1
<1> QED
  BY <1>2

-----------------------------------------------------------------------------
(***************************************************************************)
(* The searches                                                            *)
(***************************************************************************)
(* A position with everything before it below the key, and itself not, is  *)
(* the bound.                                                              *)
LEMMA BoundIs ==
    ASSUME NEW b \in {"lower", "upper"}, NEW k \in Nat, NEW n \in Nat,
           NEW d, d \in [1 .. n -> Nat], Len(d) = n,
           NEW r \in 0 .. n,
           \A i \in 0 .. r - 1 : IF b = "lower" THEN d[i + 1] < k ELSE d[i + 1] <= k,
           r < n => IF b = "lower" THEN d[r + 1] >= k ELSE d[r + 1] > k
    PROVE  FirstNotBelow(d, b, k) = r
<1> DEFINE S == {i \in 0 .. n :
            i = n \/ (IF b = "lower" THEN d[i + 1] >= k ELSE d[i + 1] > k)}
<1>1. r \in S
  OBVIOUS
<1>2. ASSUME NEW j \in S, j < r
      PROVE  FALSE
  <2>1. j \in 0 .. r - 1 /\ d[j + 1] \in Nat /\ j # n
    BY <1>2
  <2>2. IF b = "lower" THEN d[j + 1] >= k ELSE d[j + 1] > k
    BY <2>1
  <2>3. IF b = "lower" THEN d[j + 1] < k ELSE d[j + 1] <= k
    BY <2>1
  <2> QED
    BY <2>1, <2>2, <2>3
<1>3. S \in SUBSET Int
  OBVIOUS
<1>4. \A j \in S : r <= j
  BY <1>2, <1>3
<1>5. FirstNotBelow(d, b, k) = Min(S)
  BY DEF FirstNotBelow
<1> HIDE DEF S
<1> QED
  BY <1>1, <1>3, <1>4, <1>5, LeastIsMin

-----------------------------------------------------------------------------
(***************************************************************************)
(* Sorted spans.  A span is described by its length n and its elements d,  *)
(* a bracket by its borders l and h.                                       *)
(***************************************************************************)
IsBelow(b, v, k) == IF b = "lower" THEN v < k ELSE v <= k

Brackets(b, k, n, d, l, h) ==
    /\ \A i \in 0 .. l - 1 : i < h => IsBelow(b, d[i + 1], k)
    /\ \A i \in h .. n - 1 : ~IsBelow(b, d[i + 1], k)

(* One comparison decides for everything before or everything after.       *)
LEMMA SortedSplit ==
    ASSUME NEW b \in {"lower", "upper"}, NEW k \in Nat, NEW n \in Nat,
           NEW d \in [1 .. n -> Nat], SortedSpan(d), NEW p \in 0 .. n - 1
    PROVE  /\ IsBelow(b, d[p + 1], k) => \A i \in 0 .. p : IsBelow(b, d[i + 1], k)
           /\ ~IsBelow(b, d[p + 1], k) => \A i \in p .. n - 1 : ~IsBelow(b, d[i + 1], k)
<1>1. \A i, j \in 1 .. n : i < j => d[i] <= d[j]
  BY DEF SortedSpan
<1>2. ASSUME NEW i \in 0 .. n - 1, NEW j \in 0 .. n - 1, i <= j
      PROVE  d[i + 1] <= d[j + 1] /\ d[i + 1] \in Nat /\ d[j + 1] \in Nat
  BY <1>1, <1>2
<1>3. ASSUME NEW i \in 0 .. p, IsBelow(b, d[p + 1], k)
      PROVE  IsBelow(b, d[i + 1], k)
  <2>1. d[i + 1] <= d[p + 1] /\ d[i + 1] \in Nat /\ d[p + 1] \in Nat
    BY <1>2
  <2> QED
    BY <1>3, <2>1 DEF IsBelow
<1>4. ASSUME NEW i \in p .. n - 1, ~IsBelow(b, d[p + 1], k)
      PROVE  ~IsBelow(b, d[i + 1], k)
  <2>1. d[p + 1] <= d[i + 1] /\ d[i + 1] \in Nat /\ d[p + 1] \in Nat
    BY <1>2
  <2> QED
    BY <1>4, <2>1 DEF IsBelow
<1> QED
  BY <1>3, <1>4

(* A bracket narrows to what is left of or right of a probe.               *)
LEMMA SplitBelow ==
    ASSUME NEW b \in {"lower", "upper"}, NEW k \in Nat, NEW n \in Nat,
           NEW d \in [1 .. n -> Nat], SortedSpan(d),
           NEW l \in Nat, NEW h \in 0 .. n, Brackets(b, k, n, d, l, h),
           NEW p \in 0 .. n - 1, IsBelow(b, d[p + 1], k)
    PROVE  Brackets(b, k, n, d, p + 1, h)
<1>1. \A i \in 0 .. p : IsBelow(b, d[i + 1], k)
  BY SortedSplit
<1> QED
  BY <1>1 DEF Brackets

LEMMA SplitNotBelow ==
    ASSUME NEW b \in {"lower", "upper"}, NEW k \in Nat, NEW n \in Nat,
           NEW d \in [1 .. n -> Nat], SortedSpan(d),
           NEW l \in Nat, NEW h \in 0 .. n, Brackets(b, k, n, d, l, h),
           NEW p \in 0 .. h - 1, ~IsBelow(b, d[p + 1], k)
    PROVE  Brackets(b, k, n, d, l, p) /\ Brackets(b, k, n, d, l, p + 1)
<1>1. p \in 0 .. n - 1
  OBVIOUS
<1>2. \A i \in p .. n - 1 : ~IsBelow(b, d[i + 1], k)
  BY <1>1, SortedSplit
<1> QED
  BY <1>2 DEF Brackets

(* A bracket of one position is the answer.                                *)
LEMMA ClosedBracket ==
    ASSUME NEW b \in {"lower", "upper"}, NEW k \in Nat, NEW n \in Nat,
           NEW d \in [1 .. n -> Nat], Len(d) = n,
           NEW r \in 0 .. n, Brackets(b, k, n, d, r, r)
    PROVE  FirstNotBelow(d, b, k) = r
<1>1. \A i \in 0 .. r - 1 : IF b = "lower" THEN d[i + 1] < k ELSE d[i + 1] <= k
  BY DEF Brackets, IsBelow
<1>2. r < n => IF b = "lower" THEN d[r + 1] >= k ELSE d[r + 1] > k
  <2> SUFFICES ASSUME r < n
               PROVE  IF b = "lower" THEN d[r + 1] >= k ELSE d[r + 1] > k
    OBVIOUS
  <2>1. ~IsBelow(b, d[r + 1], k) /\ d[r + 1] \in Nat
    BY DEF Brackets
  <2> QED
    BY <2>1 DEF IsBelow
<1> QED
  BY <1>1, <1>2, BoundIs

-----------------------------------------------------------------------------
(***************************************************************************)
(* The positions the lanes of a group probe                                *)
(***************************************************************************)
LEMMA Quotient ==
    ASSUME NEW x \in Nat, NEW g \in Nat \ {0}
    PROVE  /\ x \div g \in Nat
           /\ g * (x \div g) <= x
           /\ x < g * (x \div g) + g
OBVIOUS

LEMMA QuotientMonotone ==
    ASSUME NEW g \in Nat \ {0}, NEW x \in Nat, NEW y \in Nat, x <= y
    PROVE  x \div g <= y \div g
<1> DEFINE p == x \div g
           q == y \div g
<1>1. p \in Nat /\ q \in Nat /\ g * p <= x /\ y < g * q + g
  BY Quotient
<1> HIDE DEF p, q
<1>2. ASSUME p > q
      PROVE  FALSE
  <2>1. p >= q + 1
    BY <1>1, <1>2
  <2>2. g * p >= g * (q + 1)
    BY <1>1, <2>1
  <2>3. g * (q + 1) = g * q + g
    BY <1>1
  <2>4. g * p \in Nat /\ g * q \in Nat
    BY <1>1
  <2> QED
    BY <1>1, <2>2, <2>3, <2>4
<1>3. p <= q
  BY <1>1, <1>2
<1> QED
  BY <1>3 DEF p, q

LEMMA QuotientOfMultiple ==
    ASSUME NEW g \in Nat \ {0}, NEW m \in Nat
    PROVE  (g * m) \div g = m
OBVIOUS

Spread(g, m, k) == (k * m) \div g

(* Lane 0 probes the first element, the last lane the last one, and later  *)
(* lanes later positions.                                                  *)
LEMMA ProbesSpread ==
    ASSUME NEW g \in Nat \ {0}, NEW m \in Nat
    PROVE  /\ \A k \in 0 .. g : Spread(g, m, k) \in 0 .. m
           /\ \A j, k \in 0 .. g : j <= k => Spread(g, m, j) <= Spread(g, m, k)
           /\ Spread(g, m, 0) = 0
           /\ Spread(g, m, g) = m
<1>1. Spread(g, m, g) = m
  BY QuotientOfMultiple DEF Spread
<1>2. Spread(g, m, 0) = 0
  <2>1. 0 * m = 0 /\ g * 0 = 0
    OBVIOUS
  <2> QED
    BY <2>1, QuotientOfMultiple DEF Spread
<1>3. ASSUME NEW j \in 0 .. g, NEW k \in 0 .. g, j <= k
      PROVE  Spread(g, m, j) <= Spread(g, m, k)
  <2>1. j * m \in Nat /\ k * m \in Nat
    OBVIOUS
  <2>2. j * m <= k * m
    BY <1>3
  <2> QED
    BY <2>1, <2>2, QuotientMonotone DEF Spread
<1>4. ASSUME NEW k \in 0 .. g
      PROVE  Spread(g, m, k) \in 0 .. m
  <2>1. k * m \in Nat
    OBVIOUS
  <2>2. Spread(g, m, k) \in Nat
    BY <2>1, Quotient DEF Spread
  <2>3. Spread(g, m, k) <= Spread(g, m, g)
    BY <1>3
  <2> QED
    BY <1>1, <2>2, <2>3
<1> QED
  BY <1>1, <1>2, <1>3, <1>4

-----------------------------------------------------------------------------
(***************************************************************************)
(* The searches that narrow a bracket: all but the block seek              *)
(***************************************************************************)
Narrowing == {"seq", "group", "exp", "linear", "scan", "skip"}

SearchTypes ==
    /\ how \in Narrowing /\ bound \in {"lower", "upper"}
    /\ data \in Seq(0 .. Sentinel - 1) /\ SortedSpan(data)
    /\ key \in 0 .. Sentinel - 1
    /\ at \in {"idle", "narrow", "scan", "vote", "done"}
    /\ lo \in Nat /\ hi \in 0 .. Len(data)

InBracket == Brackets(bound, key, Len(data), data, lo, hi)

SearchInv ==
    /\ SearchTypes
    /\ at \in {"narrow", "scan", "vote"} => InBracket
    /\ at \in {"narrow", "vote"} => lo <= hi
    /\ at = "scan" /\ how = "linear" => lo <= hi
    /\ at = "narrow" => how # "skip"
    /\ at = "vote" => hi - lo <= GroupSize
    /\ SearchExact

LEMMA SpanOfData ==
    ASSUME SearchTypes
    PROVE  /\ Len(data) \in Nat
           /\ data \in [1 .. Len(data) -> Nat]
           /\ \A i \in 0 .. Len(data) - 1 : data[i + 1] \in Nat /\ data[i + 1] < Sentinel
           /\ \A v \in Nat : Below(v) <=> IsBelow(bound, v, key)
<1>1. data \in Seq(0 .. Sentinel - 1)
  BY DEF SearchTypes
<1>2. Len(data) \in Nat /\ data \in [1 .. Len(data) -> 0 .. Sentinel - 1]
  BY <1>1, LenProperties
<1>3. Sentinel \in Nat
  BY SentinelAssumption
<1>4. \A v \in Nat : Below(v) <=> IsBelow(bound, v, key)
  BY DEF Below, IsBelow
<1> QED
  BY <1>2, <1>3, <1>4

LEMMA UntilIsNatural == Until \in Nat
BY GroupSizeAssumption, LimitsAssumption DEF Until

(* An answer at which the bracket closes is exact.                         *)
LEMMA AnswerKeeps ==
    ASSUME SearchTypes, NEW r \in 0 .. Len(data),
           Brackets(bound, key, Len(data), data, r, r), Answer(r)
    PROVE  SearchInv'
<1>1. FirstNotBelow(data, bound, key) = r
  <2>1. key \in Nat /\ bound \in {"lower", "upper"} /\ Len(data) \in Nat
    BY SpanOfData, SentinelAssumption DEF SearchTypes
  <2> QED
    BY <2>1, SpanOfData, ClosedBracket
<1>2. UNCHANGED <<how, bound, data, key, lo, hi>> /\ at' = "done" /\ result' = r
  BY DEF Answer
<1>3. SearchTypes'
  BY <1>2 DEF SearchTypes, SortedSpan
<1>4. SearchExact'
  BY <1>1, <1>2 DEF SearchExact, FirstNotBelow
<1> QED
  BY <1>2, <1>3, <1>4 DEF SearchInv

(* A step that leaves a bracket.                                           *)
LEMMA BracketKeeps ==
    ASSUME SearchTypes, UNCHANGED <<how, bound, data, key, result>>,
           at' \in {"narrow", "scan", "vote"},
           lo' \in Nat, hi' \in 0 .. Len(data),
           Brackets(bound, key, Len(data), data, lo', hi'),
           at' \in {"narrow", "vote"} => lo' <= hi',
           at' = "scan" /\ how = "linear" => lo' <= hi',
           at' = "narrow" => how # "skip",
           at' = "vote" => hi' - lo' <= GroupSize
    PROVE  SearchInv'
<1>1. SearchTypes'
  BY DEF SearchTypes, SortedSpan
<1>2. InBracket'
  BY DEF InBracket, Brackets, IsBelow
<1>3. SearchExact'
  BY DEF SearchExact
<1> QED
  BY <1>1, <1>2, <1>3 DEF SearchInv

LEMMA NarrowKeeps ==
    ASSUME SearchInv, Narrow
    PROVE  SearchInv'
<1> DEFINE mid == lo + (hi - lo) \div 2
<1>1. SearchTypes /\ InBracket /\ at = "narrow" /\ how # "skip" /\ lo \in Nat /\ hi \in 0 .. Len(data)
  BY DEF SearchInv, Narrow, SearchTypes
<1>2. Len(data) \in Nat /\ data \in [1 .. Len(data) -> Nat]
  BY <1>1, SpanOfData
<1>3. mid \in lo .. hi - 1 /\ mid \in 0 .. Len(data) - 1
  BY <1>1, <1>2, UntilIsNatural DEF Narrow
<1>4. data[mid + 1] \in Nat /\ (Below(data[mid + 1]) <=> IsBelow(bound, data[mid + 1], key))
  BY <1>1, <1>2, <1>3, SpanOfData
<1>5. key \in Nat /\ bound \in {"lower", "upper"} /\ SortedSpan(data)
  BY <1>1, SentinelAssumption DEF SearchTypes
<1>6. Brackets(bound, key, Len(data), data, lo, hi)
  BY <1>1 DEF InBracket
<1>7. UNCHANGED <<how, bound, data, key, at, result>>
  BY DEF Narrow
<1>8. CASE Below(data[mid + 1])
  <2>1. lo' = mid + 1 /\ hi' = hi
    BY <1>8 DEF Narrow
  <2> HIDE DEF mid
  <2>2. Brackets(bound, key, Len(data), data, mid + 1, hi)
    BY <1>1, <1>2, <1>3, <1>4, <1>5, <1>6, <1>8, SplitBelow
  <2> QED
    BY <1>1, <1>2, <1>3, <1>7, <2>1, <2>2, BracketKeeps
<1>9. CASE ~Below(data[mid + 1])
  <2>1. lo' = lo /\ hi' = mid
    BY <1>9 DEF Narrow
  <2> HIDE DEF mid
  <2>2. mid \in 0 .. hi - 1
    BY <1>1, <1>3
  <2>3. Brackets(bound, key, Len(data), data, lo, mid)
    BY <1>1, <1>2, <1>4, <1>5, <1>6, <1>9, <2>2, SplitNotBelow
  <2> QED
    BY <1>1, <1>2, <1>3, <1>7, <2>1, <2>3, BracketKeeps
<1> QED
  BY <1>8, <1>9

LEMMA NarrowByGroupKeeps ==
    ASSUME SearchInv, NarrowByGroup
    PROVE  SearchInv'
<1> DEFINE g == GroupSize - 1
           m == hi - lo - 1
           S == {k \in Lanes : Below(data[Probe(k) + 1])}
           c == Cardinality(S)
<1>1. SearchTypes /\ InBracket /\ at = "narrow" /\ how = "exp" /\ lo \in Nat /\ hi \in 0 .. Len(data)
  BY DEF SearchInv, NarrowByGroup, SearchTypes
<1>2. Len(data) \in Nat /\ data \in [1 .. Len(data) -> Nat]
  BY <1>1, SpanOfData
<1>3. key \in Nat /\ bound \in {"lower", "upper"} /\ SortedSpan(data)
  BY <1>1, SentinelAssumption DEF SearchTypes
<1>4. Brackets(bound, key, Len(data), data, lo, hi)
  BY <1>1 DEF InBracket
<1>5. UNCHANGED <<how, bound, data, key, at, result>>
  BY DEF NarrowByGroup
<1>6. /\ GroupSize \in Nat /\ g \in Nat \ {0} /\ g = GroupSize - 1
      /\ m \in Nat /\ lo + m = hi - 1
  BY <1>1, <1>2, UntilIsNatural, GroupSizeAssumption DEF NarrowByGroup
<1>7. Lanes = 0 .. g /\ \A k \in Lanes : Probe(k) = lo + Spread(g, m, k)
  BY <1>6 DEF Lanes, Probe, Spread
<1> HIDE DEF g, m
<1>8. /\ \A k \in 0 .. g : Spread(g, m, k) \in 0 .. m
      /\ \A j, k \in 0 .. g : j <= k => Spread(g, m, j) <= Spread(g, m, k)
      /\ Spread(g, m, 0) = 0 /\ Spread(g, m, g) = m
  BY <1>6, ProbesSpread
<1>9. /\ Probe(0) = lo /\ Probe(g) = hi - 1
      /\ \A k \in Lanes : Probe(k) \in lo .. hi - 1
  <2>1. 0 \in Lanes /\ g \in Lanes
    BY <1>6, <1>7
  <2>2. Probe(0) = lo + 0 /\ Probe(g) = lo + m
    BY <1>7, <1>8, <2>1
  <2>3. ASSUME NEW k \in Lanes
        PROVE  Probe(k) \in lo .. hi - 1
    <3>1. Probe(k) = lo + Spread(g, m, k) /\ Spread(g, m, k) \in 0 .. m
      BY <1>7, <1>8
    <3> QED
      BY <1>1, <1>2, <1>6, <3>1
  <2> QED
    BY <1>1, <1>6, <2>2, <2>3
<1>10. \A j, k \in Lanes : j <= k => Probe(j) <= Probe(k)
  <2> SUFFICES ASSUME NEW j \in Lanes, NEW k \in Lanes, j <= k
               PROVE  Probe(j) <= Probe(k)
    OBVIOUS
  <2>1. Probe(j) = lo + Spread(g, m, j) /\ Probe(k) = lo + Spread(g, m, k)
    BY <1>7
  <2>2. Spread(g, m, j) \in 0 .. m /\ Spread(g, m, k) \in 0 .. m /\ Spread(g, m, j) <= Spread(g, m, k)
    BY <1>7, <1>8
  <2> QED
    BY <1>1, <1>6, <2>1, <2>2
<1>11. \A p \in 0 .. Len(data) - 1 : Below(data[p + 1]) <=> IsBelow(bound, data[p + 1], key)
  BY <1>1, SpanOfData
<1>12. \A k \in S : \A j \in 0 .. k : j \in S
  <2> SUFFICES ASSUME NEW k \in S, NEW j \in 0 .. k
               PROVE  j \in S
    OBVIOUS
  <2>1. k \in Lanes /\ j \in Lanes /\ Probe(j) <= Probe(k)
    BY <1>6, <1>7, <1>10
  <2>2. Probe(j) \in 0 .. Probe(k) /\ Probe(k) \in 0 .. Len(data) - 1 /\ Probe(j) \in 0 .. Len(data) - 1
    BY <1>1, <1>2, <1>9, <2>1
  <2>3. IsBelow(bound, data[Probe(k) + 1], key)
    BY <1>11, <2>2
  <2>4. IsBelow(bound, data[Probe(j) + 1], key)
    BY <1>2, <1>3, <2>2, <2>3, SortedSplit
  <2> QED
    BY <1>11, <2>1, <2>2, <2>4
<1>13. c \in 0 .. GroupSize /\ S = 0 .. c - 1
  <2>1. S \in SUBSET (0 .. GroupSize - 1)
    BY DEF Lanes
  <2> HIDE DEF S
  <2> QED
    BY <1>6, <1>12, <2>1, CountOfPrefix
<1>14. /\ c = 0 => hi' = Probe(1) + 1 /\ lo' = lo
       /\ c = GroupSize /\ c # 0 => lo' = Probe(GroupSize - 1) + 1 /\ hi' = hi
       /\ c # 0 /\ c # GroupSize => lo' = Probe(c - 1) + 1 /\ hi' = Probe(c) + 1
  BY DEF NarrowByGroup
<1>15. \A k \in Lanes : IsBelow(bound, data[Probe(k) + 1], key) <=> k \in 0 .. c - 1
  <2> SUFFICES ASSUME NEW k \in Lanes
               PROVE  IsBelow(bound, data[Probe(k) + 1], key) <=> k \in 0 .. c - 1
    OBVIOUS
  <2>1. Probe(k) \in 0 .. Len(data) - 1
    BY <1>1, <1>2, <1>9
  <2>2. k \in S <=> IsBelow(bound, data[Probe(k) + 1], key)
    BY <1>11, <2>1
  <2> QED
    BY <1>13, <2>2
<1> HIDE DEF S, c
<1>16. CASE c = 0
  <2>1. 0 \in Lanes /\ 1 \in Lanes /\ ~IsBelow(bound, data[lo + 1], key)
    BY <1>6, <1>7, <1>9, <1>15, <1>16
  <2>2. Probe(1) \in lo .. hi - 1 /\ Probe(1) \in 0 .. hi - 1 /\ Probe(1) \in 0 .. Len(data) - 1 /\ lo \in 0 .. Len(data) - 1
    BY <1>1, <1>2, <1>6, <1>9, <2>1
  <2>3. ~IsBelow(bound, data[Probe(1) + 1], key)
    BY <1>15, <1>16, <2>1
  <2>4. Brackets(bound, key, Len(data), data, lo, Probe(1) + 1)
    BY <1>1, <1>2, <1>3, <1>4, <2>2, <2>3, SplitNotBelow
  <2>5. lo' = lo /\ hi' = Probe(1) + 1
    BY <1>14, <1>16
  <2> QED
    BY <1>1, <1>2, <1>5, <2>2, <2>4, <2>5, BracketKeeps
<1>17. CASE c = GroupSize /\ c # 0
  <2>1. g \in Lanes /\ g \in 0 .. c - 1 /\ GroupSize - 1 = g
    BY <1>6, <1>7, <1>17 DEF g
  <2>2. IsBelow(bound, data[Probe(g) + 1], key)
    BY <1>15, <2>1
  <2>3. Probe(g) \in 0 .. Len(data) - 1 /\ Probe(g) + 1 = hi
    BY <1>1, <1>2, <1>9, <2>1
  <2>4. Brackets(bound, key, Len(data), data, hi, hi)
    BY <1>1, <1>2, <1>3, <1>4, <2>2, <2>3, SplitBelow
  <2>5. lo' = hi /\ hi' = hi
    BY <1>14, <1>17, <2>1, <2>3
  <2> QED
    BY <1>1, <1>2, <1>5, <2>4, <2>5, BracketKeeps
<1>18. CASE c # 0 /\ c # GroupSize
  <2>1. c \in Lanes /\ c - 1 \in Lanes /\ c - 1 \in 0 .. c - 1 /\ c \notin 0 .. c - 1 /\ c - 1 <= c
    BY <1>6, <1>7, <1>13, <1>18
  <2>2. /\ Probe(c) \in lo .. hi - 1 /\ Probe(c - 1) \in lo .. hi - 1
        /\ Probe(c - 1) <= Probe(c)
        /\ Probe(c - 1) \in 0 .. Len(data) - 1 /\ Probe(c - 1) + 1 \in Nat
        /\ Probe(c) \in 0 .. hi - 1
    BY <1>1, <1>2, <1>9, <1>10, <2>1
  <2>3. IsBelow(bound, data[Probe(c - 1) + 1], key) /\ ~IsBelow(bound, data[Probe(c) + 1], key)
    BY <1>15, <2>1
  <2>4. Brackets(bound, key, Len(data), data, Probe(c - 1) + 1, hi)
    BY <1>1, <1>2, <1>3, <1>4, <2>2, <2>3, SplitBelow
  <2>5. Brackets(bound, key, Len(data), data, Probe(c - 1) + 1, Probe(c) + 1)
    BY <1>1, <1>2, <1>3, <2>2, <2>3, <2>4, SplitNotBelow
  <2>6. lo' = Probe(c - 1) + 1 /\ hi' = Probe(c) + 1
    BY <1>14, <1>18
  <2> QED
    BY <1>1, <1>2, <1>5, <2>2, <2>5, <2>6, BracketKeeps
<1> QED
  BY <1>16, <1>17, <1>18

LEMMA EndNarrowKeeps ==
    ASSUME SearchInv, EndNarrow
    PROVE  SearchInv'
<1>1. SearchTypes /\ InBracket /\ at = "narrow" /\ how # "skip" /\ lo <= hi /\ lo \in Nat /\ hi \in 0 .. Len(data)
  BY DEF SearchInv, EndNarrow, SearchTypes
<1>2. Len(data) \in Nat
  BY <1>1, SpanOfData
<1>3. Brackets(bound, key, Len(data), data, lo, hi)
  BY <1>1 DEF InBracket
<1>4. hi - lo <= Until
  BY DEF EndNarrow
<1>5. CASE how = "seq"
  <2>1. lo = hi
    BY <1>1, <1>2, <1>4, <1>5 DEF Until
  <2>2. Answer(lo)
    BY <1>5 DEF EndNarrow
  <2> QED
    BY <1>1, <1>3, <2>1, <2>2, AnswerKeeps
<1>6. CASE how \in {"scan", "linear"}
  <2>1. at' = "scan" /\ UNCHANGED <<how, bound, data, key, lo, hi, result>>
    BY <1>6 DEF EndNarrow
  <2> QED
    BY <1>1, <1>3, <2>1, BracketKeeps
<1>7. CASE how \in {"group", "exp"}
  <2>1. at' = "vote" /\ UNCHANGED <<how, bound, data, key, lo, hi, result>>
    BY <1>7 DEF EndNarrow
  <2>2. hi - lo <= GroupSize
    BY <1>4, <1>7 DEF Until
  <2> QED
    BY <1>1, <1>3, <2>1, <2>2, BracketKeeps
<1> QED
  BY <1>1, <1>5, <1>6, <1>7 DEF SearchTypes, Narrowing

(* What a lane reads, past the end too.                                    *)
LEMMA LaneReads ==
    ASSUME SearchTypes, NEW p \in Nat
    PROVE  /\ p < hi => Lane(p, hi) = data[p + 1]
                        /\ (Below(Lane(p, hi)) <=> IsBelow(bound, data[p + 1], key))
           /\ p >= hi => ~Below(Lane(p, hi))
<1>1. hi \in 0 .. Len(data) /\ Len(data) \in Nat
  BY SpanOfData DEF SearchTypes
<1>2. ASSUME p < hi
      PROVE  Lane(p, hi) = data[p + 1] /\ (Below(Lane(p, hi)) <=> IsBelow(bound, data[p + 1], key))
  <2>1. p \in 0 .. Len(data) - 1 /\ Lane(p, hi) = data[p + 1]
    BY <1>1, <1>2 DEF Lane
  <2> QED
    BY <2>1, SpanOfData
<1>3. ASSUME p >= hi
      PROVE  ~Below(Lane(p, hi))
  <2>1. Lane(p, hi) = Sentinel /\ Sentinel \in Nat /\ key \in Nat /\ key < Sentinel
    BY <1>1, <1>3, SentinelAssumption DEF Lane, SearchTypes
  <2> QED
    BY <2>1 DEF Below
<1> QED
  BY <1>2, <1>3

LEMMA VoteKeeps ==
    ASSUME SearchInv, Vote
    PROVE  SearchInv'
<1> DEFINE S == {k \in Lanes : Below(Lane(lo + k, hi))}
           c == Cardinality(S)
<1>1. SearchTypes /\ InBracket /\ lo <= hi /\ hi - lo <= GroupSize /\ lo \in Nat /\ hi \in 0 .. Len(data)
  BY DEF SearchInv, Vote, SearchTypes
<1>2. Len(data) \in Nat /\ data \in [1 .. Len(data) -> Nat]
  BY <1>1, SpanOfData
<1>3. key \in Nat /\ bound \in {"lower", "upper"} /\ SortedSpan(data)
  BY <1>1, SentinelAssumption DEF SearchTypes
<1>4. Brackets(bound, key, Len(data), data, lo, hi)
  BY <1>1 DEF InBracket
<1>5. GroupSize \in Nat /\ Lanes = 0 .. GroupSize - 1
  BY GroupSizeAssumption DEF Lanes
<1>6. \A k \in Lanes : k \in S <=> lo + k < hi /\ IsBelow(bound, data[lo + k + 1], key)
  <2> SUFFICES ASSUME NEW k \in Lanes
               PROVE  k \in S <=> lo + k < hi /\ IsBelow(bound, data[lo + k + 1], key)
    OBVIOUS
  <2>1. lo + k \in Nat
    BY <1>1, <1>5
  <2> QED
    BY <1>1, <1>2, <2>1, LaneReads
<1>7. \A k \in S : \A j \in 0 .. k : j \in S
  <2> SUFFICES ASSUME NEW k \in S, NEW j \in 0 .. k
               PROVE  j \in S
    OBVIOUS
  <2>1. k \in Lanes /\ j \in Lanes /\ lo + j <= lo + k /\ lo + k < hi /\ IsBelow(bound, data[lo + k + 1], key)
    BY <1>1, <1>5, <1>6
  <2>2. lo + k \in 0 .. Len(data) - 1 /\ lo + j \in 0 .. lo + k /\ lo + j < hi
    BY <1>1, <1>2, <1>5, <2>1
  <2>3. IsBelow(bound, data[lo + j + 1], key)
    BY <1>2, <1>3, <2>1, <2>2, SortedSplit
  <2> QED
    BY <1>6, <2>1, <2>2, <2>3
<1>8. c \in 0 .. GroupSize /\ S = 0 .. c - 1
  <2>1. S \in SUBSET (0 .. GroupSize - 1)
    BY <1>5
  <2> HIDE DEF S
  <2> QED
    BY <1>5, <1>7, <2>1, CountOfPrefix
<1>9. Answer(lo + c)
  BY DEF Vote
<1> HIDE DEF S, c
<1>10. lo + c <= hi /\ Brackets(bound, key, Len(data), data, lo + c, hi)
  <2>1. CASE c = 0
    <3>1. lo + c = lo
      BY <1>1, <2>1
    <3> QED
      BY <1>1, <1>4, <3>1
  <2>2. CASE c # 0
    <3>1. c - 1 \in S /\ c - 1 \in Lanes
      BY <1>5, <1>8, <2>2
    <3>2. lo + (c - 1) < hi /\ IsBelow(bound, data[lo + (c - 1) + 1], key)
      BY <1>6, <3>1
    <3>3. lo + (c - 1) \in 0 .. Len(data) - 1
      BY <1>1, <1>2, <1>5, <3>1, <3>2
    <3>4. Brackets(bound, key, Len(data), data, lo + (c - 1) + 1, hi)
      BY <1>1, <1>2, <1>3, <1>4, <3>2, <3>3, SplitBelow
    <3> QED
      BY <1>1, <1>2, <1>8, <3>2, <3>4
  <2> QED
    BY <2>1, <2>2
<1>11. Brackets(bound, key, Len(data), data, lo + c, lo + c)
  <2>1. CASE lo + c = hi
    BY <1>10, <2>1
  <2>2. CASE lo + c # hi
    <3>1. lo + c < hi /\ c \in Lanes /\ c \notin S
      BY <1>1, <1>2, <1>5, <1>8, <1>10, <2>2
    <3>2. ~IsBelow(bound, data[lo + c + 1], key)
      BY <1>6, <3>1
    <3>3. lo + c \in 0 .. hi - 1 /\ lo + c \in Nat
      BY <1>1, <1>2, <1>8, <3>1
    <3> QED
      BY <1>1, <1>2, <1>3, <1>10, <3>2, <3>3, SplitNotBelow
  <2> QED
    BY <2>1, <2>2
<1>12. lo + c \in 0 .. Len(data)
  BY <1>1, <1>2, <1>8, <1>10
<1> QED
  BY <1>1, <1>9, <1>11, <1>12, AnswerKeeps

(* A lane that does not hit has an element below the key.                  *)
LEMMA Misses ==
    ASSUME SearchTypes, NEW k \in Lanes, k \notin Hits, lo + k < hi
    PROVE  IsBelow(bound, data[lo + k + 1], key)
<1>1. lo + k \in Nat
  BY GroupSizeAssumption DEF SearchTypes, Lanes
<1>2. Below(Lane(lo + k, hi))
  BY DEF Hits
<1> QED
  BY <1>1, <1>2, LaneReads

LEMMA ScanKeeps ==
    ASSUME SearchInv, Scan
    PROVE  SearchInv'
<1>1. /\ SearchTypes /\ InBracket /\ at = "scan" /\ lo < hi
      /\ lo \in Nat /\ hi \in 0 .. Len(data)
      /\ how = "linear" => hi - lo > GroupSize
  BY DEF SearchInv, Scan, SearchTypes
<1>2. Len(data) \in Nat /\ data \in [1 .. Len(data) -> Nat]
  BY <1>1, SpanOfData
<1>3. key \in Nat /\ bound \in {"lower", "upper"} /\ SortedSpan(data)
  BY <1>1, SentinelAssumption DEF SearchTypes
<1>4. Brackets(bound, key, Len(data), data, lo, hi)
  BY <1>1 DEF InBracket
<1>5. GroupSize \in Nat \ {0} /\ Lanes = 0 .. GroupSize - 1 /\ Hits \in SUBSET (0 .. GroupSize - 1)
  BY GroupSizeAssumption DEF Lanes, Hits
(* Everything before a lane is below when no lane before it hits.          *)
<1>6. ASSUME NEW q \in 0 .. GroupSize, lo + q <= hi, \A k \in 0 .. q - 1 : k \notin Hits
      PROVE  Brackets(bound, key, Len(data), data, lo + q, hi)
  <2>1. CASE q = 0
    <3>1. lo + q = lo
      BY <1>1, <2>1
    <3> QED
      BY <1>4, <3>1
  <2>2. CASE q # 0
    <3>1. q - 1 \in Lanes /\ q - 1 \notin Hits /\ lo + (q - 1) < hi
      BY <1>1, <1>2, <1>5, <1>6, <2>2
    <3>2. IsBelow(bound, data[lo + (q - 1) + 1], key)
      BY <1>1, <3>1, Misses
    <3>3. lo + (q - 1) \in 0 .. Len(data) - 1 /\ lo + (q - 1) + 1 = lo + q
      BY <1>1, <1>2, <1>5, <3>1
    <3>4. Brackets(bound, key, Len(data), data, lo + (q - 1) + 1, hi)
      BY <1>1, <1>2, <1>3, <1>4, <3>2, <3>3, SplitBelow
    <3> QED
      BY <3>3, <3>4
  <2> QED
    BY <2>1, <2>2
<1>7. CASE Hits # {}
  <2>1. PICK m \in Hits : \A k \in Hits : m <= k
    BY <1>5, <1>7, LeastExists
  <2>2. Min(Hits) = m /\ m \in Lanes /\ m \in Nat
    BY <1>5, <2>1, LeastIsMin
  <2>3. Answer(lo + m)
    BY <1>7, <2>2 DEF Scan
  <2>4. \A k \in 0 .. m - 1 : k \notin Hits
    BY <1>5, <2>1, <2>2
  <2>5. lo + m <= hi
    <3> SUFFICES ASSUME lo + m > hi
                 PROVE  FALSE
      BY <1>1, <1>2, <2>2
    <3>1. hi - lo \in 0 .. m - 1 /\ hi - lo \in Lanes /\ lo + (hi - lo) = hi
      BY <1>1, <1>2, <1>5, <2>2
    <3>2. bound = "lower"
      BY <1>1, <1>2, <2>1, <2>2 DEF Hits
    <3>3. hi \in Nat /\ ~Below(Lane(hi, hi))
      BY <1>1, <1>2, LaneReads
    <3>4. hi - lo \in Hits
      BY <3>1, <3>2, <3>3 DEF Hits
    <3> QED
      BY <2>4, <3>1, <3>4
  <2>6. m \in 0 .. GroupSize
    BY <1>5, <2>2
  <2>7. Brackets(bound, key, Len(data), data, lo + m, hi)
    BY <1>6, <2>4, <2>5, <2>6
  <2>8. lo + m \in Nat /\ lo + m \in 0 .. Len(data)
    BY <1>1, <1>2, <2>2, <2>5
  <2>9. CASE lo + m = hi
    BY <1>1, <2>3, <2>7, <2>8, <2>9, AnswerKeeps
  <2>10. CASE lo + m # hi
    <3>1. lo + m < hi /\ lo + m \in 0 .. hi - 1
      BY <1>1, <1>2, <2>5, <2>8, <2>10
    <3>2. ~IsBelow(bound, data[lo + m + 1], key)
      <4>1. ~Below(Lane(lo + m, hi))
        BY <2>1 DEF Hits
      <4> QED
        BY <1>1, <2>8, <3>1, <4>1, LaneReads
    <3>3. Brackets(bound, key, Len(data), data, lo + m, lo + m)
      BY <1>1, <1>2, <1>3, <2>7, <2>8, <3>1, <3>2, SplitNotBelow
    <3> QED
      BY <1>1, <2>3, <2>8, <3>3, AnswerKeeps
  <2> QED
    BY <2>9, <2>10
<1>8. CASE Hits = {}
  <2>1. lo' = lo + GroupSize /\ hi' = hi /\ UNCHANGED <<how, bound, data, key, at, result>>
    BY <1>8 DEF Scan
  <2>2. lo + GroupSize \in Nat
    BY <1>1, <1>5
  <2>3. CASE lo + GroupSize <= hi
    <3>1. Brackets(bound, key, Len(data), data, lo + GroupSize, hi)
      BY <1>5, <1>6, <1>8, <2>3
    <3> QED
      BY <1>1, <2>1, <2>2, <2>3, <3>1, BracketKeeps
  <2>4. CASE lo + GroupSize > hi
    <3>1. hi - lo \in 0 .. GroupSize /\ lo + (hi - lo) = hi
      BY <1>1, <1>2, <1>5, <2>4
    <3>2. Brackets(bound, key, Len(data), data, hi, hi)
      <4> DEFINE q == hi - lo
      <4>1. q \in 0 .. GroupSize /\ lo + q = hi /\ lo + q <= hi
        BY <1>1, <1>2, <3>1
      <4> HIDE DEF q
      <4>2. Brackets(bound, key, Len(data), data, lo + q, hi)
        BY <1>6, <1>8, <4>1
      <4> QED
        BY <4>1, <4>2
    <3>3. Brackets(bound, key, Len(data), data, lo + GroupSize, hi)
      BY <1>1, <1>2, <2>2, <2>4, <3>2 DEF Brackets
    <3>4. how # "linear"
      BY <1>1, <1>2, <1>5, <2>4
    <3> QED
      BY <1>1, <2>1, <2>2, <3>3, <3>4, BracketKeeps
  <2> QED
    BY <1>1, <1>2, <2>2, <2>3, <2>4
<1> QED
  BY <1>7, <1>8

LEMMA EndScanKeeps ==
    ASSUME SearchInv, EndScan
    PROVE  SearchInv'
<1>1. SearchTypes /\ InBracket /\ at = "scan" /\ lo \in Nat /\ hi \in 0 .. Len(data)
  BY DEF SearchInv, EndScan, SearchTypes
<1>2. Len(data) \in Nat
  BY <1>1, SpanOfData
<1>3. Brackets(bound, key, Len(data), data, lo, hi)
  BY <1>1 DEF InBracket
<1>4. CASE how = "linear" /\ hi - lo <= GroupSize /\ at' = "vote"
           /\ UNCHANGED <<how, bound, data, key, lo, hi, result>>
  <2>1. lo <= hi
    BY <1>1, <1>4 DEF SearchInv
  <2> QED
    BY <1>1, <1>3, <1>4, <2>1, BracketKeeps
<1>5. CASE how # "linear" /\ lo >= hi /\ Answer(hi)
  <2>1. Brackets(bound, key, Len(data), data, hi, hi)
    BY <1>1, <1>2, <1>3, <1>5 DEF Brackets
  <2> QED
    BY <1>1, <1>5, <2>1, AnswerKeeps
<1> QED
  BY <1>4, <1>5 DEF EndScan

(* No step of a search can make it miss the bound.                         *)
LEMMA SearchKeeps ==
    ASSUME SearchInv, SearchStep
    PROVE  SearchInv'
<1>1. ~Jump /\ ~SearchWindow
  BY DEF SearchInv, SearchTypes, Jump, SearchWindow
<1> QED
  BY <1>1, NarrowKeeps, NarrowByGroupKeeps, EndNarrowKeeps, ScanKeeps, EndScanKeeps, VoteKeeps
     DEF SearchStep

LEMMA BeginKeeps ==
    ASSUME NEW h \in Narrowing, NEW b \in {"lower", "upper"},
           NEW d \in Seq(0 .. Sentinel - 1), SortedSpan(d),
           NEW k \in 0 .. Sentinel - 1, Begin(h, b, d, k)
    PROVE  SearchInv'
<1>1. /\ how' = h /\ bound' = b /\ data' = d /\ key' = k /\ lo' = 0 /\ hi' = Len(d)
      /\ at' \in {"scan", "narrow"} /\ (at' = "narrow" => h # "skip")
  BY DEF Begin
<1>2. Len(d) \in Nat
  BY LenProperties
<1>3. SearchTypes'
  BY <1>1, <1>2 DEF SearchTypes, SortedSpan
<1>4. InBracket'
  BY <1>1, <1>2 DEF InBracket, Brackets
<1>5. SearchExact'
  BY <1>1 DEF SearchExact
<1> QED
  BY <1>1, <1>2, <1>3, <1>4, <1>5 DEF SearchInv

NoBlockSeek == \A s \in Sides : "block" \notin Searches[s]["lower"]

-----------------------------------------------------------------------------
(***************************************************************************)
(* Spans                                                                   *)
(***************************************************************************)
LEMMA SpanFacts ==
    ASSUME NEW d \in Seq(0 .. Sentinel - 1)
    PROVE  /\ Len(d) \in Nat /\ DOMAIN d = 1 .. Len(d)
           /\ \A j \in 1 .. Len(d) : d[j] \in Nat /\ d[j] \in 0 .. Sentinel - 1
BY LenProperties, SentinelAssumption

LEMMA Suffix ==
    ASSUME NEW d \in Seq(0 .. Sentinel - 1), SortedSpan(d), NEW p \in 0 .. Len(d)
    PROVE  LET s == SubSeq(d, p + 1, Len(d))
           IN  /\ s \in Seq(0 .. Sentinel - 1) /\ SortedSpan(s)
               /\ Len(s) = Len(d) - p
               /\ \A j \in 1 .. Len(d) - p : s[j] = d[p + j]
<1> DEFINE n == Len(d)
           s == SubSeq(d, p + 1, n)
<1>1. n \in Nat /\ \A j \in 1 .. n : d[j] \in 0 .. Sentinel - 1
  BY SpanFacts
<1>2. p + 1 \in Int /\ n \in Int /\ \A j \in p + 1 .. n : d[j] \in 0 .. Sentinel - 1
  BY <1>1
<1>3. /\ s \in Seq(0 .. Sentinel - 1)
      /\ Len(s) = IF p + 1 <= n THEN n - (p + 1) + 1 ELSE 0
      /\ \A j \in 1 .. n - (p + 1) + 1 : s[j] = d[p + 1 + j - 1]
  <2> HIDE DEF n
  <2> QED
    BY <1>2, SubSeqProperties
<1>4. Len(s) = n - p /\ \A j \in 1 .. n - p : s[j] = d[p + j]
  BY <1>1, <1>3
<1>5. SortedSpan(s)
  <2>1. DOMAIN s = 1 .. n - p
    BY <1>3, <1>4, SpanFacts
  <2>2. \A i, j \in 1 .. n : i < j => d[i] <= d[j]
    BY SpanFacts DEF SortedSpan
  <2> SUFFICES ASSUME NEW i \in 1 .. n - p, NEW j \in 1 .. n - p, i < j
               PROVE  s[i] <= s[j]
    BY <2>1 DEF SortedSpan
  <2>3. p + i \in 1 .. n /\ p + j \in 1 .. n /\ p + i < p + j
    BY <1>1
  <2> QED
    BY <1>4, <2>2, <2>3
<1> QED
  BY <1>3, <1>4, <1>5

(* What the exact bound is.                                                *)
LEMMA BoundHas ==
    ASSUME NEW b \in {"lower", "upper"}, NEW k \in Nat,
           NEW d \in Seq(0 .. Sentinel - 1)
    PROVE  LET r == FirstNotBelow(d, b, k)
           IN  /\ r \in 0 .. Len(d)
               /\ \A i \in 0 .. r - 1 : IsBelow(b, d[i + 1], k)
               /\ r < Len(d) => ~IsBelow(b, d[r + 1], k)
<1> DEFINE n == Len(d)
           S == {i \in 0 .. n :
                   i = n \/ (IF b = "lower" THEN d[i + 1] >= k ELSE d[i + 1] > k)}
<1>1. n \in Nat /\ n + 1 \in Nat /\ \A j \in 1 .. n : d[j] \in Nat
  BY SpanFacts
<1>2. S \in SUBSET (0 .. n + 1 - 1) /\ n \in S /\ S \in SUBSET Int
  BY <1>1
<1>3. PICK m \in S : \A j \in S : m <= j
  <2> DEFINE l == n + 1
  <2>1. l \in Nat /\ S \in SUBSET (0 .. l - 1) /\ S # {}
    BY <1>1, <1>2
  <2> HIDE DEF S, l
  <2> QED
    BY <2>1, LeastExists
<1>4. FirstNotBelow(d, b, k) = m
  <2>1. FirstNotBelow(d, b, k) = Min(S)
    BY DEF FirstNotBelow
  <2> HIDE DEF S, n
  <2> QED
    BY <1>2, <1>3, <2>1, LeastIsMin
<1>5. m \in 0 .. n
  OBVIOUS
<1>6. ASSUME NEW i \in 0 .. m - 1
      PROVE  IsBelow(b, d[i + 1], k)
  <2>1. i \in 0 .. n /\ i # n /\ ~(m <= i) /\ d[i + 1] \in Nat
    BY <1>1, <1>5
  <2>2. i \notin S
    <3> HIDE DEF S
    <3> QED
      BY <1>3, <2>1
  <2> QED
    BY <2>1, <2>2 DEF IsBelow
<1>7. ASSUME m < n
      PROVE  ~IsBelow(b, d[m + 1], k)
  <2>1. d[m + 1] \in Nat /\ m # n
    BY <1>1, <1>5, <1>7
  <2>2. IF b = "lower" THEN d[m + 1] >= k ELSE d[m + 1] > k
    BY <2>1
  <2> QED
    BY <2>1, <2>2 DEF IsBelow
<1> QED
  BY <1>4, <1>5, <1>6, <1>7

(* Two sources.                                                            *)
LEMMA LeastOfTwo ==
    ASSUME NEW S \in SUBSET (1 .. 2), S # {}
    PROVE  Min(S) \in S
<1>1. \E m \in S : \A k \in S : m <= k
  <2>1. CASE 1 \in S
    BY <2>1
  <2>2. CASE 1 \notin S
    <3>1. ASSUME NEW k \in S
          PROVE  k = 2
      <4>1. k \in 1 .. 2 /\ k # 1
        BY <2>2
      <4> QED
        BY <4>1
    <3>2. 2 \in S
      BY <3>1
    <3>3. \A k \in S : 2 <= k
      BY <3>1
    <3> QED
      BY <3>2, <3>3
  <2> QED
    BY <2>1, <2>2
<1>2. S \in SUBSET Int
  OBVIOUS
<1> QED
  BY <1>1, <1>2, LeastIsMin

LEMMA GreatestOfTwo ==
    ASSUME NEW v \in Nat, NEW w \in Nat
    PROVE  LET m == Max({v, w}) IN m \in {v, w} /\ v <= m /\ w <= m
<1>1. \E x \in {v, w} : \A y \in {v, w} : x >= y
  <2>1. v >= w \/ w >= v
    OBVIOUS
  <2> QED
    BY <2>1
<1>2. Max({v, w}) \in {v, w} /\ \A y \in {v, w} : Max({v, w}) >= y
  BY <1>1 DEF Max
<1> QED
  BY <1>2

-----------------------------------------------------------------------------
(***************************************************************************)
(* The invariant.  JoinInv says how the steps of a search and those of the *)
(* intersection fit together; it is what makes every search exact.         *)
(***************************************************************************)
JoinTypes ==
    /\ side \in Sides
    /\ span \in [1 .. 2 -> Spans]
    /\ pos \in [1 .. 2 -> Nat] /\ \A i \in 1 .. 2 : pos[i] <= Len(span[i])
    /\ pc \in {"align", "seek", "step", "found", "end"}
    /\ target \in Nat /\ behind \in SUBSET (1 .. 2)

Searching ==
    /\ SearchInv
    /\ pc \in {"align", "found", "end"} => at = "idle"
    /\ pc = "step" => at # "idle" /\ bound = "upper" /\ key = target /\ data = Remaining(1)
    /\ pc = "seek" /\ at # "idle" =>
         bound = "lower" /\ key = target /\ data = Remaining(Min(behind))

Positioned ==
    /\ pc \in {"align", "found", "step"} => ~SomeEnd(pos)
    /\ pc \in {"found", "step"} => \A i \in 1 .. 2 : Value(i) = target
    /\ pc = "seek" =>
         /\ behind # {}
         /\ \E k \in (1 .. 2) \ behind : pos[k] < Len(span[k]) /\ Value(k) = target
    /\ pc = "end" => SomeEnd(pos)

JoinInv == JoinTypes /\ Searching /\ Positioned

LEMMA SpanOf ==
    ASSUME JoinTypes, NEW i \in 1 .. 2
    PROVE  /\ span[i] \in Seq(0 .. Sentinel - 1) /\ SortedSpan(span[i])
           /\ Len(span[i]) \in Nat /\ pos[i] \in 0 .. Len(span[i])
           /\ \A j \in 1 .. Len(span[i]) : span[i][j] \in 0 .. Sentinel - 1
           /\ \A j \in 1 .. Len(span[i]) : span[i][j] \in Nat
           /\ span[i] \in [1 .. Len(span[i]) -> Nat]
           /\ Remaining(i) \in Seq(0 .. Sentinel - 1) /\ SortedSpan(Remaining(i))
           /\ Len(Remaining(i)) = Len(span[i]) - pos[i]
           /\ \A j \in 1 .. Len(span[i]) - pos[i] : Remaining(i)[j] = span[i][pos[i] + j]
<1>1. span[i] \in Seq(0 .. Sentinel - 1) /\ SortedSpan(span[i])
  BY SpansAssumption DEF JoinTypes
<1>2. /\ Len(span[i]) \in Nat
      /\ \A j \in 1 .. Len(span[i]) : span[i][j] \in 0 .. Sentinel - 1
  BY <1>1, SpanFacts
<1>3. pos[i] \in 0 .. Len(span[i])
  BY <1>2 DEF JoinTypes
<1>4. \A j \in 1 .. Len(span[i]) : span[i][j] \in Nat
  BY <1>1, SpanFacts
<1>5. span[i] \in [1 .. Len(span[i]) -> Nat]
  BY <1>1, <1>4, LenProperties
<1> QED
  BY <1>1, <1>2, <1>3, <1>4, <1>5, Suffix DEF Remaining

LEMMA ValueIs ==
    ASSUME JoinTypes, NEW i \in 1 .. 2, pos[i] < Len(span[i])
    PROVE  Value(i) \in 0 .. Sentinel - 1 /\ Value(i) \in Nat
<1>1. pos[i] + 1 \in 1 .. Len(span[i])
  BY SpanOf
<1>2. span[i][pos[i] + 1] \in 0 .. Sentinel - 1
  BY <1>1, SpanOf
<1> QED
  BY <1>2, SentinelAssumption DEF Value

LEMMA NotEnded ==
    ASSUME JoinTypes
    PROVE  Source = 1 .. 2 /\ (~SomeEnd(pos) <=> \A i \in 1 .. 2 : pos[i] < Len(span[i]))
<1>1. Source = 1 .. 2
  BY DEF JoinTypes, Source
<1>2. \A i \in 1 .. 2 : ~(pos[i] >= Len(span[i])) <=> pos[i] < Len(span[i])
  BY SpanOf
<1> QED
  BY <1>1, <1>2 DEF SomeEnd

LEMMA JoinInit ==
    ASSUME Init
    PROVE  JoinInv
<1>1. JoinTypes
  <2>1. \A i \in 1 .. 2 : span[i] \in Spans /\ Len(span[i]) \in Nat
    BY SpansAssumption, SpanFacts DEF Init
  <2> QED
    BY <2>1 DEF Init, JoinTypes
<1>2. SearchInv
  <2>1. <<>> \in Seq(0 .. Sentinel - 1) /\ Len(<<>>) = 0 /\ SortedSpan(<<>>)
    BY EmptySeq DEF SortedSpan
  <2> QED
    BY <2>1, SentinelAssumption DEF Init, SearchInv, SearchTypes, Narrowing, SearchExact
<1>3. Searching
  BY <1>2 DEF Init, Searching
<1>4. Positioned
  BY DEF Init, Positioned
<1> QED
  BY <1>1, <1>3, <1>4 DEF JoinInv

LEMMA AlignKeeps ==
    ASSUME JoinInv, Align
    PROVE  /\ JoinInv'
           /\ target' \in {Value(1), Value(2)}
           /\ \A i \in 1 .. 2 : Value(i) <= target'
           /\ behind' = {i \in 1 .. 2 : Value(i) < target'}
<1>1. JoinTypes /\ Searching /\ at = "idle" /\ \A i \in 1 .. 2 : pos[i] < Len(span[i])
  BY NotEnded DEF JoinInv, Align, Searching, Positioned
<1>2. Source = 1 .. 2 /\ \A i \in 1 .. 2 : Value(i) \in Nat
  BY <1>1, NotEnded, ValueIs
<1>3. {Value(i) : i \in Source} = {Value(1), Value(2)}
  BY <1>2
<1>4. target' \in {Value(1), Value(2)} /\ Value(1) <= target' /\ Value(2) <= target' /\ target' \in Nat
  BY <1>2, <1>3, GreatestOfTwo DEF Align
<1>5. behind' = {i \in 1 .. 2 : Value(i) < target'}
  BY <1>2 DEF Align
<1>6. UNCHANGED <<side, span, pos>> /\ UNCHANGED searching
  BY DEF Align
<1>7. pc' = IF behind' = {} THEN "found" ELSE "seek"
  BY DEF Align
<1>8. JoinTypes'
  BY <1>1, <1>4, <1>5, <1>6, <1>7 DEF JoinTypes
<1>9. Searching'
  <2>1. SearchInv'
    BY <1>1, <1>6 DEF searching, Searching, SearchInv, SearchTypes, InBracket, Brackets, SearchExact, SortedSpan
  <2> QED
    BY <1>1, <1>6, <1>7, <2>1 DEF Searching, searching
<1>10. Positioned'
  <2>1. \A i \in 1 .. 2 : Value(i)' = Value(i) /\ pos'[i] < Len(span'[i])
    BY <1>1, <1>6 DEF Value
  <2>2. ~SomeEnd(pos)'
    BY <1>8, <2>1, NotEnded, <1>6, <1>1 DEF SomeEnd, Source
  <2>3. CASE behind' = {}
    <3>1. \A i \in 1 .. 2 : Value(i) = target'
      BY <1>2, <1>4, <1>5, <2>3
    <3> QED
      BY <1>7, <2>1, <2>2, <2>3, <3>1 DEF Positioned
  <2>4. CASE behind' # {}
    <3>1. PICK k \in 1 .. 2 : Value(k) = target'
      BY <1>4
    <3>2. k \in (1 .. 2) \ behind'
      BY <1>2, <1>4, <1>5, <3>1
    <3> QED
      BY <1>7, <2>1, <2>2, <2>4, <3>1, <3>2 DEF Positioned
  <2> QED
    BY <2>3, <2>4
<1> QED
  BY <1>4, <1>5, <1>8, <1>9, <1>10 DEF JoinInv

LEMMA SeekKeeps ==
    ASSUME NoBlockSeek, JoinInv, NEW h \in Searches[side]["lower"], Seek(h)
    PROVE  JoinInv'
<1>1. JoinTypes /\ Positioned /\ pc = "seek" /\ behind # {} /\ behind \in SUBSET (1 .. 2)
  BY DEF JoinInv, Seek, JoinTypes
<1>2. h # "block" /\ h \in Narrowing
  <2>1. side \in Sides /\ Searches[side]["lower"] \in
           SUBSET {"seq", "group", "exp", "linear", "scan", "skip", "block"}
    BY <1>1, SearchesAssumption DEF JoinTypes
  <2> QED
    BY <2>1 DEF NoBlockSeek, Narrowing
<1> DEFINE i == Min(behind)
<1>3. i \in 1 .. 2
  <2>1. Min(behind) \in behind
    BY <1>1, LeastOfTwo
  <2> QED
    BY <1>1, <2>1
<1>4. Begin(h, "lower", Remaining(i), target) /\ UNCHANGED <<side, span, pos, pc, target, behind, found>>
  BY <1>2 DEF Seek
<1>5. target \in 0 .. Sentinel - 1
  <2>1. PICK k \in 1 .. 2 : pos[k] < Len(span[k]) /\ Value(k) = target
    BY <1>1 DEF Positioned
  <2> QED
    BY <1>1, <2>1, ValueIs
<1>6. SearchInv'
  <2>1. Remaining(i) \in Seq(0 .. Sentinel - 1) /\ SortedSpan(Remaining(i))
    BY <1>1, <1>3, SpanOf
  <2> QED
    BY <1>2, <1>4, <1>5, <2>1, BeginKeeps
<1>7. JoinTypes' /\ Positioned'
  BY <1>1, <1>4 DEF JoinTypes, Positioned, SomeEnd, Source, Value
<1>8. Searching'
  <2>1. bound' = "lower" /\ key' = target /\ data' = Remaining(i)
    BY <1>4 DEF Begin
  <2>2. Remaining(Min(behind))' = Remaining(i)
    BY <1>4 DEF Remaining
  <2> QED
    BY <1>1, <1>4, <1>6, <2>1, <2>2 DEF Searching
<1> QED
  BY <1>7, <1>8 DEF JoinInv

LEMMA AdvanceKeeps ==
    ASSUME JoinInv, NEW h \in Searches[side]["upper"], Advance(h)
    PROVE  JoinInv'
<1>1. JoinTypes /\ Positioned /\ pc = "found"
  BY DEF JoinInv, Advance
<1>2. h \in Narrowing
  <2>1. side \in Sides /\ Searches[side]["upper"] \in
           SUBSET {"seq", "group", "exp", "linear", "scan", "skip", "block"}
    BY <1>1, SearchesAssumption DEF JoinTypes
  <2>2. h # "block"
    BY <2>1, SearchesAssumption
  <2> QED
    BY <2>1, <2>2 DEF Narrowing
<1>3. Value(1) = target /\ Value(1) \in 0 .. Sentinel - 1
  <2>1. 1 \in 1 .. 2
    OBVIOUS
  <2>2. Value(1) = target /\ pos[1] < Len(span[1])
    BY <1>1, <2>1, NotEnded DEF Positioned
  <2> QED
    BY <1>1, <2>1, <2>2, ValueIs
<1>4. Begin(h, "upper", Remaining(1), Value(1)) /\ pc' = "step"
      /\ UNCHANGED <<side, span, pos, target, behind, found>>
  BY DEF Advance
<1>5. SearchInv'
  <2>1. 1 \in 1 .. 2
    OBVIOUS
  <2>2. Remaining(1) \in Seq(0 .. Sentinel - 1) /\ SortedSpan(Remaining(1))
    BY <1>1, <2>1, SpanOf
  <2> QED
    BY <1>2, <1>3, <1>4, <2>2, BeginKeeps
<1>6. JoinTypes' /\ Positioned'
  BY <1>1, <1>4 DEF JoinTypes, Positioned, SomeEnd, Source, Value
<1>7. Searching'
  <2>1. bound' = "upper" /\ key' = target /\ data' = Remaining(1) /\ at' # "idle"
    BY <1>3, <1>4 DEF Begin
  <2>2. Remaining(1)' = Remaining(1)
    BY <1>4 DEF Remaining
  <2> QED
    BY <1>4, <1>5, <2>1, <2>2 DEF Searching
<1> QED
  BY <1>6, <1>7 DEF JoinInv

LEMMA SearchingKeeps ==
    ASSUME JoinInv, Search
    PROVE  JoinInv'
<1>1. JoinTypes /\ Positioned /\ SearchInv /\ SearchStep
      /\ UNCHANGED <<side, span, pos, pc, target, behind, found>>
  BY DEF JoinInv, Searching, Search
<1>2. SearchInv'
  BY <1>1, SearchKeeps
<1>3. JoinTypes' /\ Positioned'
  BY <1>1 DEF JoinTypes, Positioned, SomeEnd, Source, Value
<1>4. at # "idle" /\ at' # "idle" /\ UNCHANGED <<bound, key, data>>
  BY <1>1 DEF SearchStep, Narrow, NarrowByGroup, EndNarrow, Scan, EndScan, Vote, Jump, SearchWindow, Answer
<1>5. Remaining(1)' = Remaining(1) /\ Remaining(Min(behind))' = Remaining(Min(behind))
  BY <1>1 DEF Remaining
<1>6. Searching'
  BY <1>1, <1>2, <1>4, <1>5 DEF JoinInv, Searching
<1> QED
  BY <1>3, <1>6 DEF JoinInv

(* After a search the invariant holds of the idle search variables.        *)
LEMMA IdleKeeps ==
    ASSUME SearchInv, Idle
    PROVE  SearchInv'
BY DEF Idle, SearchInv, SearchTypes, InBracket, Brackets, SearchExact, SortedSpan

(* Where the source that was sought for ends up.                           *)
LEMMA SoughtTo ==
    ASSUME JoinInv, Sought
    PROVE  LET i == Min(behind)
           IN  /\ i \in behind /\ i \in 1 .. 2
               /\ pos' = [pos EXCEPT ![i] = pos[i] + result]
               /\ result \in 0 .. Len(span[i]) - pos[i]
               /\ \A j \in pos[i] + 1 .. pos[i] + result : span[i][j] < target
               /\ pos'[i] < Len(span[i]) => span[i][pos'[i] + 1] >= target
<1> DEFINE i == Min(behind)
<1>1. JoinTypes /\ Positioned /\ SearchInv /\ pc = "seek" /\ at = "done"
      /\ bound = "lower" /\ key = target /\ data = Remaining(i) /\ how \in Narrowing
  BY DEF JoinInv, Searching, Sought, SearchInv, SearchTypes
<1>2. i \in behind /\ i \in 1 .. 2
  <2>1. behind # {} /\ behind \in SUBSET (1 .. 2)
    BY <1>1 DEF Positioned, JoinTypes
  <2> QED
    BY <2>1, LeastOfTwo
<1>3. pos' = [pos EXCEPT ![i] = pos[i] + result]
  BY <1>1 DEF Sought, Landed, Narrowing
<1>4. result = FirstNotBelow(Remaining(i), "lower", target)
  BY <1>1 DEF SearchInv, SearchExact
<1>5. target \in Nat
  BY <1>1 DEF JoinTypes
<1>6. pos'[i] = pos[i] + result
  BY <1>1, <1>2, <1>3 DEF JoinTypes
<1> HIDE DEF i
<1>7. /\ Len(Remaining(i)) = Len(span[i]) - pos[i] /\ Len(span[i]) \in Nat
      /\ pos[i] \in 0 .. Len(span[i]) /\ Remaining(i) \in Seq(0 .. Sentinel - 1)
      /\ \A j \in 1 .. Len(span[i]) - pos[i] : Remaining(i)[j] = span[i][pos[i] + j]
  BY <1>1, <1>2, SpanOf
<1>8. /\ result \in 0 .. Len(Remaining(i))
      /\ \A n \in 0 .. result - 1 : IsBelow("lower", Remaining(i)[n + 1], target)
      /\ result < Len(Remaining(i)) => ~IsBelow("lower", Remaining(i)[result + 1], target)
  BY <1>4, <1>5, <1>7, BoundHas
<1>9. /\ result \in Nat /\ pos[i] \in Nat /\ Len(span[i]) \in Nat
       /\ Len(Remaining(i)) \in Nat /\ result <= Len(Remaining(i))
       /\ Len(Remaining(i)) = Len(span[i]) - pos[i]
  BY <1>7, <1>8
<1>10. ASSUME NEW j \in pos[i] + 1 .. pos[i] + result
      PROVE  span[i][j] < target
  <2> DEFINE n == j - pos[i] - 1
  <2>1. n \in 0 .. result - 1 /\ n + 1 \in 1 .. Len(span[i]) - pos[i] /\ pos[i] + (n + 1) = j
    BY <1>9, SMTT(30)
  <2> HIDE DEF n
  <2>2. Remaining(i)[n + 1] = span[i][j]
    BY <1>7, <2>1
  <2> QED
    BY <1>8, <2>1, <2>2 DEF IsBelow
<1>11. ASSUME pos'[i] < Len(span[i])
       PROVE  span[i][pos'[i] + 1] >= target
  <2>1. result < Len(Remaining(i)) /\ result + 1 \in 1 .. Len(span[i]) - pos[i]
        /\ pos[i] + (result + 1) = pos'[i] + 1
    BY <1>6, <1>11, <1>9
  <2>2. Remaining(i)[result + 1] = span[i][pos'[i] + 1]
    BY <1>7, <2>1
  <2>3. span[i][pos'[i] + 1] \in Nat
    <3>1. pos'[i] + 1 \in 1 .. Len(span[i])
      BY <1>6, <1>7, <1>8, <1>11
    <3>2. span[i][pos'[i] + 1] \in 0 .. Sentinel - 1
      BY <1>1, <1>2, <3>1, SpanOf
    <3> QED
      BY <3>2, SentinelAssumption
  <2> QED
    BY <1>5, <1>8, <2>1, <2>2, <2>3 DEF IsBelow
<1> QED
  BY <1>2, <1>3, <1>7, <1>8, <1>10, <1>11 DEF i

LEMMA SoughtKeeps ==
    ASSUME JoinInv, Sought
    PROVE  JoinInv'
<1> DEFINE i == Min(behind)
<1>1. JoinTypes /\ Positioned /\ SearchInv /\ pc = "seek" /\ Idle
      /\ UNCHANGED <<side, span, target, found>>
      /\ behind' = behind \ {i}
      /\ pc' = IF behind' = {} \/ side = "device"
               THEN IF SomeEnd(pos') THEN "end" ELSE IF behind' = {} THEN "align" ELSE "seek"
               ELSE "seek"
  BY DEF JoinInv, Searching, Sought
<1>2. /\ i \in behind /\ i \in 1 .. 2
      /\ pos' = [pos EXCEPT ![i] = pos[i] + result]
      /\ result \in 0 .. Len(span[i]) - pos[i]
  BY SoughtTo
<1> HIDE DEF i
<1>3. pos[i] \in 0 .. Len(span[i]) /\ Len(span[i]) \in Nat /\ pos \in [1 .. 2 -> Nat]
  BY <1>1, <1>2, SpanOf DEF JoinTypes
<1>4. JoinTypes'
  <2>1. pos[i] + result \in Nat /\ pos[i] + result <= Len(span[i])
    BY <1>2, <1>3
  <2>2. pos' \in [1 .. 2 -> Nat] /\ \A k \in 1 .. 2 : pos'[k] <= Len(span[k])
    BY <1>1, <1>2, <1>3, <2>1 DEF JoinTypes
  <2>3. pc' \in {"align", "seek", "end"} /\ behind' \in SUBSET (1 .. 2)
    BY <1>1 DEF JoinTypes
  <2> QED
    BY <1>1, <2>2, <2>3 DEF JoinTypes
<1>5. Searching'
  <2>1. SearchInv' /\ at' = "idle"
    BY <1>1, IdleKeeps DEF Idle
  <2> QED
    BY <1>1, <2>1 DEF Searching
<1>6. Positioned'
  <2>1. SomeEnd(pos)' <=> SomeEnd(pos')
    BY <1>1 DEF SomeEnd, Source
  <2>2. PICK k \in (1 .. 2) \ behind : pos[k] < Len(span[k]) /\ Value(k) = target
    BY <1>1 DEF Positioned
  <2>3. k # i /\ pos'[k] = pos[k]
    BY <1>2, <1>3, <2>2
  <2>4. k \in (1 .. 2) \ behind' /\ pos'[k] < Len(span'[k]) /\ Value(k)' = target'
    BY <1>1, <2>2, <2>3 DEF Value
  <2>5. pc' = "seek" => behind' # {}
    BY <1>1
  <2>6. pc' = "align" => ~SomeEnd(pos')
    BY <1>1
  <2>7. pc' = "end" => SomeEnd(pos')
    BY <1>1
  <2>8. pc' \in {"align", "seek", "end"}
    BY <1>1
  <2> QED
    BY <2>1, <2>4, <2>5, <2>6, <2>7, <2>8 DEF Positioned
<1> QED
  BY <1>4, <1>5, <1>6 DEF JoinInv

(* Where the sources stand after a value was found.                        *)
LEMMA AdvancedTo ==
    ASSUME JoinInv, Advanced
    PROVE  /\ pos' \in [1 .. 2 -> Nat]
           /\ pos'[1] = pos[1] + result
           /\ result \in 1 .. Len(span[1]) - pos[1]
           /\ \A j \in pos[1] + 1 .. pos'[1] : span[1][j] <= target
           /\ pos'[1] < Len(span[1]) => span[1][pos'[1] + 1] > target
           /\ pos'[2] \in {pos[2], pos[2] + 1} /\ pos[2] + 1 <= Len(span[2])
<1>1. JoinTypes /\ Positioned /\ SearchInv /\ pc = "step" /\ at = "done"
      /\ bound = "upper" /\ key = target /\ data = Remaining(1) /\ target \in Nat
  BY DEF JoinInv, Searching, Advanced, JoinTypes
<1>2. 1 \in 1 .. 2 /\ 2 \in 1 .. 2 /\ Source = 1 .. 2
  BY <1>1, NotEnded
<1>3. result = FirstNotBelow(Remaining(1), "upper", target)
  BY <1>1 DEF SearchInv, SearchExact
<1>4. /\ Len(Remaining(1)) = Len(span[1]) - pos[1] /\ Len(span[1]) \in Nat
      /\ pos[1] \in 0 .. Len(span[1]) /\ Remaining(1) \in Seq(0 .. Sentinel - 1)
      /\ \A j \in 1 .. Len(span[1]) - pos[1] : Remaining(1)[j] = span[1][pos[1] + j]
      /\ \A j \in 1 .. Len(span[1]) : span[1][j] \in 0 .. Sentinel - 1
  BY <1>1, <1>2, SpanOf
<1>5. /\ result \in 0 .. Len(Remaining(1))
      /\ \A n \in 0 .. result - 1 : IsBelow("upper", Remaining(1)[n + 1], target)
      /\ result < Len(Remaining(1)) => ~IsBelow("upper", Remaining(1)[result + 1], target)
  BY <1>1, <1>3, <1>4, BoundHas
<1>6. /\ result \in Nat /\ pos[1] \in Nat /\ Len(span[1]) \in Nat
      /\ Len(Remaining(1)) \in Nat /\ result <= Len(Remaining(1))
      /\ Len(Remaining(1)) = Len(span[1]) - pos[1]
  BY <1>4, <1>5
<1>7. pos[1] < Len(span[1]) /\ pos[2] < Len(span[2]) /\ Value(1) = target
  BY <1>1, <1>2, NotEnded DEF Positioned
<1>8. /\ pos' \in [1 .. 2 -> Nat] /\ pos'[1] = pos[1] + result
      /\ pos'[2] \in {pos[2], pos[2] + 1} /\ pos[2] + 1 <= Len(span[2])
  <2>1. pos[2] \in 0 .. Len(span[2]) /\ Len(span[2]) \in Nat
    BY <1>1, <1>2, SpanOf
  <2>2. pos' = [k \in Source |-> IF k = 1 THEN pos[1] + result
                ELSE IF side = "device" THEN pos[k] + 1 ELSE pos[k]]
    BY DEF Advanced
  <2>3. pos'[1] = pos[1] + result /\ pos'[2] = IF side = "device" THEN pos[2] + 1 ELSE pos[2]
    BY <1>2, <2>2
  <2>4. pos' \in [1 .. 2 -> Nat]
    <3>1. \A k \in 1 .. 2 : k = 1 \/ k = 2
      OBVIOUS
    <3> QED
      BY <1>2, <1>6, <2>1, <2>2, <2>3, <3>1
  <2> QED
    BY <1>7, <2>1, <2>3, <2>4
<1>9. result # 0
  <2> SUFFICES ASSUME result = 0
               PROVE  FALSE
    OBVIOUS
  <2>1. ~IsBelow("upper", Remaining(1)[1], target)
    BY <1>5, <1>6, <1>7
  <2>2. Remaining(1)[1] = span[1][pos[1] + 1]
    <3>1. 1 \in 1 .. Len(span[1]) - pos[1]
      BY <1>6, <1>7
    <3> QED
      BY <1>4, <3>1
  <2> QED
    BY <1>1, <1>7, <2>1, <2>2 DEF IsBelow, Value
<1>10. ASSUME NEW j \in pos[1] + 1 .. pos[1] + result
       PROVE  span[1][j] <= target
  <2> DEFINE n == j - pos[1] - 1
  <2>1. n \in 0 .. result - 1 /\ n + 1 \in 1 .. Len(span[1]) - pos[1] /\ pos[1] + (n + 1) = j
    BY <1>6
  <2> HIDE DEF n
  <2>2. Remaining(1)[n + 1] = span[1][j]
    BY <1>4, <2>1
  <2> QED
    BY <1>5, <2>1, <2>2 DEF IsBelow
<1>11. ASSUME pos'[1] < Len(span[1])
       PROVE  span[1][pos'[1] + 1] > target
  <2>1. result < Len(Remaining(1)) /\ result + 1 \in 1 .. Len(span[1]) - pos[1]
        /\ pos[1] + (result + 1) = pos'[1] + 1
    BY <1>6, <1>8, <1>11
  <2>2. Remaining(1)[result + 1] = span[1][pos'[1] + 1]
    BY <1>4, <2>1
  <2>3. span[1][pos'[1] + 1] \in Nat
    <3>1. pos'[1] + 1 \in 1 .. Len(span[1])
      BY <1>6, <1>8, <1>11
    <3> QED
      BY <1>4, <3>1, SentinelAssumption
  <2> QED
    BY <1>1, <1>5, <2>1, <2>2, <2>3 DEF IsBelow
<1>12. result \in 1 .. Len(span[1]) - pos[1]
  BY <1>6, <1>9
<1> QED
  BY <1>8, <1>10, <1>11, <1>12

LEMMA AdvancedKeeps ==
    ASSUME JoinInv, Advanced
    PROVE  JoinInv'
<1>1. JoinTypes /\ SearchInv /\ Idle /\ UNCHANGED <<side, span, target, behind, found>>
      /\ pc' = IF SomeEnd(pos') THEN "end" ELSE "align"
  BY DEF JoinInv, Searching, Advanced
<1>2. /\ pos' \in [1 .. 2 -> Nat] /\ pos'[1] = pos[1] + result
      /\ result \in 1 .. Len(span[1]) - pos[1]
      /\ pos'[2] \in {pos[2], pos[2] + 1} /\ pos[2] + 1 <= Len(span[2])
  BY AdvancedTo
<1>3. 1 \in 1 .. 2 /\ 2 \in 1 .. 2 /\ \A k \in 1 .. 2 : k = 1 \/ k = 2
  OBVIOUS
<1>4. pos[1] \in Nat /\ pos[2] \in Nat /\ Len(span[1]) \in Nat /\ Len(span[2]) \in Nat
  BY <1>1, <1>3, SpanOf
<1>5. pos'[1] <= Len(span[1]) /\ pos'[2] <= Len(span[2])
  BY <1>2, <1>4
<1>6. JoinTypes'
  BY <1>1, <1>2, <1>3, <1>5 DEF JoinTypes
<1>7. Searching'
  <2>1. SearchInv' /\ at' = "idle"
    BY <1>1, IdleKeeps DEF Idle
  <2> QED
    BY <1>1, <2>1 DEF Searching
<1>8. Positioned'
  BY <1>1 DEF Positioned, SomeEnd, Source
<1> QED
  BY <1>6, <1>7, <1>8 DEF JoinInv

LEMMA JoinStutter ==
    ASSUME JoinInv, UNCHANGED vars
    PROVE  JoinInv'
BY DEF vars, searching, JoinInv, JoinTypes, Searching, Positioned, SearchInv, SearchTypes,
       InBracket, Brackets, SearchExact, SortedSpan, Remaining, SomeEnd, Source, Value

LEMMA JoinNext ==
    ASSUME NoBlockSeek, JoinInv, [Next]_vars
    PROVE  JoinInv'
BY AlignKeeps, SoughtKeeps, AdvancedKeeps, SearchingKeeps, SeekKeeps, AdvanceKeeps, JoinStutter
   DEF Next, Terminated

(***************************************************************************)
(* Every search that narrows a bracket returns the exact bound, on every   *)
(* span an intersection may hand it: SearchExact, see search.h.            *)
(***************************************************************************)
THEOREM SearchesAreExact ==
    ASSUME NoBlockSeek
    PROVE  Spec => []SearchExact
<1>1. Init => JoinInv
  BY JoinInit
<1>2. JoinInv /\ [Next]_vars => JoinInv'
  BY JoinNext
<1>3. JoinInv => SearchExact
  BY DEF JoinInv, Searching, SearchInv
<1> QED
  BY <1>1, <1>2, <1>3, PTL DEF Spec

-----------------------------------------------------------------------------
(***************************************************************************)
(* What the intersection finds.  Left(v): the sources have v behind them,  *)
(* the next value to be found is larger.                                   *)
(***************************************************************************)
Left(v) ==
    /\ pc = "align" => \E k \in 1 .. 2 : v < Value(k)
    /\ pc = "seek" => v < target
    /\ pc \in {"found", "step"} => v <= target

After(d, p, c) == \E j \in p + 1 .. Len(d) : d[j] = c
Among(f, c) == \E n \in 1 .. Len(f) : f[n].value = c

PassedIsLeft == \A i \in 1 .. 2 : \A j \in 1 .. pos[i] : Left(span[i][j])
FoundIsLeft  == \A n \in 1 .. Len(found) : Left(found[n].value)
FoundAscend  == \A m, n \in 1 .. Len(found) : m < n => found[m].value < found[n].value
FoundInBoth  == \A n \in 1 .. Len(found) : \A i \in 1 .. 2 : After(span[i], 0, found[n].value)
FoundFirst   == \A n \in 1 .. Len(found) : \A i \in 1 .. 2 :
                    found[n].pos[i] = FirstNotBelow(span[i], "lower", found[n].value)
NothingMissed ==
    \A c \in Nat : (\A i \in 1 .. 2 : After(span[i], 0, c)) =>
        Among(found, c) \/ \A i \in 1 .. 2 : After(span[i], pos[i], c)

FoundInv ==
    /\ found \in Seq([value : Nat, pos : [1 .. 2 -> Nat]])
    /\ PassedIsLeft /\ FoundIsLeft /\ FoundAscend /\ FoundInBoth /\ FoundFirst
    /\ pc \in {"found", "step"} => Among(found, target)
    /\ NothingMissed

LEMMA FoundInit ==
    ASSUME Init, JoinInv
    PROVE  FoundInv
<1>1. found = <<>> /\ found \in Seq([value : Nat, pos : [1 .. 2 -> Nat]]) /\ Len(found) = 0
  BY EmptySeq DEF Init
<1>2. \A i \in 1 .. 2 : pos[i] = 0
  BY DEF Init
<1>3. pc \in {"align", "end"}
  BY DEF Init
<1>4. PassedIsLeft /\ NothingMissed
  BY <1>2 DEF PassedIsLeft, NothingMissed
<1> QED
  BY <1>1, <1>3, <1>4 DEF FoundInv, FoundIsLeft, FoundAscend, FoundInBoth, FoundFirst

(* Steps that neither move a source nor find a value.                      *)
LEMMA FoundUnmoved ==
    ASSUME FoundInv, UNCHANGED <<span, pos, target, found>>,
           pc' = pc \/ (pc = "found" /\ pc' = "step")
    PROVE  FoundInv'
<1>1. \A v : Left(v) => Left(v)'
  BY DEF Left, Value
<1>2. PassedIsLeft' /\ FoundIsLeft'
  BY <1>1 DEF FoundInv, PassedIsLeft, FoundIsLeft
<1>3. FoundAscend' /\ FoundInBoth' /\ FoundFirst' /\ NothingMissed'
  BY DEF FoundInv, FoundAscend, FoundInBoth, FoundFirst, NothingMissed
<1>4. pc' \in {"found", "step"} => Among(found', target')
  BY DEF FoundInv
<1> QED
  BY <1>2, <1>3, <1>4 DEF FoundInv

LEMMA ValuesLater ==
    ASSUME JoinTypes, NEW i \in 1 .. 2, pos[i] < Len(span[i]),
           NEW j \in pos[i] + 1 .. Len(span[i])
    PROVE  Value(i) <= span[i][j]
<1>1. /\ pos[i] \in Nat /\ Len(span[i]) \in Nat /\ DOMAIN span[i] = 1 .. Len(span[i])
      /\ \A m, n \in DOMAIN span[i] : m < n => span[i][m] <= span[i][n]
      /\ \A m \in 1 .. Len(span[i]) : span[i][m] \in Nat
  <2>1. /\ span[i] \in Seq(0 .. Sentinel - 1) /\ SortedSpan(span[i])
        /\ pos[i] \in Nat /\ \A m \in 1 .. Len(span[i]) : span[i][m] \in Nat
    BY SpanOf, SMTT(30)
  <2>2. Len(span[i]) \in Nat /\ DOMAIN span[i] = 1 .. Len(span[i])
    BY <2>1, SpanFacts
  <2> QED
    BY <2>1, <2>2 DEF SortedSpan
<1>2. pos[i] + 1 \in 1 .. Len(span[i]) /\ j \in 1 .. Len(span[i]) /\ (pos[i] + 1 < j \/ j = pos[i] + 1)
  BY <1>1
<1> QED
  BY <1>1, <1>2 DEF Value

LEMMA FoundAlign ==
    ASSUME JoinInv, FoundInv, Align
    PROVE  FoundInv'
<1>1. JoinTypes /\ pc = "align" /\ \A i \in 1 .. 2 : pos[i] < Len(span[i])
  BY NotEnded DEF JoinInv, Align, Positioned
<1>2. /\ target' \in {Value(1), Value(2)} /\ target' \in Nat
      /\ \A i \in 1 .. 2 : Value(i) \in Nat /\ Value(i) <= target'
      /\ behind' = {i \in 1 .. 2 : Value(i) < target'}
  BY <1>1, AlignKeeps, ValueIs DEF JoinInv, JoinTypes
<1>3. /\ UNCHANGED <<span, pos>>
      /\ pc' = IF behind' = {} THEN "found" ELSE "seek"
      /\ found' = IF behind' = {} THEN Append(found, [value |-> target', pos |-> pos]) ELSE found
  BY DEF Align
<1>4. ASSUME NEW v \in Nat, Left(v)
      PROVE  v < target' /\ Left(v)'
  <2>1. PICK k \in 1 .. 2 : v < Value(k)
    BY <1>1, <1>4 DEF Left
  <2>2. v < target'
    BY <1>2, <2>1
  <2> QED
    BY <1>2, <1>3, <2>2 DEF Left
<1>5. found \in Seq([value : Nat, pos : [1 .. 2 -> Nat]]) /\ Len(found) \in Nat
      /\ \A n \in 1 .. Len(found) : found[n].value \in Nat
  <2>1. found \in Seq([value : Nat, pos : [1 .. 2 -> Nat]])
    BY DEF FoundInv
  <2>2. Len(found) \in Nat /\ found \in [1 .. Len(found) -> [value : Nat, pos : [1 .. 2 -> Nat]]]
    BY <2>1, LenProperties
  <2>3. \A n \in 1 .. Len(found) : found[n] \in [value : Nat, pos : [1 .. 2 -> Nat]]
    BY <2>2
  <2> QED
    BY <2>1, <2>2, <2>3
<1>6. \A i \in 1 .. 2 : \A j \in 1 .. pos[i] :
          span[i][j] \in Nat /\ span[i][j] < target' /\ span[i][j] <= target'
  <2> SUFFICES ASSUME NEW i \in 1 .. 2, NEW j \in 1 .. pos[i]
               PROVE  span[i][j] \in Nat /\ span[i][j] < target' /\ span[i][j] <= target'
    OBVIOUS
  <2>1. pos[i] \in 0 .. Len(span[i]) /\ Len(span[i]) \in Nat
    BY <1>1, SpanOf
  <2>2. j \in 1 .. Len(span[i])
    BY <2>1
  <2>3. span[i][j] \in Nat
    BY <1>1, <2>2, SpanOf
  <2>4. Left(span[i][j])
    BY DEF FoundInv, PassedIsLeft
  <2>5. span[i][j] < target'
    BY <1>4, <2>3, <2>4
  <2> QED
    BY <1>2, <2>3, <2>5
<1>7. PassedIsLeft'
  <2>1. pc' \in {"found", "seek"} /\ span' = span /\ pos' = pos
    BY <1>3
  <2> QED
    BY <1>6, <2>1 DEF PassedIsLeft, Left
<1>8. CASE behind' # {}
  <2>1. found' = found /\ pc' = "seek"
    BY <1>3, <1>8
  <2>2. FoundIsLeft'
    BY <1>4, <1>5, <2>1 DEF FoundInv, FoundIsLeft, Left
  <2>3. FoundAscend' /\ FoundInBoth' /\ FoundFirst' /\ NothingMissed'
    BY <1>3, <2>1 DEF FoundInv, FoundAscend, FoundInBoth, FoundFirst, NothingMissed
  <2> QED
    BY <1>7, <2>1, <2>2, <2>3 DEF FoundInv
<1>9. CASE behind' = {}
  <2> DEFINE e == [value |-> target', pos |-> pos]
             l == Len(found)
  <2>1. pc' = "found" /\ found' = Append(found, e) /\ \A i \in 1 .. 2 : Value(i) = target'
    BY <1>2, <1>3, <1>9
  <2>2. e \in [value : Nat, pos : [1 .. 2 -> Nat]] /\ e.value = target' /\ e.pos = pos
    BY <1>1, <1>2 DEF JoinTypes
  <2> HIDE DEF e
  <2>3. /\ found' \in Seq([value : Nat, pos : [1 .. 2 -> Nat]])
        /\ Len(found') = l + 1 /\ l \in Nat /\ l = Len(found)
        /\ \A n \in 1 .. l : found'[n] = found[n]
        /\ found'[l + 1] = e
    BY <1>5, <2>1, <2>2, AppendProperties
  <2> HIDE DEF l
  <2>4. \A n \in 1 .. l + 1 : n \in 1 .. l \/ n = l + 1
    BY <2>3
  <2>5. \A n \in 1 .. l : found[n].value \in Nat /\ found[n].value < target'
    BY <1>4, <1>5 DEF FoundInv, FoundIsLeft, l
  <2>6. FoundIsLeft'
    <3>1. ASSUME NEW n \in 1 .. l + 1
          PROVE  found'[n].value <= target'
      <4>1. CASE n = l + 1
        BY <1>2, <2>2, <2>3, <4>1
      <4>2. CASE n \in 1 .. l
        <5>1. found'[n].value = found[n].value /\ found[n].value \in Nat /\ found[n].value < target'
          BY <2>3, <2>5, <4>2
        <5> QED
          BY <1>2, <5>1
      <4> QED
        BY <2>4, <4>1, <4>2
    <3> QED
      BY <2>1, <2>3, <3>1 DEF FoundIsLeft, Left
  <2>7. FoundAscend'
    <3> SUFFICES ASSUME NEW m \in 1 .. l + 1, NEW n \in 1 .. l + 1, m < n
                 PROVE  found'[m].value < found'[n].value
      BY <2>3 DEF FoundAscend
    <3>1. m \in 1 .. l
      BY <2>3
    <3>2. CASE n = l + 1
      BY <2>2, <2>3, <2>5, <3>1, <3>2
    <3>3. CASE n \in 1 .. l
      BY <2>3, <3>1, <3>3 DEF FoundInv, FoundAscend
    <3> QED
      BY <2>4, <3>2, <3>3
  <2>8. FoundInBoth'
    <3> SUFFICES ASSUME NEW n \in 1 .. l + 1, NEW i \in 1 .. 2
                 PROVE  After(span'[i], 0, found'[n].value)
      BY <2>3 DEF FoundInBoth
    <3>1. CASE n = l + 1
      <4>1. pos[i] \in 0 .. Len(span[i]) /\ Len(span[i]) \in Nat /\ pos[i] < Len(span[i])
        BY <1>1, SpanOf
      <4>2. pos[i] + 1 \in 0 + 1 .. Len(span[i]) /\ span[i][pos[i] + 1] = target'
        BY <2>1, <4>1 DEF Value
      <4>3. After(span[i], 0, target')
        BY <4>2 DEF After
      <4> QED
        BY <1>3, <2>2, <2>3, <3>1, <4>3
    <3>2. CASE n \in 1 .. l
      BY <1>3, <2>3, <3>2 DEF FoundInv, FoundInBoth
    <3> QED
      BY <2>4, <3>1, <3>2
  <2>9. FoundFirst'
    <3> SUFFICES ASSUME NEW n \in 1 .. l + 1, NEW i \in 1 .. 2
                 PROVE  found'[n].pos[i] = FirstNotBelow(span'[i], "lower", found'[n].value)
      BY <2>3 DEF FoundFirst
    <3>1. CASE n = l + 1
      <4>1. /\ span[i] \in [1 .. Len(span[i]) -> Nat] /\ Len(span[i]) \in Nat
            /\ pos[i] \in 0 .. Len(span[i])
        BY <1>1, SpanOf
      <4>2. \A j \in 0 .. pos[i] - 1 : span[i][j + 1] < target'
        BY <1>6, <4>1
      <4>3. span[i][pos[i] + 1] >= target'
        BY <1>2, <2>1 DEF Value
      <4>4. FirstNotBelow(span[i], "lower", target') = pos[i]
        BY <1>2, <4>1, <4>2, <4>3, BoundIs
      <4> QED
        BY <1>3, <2>2, <2>3, <3>1, <4>4
    <3>2. CASE n \in 1 .. l
      BY <1>3, <2>3, <3>2 DEF FoundInv, FoundFirst
    <3> QED
      BY <2>4, <3>1, <3>2
  <2>10. \A c : Among(found, c) => Among(found', c)
    <3> SUFFICES ASSUME NEW c, NEW n \in 1 .. l, found[n].value = c
                 PROVE  Among(found', c)
      BY <2>3 DEF Among
    <3>1. n \in 1 .. Len(found')
      BY <2>3
    <3>2. found'[n] = found[n]
      BY <2>3
    <3>3. found'[n].value = c
      BY <3>2
    <3> QED
      BY <3>1, <3>3 DEF Among
  <2>11. Among(found', target')
    <3>1. l + 1 \in 1 .. Len(found')
      BY <2>3
    <3> QED
      BY <2>2, <2>3, <3>1 DEF Among
  <2>12. NothingMissed'
    BY <1>3, <2>10 DEF FoundInv, NothingMissed
  <2> QED
    BY <1>7, <2>3, <2>6, <2>7, <2>8, <2>9, <2>11, <2>12 DEF FoundInv
<1> QED
  BY <1>8, <1>9

LEMMA FoundSought ==
    ASSUME JoinInv, FoundInv, Sought
    PROVE  FoundInv'
<1> DEFINE i == Min(behind)
<1>1. /\ JoinTypes /\ pc = "seek" /\ UNCHANGED <<span, target, found>>
      /\ pc' \in {"seek", "align", "end"} /\ target \in Nat
  BY DEF JoinInv, JoinTypes, Sought
<1>2. /\ i \in behind /\ i \in 1 .. 2
      /\ pos' = [pos EXCEPT ![i] = pos[i] + result]
      /\ result \in 0 .. Len(span[i]) - pos[i]
      /\ \A j \in pos[i] + 1 .. pos[i] + result : span[i][j] < target
  BY SoughtTo
<1> HIDE DEF i
<1>3. PICK k \in (1 .. 2) \ behind : pos[k] < Len(span[k]) /\ Value(k) = target
  BY <1>1 DEF JoinInv, Positioned
<1>4. k # i /\ pos'[k] = pos[k] /\ pos'[i] = pos[i] + result /\ \A x \in 1 .. 2 : x = k \/ x = i
  BY <1>1, <1>2, <1>3 DEF JoinTypes
<1>5. Value(k)' = target
  BY <1>1, <1>3, <1>4 DEF Value
<1>6. ASSUME NEW v, v < target
      PROVE  Left(v)'
  BY <1>1, <1>3, <1>5, <1>6 DEF Left
<1>7. /\ pos[i] \in Nat /\ pos[k] \in Nat /\ result \in Nat
      /\ Len(span[i]) \in Nat /\ Len(span[k]) \in Nat
  <2>1. /\ pos[i] \in Nat /\ pos[k] \in Nat
        /\ Len(span[i]) \in Nat /\ Len(span[k]) \in Nat
    BY <1>1, <1>2, <1>3, SpanOf, SMTT(30)
  <2> QED
    BY <1>2, <2>1
<1>8. \A x \in 1 .. 2 : \A j \in 1 .. pos'[x] : span[x][j] < target
  <2> SUFFICES ASSUME NEW x \in 1 .. 2, NEW j \in 1 .. pos'[x]
               PROVE  span[x][j] < target
    OBVIOUS
  <2>1. ASSUME j \in 1 .. pos[x]
        PROVE  span[x][j] < target
    BY <1>1, <2>1 DEF FoundInv, PassedIsLeft, Left
  <2>2. CASE x = k
    BY <1>4, <2>1, <2>2
  <2>3. CASE x = i
    <3>1. j \in 1 .. pos[i] \/ j \in pos[i] + 1 .. pos[i] + result
      BY <1>4, <1>7, <2>3
    <3> QED
      BY <1>2, <2>1, <2>3, <3>1
  <2> QED
    BY <1>4, <2>2, <2>3
<1>9. PassedIsLeft'
  <2> SUFFICES ASSUME NEW x \in 1 .. 2, NEW j \in 1 .. pos'[x]
               PROVE  Left(span[x][j])'
    BY <1>1 DEF PassedIsLeft, Left
  <2>1. span[x][j] < target /\ span'[x][j] = span[x][j]
    BY <1>1, <1>8
  <2> QED
    BY <1>1, <1>3, <1>5, <2>1 DEF Left
<1>10. FoundIsLeft'
  <2>1. \A n \in 1 .. Len(found) : found[n].value < target
    BY <1>1 DEF FoundInv, FoundIsLeft, Left
  <2> QED
    BY <1>1, <1>3, <1>5, <2>1 DEF FoundIsLeft, Left
<1>11. NothingMissed'
  <2> SUFFICES ASSUME NEW c \in Nat, \A x \in 1 .. 2 : After(span[x], 0, c), ~Among(found, c)
               PROVE  \A x \in 1 .. 2 : After(span[x], pos'[x], c)
    BY <1>1 DEF NothingMissed
  <2>1. \A x \in 1 .. 2 : After(span[x], pos[x], c)
    BY DEF FoundInv, NothingMissed
  <2>2. target <= c
    <3>1. PICK j \in pos[k] + 1 .. Len(span[k]) : span[k][j] = c
      BY <1>3, <2>1 DEF After
    <3> QED
      BY <1>1, <1>3, <3>1, ValuesLater
  <2>3. After(span[i], pos'[i], c)
    <3>1. PICK j \in pos[i] + 1 .. Len(span[i]) : span[i][j] = c
      BY <1>2, <2>1 DEF After
    <3>2. j \notin pos[i] + 1 .. pos[i] + result
      BY <1>1, <1>2, <2>2, <3>1
    <3>3. j \in pos'[i] + 1 .. Len(span[i])
      BY <1>4, <1>7, <3>2
    <3> QED
      BY <3>1, <3>3 DEF After
  <2> QED
    BY <1>4, <2>1, <2>3
<1>12. FoundAscend' /\ FoundInBoth' /\ FoundFirst'
  BY <1>1 DEF FoundInv, FoundAscend, FoundInBoth, FoundFirst
<1> QED
  BY <1>1, <1>9, <1>10, <1>11, <1>12 DEF FoundInv

LEMMA FoundAdvanced ==
    ASSUME JoinInv, FoundInv, Advanced
    PROVE  FoundInv'
<1>1. /\ JoinTypes /\ pc = "step" /\ UNCHANGED <<side, span, target, found>>
      /\ pc' = IF SomeEnd(pos') THEN "end" ELSE "align"
      /\ target \in Nat /\ Among(found, target)
  BY DEF JoinInv, JoinTypes, Advanced, FoundInv
<1>2. /\ pos' \in [1 .. 2 -> Nat]
      /\ pos'[1] = pos[1] + result
      /\ result \in 1 .. Len(span[1]) - pos[1]
      /\ \A j \in pos[1] + 1 .. pos'[1] : span[1][j] <= target
      /\ pos'[1] < Len(span[1]) => span[1][pos'[1] + 1] > target
      /\ pos'[2] \in {pos[2], pos[2] + 1} /\ pos[2] + 1 <= Len(span[2])
  BY AdvancedTo
<1>3. 1 \in 1 .. 2 /\ 2 \in 1 .. 2 /\ \A x \in 1 .. 2 : x = 1 \/ x = 2
  OBVIOUS
<1>4. /\ pos[1] < Len(span[1]) /\ pos[2] < Len(span[2])
      /\ Value(1) = target /\ Value(2) = target
  BY <1>1, <1>3, NotEnded DEF JoinInv, Positioned
<1>5. /\ pos[1] \in Nat /\ pos[2] \in Nat /\ result \in Nat
      /\ Len(span[1]) \in Nat /\ Len(span[2]) \in Nat
      /\ \A x \in 1 .. 2 : \A j \in 1 .. Len(span[x]) : span[x][j] \in Nat
  BY <1>1, <1>2, <1>3, SpanOf
<1>6. pc' = "align" => Value(1)' > target /\ Value(1)' \in Nat
  <2> SUFFICES ASSUME pc' = "align"
               PROVE  Value(1)' > target /\ Value(1)' \in Nat
    OBVIOUS
  <2>1. JoinTypes' /\ ~SomeEnd(pos)'
    BY AdvancedKeeps DEF JoinInv, Positioned
  <2>2. pos'[1] < Len(span'[1])
    <3>1. Source' = 1 .. 2
      BY <2>1 DEF JoinTypes, Source
    <3>2. ~(pos'[1] >= Len(span'[1]))
      BY <1>3, <2>1, <3>1 DEF SomeEnd
    <3> QED
      BY <1>1, <1>2, <1>5, <3>2
  <2>3. pos'[1] + 1 \in 1 .. Len(span[1])
    <3>1. pos'[1] \in Nat /\ pos'[1] < Len(span[1]) /\ Len(span[1]) \in Nat
      BY <1>1, <1>2, <1>5, <2>2, SMTT(30)
    <3> QED
      BY <3>1
  <2>4. Value(1)' = span[1][pos'[1] + 1]
    BY <1>1 DEF Value
  <2> QED
    BY <1>1, <1>2, <1>3, <1>5, <2>2, <2>3, <2>4
<1>7. ASSUME NEW v \in Nat, v <= target
      PROVE  pc' = "align" => \E x \in 1 .. 2 : v < Value(x)'
  BY <1>1, <1>3, <1>6, <1>7
<1>8. \A x \in 1 .. 2 : \A j \in 1 .. pos'[x] : span[x][j] \in Nat /\ span[x][j] <= target
  <2> SUFFICES ASSUME NEW x \in 1 .. 2, NEW j \in 1 .. pos'[x]
               PROVE  span[x][j] \in Nat /\ span[x][j] <= target
    OBVIOUS
  <2>1. ASSUME j \in 1 .. pos[x]
        PROVE  span[x][j] <= target
    BY <1>1, <2>1 DEF FoundInv, PassedIsLeft, Left
  <2>2. CASE x = 1
    <3>1. j \in 1 .. Len(span[1]) /\ (j \in 1 .. pos[1] \/ j \in pos[1] + 1 .. pos'[1])
      BY <1>2, <1>5, <2>2
    <3> QED
      BY <1>2, <1>5, <2>1, <2>2, <3>1
  <2>3. CASE x = 2
    <3>1. j \in 1 .. Len(span[2]) /\ (j \in 1 .. pos[2] \/ j = pos[2] + 1)
      BY <1>2, <1>5, <2>3
    <3>2. span[2][pos[2] + 1] = target
      BY <1>4 DEF Value
    <3> QED
      BY <1>1, <1>5, <2>1, <2>3, <3>1, <3>2
  <2> QED
    BY <1>3, <2>2, <2>3
<1>9. PassedIsLeft'
  <2> SUFFICES ASSUME NEW x \in 1 .. 2, NEW j \in 1 .. pos'[x]
               PROVE  pc' = "align" => \E y \in 1 .. 2 : span'[x][j] < Value(y)'
    BY <1>1 DEF PassedIsLeft, Left
  <2>1. span'[x][j] = span[x][j]
    BY <1>1
  <2> QED
    BY <1>7, <1>8, <2>1
<1>10. FoundIsLeft'
  <2> SUFFICES ASSUME NEW n \in 1 .. Len(found)
               PROVE  pc' = "align" => \E y \in 1 .. 2 : found'[n].value < Value(y)'
    BY <1>1 DEF FoundIsLeft, Left
  <2>1. found'[n].value = found[n].value /\ found[n].value <= target
    BY <1>1 DEF FoundInv, FoundIsLeft, Left
  <2>2. found[n].value \in Nat
    <3>1. found[n] \in [value : Nat, pos : [1 .. 2 -> Nat]]
      BY ElementOfSeq DEF FoundInv
    <3> QED
      BY <3>1
  <2> QED
    BY <1>7, <2>1, <2>2
<1>11. NothingMissed'
  <2> SUFFICES ASSUME NEW c \in Nat, \A x \in 1 .. 2 : After(span[x], 0, c), ~Among(found, c)
               PROVE  \A x \in 1 .. 2 : After(span[x], pos'[x], c)
    BY <1>1 DEF NothingMissed
  <2>1. \A x \in 1 .. 2 : After(span[x], pos[x], c)
    BY DEF FoundInv, NothingMissed
  <2>2. c # target
    BY <1>1
  <2>3. After(span[1], pos'[1], c)
    <3>1. PICK j \in pos[1] + 1 .. Len(span[1]) : span[1][j] = c
      BY <1>3, <2>1 DEF After
    <3>2. target <= c
      BY <1>1, <1>3, <1>4, <3>1, ValuesLater
    <3>3. j \notin pos[1] + 1 .. pos'[1]
      BY <1>1, <1>2, <2>2, <3>1, <3>2
    <3>4. j \in pos'[1] + 1 .. Len(span[1])
      BY <1>2, <1>5, <3>3
    <3> QED
      BY <3>1, <3>4 DEF After
  <2>4. After(span[2], pos'[2], c)
    <3>1. PICK j \in pos[2] + 1 .. Len(span[2]) : span[2][j] = c
      BY <1>3, <2>1 DEF After
    <3>2. j # pos[2] + 1
      BY <1>4, <2>2, <3>1 DEF Value
    <3>3. j \in pos'[2] + 1 .. Len(span[2])
      BY <1>2, <1>5, <3>2
    <3> QED
      BY <3>1, <3>3 DEF After
  <2> QED
    BY <1>3, <2>3, <2>4
<1>12. FoundAscend' /\ FoundInBoth' /\ FoundFirst'
  BY <1>1 DEF FoundInv, FoundAscend, FoundInBoth, FoundFirst
<1>13. pc' \notin {"found", "step"}
  BY <1>1
<1> QED
  BY <1>1, <1>9, <1>10, <1>11, <1>12, <1>13 DEF FoundInv

LEMMA FoundNext ==
    ASSUME JoinInv, FoundInv, [Next]_vars
    PROVE  FoundInv'
<1>1. ASSUME NEW h, Seek(h)
      PROVE  FoundInv'
  BY <1>1, FoundUnmoved DEF Seek
<1>2. ASSUME NEW h, Advance(h)
      PROVE  FoundInv'
  BY <1>2, FoundUnmoved DEF Advance
<1>3. CASE Search
  BY <1>3, FoundUnmoved DEF Search
<1>4. CASE UNCHANGED vars
  BY <1>4, FoundUnmoved DEF vars
<1> QED
  BY <1>1, <1>2, <1>3, <1>4, FoundAlign, FoundSought, FoundAdvanced DEF Next, Terminated

LEMMA FoundImplies ==
    ASSUME JoinInv, FoundInv
    PROVE  FindsCommonOnce /\ PositionsAreFirst
<1>1. JoinTypes /\ Source = 1 .. 2 /\ Len(found) \in Nat /\ DOMAIN found = 1 .. Len(found)
      /\ \A n \in 1 .. Len(found) : found[n] \in [value : Nat, pos : [1 .. 2 -> Nat]]
  BY NotEnded, LenProperties, ElementOfSeq DEF JoinInv, FoundInv
<1>2. PositionsAreFirst
  BY <1>1 DEF PositionsAreFirst, FoundInv, FoundFirst
<1>3. \A x \in 1 .. 2 : DOMAIN span[x] = 1 .. Len(span[x]) /\ Len(span[x]) \in Nat
                        /\ \A j \in 1 .. Len(span[x]) : span[x][j] \in Nat
  BY <1>1, SpanOf, SpanFacts
<1>4. 1 \in 1 .. 2 /\ 2 \in 1 .. 2 /\ \A x \in 1 .. 2 : x = 1 \/ x = 2
  OBVIOUS
<1>5. \A c : c \in Common <=> c \in Nat /\ \A x \in 1 .. 2 : After(span[x], 0, c)
  <2>1. \A x \in 1 .. 2 : \A c : c \in ToSet(span[x]) <=> \E j \in 1 .. Len(span[x]) : span[x][j] = c
    BY <1>3 DEF ToSet
  <2>2. ASSUME NEW x \in 1 .. 2, NEW c
        PROVE  c \in ToSet(span[x]) <=> c \in Nat /\ After(span[x], 0, c)
    <3>1. c \in ToSet(span[x]) <=> \E j \in 1 .. Len(span[x]) : span[x][j] = c
      BY <2>1
    <3>2. \A j \in 1 .. Len(span[x]) : span[x][j] \in Nat
      BY <1>3
    <3>3. 0 + 1 = 1
      OBVIOUS
    <3>4. After(span[x], 0, c) <=> \E j \in 1 .. Len(span[x]) : span[x][j] = c
      BY <3>3, Zenon DEF After
    <3> QED
      BY <3>1, <3>2, <3>4
  <2> QED
    BY <1>4, <2>2 DEF Common
<1>6. \A c : c \in ToSet(FoundValues) <=> Among(found, c)
  BY <1>1 DEF ToSet, FoundValues, Among
<1>7. ToSet(FoundValues) \subseteq Common
  <2> SUFFICES ASSUME NEW n \in 1 .. Len(found)
               PROVE  found[n].value \in Common
    BY <1>6 DEF Among
  <2> QED
    BY <1>1, <1>5 DEF FoundInv, FoundInBoth
<1>8. pc = "end" => Common \subseteq ToSet(FoundValues)
  <2> SUFFICES ASSUME pc = "end", NEW c \in Common, ~Among(found, c)
               PROVE  FALSE
    BY <1>6
  <2>1. \A x \in 1 .. 2 : After(span[x], pos[x], c)
    BY <1>5 DEF FoundInv, NothingMissed
  <2>2. PICK x \in 1 .. 2 : pos[x] >= Len(span[x])
    BY <1>1 DEF JoinInv, Positioned, SomeEnd
  <2>3. pos[x] \in Nat /\ Len(span[x]) \in Nat
    BY <1>1, <1>3, SpanOf
  <2>4. PICK j \in pos[x] + 1 .. Len(span[x]) : TRUE
    BY <2>1 DEF After
  <2> QED
    BY <2>2, <2>3, <2>4
<1>9. \A m, n \in DOMAIN found : m < n => found[m].value < found[n].value
  BY <1>1 DEF FoundInv, FoundAscend
<1>10. FindsCommonOnce
  BY <1>7, <1>8, <1>9 DEF FindsCommonOnce
<1> QED
  BY <1>2, <1>10

(***************************************************************************)
(* The intersection meets every common value, once and in ascending order: *)
(* FindsCommonOnce.                                                        *)
(***************************************************************************)
THEOREM IntersectionIsExact ==
    ASSUME NoBlockSeek
    PROVE  Spec => []FindsCommonOnce
<1>1. Init => JoinInv /\ FoundInv
  BY JoinInit, FoundInit
<1>2. JoinInv /\ FoundInv /\ [Next]_vars => (JoinInv /\ FoundInv)'
  BY JoinNext, FoundNext
<1>3. JoinInv /\ FoundInv => FindsCommonOnce
  BY FoundImplies
<1> QED
  BY <1>1, <1>2, <1>3, PTL DEF Spec

(***************************************************************************)
(* The positions reported with a value are those of its first rows:        *)
(* PositionsAreFirst.                                                      *)
(***************************************************************************)
THEOREM FirstRowsReported ==
    ASSUME NoBlockSeek
    PROVE  Spec => []PositionsAreFirst
<1>1. Init => JoinInv /\ FoundInv
  BY JoinInit, FoundInit
<1>2. JoinInv /\ FoundInv /\ [Next]_vars => (JoinInv /\ FoundInv)'
  BY JoinNext, FoundNext
<1>3. JoinInv /\ FoundInv => PositionsAreFirst
  BY FoundImplies
<1> QED
  BY <1>1, <1>2, <1>3, PTL DEF Spec
=============================================================================
