------------------------- MODULE OutputBuffers_proofs -------------------------
(***************************************************************************)
(* The counting and the writing kernels of a parallel group agree.         *)
(*                                                                         *)
(* A match of pipeline q is a pair <<q, i>>.  The counting kernel turns    *)
(* the slots of a buffer into a layout of its matches: what a slot holds   *)
(* after the scan is the number of matches that belong to earlier slots    *)
(* (Scanned).  With the sizes of the relations and of the blocks of other  *)
(* pipelines added, it is the number of matches of all that the relation   *)
(* receives ahead of a thread (RowsAhead), so the threads' rows lie side   *)
(* by side (Laid).                                                         *)
(***************************************************************************)
EXTENDS OutputBuffers, SequenceTheorems, FiniteSetTheorems, WellFoundedInduction, TLAPS

-----------------------------------------------------------------------------
(***************************************************************************)
(* Counting                                                                *)
(***************************************************************************)

(* There are m numbers from one to m.                                      *)
LEMMA CountUpTo ==
    ASSUME NEW m \in Nat
    PROVE  IsFiniteSet(1 .. m) /\ Cardinality(1 .. m) = m
<1>1. IsFiniteSet(1 .. m) /\ Cardinality(1 .. m) = IF 1 > m THEN 0 ELSE m - 1 + 1
  BY FS_Interval
<1> QED
  BY <1>1

(* A set of numbers below n that is not empty has a least element.         *)
LEMMA LeastExists ==
    ASSUME NEW n \in Nat, NEW S \in SUBSET (0 .. n - 1), S # {}
    PROVE  \E m \in S : \A k \in S : m <= k
<1> DEFINE R == {ss \in Nat \X Nat : ss[1] < ss[2]}
<1>1. IsWellFoundedOn(R, Nat)
  BY NatLessThanWellFounded DEF OpToRel
<1>2. S \subseteq Nat
  OBVIOUS
<1>3. PICK m \in S : \A k \in S : <<k, m>> \notin R
  <2> HIDE DEF R
  <2> QED
    BY <1>1, <1>2, WFMin
<1>4. ASSUME NEW k \in S
      PROVE  m <= k
  <2>1. <<k, m>> \notin R /\ k \in Nat /\ m \in Nat
    BY <1>2, <1>3
  <2>2. ~(k < m)
    BY <2>1
  <2> QED
    BY <2>1, <2>2
<1> QED
  BY <1>4

(* A finite set as a sequence has the elements of the set, each once.       *)
LEMMA ElementsInSequence ==
    ASSUME NEW S, IsFiniteSet(S)
    PROVE  /\ SetToSeq(S) \in Seq(S) /\ Len(SetToSeq(S)) = Cardinality(S)
           /\ \A i \in DOMAIN SetToSeq(S) : SetToSeq(S)[i] \in S
           /\ \A x \in S : \E i \in DOMAIN SetToSeq(S) : SetToSeq(S)[i] = x
<1> DEFINE n == Cardinality(S)
           f == SetToSeq(S)
<1>1. n \in Nat
  BY FS_CardinalityType
<1>2. IsFiniteSet(1 .. n) /\ Cardinality(1 .. n) = n
  BY <1>1, FS_Interval
<1>3. PICK g : g \in Bijection(1 .. n, S)
  BY <1>2, FS_SameCardinalityBij DEF ExistsBijection
<1>4. g \in [1 .. n -> S] /\ IsInjective(g)
  BY <1>3 DEF Bijection, Injection, IsInjective
<1>5. f \in [1 .. n -> S] /\ IsInjective(f)
  BY <1>4 DEF SetToSeq
<1>6. f \in Injection(1 .. n, S)
  BY <1>5 DEF Injection, IsInjective
<1>7. f \in Surjection(1 .. n, S)
  BY <1>2, <1>6, FS_Injection
<1> HIDE DEF f, n
<1>8. f \in Seq(S) /\ Len(f) = n
  BY <1>1, <1>5
<1> QED
  BY <1>5, <1>7, <1>8 DEF Surjection, f, n

(***************************************************************************)
(* Piles: sets F[w], one for each w in W, that have nothing in common      *)
(***************************************************************************)
Pile(F, W) == UNION {F[w] : w \in W}
Counters(n, W) == UNION {{w} \X (1 .. n[w]) : w \in W}

(* Counters for the members of each set are as many as the members of all. *)
LEMMA CountersCount ==
    ASSUME NEW W, NEW F, NEW n, IsFiniteSet(Pile(F, W)),
           \A v, w \in W : v # w => F[v] \cap F[w] = {},
           \A w \in W : n[w] = Cardinality(F[w])
    PROVE  Cardinality(Counters(n, W)) = Cardinality(Pile(F, W))
<1> DEFINE A == Pile(F, W)
           P == Counters(n, W)
           e == [w \in W |-> CHOOSE g : g \in Bijection(1 .. n[w], F[w])]
           h == [y \in P |-> e[y[1]][y[2]]]
<1>1. ASSUME NEW w \in W
      PROVE  e[w] \in Bijection(1 .. n[w], F[w])
  <2>1. IsFiniteSet(F[w])
    BY FS_Subset DEF Pile
  <2>2. \E g : g \in Bijection(1 .. n[w], F[w])
    BY <2>1, FS_CardinalityType DEF ExistsBijection
  <2> QED
    BY <2>2
<1>2. ASSUME NEW w \in W
      PROVE  /\ \A i \in 1 .. n[w] : e[w][i] \in F[w]
             /\ \A i, j \in 1 .. n[w] : e[w][i] = e[w][j] => i = j
             /\ \A x \in F[w] : \E i \in 1 .. n[w] : e[w][i] = x
  <2> HIDE DEF e
  <2>1. /\ e[w] \in [1 .. n[w] -> F[w]] /\ IsInjective(e[w])
        /\ \A x \in F[w] : \E i \in 1 .. n[w] : e[w][i] = x
    BY <1>1 DEF Bijection, Injection, Surjection
  <2> DEFINE g == e[w]
  <2>2. /\ g \in [1 .. n[w] -> F[w]] /\ IsInjective(g)
        /\ \A x \in F[w] : \E i \in 1 .. n[w] : g[i] = x
    BY <2>1
  <2> HIDE DEF g
  <2>3. /\ \A i \in 1 .. n[w] : g[i] \in F[w]
        /\ \A i, j \in 1 .. n[w] : g[i] = g[j] => i = j
        /\ \A x \in F[w] : \E i \in 1 .. n[w] : g[i] = x
    BY <2>2 DEF IsInjective
  <2> QED
    BY <2>3 DEF g
<1> HIDE DEF e
<1>3. \A y : y \in P <=> \E w \in W : \E i \in 1 .. n[w] : y = <<w, i>>
  BY DEF Counters
<1>4. \A x : x \in A <=> \E w \in W : x \in F[w]
  BY DEF Pile
<1> HIDE DEF A, P
<1>5. \A w \in W : \A i \in 1 .. n[w] : <<w, i>> \in P /\ h[<<w, i>>] = e[w][i]
  BY <1>3
<1>6. h \in [P -> A]
  <2>1. \A y \in P : e[y[1]][y[2]] \in A
    BY <1>2, <1>3, <1>4
  <2> QED
    BY <2>1
<1>7. DOMAIN h = P
  OBVIOUS
<1> HIDE DEF h
<1>8. ASSUME NEW y \in P, NEW z \in P, h[y] = h[z]
      PROVE  y = z
  <2>a. PICK w \in W : \E i \in 1 .. n[w] : y = <<w, i>>
    BY <1>3
  <2>1. PICK i \in 1 .. n[w] : y = <<w, i>>
    BY <2>a
  <2>b. PICK v \in W : \E j \in 1 .. n[v] : z = <<v, j>>
    BY <1>3
  <2>2. PICK j \in 1 .. n[v] : z = <<v, j>>
    BY <2>b
  <2>3. e[w][i] = e[v][j] /\ e[w][i] \in F[w] /\ e[v][j] \in F[v]
    BY <1>2, <1>5, <1>8, <2>1, <2>2
  <2>4. w = v
    BY <2>3
  <2> QED
    BY <1>2, <2>1, <2>2, <2>3, <2>4
<1>9. \A x \in A : \E y \in P : h[y] = x
  <2> SUFFICES ASSUME NEW x \in A
               PROVE  \E y \in P : h[y] = x
    OBVIOUS
  <2>1. PICK w \in W : x \in F[w]
    BY <1>4
  <2>2. PICK i \in 1 .. n[w] : e[w][i] = x
    BY <1>2, <2>1
  <2> QED
    BY <1>5, <2>2
<1>10. h \in Injection(P, A)
  BY <1>6, <1>7, <1>8 DEF Injection, IsInjective
<1>11. h \in Surjection(P, A)
  BY <1>6, <1>9 DEF Surjection
<1>12. IsFiniteSet(P)
  BY <1>10, FS_Injection DEF A
<1>13. ExistsBijection(P, A)
  BY <1>10, <1>11 DEF ExistsBijection, Bijection
<1> QED
  BY <1>12, <1>13, FS_Bijection DEF A, P

(* Two finite sets apart count together.                                   *)
LEMMA CountApart ==
    ASSUME NEW S, IsFiniteSet(S), NEW T, IsFiniteSet(T), S \cap T = {}
    PROVE  /\ IsFiniteSet(S \cup T)
           /\ Cardinality(S \cup T) = Cardinality(S) + Cardinality(T)
           /\ Cardinality(S) \in Nat /\ Cardinality(T) \in Nat
<1>1. Cardinality({}) = 0
  BY FS_EmptySet
<1>2. Cardinality(S) \in Nat /\ Cardinality(T) \in Nat
  BY FS_CardinalityType
<1>3. /\ IsFiniteSet(S \cup T)
      /\ Cardinality(S \cup T) = Cardinality(S) + Cardinality(T) - Cardinality(S \cap T)
  BY FS_Union
<1>4. Cardinality(S \cap T) = 0
  BY <1>1
<1> QED
  BY <1>2, <1>3, <1>4

(* The places of the members of F[w] when the piles are laid out one after *)
(* the other, and Pre[w] are those before w: from the first place on, they *)
(* are filled without a gap, and each by one pile.                         *)
Places(F, Pre, w) ==
    Cardinality(Pile(F, Pre[w])) + 1 .. Cardinality(Pile(F, Pre[w])) + Cardinality(F[w])

LEMMA LaidOut ==
    ASSUME NEW W, NEW F, NEW Pre, IsFiniteSet(Pile(F, W)),
           \A v, w \in W : v # w => F[v] \cap F[w] = {},
           \A w \in W : Pre[w] \subseteq W /\ w \notin Pre[w],
           \A v, w \in W : v # w => \/ v \in Pre[w] /\ Pre[v] \subseteq Pre[w]
                                    \/ w \in Pre[v] /\ Pre[w] \subseteq Pre[v]
    PROVE  /\ \A v, w \in W : v # w => Places(F, Pre, v) \cap Places(F, Pre, w) = {}
           /\ \A v, w \in W : v \in Pre[w] /\ Pre[v] \subseteq Pre[w] =>
                 Cardinality(Pile(F, Pre[v])) + Cardinality(F[v]) <= Cardinality(Pile(F, Pre[w]))
           /\ UNION {Places(F, Pre, w) : w \in W} = 1 .. Cardinality(Pile(F, W))
           /\ \A w \in W : IsFiniteSet(F[w]) /\ Cardinality(F[w]) \in Nat
           /\ \A w \in W : Cardinality(Pile(F, Pre[w])) \in Nat
           /\ Cardinality(Pile(F, W)) \in Nat
<1> DEFINE B(w) == Pile(F, Pre[w])
           A == Pile(F, W)
           N == Cardinality(A)
<1>1. N \in Nat
  BY FS_CardinalityType
<1>2. ASSUME NEW w \in W
      PROVE  /\ F[w] \subseteq A /\ B(w) \subseteq A /\ F[w] \cap B(w) = {}
             /\ F[w] \cup B(w) \subseteq A
             /\ IsFiniteSet(F[w]) /\ IsFiniteSet(B(w))
  <2>1. F[w] \subseteq A /\ B(w) \subseteq A
    BY DEF Pile
  <2>2. F[w] \cap B(w) = {}
    BY DEF Pile
  <2> HIDE DEF A, B
  <2> QED
    BY <2>1, <2>2, FS_Subset DEF A
<1>3. ASSUME NEW w \in W
      PROVE  /\ Cardinality(F[w]) \in Nat /\ Cardinality(B(w)) \in Nat
             /\ Cardinality(F[w] \cup B(w)) = Cardinality(F[w]) + Cardinality(B(w))
             /\ Cardinality(F[w]) + Cardinality(B(w)) <= N
  <2> HIDE DEF A, B
  <2>1. /\ Cardinality(F[w]) \in Nat /\ Cardinality(B(w)) \in Nat
        /\ Cardinality(F[w] \cup B(w)) = Cardinality(F[w]) + Cardinality(B(w))
    BY <1>2, CountApart
  <2>2. Cardinality(F[w] \cup B(w)) <= N
    BY <1>2, FS_Subset DEF A
  <2> QED
    BY <2>1, <2>2
<1>4. ASSUME NEW v \in W, NEW w \in W, v \in Pre[w], Pre[v] \subseteq Pre[w]
      PROVE  Cardinality(B(v)) + Cardinality(F[v]) <= Cardinality(B(w))
  <2>1. F[v] \cup B(v) \subseteq B(w)
    BY <1>4 DEF Pile
  <2> HIDE DEF A, B
  <2>2. Cardinality(F[v] \cup B(v)) <= Cardinality(B(w))
    BY <1>2, <2>1, FS_Subset
  <2> QED
    BY <1>3, <2>2
<1>5. ASSUME NEW v \in W, NEW w \in W, v # w
      PROVE  Places(F, Pre, v) \cap Places(F, Pre, w) = {}
  <2> DEFINE bv == Cardinality(B(v))
             bw == Cardinality(B(w))
             fv == Cardinality(F[v])
             fw == Cardinality(F[w])
  <2>1. bv \in Nat /\ bw \in Nat /\ fv \in Nat /\ fw \in Nat
    BY <1>3
  <2>2. bv + fv <= bw \/ bw + fw <= bv
    BY <1>4, <1>5
  <2>3. Places(F, Pre, v) = bv + 1 .. bv + fv /\ Places(F, Pre, w) = bw + 1 .. bw + fw
    BY DEF Places
  <2> HIDE DEF bv, bw, fv, fw
  <2> QED
    BY <2>1, <2>2, <2>3
<1>6. UNION {Places(F, Pre, w) : w \in W} = 1 .. N
  <2> DEFINE G == [w \in W |-> Places(F, Pre, w)]
             n == [w \in W |-> Cardinality(F[w])]
  <2>1. Pile(G, W) \subseteq 1 .. N
    <3>1. ASSUME NEW w \in W
          PROVE  Places(F, Pre, w) \subseteq 1 .. N
      <4> DEFINE b == Cardinality(B(w))
                 f == Cardinality(F[w])
      <4>1. b \in Nat /\ f \in Nat /\ f + b <= N
        BY <1>3, Zenon
      <4>2. Places(F, Pre, w) = b + 1 .. b + f
        BY DEF Places
      <4> HIDE DEF b, f, N
      <4> QED
        BY <1>1, <4>1, <4>2
    <3> QED
      BY <3>1 DEF Pile
  <2>2. IsFiniteSet(1 .. N) /\ Cardinality(1 .. N) = N
    BY <1>1, FS_Interval
  <2>3. IsFiniteSet(Pile(G, W))
    BY <2>1, <2>2, FS_Subset
  <2>4. \A w \in W : n[w] = Cardinality(G[w])
    <3> SUFFICES ASSUME NEW w \in W
                 PROVE  n[w] = Cardinality(G[w])
      OBVIOUS
    <3> DEFINE b == Cardinality(B(w))
               f == Cardinality(F[w])
    <3>1. b \in Nat /\ f \in Nat
      BY <1>3
    <3>2. Places(F, Pre, w) = b + 1 .. b + f
      BY DEF Places
    <3> HIDE DEF b, f
    <3>3. Cardinality(b + 1 .. b + f) = IF b + 1 > b + f THEN 0 ELSE b + f - (b + 1) + 1
      BY <3>1, FS_Interval
    <3>4. Cardinality(b + 1 .. b + f) = f
      BY <3>1, <3>3
    <3> QED
      BY <3>2, <3>4 DEF f
  <2>5. \A v, w \in W : v # w => G[v] \cap G[w] = {}
    BY <1>5
  <2> HIDE DEF G
  <2>6. Cardinality(Counters(n, W)) = Cardinality(Pile(G, W))
    BY <2>3, <2>4, <2>5, CountersCount
  <2>7. Cardinality(Counters(n, W)) = N
    <3>1. \A w \in W : n[w] = Cardinality(F[w])
      OBVIOUS
    <3> HIDE DEF n
    <3> QED
      BY <3>1, CountersCount
  <2>8. Pile(G, W) = 1 .. N
    BY <2>1, <2>2, <2>6, <2>7, FS_Subset
  <2> QED
    BY <2>8 DEF Pile, G
<1> QED
  BY <1>1, <1>2, <1>3, <1>4, <1>5, <1>6

(* Finitely many finite sets make a finite pile.                           *)
LEMMA PileIsFinite ==
    ASSUME NEW W, NEW F, IsFiniteSet(W), \A w \in W : IsFiniteSet(F[w])
    PROVE  IsFiniteSet(Pile(F, W)) /\ Cardinality(Pile(F, W)) \in Nat
<1> DEFINE T == {F[w] : w \in W}
           f == [w \in W |-> F[w]]
<1>1. f \in Surjection(W, T)
  BY DEF Surjection
<1> HIDE DEF f
<1>2. IsFiniteSet(T)
  <2> HIDE DEF T
  <2> QED
    BY <1>1, FS_Surjection
<1>3. \A S \in T : IsFiniteSet(S)
  OBVIOUS
<1> HIDE DEF T
<1>4. IsFiniteSet(UNION T)
  BY <1>2, <1>3, FS_UNION
<1> QED
  BY <1>4, FS_CardinalityType DEF Pile, T

(* Elements of S under one name are as many as the elements of S.          *)
LEMMA CountNamed ==
    ASSUME NEW q, NEW S, IsFiniteSet(S)
    PROVE  /\ IsFiniteSet({q} \X S) /\ Cardinality({q} \X S) = Cardinality(S)
           /\ Cardinality(S) \in Nat
<1> DEFINE f == [x \in S |-> <<q, x>>]
<1>1. f \in Injection(S, {q} \X S)
  BY DEF Injection, IsInjective
<1>2. f \in Surjection(S, {q} \X S)
  <2>1. \A y \in {q} \X S : \E x \in S : y = <<q, x>>
    OBVIOUS
  <2>2. f \in [S -> {q} \X S] /\ \A x \in S : f[x] = <<q, x>>
    OBVIOUS
  <2> HIDE DEF f
  <2>3. \A y \in {q} \X S : \E x \in S : f[x] = y
    BY <2>1, <2>2
  <2> QED
    BY <2>2, <2>3 DEF Surjection
<1>3. ExistsBijection(S, {q} \X S)
  BY <1>1, <1>2 DEF ExistsBijection, Bijection
<1> QED
  BY <1>3, FS_Bijection, FS_CardinalityType

(* Piles count alike when their parts do.                                  *)
LEMMA PilesCountAlike ==
    ASSUME NEW W, NEW F, NEW G, IsFiniteSet(Pile(F, W)), IsFiniteSet(Pile(G, W)),
           \A v, w \in W : v # w => F[v] \cap F[w] = {} /\ G[v] \cap G[w] = {},
           \A w \in W : Cardinality(F[w]) = Cardinality(G[w])
    PROVE  Cardinality(Pile(F, W)) = Cardinality(Pile(G, W))
<1> DEFINE n == [w \in W |-> Cardinality(F[w])]
<1>1. \A w \in W : n[w] = Cardinality(F[w]) /\ n[w] = Cardinality(G[w])
  OBVIOUS
<1> HIDE DEF n
<1>2. Cardinality(Counters(n, W)) = Cardinality(Pile(F, W))
  BY <1>1, CountersCount
<1>3. Cardinality(Counters(n, W)) = Cardinality(Pile(G, W))
  BY <1>1, CountersCount
<1> QED
  BY <1>2, <1>3

(* The same for two names.                                                 *)
Triples(p, h, S) == {<<p, h, i>> : i \in S}

LEMMA CountTriples ==
    ASSUME NEW p, NEW h, NEW S, IsFiniteSet(S)
    PROVE  IsFiniteSet(Triples(p, h, S)) /\ Cardinality(Triples(p, h, S)) = Cardinality(S)
<1> DEFINE R == {<<p, h, i>> : i \in S}
           f == [i \in S |-> <<p, h, i>>]
<1>1. f \in [S -> R] /\ \A i \in S : f[i] = <<p, h, i>>
  OBVIOUS
<1>2. \A x \in R : \E i \in S : x = <<p, h, i>>
  OBVIOUS
<1>3. DOMAIN f = S
  OBVIOUS
<1> HIDE DEF R, f
<1>4. f \in Injection(S, R)
  BY <1>1, <1>3 DEF Injection, IsInjective
<1>5. f \in Surjection(S, R)
  BY <1>1, <1>2 DEF Surjection
<1>6. ExistsBijection(S, R)
  BY <1>4, <1>5 DEF ExistsBijection, Bijection
<1>7. IsFiniteSet(R) /\ Cardinality(R) = Cardinality(S)
  BY <1>6, FS_Bijection
<1> QED
  BY <1>7 DEF R, Triples

(* The thread's part of the matches, and those of the threads before it.   *)
Part(p, t) == Share(p, t, CountGrid(p))
Parts(p, t) == {i \in 1 .. matches[p] : \E u \in 1 .. t - 1 : i \in Part(p, u)}

Meant(P) == UNION {{q} \X (1 .. matches[q]) : q \in P}

(* Matches counted by slots of p's buffer before the slot of thread t.     *)
RowsBefore(p, t) == Meant({q \in BufferOf(p) : q < p}) \cup ({p} \X Parts(p, t))

Writers(d) == {p \in Pipe : \E h \in DOMAIN HeadsOf(p) : HeadsOf(p)[h] = d}

(* Writers of d whose rows come before those of p.                         *)
Ahead(p, d) ==
    IF Cardinality(Sharing(d)) < 2 THEN {q \in Writers(d) : q < p}
    ELSE IF p \in Sharing(d) THEN {q \in Sharing(d) : q < p}
    ELSE Sharing(d) \cup {q \in Writers(d) : q < p}

RowsAhead(p, t, d) == Meant(Ahead(p, d)) \cup ({p} \X Parts(p, t))

StartAt(p, h, t) == old_size[p][h] + counts[BufferOf(p)][Offset(p) + t]

(***************************************************************************)
(* The invariant, phase by phase                                           *)
(***************************************************************************)
Sized ==
    /\ keys \in [Pipe -> Nat] /\ matches \in [Pipe -> Nat]
    /\ \A p \in Pipe : <<keys[p], matches[p]>> \in Sizes[p]

(* Nothing is in the columns but perhaps one old row.                      *)
Fresh == rows \in [Rel -> {<<>>, <<Old>>}]

(* A thread that stores in slot k of buffer b has run.                     *)
Stored(b, k) ==
    \E p \in b : \E t \in 1 .. CountGrid(p) : k = Offset(p) + t /\ <<p, t>> \notin pending

CountInv ==
    /\ Sized /\ Fresh
    /\ recorded = NoTotals
    /\ DOMAIN counts = Buffers
    /\ \A b \in Buffers : counts[b] \in [1 .. Slots(b) + 1 -> Nat]
    /\ \A p \in Pipe : \A t \in 1 .. CountGrid(p) :
          <<p, t>> \notin pending =>
              counts[BufferOf(p)][Offset(p) + t] = Cardinality(Part(p, t))
    /\ \A b \in Buffers : ~Shared(b) =>
          \A k \in 1 .. Slots(b) + 1 : counts[b][k] = 0 \/ Stored(b, k)

Scanned ==
    \A p \in Pipe : \A t \in 1 .. CountGrid(p) + 1 :
        counts[BufferOf(p)][Offset(p) + t] = Cardinality(RowsBefore(p, t))

ReadInv == Sized /\ Fresh /\ Scanned /\ recorded = NoTotals

Recorded == recorded = [p \in Pipe |-> IF CountOnly(p) THEN matches[p] ELSE 0]

ResizeInv == Sized /\ Fresh /\ Scanned /\ Recorded /\ total = matches

(* Threads of kernels that write, and their rows in d.                     *)
Writing == UNION {{p} \X (1 .. CountGrid(p)) : p \in {q \in Pipe : ~CountOnly(q)}}

Filled(base, p, h, t) ==
    LET d == HeadsOf(p)[h] IN
    /\ StartAt(p, h, t) = base[d] + Cardinality(RowsAhead(p, t, d))
    /\ \A j \in 1 .. Cardinality(Part(p, t)) :
          rows[d][StartAt(p, h, t) + j]
              = IF <<p, t>> \in pending THEN Junk ELSE Emitted(p, t, h)[j]

Laid(base) ==
    /\ \A d \in Rel :
          /\ DOMAIN rows[d]
                = 1 .. base[d] + (IF Skipped(d) THEN 0 ELSE Cardinality(Meant(Writers(d))))
          /\ \A k \in 1 .. base[d] : rows[d][k] = Old
    /\ \A p \in Pipe : ~CountOnly(p) =>
          \A h \in DOMAIN HeadsOf(p) : \A t \in 1 .. CountGrid(p) : Filled(base, p, h, t)

WriteInv ==
    /\ Sized /\ Recorded
    /\ pending \subseteq Writing
    /\ \E base \in [Rel -> 0 .. 1] : Laid(base)

IInv ==
    /\ phase \in {"setup", "count", "read", "resize", "write", "done"}
    /\ phase = "setup" => Fresh /\ recorded = NoTotals
    /\ phase = "count" => CountInv
    /\ phase = "read" => ReadInv
    /\ phase = "resize" => ResizeInv
    /\ phase \in {"write", "done"} => WriteInv
    /\ phase \in {"done", "setup"} => pending = {}

-----------------------------------------------------------------------------
(***************************************************************************)
(* Pipelines, buffers and shares                                           *)
(***************************************************************************)
(* What the assumption on the group says of each pipeline.                 *)
LEMMA PipelinesTyped ==
    /\ Len(Pipelines) \in Nat /\ Pipe = 1 .. Len(Pipelines)
    /\ IsFiniteSet(Pipe)
    /\ \A p \in Pipe : /\ p \in Nat /\ p >= 1
                       /\ HeadsOf(p) \in Seq(Rel) /\ CountOnly(p) \in BOOLEAN
                       /\ DOMAIN HeadsOf(p) = 1 .. Len(HeadsOf(p))
                       /\ 1 \in DOMAIN HeadsOf(p)
<1> DEFINE R == [heads : Seq(Rel), countOnly : BOOLEAN, blockGroup : BOOLEAN,
                  product : BOOLEAN]
<1>1. Pipelines \in Seq(R) /\ \A p \in DOMAIN Pipelines : Pipelines[p].heads # <<>>
  BY GroupOK
<1>2. Len(Pipelines) \in Nat /\ Pipe = 1 .. Len(Pipelines) /\ \A p \in Pipe : Pipelines[p] \in R
  <2> HIDE DEF R
  <2> QED
    BY <1>1 DEF Pipe
<1>3. IsFiniteSet(Pipe)
  BY <1>2, FS_Interval
<1>4. ASSUME NEW p \in Pipe
      PROVE  /\ p \in Nat /\ p >= 1
             /\ HeadsOf(p) \in Seq(Rel) /\ CountOnly(p) \in BOOLEAN
             /\ DOMAIN HeadsOf(p) = 1 .. Len(HeadsOf(p))
             /\ 1 \in DOMAIN HeadsOf(p)
  <2>1. HeadsOf(p) \in Seq(Rel) /\ CountOnly(p) \in BOOLEAN /\ HeadsOf(p) # <<>>
    BY <1>1, <1>2 DEF HeadsOf, CountOnly, Pipe
  <2>2. Len(HeadsOf(p)) \in Nat /\ Len(HeadsOf(p)) # 0 /\ DOMAIN HeadsOf(p) = 1 .. Len(HeadsOf(p))
    BY <2>1, EmptySeq
  <2> QED
    BY <1>2, <2>1, <2>2
<1> QED
  BY <1>2, <1>3, <1>4

(* A pipeline counts into its buffer, and so do the others the buffer is   *)
(* named by.                                                               *)
LEMMA BufferIsShared ==
    ASSUME NEW p \in Pipe
    PROVE  /\ p \in BufferOf(p) /\ BufferOf(p) \subseteq Pipe /\ BufferOf(p) \in Buffers
           /\ \A q \in BufferOf(p) : BufferOf(q) = BufferOf(p)
<1>1. CASE Single(p)
  BY <1>1 DEF BufferOf, Buffers, Sharing
<1>2. CASE ~Single(p)
  BY <1>2 DEF BufferOf, Buffers
<1> QED
  BY <1>1, <1>2

(* Every head is an output of its own when no two are over one relation.   *)
LEMMA HeadIsOutput ==
    ASSUME GroupSupported, NEW p \in Pipe, NEW h \in DOMAIN HeadsOf(p)
    PROVE  OutputOf(p, h) = h
<1>1. \A k \in DOMAIN HeadsOf(p) : HeadsOf(p)[k] = HeadsOf(p)[h] => k = h
  BY DEF GroupSupported
<1>2. h \in Int
  BY PipelinesTyped
<1>3. \A k \in DOMAIN HeadsOf(p) :
        (/\ HeadsOf(p)[k] = HeadsOf(p)[h]
         /\ \A j \in DOMAIN HeadsOf(p) : HeadsOf(p)[j] = HeadsOf(p)[h] => j <= k) <=> k = h
  BY <1>1, <1>2
<1> QED
  BY <1>3 DEF OutputOf

(* A kernel has at least one thread, and the writing kernel as many as the *)
(* counting one.                                                           *)
LEMMA SameGrid ==
    ASSUME Sized, NEW p \in Pipe
    PROVE  /\ matches[p] \in Nat /\ CountGrid(p) \in Nat /\ CountGrid(p) >= 1
           /\ Grids[p] = CountGrid(p)
           /\ GroupSupported => WriteGrid(p) = CountGrid(p)
<1>1. keys[p] \in Nat /\ matches[p] \in Nat /\ <<keys[p], matches[p]>> \in Sizes[p]
  BY DEF Sized
<1>2. MinBlocks \in Nat /\ MinBlocks >= 1
  BY GroupOK
<1>3. ASSUME GroupSupported, Pipelines[p].blockGroup, matches[p] > 0
      PROVE  keys[p] <= MinBlocks
  <2>1. \A size \in Sizes[p] : size[2] > 0 => size[1] <= MinBlocks
    BY <1>3 DEF GroupSupported
  <2> QED
    BY <1>1, <1>3, <2>1
<1> QED
  BY <1>1, <1>2, <1>3 DEF CountGrid, WriteGrid, Grids

(* Slices of a length that g of them cover m.                              *)
LEMMA SlicesCover ==
    ASSUME NEW m \in Nat, NEW g \in Nat, g >= 1, NEW s, s = (m + g - 1) \div g
    PROVE  /\ s \in Nat
           /\ \A i \in 1 .. m : \E t \in 1 .. g : (t - 1) * s < i /\ i <= t * s
           /\ \A t, u \in 1 .. g : t < u => t * s <= (u - 1) * s
<1>1. s \in Nat /\ m <= g * s
  OBVIOUS
<1>2. ASSUME NEW i \in 1 .. m
      PROVE  \E t \in 1 .. g : (t - 1) * s < i /\ i <= t * s
  <2> DEFINE T == {t \in 0 .. g : i <= t * s}
             n == g + 1
  <2>1. n \in Nat /\ T \in SUBSET (0 .. n - 1) /\ T # {}
    <3>1. g \in 0 .. g /\ i <= g * s
      BY <1>1, <1>2
    <3>2. g \in T
      BY <3>1
    <3>3. n \in Nat /\ n - 1 = g
      OBVIOUS
    <3> HIDE DEF n
    <3> QED
      BY <3>2, <3>3
  <2> HIDE DEF T, n
  <2>2. PICK t \in T : \A u \in T : t <= u
    BY <2>1, LeastExists
  <2>3. t \in 0 .. g /\ i <= t * s
    BY <2>2 DEF T
  <2>4. t # 0
    BY <1>2, <2>3
  <2>5. t - 1 \notin T /\ t - 1 \in 0 .. g
    BY <2>2, <2>3, <2>4
  <2>6. ~(i <= (t - 1) * s)
    BY <2>5 DEF T
  <2>7. (t - 1) * s < i
    BY <1>1, <2>3, <2>6
  <2> QED
    BY <2>3, <2>4, <2>7
<1>3. ASSUME NEW t \in 1 .. g, NEW u \in 1 .. g, t < u
      PROVE  t * s <= (u - 1) * s
  BY <1>1, <1>3
<1> QED
  BY <1>1, <1>2, <1>3

(* The threads of a kernel divide the matches among them.                  *)
LEMMA PartsPartition ==
    ASSUME Sized, NEW p \in Pipe
    PROVE  /\ \A t \in 1 .. CountGrid(p) : Part(p, t) \subseteq 1 .. matches[p]
           /\ \A t, u \in 1 .. CountGrid(p) : t # u => Part(p, t) \cap Part(p, u) = {}
           /\ \A i \in 1 .. matches[p] : \E t \in 1 .. CountGrid(p) : i \in Part(p, t)
<1> DEFINE g == CountGrid(p)
           m == matches[p]
<1>1. m \in Nat /\ g \in Nat /\ g >= 1
  BY SameGrid
<1>2. \A t : Part(p, t) \subseteq 1 .. m
  BY DEF Part, Share
<1>3. CASE Pipelines[p].blockGroup
  <2> DEFINE s == (m + g - 1) \div g
  <2>1. \A t : Part(p, t) = {i \in 1 .. m : (t - 1) * s < i /\ i <= t * s}
    BY <1>3 DEF Part, Share
  <2> HIDE DEF g, m
  <2>2. /\ s \in Nat
        /\ \A i \in 1 .. m : \E t \in 1 .. g : (t - 1) * s < i /\ i <= t * s
        /\ \A t, u \in 1 .. g : t < u => t * s <= (u - 1) * s
    BY <1>1, SlicesCover
  <2> HIDE DEF s
  <2>3. ASSUME NEW t \in 1 .. g, NEW u \in 1 .. g, t < u
        PROVE  Part(p, t) \cap Part(p, u) = {}
    <3>1. t * s \in Int /\ (u - 1) * s \in Int /\ t * s <= (u - 1) * s
      BY <1>1, <2>2, <2>3
    <3> QED
      BY <1>1, <2>1, <3>1
  <2>4. \A t, u \in 1 .. g : t # u => Part(p, t) \cap Part(p, u) = {}
    BY <1>1, <2>3
  <2>5. \A i \in 1 .. m : \E t \in 1 .. g : i \in Part(p, t)
    BY <2>1, <2>2
  <2> QED
    BY <1>2, <2>4, <2>5 DEF g, m
<1>4. CASE ~Pipelines[p].blockGroup
  <2>1. \A t : Part(p, t) = {i \in 1 .. m : i % g = t - 1}
    BY <1>4 DEF Part, Share
  <2> HIDE DEF g, m
  <2>2. \A t, u \in 1 .. g : t # u => Part(p, t) \cap Part(p, u) = {}
    BY <1>1, <2>1
  <2>3. ASSUME NEW i \in 1 .. m
        PROVE  \E t \in 1 .. g : i \in Part(p, t)
    <3> DEFINE t == (i % g) + 1
    <3>1. i % g \in 0 .. g - 1
      BY <1>1
    <3>2. t \in 1 .. g /\ i % g = t - 1
      BY <1>1, <3>1
    <3> HIDE DEF t
    <3>3. i \in Part(p, t)
      BY <2>1, <3>2
    <3> QED
      BY <3>2, <3>3
  <2> QED
    BY <1>2, <2>2, <2>3 DEF g, m
<1> QED
  BY <1>3, <1>4

-----------------------------------------------------------------------------
(***************************************************************************)
(* The counting layout: slots of a buffer                                  *)
(***************************************************************************)
(* The pipelines a buffer is named by are those that count into it.        *)
LEMMA BufferPipes ==
    ASSUME NEW b \in Buffers
    PROVE  b \subseteq Pipe /\ \A q \in b : BufferOf(q) = b
<1>1. PICK p \in Pipe : b = BufferOf(p)
  BY DEF Buffers
<1> QED
  BY <1>1, BufferIsShared

(* The matches of a set of pipelines are finitely many.                    *)
LEMMA MeantIsFinite ==
    ASSUME Sized, NEW P \in SUBSET Pipe
    PROVE  IsFiniteSet(Meant(P)) /\ Cardinality(Meant(P)) \in Nat
<1> DEFINE F == [q \in P |-> {q} \X (1 .. matches[q])]
<1>1. \A q \in P : IsFiniteSet(F[q])
  <2> SUFFICES ASSUME NEW q \in P
               PROVE  IsFiniteSet({q} \X (1 .. matches[q]))
    OBVIOUS
  <2>1. matches[q] \in Nat
    BY SameGrid
  <2>2. IsFiniteSet(1 .. matches[q])
    BY <2>1, FS_Interval
  <2> QED
    BY <2>2, CountNamed
<1>2. IsFiniteSet(P)
  BY PipelinesTyped, FS_Subset
<1>3. Meant(P) = Pile(F, P)
  BY DEF Meant, Pile
<1> HIDE DEF F
<1> QED
  BY <1>1, <1>2, <1>3, PileIsFinite

(* Matches are pairs of a pipeline and the number of a result.             *)
LEMMA MeantPairs ==
    ASSUME NEW P, NEW x
    PROVE  x \in Meant(P) <=> \E q \in P : \E i \in 1 .. matches[q] : x = <<q, i>>
BY DEF Meant

(* The pipelines of a buffer have slots side by side, in their order, and  *)
(* there are no others.                                                    *)
LEMMA SlotsLaidOut ==
    ASSUME Sized, NEW b \in Buffers
    PROVE  /\ Slots(b) \in Nat
           /\ \A q \in b : Offset(q) \in Nat /\ Offset(q) + CountGrid(q) <= Slots(b)
           /\ \A q, r \in b : q < r => Offset(q) + CountGrid(q) <= Offset(r)
           /\ \A k \in 1 .. Slots(b) :
                 \E q \in b : \E u \in 1 .. CountGrid(q) : k = Offset(q) + u
<1> DEFINE C == [q \in b |-> {q} \X (1 .. Grids[q])]
           Pre == [q \in b |-> {r \in b : r < q}]
<1>1. b \subseteq Pipe /\ \A q \in b : BufferOf(q) = b
  BY BufferPipes
<1>2. ASSUME NEW q \in b
      PROVE  /\ q \in Nat /\ CountGrid(q) \in Nat /\ CountGrid(q) >= 1
             /\ IsFiniteSet(C[q]) /\ Cardinality(C[q]) = CountGrid(q)
  <2>1. q \in Nat /\ CountGrid(q) \in Nat /\ CountGrid(q) >= 1 /\ Grids[q] = CountGrid(q)
    BY <1>1, SameGrid, PipelinesTyped
  <2>2. IsFiniteSet(1 .. Grids[q]) /\ Cardinality(1 .. Grids[q]) = Grids[q]
    BY <2>1, FS_Interval
  <2> QED
    BY <2>1, <2>2, CountNamed
<1>3. IsFiniteSet(b)
  BY <1>1, PipelinesTyped, FS_Subset
<1>4. IsFiniteSet(Pile(C, b))
  <2> HIDE DEF C
  <2> QED
    BY <1>2, <1>3, PileIsFinite
<1>5. \A q, r \in b : q # r => C[q] \cap C[r] = {}
  OBVIOUS
<1>a. \A q \in b : q \in Nat
  BY <1>2
<1>6. \A q \in b : Pre[q] \subseteq b /\ q \notin Pre[q]
  BY <1>a
<1>7. \A q, r \in b : q < r => q \in Pre[r] /\ Pre[q] \subseteq Pre[r]
  BY <1>a
<1>8. \A q, r \in b : q # r => \/ q \in Pre[r] /\ Pre[q] \subseteq Pre[r]
                               \/ r \in Pre[q] /\ Pre[r] \subseteq Pre[q]
  <2> HIDE DEF Pre
  <2> QED
    BY <1>a, <1>7
<1>9. \A q \in b : Offset(q) = Cardinality(Pile(C, Pre[q]))
  BY <1>1 DEF Offset, Sum, Pile
<1>10. Slots(b) = Cardinality(Pile(C, b))
  BY DEF Slots, Sum, Pile
<1> HIDE DEF C, Pre
<1>11. /\ \A v, w \in b : v \in Pre[w] /\ Pre[v] \subseteq Pre[w] =>
             Cardinality(Pile(C, Pre[v])) + Cardinality(C[v]) <= Cardinality(Pile(C, Pre[w]))
       /\ UNION {Places(C, Pre, w) : w \in b} = 1 .. Cardinality(Pile(C, b))
       /\ \A w \in b : Cardinality(Pile(C, Pre[w])) \in Nat
       /\ Cardinality(Pile(C, b)) \in Nat
  BY <1>4, <1>5, <1>6, <1>8, LaidOut
<1>12. ASSUME NEW q \in b
       PROVE  /\ Offset(q) \in Nat /\ Places(C, Pre, q) = Offset(q) + 1 .. Offset(q) + CountGrid(q)
              /\ Offset(q) + CountGrid(q) <= Slots(b)
  <2>1. Offset(q) \in Nat /\ Places(C, Pre, q) = Offset(q) + 1 .. Offset(q) + CountGrid(q)
    BY <1>2, <1>9, <1>11 DEF Places
  <2>2. Places(C, Pre, q) \subseteq 1 .. Slots(b)
    BY <1>10, <1>11
  <2>3. Offset(q) + CountGrid(q) \in Places(C, Pre, q)
    BY <1>2, <2>1
  <2> QED
    BY <2>1, <2>2, <2>3
<1>13. \A q, r \in b : q < r => Offset(q) + CountGrid(q) <= Offset(r)
  BY <1>2, <1>7, <1>9, <1>11
<1>14. ASSUME NEW k \in 1 .. Slots(b)
       PROVE  \E q \in b : \E u \in 1 .. CountGrid(q) : k = Offset(q) + u
  <2>1. PICK q \in b : k \in Places(C, Pre, q)
    BY <1>10, <1>11
  <2>2. k \in Offset(q) + 1 .. Offset(q) + CountGrid(q) /\ Offset(q) \in Nat
    BY <1>12, <2>1
  <2>3. k - Offset(q) \in 1 .. CountGrid(q) /\ k = Offset(q) + (k - Offset(q))
    BY <1>2, <2>2
  <2> QED
    BY <2>3
<1> QED
  BY <1>10, <1>11, <1>12, <1>13, <1>14

(* Two threads that have one slot are one thread.                          *)
LEMMA SlotIsOnes ==
    ASSUME Sized, NEW b \in Buffers, NEW q \in b, NEW r \in b,
           NEW t \in 1 .. CountGrid(q), NEW u \in 1 .. CountGrid(r),
           Offset(q) + t = Offset(r) + u
    PROVE  q = r /\ t = u
<1>1. /\ Offset(q) \in Nat /\ Offset(r) \in Nat /\ CountGrid(q) \in Nat /\ CountGrid(r) \in Nat
      /\ q \in Nat /\ r \in Nat
  BY SlotsLaidOut, BufferPipes, SameGrid, PipelinesTyped
<1>2. /\ q < r => Offset(q) + CountGrid(q) <= Offset(r)
      /\ r < q => Offset(r) + CountGrid(r) <= Offset(q)
  BY SlotsLaidOut
<1>3. ~(q < r) /\ ~(r < q)
  BY <1>1, <1>2
<1> QED
  BY <1>1, <1>3

(* A thread's matches, and those ahead of it, are finitely many.           *)
LEMMA PartIsFinite ==
    ASSUME Sized, NEW p \in Pipe, NEW t \in Int
    PROVE  /\ IsFiniteSet(Part(p, t)) /\ Cardinality(Part(p, t)) \in Nat
           /\ Part(p, t) \subseteq 1 .. matches[p]
           /\ IsFiniteSet(Parts(p, t)) /\ Parts(p, t) \subseteq 1 .. matches[p]
           /\ IsFiniteSet({p} \X Parts(p, t))
<1>1. IsFiniteSet(1 .. matches[p])
  BY SameGrid, FS_Interval
<1>2. Part(p, t) \subseteq 1 .. matches[p] /\ Parts(p, t) \subseteq 1 .. matches[p]
  BY DEF Part, Parts, Share
<1>3. /\ IsFiniteSet(Part(p, t)) /\ Cardinality(Part(p, t)) \in Nat
      /\ IsFiniteSet(Parts(p, t))
  BY <1>1, <1>2, FS_Subset, FS_CardinalityType
<1> QED
  BY <1>2, <1>3, CountNamed

(* When every thread has stored the size of its part, the scan stores what *)
(* earlier slots hold, and past the last slot what the buffer holds.       *)
LEMMA ScanCountsRows ==
    ASSUME Sized, NEW p \in Pipe, NEW t \in 1 .. CountGrid(p) + 1,
           counts[BufferOf(p)] \in [1 .. Slots(BufferOf(p)) + 1 -> Nat],
           \A q \in BufferOf(p) : \A u \in 1 .. CountGrid(q) :
              counts[BufferOf(p)][Offset(q) + u] = Cardinality(Part(q, u))
    PROVE  ExclusiveScan(counts[BufferOf(p)])[Offset(p) + t] = Cardinality(RowsBefore(p, t))
<1> DEFINE b == BufferOf(p)
           c == counts[b]
           k == Offset(p) + t
           G == [s \in 1 .. Slots(b) |->
                    {x \in Meant(b) : \E u \in 1 .. CountGrid(x[1]) :
                        s = Offset(x[1]) + u /\ x[2] \in Part(x[1], u)}]
<1>1. b \in Buffers /\ p \in b /\ b \subseteq Pipe
  BY BufferIsShared
<1>2. \A q \in b : /\ q \in Nat /\ CountGrid(q) \in Nat /\ CountGrid(q) >= 1 /\ Offset(q) \in Nat
                   /\ Offset(q) + CountGrid(q) <= Slots(b)
  BY <1>1, SameGrid, PipelinesTyped, SlotsLaidOut
<1>3. Slots(b) \in Nat
  BY <1>1, SlotsLaidOut
<1>4. k \in 1 .. Slots(b) + 1
  BY <1>1, <1>2, <1>3
<1>5. \A q \in b : \A u \in 1 .. CountGrid(q) :
         Offset(q) + u \in 1 .. Slots(b) /\ c[Offset(q) + u] = Cardinality(Part(q, u))
  BY <1>2, <1>3
<1>6. ExclusiveScan(c)[k] = Cardinality(Counters(c, 1 .. k - 1))
  <2>1. DOMAIN c = 1 .. Slots(b) + 1
    OBVIOUS
  <2> HIDE DEF c, k
  <2> QED
    BY <1>4, <2>1 DEF ExclusiveScan, Sum, Counters
<1>7. \A s \in 1 .. Slots(b) : \A x : x \in G[s] <=>
         \E q \in b : \E u \in 1 .. CountGrid(q) : \E i \in Part(q, u) :
            x = <<q, i>> /\ s = Offset(q) + u
  <2> SUFFICES ASSUME NEW s \in 1 .. Slots(b), NEW x
               PROVE  x \in G[s] <=> \E q \in b : \E u \in 1 .. CountGrid(q) : \E i \in Part(q, u) :
                                        x = <<q, i>> /\ s = Offset(q) + u
    OBVIOUS
  <2>1. x \in G[s] <=> /\ x \in Meant(b)
                       /\ \E u \in 1 .. CountGrid(x[1]) :
                             s = Offset(x[1]) + u /\ x[2] \in Part(x[1], u)
    OBVIOUS
  <2>2. x \in Meant(b) <=> \E q \in b : \E i \in 1 .. matches[q] : x = <<q, i>>
    BY MeantPairs
  <2>3. \A q \in b : \A u \in 1 .. CountGrid(q) : Part(q, u) \subseteq 1 .. matches[q]
    BY <1>1, PartsPartition
  <2> HIDE DEF G, b
  <2> QED
    BY <2>1, <2>2, <2>3
<1> HIDE DEF G, b
<1>8. ASSUME NEW q \in b, NEW u \in 1 .. CountGrid(q)
      PROVE  G[Offset(q) + u] = {q} \X Part(q, u)
  <2>1. \A r \in b : \A w \in 1 .. CountGrid(r) : Offset(q) + u = Offset(r) + w => r = q /\ w = u
    BY <1>1, SlotIsOnes
  <2>2. \A x : x \in G[Offset(q) + u] <=> \E i \in Part(q, u) : x = <<q, i>>
    BY <1>5, <1>7, <2>1
  <2> QED
    BY <2>2
<1>9. \A s \in 1 .. k - 1 : s \in 1 .. Slots(b) /\ c[s] = Cardinality(G[s])
  <2> SUFFICES ASSUME NEW s \in 1 .. k - 1
               PROVE  s \in 1 .. Slots(b) /\ c[s] = Cardinality(G[s])
    OBVIOUS
  <2>1. s \in 1 .. Slots(b)
    BY <1>3, <1>4
  <2>a. PICK q \in b : \E u \in 1 .. CountGrid(q) : s = Offset(q) + u
    BY <1>1, <2>1, SlotsLaidOut
  <2>b. PICK u \in 1 .. CountGrid(q) : s = Offset(q) + u
    BY <2>a
  <2>c. u \in Int /\ q \in Pipe
    BY <1>1, <1>2
  <2>2. IsFiniteSet(Part(q, u))
    BY <2>c, PartIsFinite
  <2>3. Cardinality({q} \X Part(q, u)) = Cardinality(Part(q, u))
    BY <2>2, CountNamed
  <2>4. G[s] = {q} \X Part(q, u)
    BY <1>8, <2>b
  <2> QED
    BY <1>5, <2>1, <2>3, <2>4, <2>b
<1>10. \A s, v \in 1 .. k - 1 : s # v => G[s] \cap G[v] = {}
  <2> SUFFICES ASSUME NEW s \in 1 .. k - 1, NEW v \in 1 .. k - 1, NEW x \in G[s] \cap G[v]
               PROVE  s = v
    OBVIOUS
  <2>1. s \in 1 .. Slots(b) /\ v \in 1 .. Slots(b)
    BY <1>9
  <2>2. PICK q \in b : \E u \in 1 .. CountGrid(q) : \E i \in Part(q, u) :
                          x = <<q, i>> /\ s = Offset(q) + u
    BY <1>7, <2>1
  <2>3. PICK u \in 1 .. CountGrid(q) : \E i \in Part(q, u) : x = <<q, i>> /\ s = Offset(q) + u
    BY <2>2
  <2>4. PICK i \in Part(q, u) : x = <<q, i>> /\ s = Offset(q) + u
    BY <2>3
  <2>5. PICK r \in b : \E w \in 1 .. CountGrid(r) : \E j \in Part(r, w) :
                          x = <<r, j>> /\ v = Offset(r) + w
    BY <1>7, <2>1
  <2>6. PICK w \in 1 .. CountGrid(r) : \E j \in Part(r, w) : x = <<r, j>> /\ v = Offset(r) + w
    BY <2>5
  <2>7. PICK j \in Part(r, w) : x = <<r, j>> /\ v = Offset(r) + w
    BY <2>6
  <2>8. q = r /\ i = j
    BY <2>4, <2>7
  <2>9. u = w
    <3>1. q \in Pipe /\ w \in 1 .. CountGrid(q) /\ i \in Part(q, w)
      BY <1>1, <2>8
    <3> QED
      BY <3>1, PartsPartition
  <2> QED
    BY <2>4, <2>7, <2>8, <2>9
<1>11. \A x : x \in Pile(G, 1 .. k - 1) <=>
          \E q \in b : \E u \in 1 .. CountGrid(q) : \E i \in Part(q, u) :
             x = <<q, i>> /\ Offset(q) + u < k
  <2>1. \A x : x \in Pile(G, 1 .. k - 1) <=> \E s \in 1 .. k - 1 : x \in G[s]
    BY DEF Pile
  <2>2. \A q \in b : \A u \in 1 .. CountGrid(q) : Offset(q) + u \in 1 .. k - 1 <=> Offset(q) + u < k
    BY <1>2, <1>3, <1>4
  <2> HIDE DEF k
  <2> QED
    BY <1>7, <1>9, <2>1, <2>2
<1>12. \A q \in b : \A u \in 1 .. CountGrid(q) : Offset(q) + u < k <=> q < p \/ (q = p /\ u < t)
  <2> SUFFICES ASSUME NEW q \in b, NEW u \in 1 .. CountGrid(q)
               PROVE  Offset(q) + u < k <=> q < p \/ (q = p /\ u < t)
    OBVIOUS
  <2>1. /\ q < p => Offset(q) + CountGrid(q) <= Offset(p)
        /\ p < q => Offset(p) + CountGrid(p) <= Offset(q)
    BY <1>1, SlotsLaidOut
  <2>2. /\ Offset(q) \in Nat /\ Offset(p) \in Nat /\ CountGrid(q) \in Nat /\ CountGrid(p) \in Nat
        /\ q \in Nat /\ p \in Nat
    BY <1>1, <1>2
  <2> QED
    BY <2>1, <2>2
<1> HIDE DEF k
<1>13. \A x : x \in RowsBefore(p, t) <=>
          \/ \E q \in b : q < p /\ \E i \in 1 .. matches[q] : x = <<q, i>>
          \/ \E i \in 1 .. matches[p] : x = <<p, i>> /\ \E u \in 1 .. t - 1 : i \in Part(p, u)
  BY DEF RowsBefore, Meant, Parts, b
<1>14. \A q \in b : \A i \in 1 .. matches[q] : \E u \in 1 .. CountGrid(q) : i \in Part(q, u)
  BY <1>1, PartsPartition
<1>15. \A q \in b : \A u \in 1 .. CountGrid(q) : Part(q, u) \subseteq 1 .. matches[q]
  BY <1>1, PartsPartition
<1>16. \A u \in 1 .. CountGrid(p) : u < t <=> u \in 1 .. t - 1
  BY <1>1, <1>2
<1>17. \A u \in 1 .. t - 1 : u \in 1 .. CountGrid(p)
  BY <1>1, <1>2
<1>18. Pile(G, 1 .. k - 1) = RowsBefore(p, t)
  <2>1. ASSUME NEW x \in Pile(G, 1 .. k - 1)
        PROVE  x \in RowsBefore(p, t)
    <3>1. PICK q \in b : \E u \in 1 .. CountGrid(q) : \E i \in Part(q, u) :
                            x = <<q, i>> /\ Offset(q) + u < k
      BY <1>11, <2>1
    <3>2. PICK u \in 1 .. CountGrid(q) : \E i \in Part(q, u) : x = <<q, i>> /\ Offset(q) + u < k
      BY <3>1
    <3>3. PICK i \in Part(q, u) : x = <<q, i>> /\ Offset(q) + u < k
      BY <3>2
    <3>4. i \in 1 .. matches[q]
      BY <1>15
    <3>5. q < p \/ (q = p /\ u < t)
      BY <1>12, <3>3
    <3> QED
      BY <1>13, <1>16, <3>3, <3>4, <3>5
  <2>2. ASSUME NEW x \in RowsBefore(p, t)
        PROVE  x \in Pile(G, 1 .. k - 1)
    <3>1. CASE \E q \in b : q < p /\ \E i \in 1 .. matches[q] : x = <<q, i>>
      <4>1. PICK q \in b : q < p /\ \E i \in 1 .. matches[q] : x = <<q, i>>
        BY <3>1
      <4>2. PICK i \in 1 .. matches[q] : x = <<q, i>>
        BY <4>1
      <4>3. PICK u \in 1 .. CountGrid(q) : i \in Part(q, u)
        BY <1>14
      <4>4. Offset(q) + u < k
        BY <1>12, <4>1
      <4> QED
        BY <1>11, <4>2, <4>3, <4>4
    <3>2. CASE \E i \in 1 .. matches[p] : x = <<p, i>> /\ \E u \in 1 .. t - 1 : i \in Part(p, u)
      <4>1. PICK i \in 1 .. matches[p] : x = <<p, i>> /\ \E u \in 1 .. t - 1 : i \in Part(p, u)
        BY <3>2
      <4>2. PICK u \in 1 .. t - 1 : i \in Part(p, u)
        BY <4>1
      <4>3. u \in 1 .. CountGrid(p) /\ Offset(p) + u < k
        BY <1>1, <1>12, <1>16, <1>17
      <4> QED
        BY <1>1, <1>11, <4>1, <4>2, <4>3
    <3> QED
      BY <1>13, <2>2, <3>1, <3>2
  <2> QED
    BY <2>1, <2>2
<1>19. IsFiniteSet(RowsBefore(p, t))
  <2>1. IsFiniteSet(Meant({q \in BufferOf(p) : q < p}))
    BY <1>1, MeantIsFinite DEF b
  <2>2. t \in Int
    BY <1>1, <1>2
  <2> QED
    BY <2>1, <2>2, PartIsFinite, FS_Union DEF RowsBefore
<1>20. Cardinality(Counters(c, 1 .. k - 1)) = Cardinality(Pile(G, 1 .. k - 1))
  <2>1. \A s \in 1 .. k - 1 : c[s] = Cardinality(G[s])
    BY <1>9
  <2> HIDE DEF c
  <2> QED
    BY <1>10, <1>18, <1>19, <2>1, CountersCount
<1>21. ExclusiveScan(c)[k] = Cardinality(RowsBefore(p, t))
  BY <1>6, <1>18, <1>20
<1> QED
  BY <1>21 DEF b, k

(* The threads before the first have no matches, all threads have all.     *)
LEMMA FirstAndLastParts ==
    ASSUME Sized, NEW p \in Pipe
    PROVE  Parts(p, 1) = {} /\ Parts(p, CountGrid(p) + 1) = 1 .. matches[p]
<1>1. Parts(p, 1) = {}
  BY DEF Parts
<1>2. \A i \in 1 .. matches[p] : \E u \in 1 .. CountGrid(p) : i \in Part(p, u)
  BY PartsPartition
<1>3. CountGrid(p) \in Nat /\ CountGrid(p) + 1 - 1 = CountGrid(p)
  BY SameGrid
<1> QED
  BY <1>1, <1>2, <1>3 DEF Parts

(* After the scan, the difference over the slots of a pipeline is its      *)
(* number of matches.                                                      *)
LEMMA TotalIsMatches ==
    ASSUME Sized, Scanned, NEW p \in Pipe
    PROVE  TotalOf(p) = matches[p]
<1> DEFINE g == CountGrid(p)
           M == Meant({q \in BufferOf(p) : q < p})
           c == counts[BufferOf(p)]
<1>1. g \in Nat /\ g >= 1 /\ matches[p] \in Nat /\ p \in Nat /\ BufferOf(p) \subseteq Pipe
  BY SameGrid, PipelinesTyped, BufferIsShared
<1>2. c[Offset(p) + g + 1] = Cardinality(RowsBefore(p, g + 1))
  <2>1. g + 1 \in 1 .. g + 1
    BY <1>1
  <2>2. c[Offset(p) + (g + 1)] = Cardinality(RowsBefore(p, g + 1))
    BY <2>1 DEF Scanned
  <2>3. Offset(p) \in Nat
    BY BufferIsShared, SlotsLaidOut
  <2>4. Offset(p) + (g + 1) = Offset(p) + g + 1
    BY <1>1, <2>3
  <2> QED
    BY <2>2, <2>4
<1>3. c[Offset(p) + 1] = Cardinality(RowsBefore(p, 1))
  <2>1. 1 \in 1 .. g + 1
    BY <1>1
  <2> QED
    BY <2>1 DEF Scanned
<1>4. RowsBefore(p, 1) = M
  BY FirstAndLastParts DEF RowsBefore
<1>5. RowsBefore(p, g + 1) = M \cup ({p} \X (1 .. matches[p]))
  BY FirstAndLastParts DEF RowsBefore
<1>6. M \cap ({p} \X (1 .. matches[p])) = {}
  <2>1. \A q \in BufferOf(p) : q < p => q # p
    BY <1>1
  <2> QED
    BY <2>1 DEF Meant
<1>7. IsFiniteSet(M)
  BY <1>1, MeantIsFinite
<1>8. /\ IsFiniteSet({p} \X (1 .. matches[p]))
      /\ Cardinality({p} \X (1 .. matches[p])) = matches[p]
  <2>1. matches[p] \in Nat
    BY <1>1
  <2>2. IsFiniteSet(1 .. matches[p]) /\ Cardinality(1 .. matches[p]) = matches[p]
    BY <2>1, FS_Interval
  <2> QED
    BY <2>2, CountNamed
<1>9. /\ Cardinality(M \cup ({p} \X (1 .. matches[p])))
            = Cardinality(M) + Cardinality({p} \X (1 .. matches[p]))
      /\ Cardinality(M) \in Nat
  <2> HIDE DEF M
  <2> QED
    BY <1>6, <1>7, <1>8, CountApart
<1>10. TotalOf(p) = c[Offset(p) + g + 1] - c[Offset(p) + 1]
  BY DEF TotalOf
<1>11. c[Offset(p) + g + 1] = Cardinality(M) + matches[p]
  BY <1>2, <1>5, <1>8, <1>9
<1>12. c[Offset(p) + 1] = Cardinality(M)
  BY <1>3, <1>4
<1>13. Cardinality(M) \in Nat /\ matches[p] \in Nat
  BY <1>1, <1>9
<1> HIDE DEF c, M, g
<1> QED
  BY <1>10, <1>11, <1>12, <1>13

-----------------------------------------------------------------------------
(***************************************************************************)
(* The writing layout: rows of a relation                                  *)
(***************************************************************************)
(* Writers of a relation have an order, in which Ahead(p, d) are before p. *)
LEMMA AheadOrders ==
    ASSUME NEW d
    PROVE  /\ Writers(d) \subseteq Pipe /\ Sharing(d) \subseteq Writers(d)
           /\ \A p \in Writers(d) : Ahead(p, d) \subseteq Writers(d) /\ p \notin Ahead(p, d)
           /\ \A p, q \in Writers(d) : p # q =>
                 (\/ p \in Ahead(q, d) /\ Ahead(p, d) \subseteq Ahead(q, d)
                  \/ q \in Ahead(p, d) /\ Ahead(q, d) \subseteq Ahead(p, d))
<1>1. Writers(d) \subseteq Pipe
  BY DEF Writers
<1>2. Sharing(d) \subseteq Writers(d)
  BY PipelinesTyped DEF Writers, Sharing
<1>3. \A p \in Writers(d) : p \in Nat
  BY <1>1, PipelinesTyped
<1> DEFINE two == ~(Cardinality(Sharing(d)) < 2)
<1>4. /\ ~two => \A p \in Writers(d) : Ahead(p, d) = {q \in Writers(d) : q < p}
      /\ two => \A p \in Sharing(d) : Ahead(p, d) = {q \in Sharing(d) : q < p}
      /\ two => \A p \in Writers(d) \ Sharing(d) :
                   Ahead(p, d) = Sharing(d) \cup {q \in Writers(d) : q < p}
  BY DEF Ahead
<1> HIDE DEF two
<1>5. ASSUME NEW p \in Writers(d)
      PROVE  Ahead(p, d) \subseteq Writers(d) /\ p \notin Ahead(p, d)
  BY <1>2, <1>3, <1>4
<1>6. ASSUME NEW p \in Writers(d), NEW q \in Writers(d), p < q
      PROVE  \/ p \in Ahead(q, d) /\ Ahead(p, d) \subseteq Ahead(q, d)
             \/ q \in Ahead(p, d) /\ Ahead(q, d) \subseteq Ahead(p, d)
  <2>1. p \in Nat /\ q \in Nat
    BY <1>3
  <2>a. ASSUME NEW S, NEW T, \A r \in S : r \in Nat
        PROVE  T \cup {r \in S : r < p} \subseteq T \cup {r \in S : r < q}
    BY <1>6, <2>1, <2>a
  <2>2. CASE ~two
    <3>1. /\ Ahead(p, d) = {} \cup {r \in Writers(d) : r < p}
          /\ Ahead(q, d) = {} \cup {r \in Writers(d) : r < q}
      BY <1>4, <2>2
    <3>2. Ahead(p, d) \subseteq Ahead(q, d)
      BY <1>3, <2>a, <3>1
    <3> QED
      BY <1>6, <3>1, <3>2
  <2>3. CASE two /\ p \in Sharing(d) /\ q \in Sharing(d)
    <3>1. /\ Ahead(p, d) = {} \cup {r \in Sharing(d) : r < p}
          /\ Ahead(q, d) = {} \cup {r \in Sharing(d) : r < q}
      BY <1>4, <2>3
    <3>2. Ahead(p, d) \subseteq Ahead(q, d)
      BY <1>2, <1>3, <2>a, <3>1
    <3> QED
      BY <1>6, <2>3, <3>1, <3>2
  <2>4. CASE two /\ p \in Sharing(d) /\ q \notin Sharing(d)
    BY <1>4, <2>4
  <2>5. CASE two /\ p \notin Sharing(d) /\ q \in Sharing(d)
    BY <1>4, <2>5
  <2>6. CASE two /\ p \notin Sharing(d) /\ q \notin Sharing(d)
    <3>1. /\ Ahead(p, d) = Sharing(d) \cup {r \in Writers(d) : r < p}
          /\ Ahead(q, d) = Sharing(d) \cup {r \in Writers(d) : r < q}
      BY <1>4, <2>6
    <3>2. Ahead(p, d) \subseteq Ahead(q, d)
      BY <1>3, <2>a, <3>1
    <3> QED
      BY <1>6, <3>1, <3>2
  <2> QED
    BY <2>2, <2>3, <2>4, <2>5, <2>6
<1> QED
  BY <1>1, <1>2, <1>3, <1>5, <1>6

(* What the writers of d find falls into rows side by side, those of       *)
(* thread t of p after those of RowsAhead, and there are no others.        *)
LEMMA RowsLaidOut ==
    ASSUME Sized, NEW d
    PROVE  /\ Cardinality(Meant(Writers(d))) \in Nat
           /\ \A p \in Writers(d) : \A t \in 1 .. CountGrid(p) :
                 /\ Cardinality(RowsAhead(p, t, d)) \in Nat
                 /\ Cardinality(RowsAhead(p, t, d)) + Cardinality(Part(p, t))
                       <= Cardinality(Meant(Writers(d)))
           /\ \A p, q \in Writers(d) : \A t \in 1 .. CountGrid(p), u \in 1 .. CountGrid(q) :
                 <<p, t>> # <<q, u>> =>
                    (\/ Cardinality(RowsAhead(p, t, d)) + Cardinality(Part(p, t))
                           <= Cardinality(RowsAhead(q, u, d))
                     \/ Cardinality(RowsAhead(q, u, d)) + Cardinality(Part(q, u))
                           <= Cardinality(RowsAhead(p, t, d)))
           /\ \A k \in 1 .. Cardinality(Meant(Writers(d))) :
                 \E p \in Writers(d) : \E t \in 1 .. CountGrid(p) :
                    \E j \in 1 .. Cardinality(Part(p, t)) :
                       k = Cardinality(RowsAhead(p, t, d)) + j
<1> DEFINE W == UNION {{p} \X (1 .. CountGrid(p)) : p \in Writers(d)}
           F == [w \in W |-> {w[1]} \X Part(w[1], w[2])]
           Pre == [w \in W |-> {v \in W : v[1] \in Ahead(w[1], d) \/ (v[1] = w[1] /\ v[2] < w[2])}]
           A(p, t) == Cardinality(RowsAhead(p, t, d))
           n == Cardinality(Meant(Writers(d)))
<1>1. \A w : w \in W <=> \E p \in Writers(d) : \E t \in 1 .. CountGrid(p) : w = <<p, t>>
  OBVIOUS
<1>2. \A p \in Writers(d) : \A t \in 1 .. CountGrid(p) :
         /\ p \in Pipe /\ t \in Int /\ <<p, t>> \in W
         /\ F[<<p, t>>] = {p} \X Part(p, t)
         /\ \A q \in Writers(d) : \A u \in 1 .. CountGrid(q) :
               <<q, u>> \in Pre[<<p, t>>] <=> q \in Ahead(p, d) \/ (q = p /\ u < t)
         /\ Pre[<<p, t>>] \subseteq W
  <2> SUFFICES ASSUME NEW p \in Writers(d), NEW t \in 1 .. CountGrid(p)
               PROVE  /\ p \in Pipe /\ t \in Int /\ <<p, t>> \in W
                      /\ F[<<p, t>>] = {p} \X Part(p, t)
                      /\ \A q \in Writers(d) : \A u \in 1 .. CountGrid(q) :
                            <<q, u>> \in Pre[<<p, t>>] <=> q \in Ahead(p, d) \/ (q = p /\ u < t)
                      /\ Pre[<<p, t>>] \subseteq W
    OBVIOUS
  <2>1. p \in Pipe /\ <<p, t>> \in W
    BY <1>1, AheadOrders
  <2>2. t \in Int
    BY <2>1, SameGrid
  <2>3. F[<<p, t>>] = {p} \X Part(p, t)
    BY <2>1
  <2>4. Pre[<<p, t>>] = {v \in W : v[1] \in Ahead(p, d) \/ (v[1] = p /\ v[2] < t)}
    BY <2>1
  <2>5. \A q \in Writers(d) : \A u \in 1 .. CountGrid(q) : <<q, u>> \in W
    BY <1>1
  <2> HIDE DEF W, F, Pre
  <2> QED
    BY <2>1, <2>2, <2>3, <2>4, <2>5
<1> HIDE DEF W, F, Pre
<1>3. \A x : x \in Pile(F, W) <=>
         \E p \in Writers(d) : \E t \in 1 .. CountGrid(p) : \E i \in Part(p, t) : x = <<p, i>>
  <2>1. \A x : x \in Pile(F, W) <=> \E w \in W : x \in F[w]
    BY DEF Pile
  <2>2. ASSUME NEW x, x \in Pile(F, W)
        PROVE  \E p \in Writers(d) : \E t \in 1 .. CountGrid(p) : \E i \in Part(p, t) : x = <<p, i>>
    <3>1. PICK w \in W : x \in F[w]
      BY <2>1, <2>2
    <3>2. PICK p \in Writers(d) : \E t \in 1 .. CountGrid(p) : w = <<p, t>>
      BY <1>1
    <3>3. PICK t \in 1 .. CountGrid(p) : w = <<p, t>>
      BY <3>2
    <3>4. x \in {p} \X Part(p, t)
      BY <1>2, <3>1, <3>3
    <3>5. \E i \in Part(p, t) : x = <<p, i>>
      BY <3>4
    <3> QED
      BY <3>5
  <2>3. ASSUME NEW p \in Writers(d), NEW t \in 1 .. CountGrid(p), NEW i \in Part(p, t)
        PROVE  <<p, i>> \in Pile(F, W)
    <3>1. F[<<p, t>>] = {p} \X Part(p, t) /\ <<p, t>> \in W
      BY <1>2
    <3>2. <<p, i>> \in F[<<p, t>>]
      BY <3>1
    <3> QED
      BY <2>1, <3>1, <3>2
  <2> QED
    BY <2>2, <2>3
<1>4. Pile(F, W) = Meant(Writers(d))
  <2>1. \A x : x \in Meant(Writers(d)) <=>
           \E p \in Writers(d) : \E i \in 1 .. matches[p] : x = <<p, i>>
    BY MeantPairs
  <2>2. \A p \in Writers(d) : \A i \in 1 .. matches[p] :
           \E t \in 1 .. CountGrid(p) : i \in Part(p, t)
    BY AheadOrders, PartsPartition
  <2>3. \A p \in Writers(d) : \A t \in 1 .. CountGrid(p) : Part(p, t) \subseteq 1 .. matches[p]
    BY AheadOrders, PartsPartition
  <2>4. ASSUME NEW x \in Pile(F, W)
        PROVE  x \in Meant(Writers(d))
    BY <1>3, <2>1, <2>3, <2>4
  <2>5. ASSUME NEW x \in Meant(Writers(d))
        PROVE  x \in Pile(F, W)
    BY <1>3, <2>1, <2>2, <2>5
  <2> QED
    BY <2>4, <2>5
<1>5. IsFiniteSet(Pile(F, W))
  BY <1>4, AheadOrders, MeantIsFinite
<1>6. \A v, w \in W : v # w => F[v] \cap F[w] = {}
  <2> SUFFICES ASSUME NEW p \in Writers(d), NEW t \in 1 .. CountGrid(p),
                      NEW q \in Writers(d), NEW u \in 1 .. CountGrid(q), <<p, t>> # <<q, u>>
               PROVE  F[<<p, t>>] \cap F[<<q, u>>] = {}
    BY <1>1
  <2>1. F[<<p, t>>] = {p} \X Part(p, t) /\ F[<<q, u>>] = {q} \X Part(q, u) /\ p \in Pipe
    BY <1>2
  <2>2. p # q \/ Part(p, t) \cap Part(q, u) = {}
    BY <2>1, PartsPartition
  <2> QED
    BY <2>1, <2>2
<1>7. \A w \in W : Pre[w] \subseteq W /\ w \notin Pre[w]
  <2> SUFFICES ASSUME NEW p \in Writers(d), NEW t \in 1 .. CountGrid(p)
               PROVE  Pre[<<p, t>>] \subseteq W /\ <<p, t>> \notin Pre[<<p, t>>]
    BY <1>1
  <2>1. p \notin Ahead(p, d) /\ ~(t < t)
    BY <1>2, AheadOrders
  <2> QED
    BY <1>2, <2>1
<1>8. ASSUME NEW p \in Writers(d), NEW t \in 1 .. CountGrid(p),
             NEW q \in Writers(d), NEW u \in 1 .. CountGrid(q),
             (p \in Ahead(q, d) /\ Ahead(p, d) \subseteq Ahead(q, d)) \/ (p = q /\ t < u)
      PROVE  <<p, t>> \in Pre[<<q, u>>] /\ Pre[<<p, t>>] \subseteq Pre[<<q, u>>]
  <2>1. <<p, t>> \in Pre[<<q, u>>]
    BY <1>2, <1>8
  <2>2. ASSUME NEW r \in Writers(d), NEW v \in 1 .. CountGrid(r), <<r, v>> \in Pre[<<p, t>>]
        PROVE  <<r, v>> \in Pre[<<q, u>>]
    <3>1. t \in Int /\ u \in Int /\ v \in Int
      BY <1>2
    <3>2. r \in Ahead(p, d) \/ (r = p /\ v < t)
      BY <1>2, <2>2
    <3>3. r \in Ahead(q, d) \/ (r = q /\ v < u)
      BY <1>8, <3>1, <3>2
    <3> QED
      BY <1>2, <3>3
  <2>3. Pre[<<p, t>>] \subseteq W
    BY <1>2
  <2> QED
    BY <1>1, <2>1, <2>2, <2>3
<1>9. ASSUME NEW p \in Writers(d), NEW t \in 1 .. CountGrid(p),
             NEW q \in Writers(d), NEW u \in 1 .. CountGrid(q), <<p, t>> # <<q, u>>
      PROVE  \/ <<p, t>> \in Pre[<<q, u>>] /\ Pre[<<p, t>>] \subseteq Pre[<<q, u>>]
             \/ <<q, u>> \in Pre[<<p, t>>] /\ Pre[<<q, u>>] \subseteq Pre[<<p, t>>]
  <2>1. CASE p # q
    BY <1>8, <2>1, AheadOrders
  <2>2. CASE p = q
    <3>1. t \in Int /\ u \in Int /\ t # u
      BY <1>2, <1>9, <2>2
    <3>2. t < u \/ u < t
      BY <3>1
    <3> QED
      BY <1>8, <2>2, <3>2
  <2> QED
    BY <2>1, <2>2
<1>10. \A v, w \in W : v # w => (\/ v \in Pre[w] /\ Pre[v] \subseteq Pre[w]
                                 \/ w \in Pre[v] /\ Pre[w] \subseteq Pre[v])
  BY <1>1, <1>9
<1>11. ASSUME NEW p \in Writers(d), NEW t \in 1 .. CountGrid(p)
       PROVE  Pile(F, Pre[<<p, t>>]) = RowsAhead(p, t, d)
  <2>1. p \in Pipe /\ CountGrid(p) \in Nat /\ t \in Int
    BY <1>2, SameGrid
  <2>2. \A x : x \in Pile(F, Pre[<<p, t>>]) <=> \E w \in Pre[<<p, t>>] : x \in F[w]
    BY DEF Pile
  <2>3. \A x : x \in RowsAhead(p, t, d) <=>
           \/ \E q \in Ahead(p, d) : \E i \in 1 .. matches[q] : x = <<q, i>>
           \/ \E i \in 1 .. matches[p] : x = <<p, i>> /\ \E u \in 1 .. t - 1 : i \in Part(p, u)
    BY DEF RowsAhead, Meant, Parts
  <2>4. ASSUME NEW x \in Pile(F, Pre[<<p, t>>])
        PROVE  x \in RowsAhead(p, t, d)
    <3>1. PICK w \in Pre[<<p, t>>] : x \in F[w]
      BY <2>2, <2>4
    <3>2. w \in W
      BY <1>2
    <3>3. PICK q \in Writers(d) : \E u \in 1 .. CountGrid(q) : w = <<q, u>>
      BY <1>1, <3>2
    <3>4. PICK u \in 1 .. CountGrid(q) : w = <<q, u>>
      BY <3>3
    <3>5. x \in {q} \X Part(q, u) /\ (q \in Ahead(p, d) \/ (q = p /\ u < t)) /\ q \in Pipe
      BY <1>2, <3>1, <3>4
    <3>6. PICK i \in Part(q, u) : x = <<q, i>>
      BY <3>5
    <3>7. i \in 1 .. matches[q]
      BY <3>5, PartsPartition
    <3>8. u < t => u \in 1 .. t - 1
      BY <1>2, <2>1
    <3> QED
      BY <2>3, <3>5, <3>6, <3>7, <3>8
  <2>5. ASSUME NEW x \in RowsAhead(p, t, d)
        PROVE  x \in Pile(F, Pre[<<p, t>>])
    <3>1. CASE \E q \in Ahead(p, d) : \E i \in 1 .. matches[q] : x = <<q, i>>
      <4>1. PICK q \in Ahead(p, d) : \E i \in 1 .. matches[q] : x = <<q, i>>
        BY <3>1
      <4>2. PICK i \in 1 .. matches[q] : x = <<q, i>>
        BY <4>1
      <4>3. q \in Writers(d) /\ q \in Pipe
        BY AheadOrders
      <4>4. PICK u \in 1 .. CountGrid(q) : i \in Part(q, u)
        BY <4>3, PartsPartition
      <4>5. <<q, u>> \in Pre[<<p, t>>] /\ F[<<q, u>>] = {q} \X Part(q, u)
        BY <1>2, <4>3
      <4> QED
        BY <2>2, <4>2, <4>4, <4>5
    <3>2. CASE \E i \in 1 .. matches[p] : x = <<p, i>> /\ \E u \in 1 .. t - 1 : i \in Part(p, u)
      <4>1. PICK i \in 1 .. matches[p] : x = <<p, i>> /\ \E u \in 1 .. t - 1 : i \in Part(p, u)
        BY <3>2
      <4>2. PICK u \in 1 .. t - 1 : i \in Part(p, u)
        BY <4>1
      <4>3. u \in 1 .. CountGrid(p) /\ u < t
        BY <2>1
      <4>4. <<p, u>> \in Pre[<<p, t>>] /\ F[<<p, u>>] = {p} \X Part(p, u)
        BY <1>2, <4>3
      <4> QED
        BY <2>2, <4>1, <4>2, <4>4
    <3> QED
      BY <2>3, <2>5, <3>1, <3>2
  <2> QED
    BY <2>4, <2>5
<1>12. ASSUME NEW p \in Writers(d), NEW t \in 1 .. CountGrid(p)
       PROVE  /\ Cardinality(Pile(F, Pre[<<p, t>>])) = A(p, t)
              /\ Cardinality(F[<<p, t>>]) = Cardinality(Part(p, t))
              /\ Cardinality(Part(p, t)) \in Nat
  <2>1. p \in Pipe /\ t \in Int /\ F[<<p, t>>] = {p} \X Part(p, t)
    BY <1>2
  <2>2. IsFiniteSet(Part(p, t)) /\ Cardinality(Part(p, t)) \in Nat
    BY <2>1, PartIsFinite
  <2>3. Cardinality({p} \X Part(p, t)) = Cardinality(Part(p, t))
    BY <2>2, CountNamed
  <2> QED
    BY <1>11, <2>1, <2>2, <2>3
<1>13. /\ \A v, w \in W : v \in Pre[w] /\ Pre[v] \subseteq Pre[w] =>
             Cardinality(Pile(F, Pre[v])) + Cardinality(F[v]) <= Cardinality(Pile(F, Pre[w]))
       /\ UNION {Places(F, Pre, w) : w \in W} = 1 .. Cardinality(Pile(F, W))
       /\ \A w \in W : Cardinality(Pile(F, Pre[w])) \in Nat
       /\ Cardinality(Pile(F, W)) \in Nat
  BY <1>5, <1>6, <1>7, <1>10, LaidOut
<1>14. n \in Nat
  BY <1>4, <1>13
<1>15. ASSUME NEW p \in Writers(d), NEW t \in 1 .. CountGrid(p)
       PROVE  /\ A(p, t) \in Nat
              /\ Places(F, Pre, <<p, t>>) = A(p, t) + 1 .. A(p, t) + Cardinality(Part(p, t))
              /\ Places(F, Pre, <<p, t>>) \subseteq 1 .. n
  <2>1. <<p, t>> \in W
    BY <1>2
  <2>2. A(p, t) \in Nat
    BY <1>12, <1>13, <2>1
  <2>3. Places(F, Pre, <<p, t>>) = A(p, t) + 1 .. A(p, t) + Cardinality(Part(p, t))
    BY <1>12 DEF Places
  <2>4. Places(F, Pre, <<p, t>>) \subseteq 1 .. n
    BY <1>4, <1>13, <2>1
  <2> QED
    BY <2>2, <2>3, <2>4
<1>16. ASSUME NEW p \in Writers(d), NEW q \in Writers(d),
              NEW t \in 1 .. CountGrid(p), NEW u \in 1 .. CountGrid(q), <<p, t>> # <<q, u>>
       PROVE  \/ A(p, t) + Cardinality(Part(p, t)) <= A(q, u)
              \/ A(q, u) + Cardinality(Part(q, u)) <= A(p, t)
  <2>1. <<p, t>> \in W /\ <<q, u>> \in W
    BY <1>2
  <2>2. \/ Cardinality(Pile(F, Pre[<<p, t>>])) + Cardinality(F[<<p, t>>])
              <= Cardinality(Pile(F, Pre[<<q, u>>]))
        \/ Cardinality(Pile(F, Pre[<<q, u>>])) + Cardinality(F[<<q, u>>])
              <= Cardinality(Pile(F, Pre[<<p, t>>]))
    BY <1>9, <1>13, <1>16, <2>1
  <2> QED
    BY <1>12, <2>2
<1>17. ASSUME NEW p \in Writers(d), NEW t \in 1 .. CountGrid(p)
       PROVE  A(p, t) + Cardinality(Part(p, t)) <= n
  <2> DEFINE a == A(p, t)
             c == Cardinality(Part(p, t))
  <2>1. a \in Nat /\ c \in Nat
    BY <1>12, <1>15
  <2>2. Places(F, Pre, <<p, t>>) = a + 1 .. a + c /\ Places(F, Pre, <<p, t>>) \subseteq 1 .. n
    BY <1>15
  <2>3. a <= n
    <3>1. Pile(F, Pre[<<p, t>>]) \subseteq Pile(F, W)
      BY <1>2 DEF Pile
    <3>2. Cardinality(Pile(F, Pre[<<p, t>>])) <= Cardinality(Pile(F, W))
      BY <1>5, <3>1, FS_Subset
    <3> QED
      BY <1>4, <1>12, <3>2
  <2> HIDE DEF a, c, n
  <2>4. c = 0 => a + c <= n
    BY <1>14, <2>1, <2>3
  <2>5. ASSUME c > 0
        PROVE  a + c <= n
    <3>1. a + c \in a + 1 .. a + c
      BY <2>1, <2>5
    <3>2. a + c \in 1 .. n
      BY <2>2, <3>1
    <3> QED
      BY <1>14, <3>2
  <2>6. a + c <= n
    BY <2>1, <2>4, <2>5
  <2> QED
    BY <2>6 DEF a, c, n
<1>18. ASSUME NEW k \in 1 .. n
       PROVE  \E p \in Writers(d) : \E t \in 1 .. CountGrid(p) :
                 \E j \in 1 .. Cardinality(Part(p, t)) : k = A(p, t) + j
  <2>1. PICK w \in W : k \in Places(F, Pre, w)
    BY <1>4, <1>13
  <2>2. PICK p \in Writers(d) : \E t \in 1 .. CountGrid(p) : w = <<p, t>>
    BY <1>1
  <2>3. PICK t \in 1 .. CountGrid(p) : w = <<p, t>>
    BY <2>2
  <2> DEFINE a == A(p, t)
             c == Cardinality(Part(p, t))
  <2>4. k \in a + 1 .. a + c /\ a \in Nat /\ c \in Nat
    BY <1>12, <1>15, <2>1, <2>3
  <2> HIDE DEF a, c, n
  <2>5. k - a \in 1 .. c /\ k = a + (k - a)
    BY <2>4
  <2> QED
    BY <2>5 DEF a, c
<1> QED
  BY <1>14, <1>15, <1>16, <1>17, <1>18

(* A pipeline writes a relation for one of its heads, if any.              *)
LEMMA WritesAre ==
    ASSUME GroupSupported, NEW d
    PROVE  /\ \A w \in WritesOf(d) : /\ w = <<w[1], w[2]>> /\ w[1] \in Writers(d) /\ w[1] \in Pipe
                                     /\ w[2] \in DOMAIN HeadsOf(w[1]) /\ HeadsOf(w[1])[w[2]] = d
           /\ \A v, w \in WritesOf(d) : v[1] = w[1] => v = w
           /\ \A p \in Pipe : \A h \in DOMAIN HeadsOf(p) :
                 HeadsOf(p)[h] = d => <<p, h>> \in WritesOf(d)
           /\ \A p \in Writers(d) : \E w \in WritesOf(d) : w[1] = p
<1>1. \A w : w \in WritesOf(d) <=>
         \E p \in Pipe : \E h \in DOMAIN HeadsOf(p) : HeadsOf(p)[h] = d /\ w = <<p, h>>
  BY DEF WritesOf
<1>2. ASSUME NEW w \in WritesOf(d)
      PROVE  /\ w = <<w[1], w[2]>> /\ w[1] \in Writers(d) /\ w[1] \in Pipe
             /\ w[2] \in DOMAIN HeadsOf(w[1]) /\ HeadsOf(w[1])[w[2]] = d
  <2>1. PICK p \in Pipe : \E h \in DOMAIN HeadsOf(p) : HeadsOf(p)[h] = d /\ w = <<p, h>>
    BY <1>1
  <2>2. PICK h \in DOMAIN HeadsOf(p) : HeadsOf(p)[h] = d /\ w = <<p, h>>
    BY <2>1
  <2>3. p \in Writers(d)
    BY <2>2 DEF Writers
  <2> QED
    BY <2>2, <2>3
<1>3. ASSUME NEW v \in WritesOf(d), NEW w \in WritesOf(d), v[1] = w[1]
      PROVE  v = w
  <2>1. /\ w[1] \in Pipe /\ v[2] \in DOMAIN HeadsOf(w[1]) /\ w[2] \in DOMAIN HeadsOf(w[1])
        /\ HeadsOf(w[1])[v[2]] = HeadsOf(w[1])[w[2]]
    BY <1>2, <1>3
  <2>2. v[2] = w[2]
    BY <2>1 DEF GroupSupported
  <2> QED
    BY <1>2, <1>3, <2>2
<1>4. \A p \in Pipe : \A h \in DOMAIN HeadsOf(p) : HeadsOf(p)[h] = d => <<p, h>> \in WritesOf(d)
  BY <1>1
<1>5. ASSUME NEW p \in Writers(d)
      PROVE  \E w \in WritesOf(d) : w[1] = p
  <2>1. PICK h \in DOMAIN HeadsOf(p) : HeadsOf(p)[h] = d /\ p \in Pipe
    BY DEF Writers
  <2>2. <<p, h>> \in WritesOf(d) /\ <<p, h>>[1] = p
    BY <1>4, <2>1
  <2> QED
    BY <2>2
<1> QED
  BY <1>2, <1>3, <1>4, <1>5

(* Totals read for writes of d add up to the matches of their pipelines.   *)
LEMMA TotalReadCounts ==
    ASSUME GroupSupported, Sized, total = matches, NEW d, NEW V \in SUBSET WritesOf(d),
           NEW P, P = {w[1] : w \in V}
    PROVE  /\ TotalRead(V) = Cardinality(Meant(P)) /\ TotalRead(V) \in Nat
           /\ P \subseteq Pipe /\ IsFiniteSet(Meant(P))
<1> DEFINE n == [w \in V |-> total[w[1]]]
           F == [w \in V |-> {w[1]} \X (1 .. matches[w[1]])]
<1>1. \A w \in V : w[1] \in Pipe
  BY WritesAre
<1>2. P \subseteq Pipe
  BY <1>1
<1>3. IsFiniteSet(Meant(P)) /\ Cardinality(Meant(P)) \in Nat
  BY <1>2, MeantIsFinite
<1>4. Pile(F, V) = Meant(P)
  <2>1. \A x : x \in Pile(F, V) <=> \E w \in V : x \in {w[1]} \X (1 .. matches[w[1]])
    BY DEF Pile
  <2>2. \A x : x \in Meant(P) <=> \E q \in P : x \in {q} \X (1 .. matches[q])
    BY DEF Meant
  <2> QED
    BY <2>1, <2>2
<1>5. \A v, w \in V : v # w => F[v] \cap F[w] = {}
  BY WritesAre
<1>6. ASSUME NEW w \in V
      PROVE  n[w] = Cardinality(F[w])
  <2>1. PICK m \in Nat : m = matches[w[1]]
    BY <1>1, SameGrid
  <2>2. IsFiniteSet(1 .. m) /\ Cardinality(1 .. m) = m
    BY CountUpTo
  <2>3. Cardinality({w[1]} \X (1 .. m)) = m
    BY <2>2, CountNamed
  <2> QED
    BY <2>1, <2>3
<1>7. TotalRead(V) = Cardinality(Counters(n, V))
  BY DEF TotalRead, Sum, Counters
<1> HIDE DEF n, F
<1>8. Cardinality(Counters(n, V)) = Cardinality(Pile(F, V))
  BY <1>3, <1>4, <1>5, <1>6, CountersCount
<1> QED
  BY <1>2, <1>3, <1>4, <1>7, <1>8

(* What the host puts before the rows of a write makes up for what the     *)
(* offsets in the buffer leave out.                                        *)
LEMMA StartsAhead ==
    ASSUME GroupSupported, Sized, total = matches, NEW p \in Pipe, NEW h \in DOMAIN HeadsOf(p),
           NEW t \in 1 .. CountGrid(p), NEW d, d = HeadsOf(p)[h]
    PROVE  /\ Before(<<p, h>>, d) \in Nat
           /\ Before(<<p, h>>, d) + Cardinality(RowsBefore(p, t)) = Cardinality(RowsAhead(p, t, d))
<1> DEFINE w == <<p, h>>
           T == {p} \X Parts(p, t)
<1>1. w \in WritesOf(d) /\ p \in Writers(d)
  BY WritesAre DEF Writers
<1>2. p \in Nat /\ t \in Int /\ \A q \in Writers(d) : q \in Nat /\ q \in Pipe
  BY AheadOrders, SameGrid, PipelinesTyped
<1>3. Single(p) => BufferOf(p) = Sharing(d) /\ p \in Sharing(d)
  <2> SUFFICES ASSUME Single(p)
               PROVE  h = 1
    BY DEF BufferOf, Sharing
  <2> QED
    BY PipelinesTyped DEF Single
<1>4. ~Single(p) => BufferOf(p) = {p} /\ p \notin Sharing(d)
  BY DEF BufferOf, Sharing
<1>5. \A v \in WritesOf(d) : Earlier(v, w) <=> v[1] < p
  <2> SUFFICES ASSUME NEW v \in WritesOf(d)
               PROVE  ~(v[1] = p /\ v[2] < h)
    BY DEF Earlier
  <2>1. v[1] = p => v[2] = h
    BY <1>1, WritesAre
  <2>2. h \in Int
    BY PipelinesTyped
  <2> QED
    BY <2>1, <2>2
<1>6. \A q : q \in Writers(d) <=> \E v \in WritesOf(d) : v[1] = q
  BY WritesAre
<1>7. IsFiniteSet(T)
  BY <1>2, PartIsFinite
<1>8. ASSUME BufferOf(p) = {p}, Before(w, d) = Cardinality(Meant(Ahead(p, d)))
      PROVE  /\ Before(w, d) \in Nat
             /\ Before(w, d) + Cardinality(RowsBefore(p, t)) = Cardinality(RowsAhead(p, t, d))
  <2>1. Meant({q \in BufferOf(p) : q < p}) = {}
    BY <1>2, <1>8 DEF Meant
  <2>2. RowsBefore(p, t) = T /\ RowsAhead(p, t, d) = Meant(Ahead(p, d)) \cup T
    BY <2>1 DEF RowsBefore, RowsAhead
  <2>3. Ahead(p, d) \subseteq Pipe /\ p \notin Ahead(p, d)
    BY <1>1, <1>2, AheadOrders
  <2>4. Meant(Ahead(p, d)) \cap T = {}
    BY <2>3 DEF Meant
  <2>5. IsFiniteSet(Meant(Ahead(p, d)))
    BY <2>3, MeantIsFinite
  <2> HIDE DEF T, w
  <2>6. /\ Cardinality(Meant(Ahead(p, d)) \cup T) = Cardinality(Meant(Ahead(p, d))) + Cardinality(T)
        /\ Cardinality(Meant(Ahead(p, d))) \in Nat
    BY <1>7, <2>4, <2>5, CountApart
  <2> QED
    BY <1>8, <2>2, <2>6
<1>9. IsFiniteSet(Sharing(d))
  BY PipelinesTyped, FS_Subset DEF Sharing
<1>10. CASE Cardinality(Sharing(d)) < 2
  <2>1. BufferOf(p) = {p}
    <3>1. ASSUME Single(p)
          PROVE  Sharing(d) = {p}
      <4>1. Cardinality(Sharing(d)) \in Nat /\ Cardinality(Sharing(d)) # 0
        BY <1>3, <1>9, <3>1, FS_CardinalityType, FS_EmptySet
      <4>2. Cardinality(Sharing(d)) = 1
        BY <1>10, <4>1
      <4>3. \E x : Sharing(d) = {x}
        BY <1>9, <4>2, FS_Singleton
      <4> QED
        BY <1>3, <3>1, <4>3
    <3> QED
      BY <1>3, <1>4, <3>1
  <2> DEFINE V == {v \in WritesOf(d) : Earlier(v, w)}
             P == {v[1] : v \in V}
  <2>2. P = Ahead(p, d)
    <3>1. Ahead(p, d) = {q \in Writers(d) : q < p}
      BY <1>10 DEF Ahead
    <3>2. \A v : v \in V <=> v \in WritesOf(d) /\ v[1] < p
      BY <1>5
    <3>3. \A q : q \in P <=> \E v \in V : v[1] = q
      OBVIOUS
    <3> HIDE DEF V, P
    <3> QED
      BY <1>6, <3>1, <3>2, <3>3
  <2>3. V \in SUBSET WritesOf(d)
    OBVIOUS
  <2>4. Before(w, d) = TotalRead(V)
    BY <1>10 DEF Before
  <2>5. P = {v[1] : v \in V}
    OBVIOUS
  <2> HIDE DEF V, P
  <2>6. TotalRead(V) = Cardinality(Meant(P))
    BY <2>3, <2>5, TotalReadCounts
  <2> QED
    BY <1>8, <2>1, <2>2, <2>4, <2>6
<1>11. CASE ~(Cardinality(Sharing(d)) < 2) /\ p \in Sharing(d)
  <2>1. BufferOf(p) = Sharing(d)
    BY <1>3, <1>4, <1>11
  <2>2. Before(w, d) = 0
    BY <1>11 DEF Before
  <2>3. RowsBefore(p, t) = RowsAhead(p, t, d)
    BY <1>11, <2>1 DEF RowsBefore, RowsAhead, Ahead
  <2>4. Cardinality(RowsAhead(p, t, d)) \in Nat
    BY <1>1, RowsLaidOut
  <2> QED
    BY <2>2, <2>3, <2>4
<1>12. CASE ~(Cardinality(Sharing(d)) < 2) /\ p \notin Sharing(d)
  <2>1. BufferOf(p) = {p}
    BY <1>3, <1>4, <1>12
  <2> DEFINE V == {v \in WritesOf(d) : v[1] \in Sharing(d) \/ Earlier(v, w)}
             P == {v[1] : v \in V}
  <2>2. P = Ahead(p, d)
    <3>1. Ahead(p, d) = Sharing(d) \cup {q \in Writers(d) : q < p}
      BY <1>12 DEF Ahead
    <3>2. \A v : v \in V <=> v \in WritesOf(d) /\ (v[1] \in Sharing(d) \/ v[1] < p)
      BY <1>5
    <3>3. \A q : q \in P <=> \E v \in V : v[1] = q
      OBVIOUS
    <3>4. Sharing(d) \subseteq Writers(d)
      BY AheadOrders
    <3> HIDE DEF V, P
    <3> QED
      BY <1>6, <3>1, <3>2, <3>3, <3>4
  <2>3. V \in SUBSET WritesOf(d)
    OBVIOUS
  <2>4. Before(w, d) = TotalRead(V)
    BY <1>12 DEF Before
  <2>5. P = {v[1] : v \in V}
    OBVIOUS
  <2> HIDE DEF V, P
  <2>6. TotalRead(V) = Cardinality(Meant(P))
    BY <2>3, <2>5, TotalReadCounts
  <2> QED
    BY <1>8, <2>1, <2>2, <2>4, <2>6
<1> QED
  BY <1>10, <1>11, <1>12

-----------------------------------------------------------------------------
(***************************************************************************)
(* The rows a thread writes                                                *)
(***************************************************************************)
(* A thread writes a row for each match of its part, and no others.        *)
LEMMA EmittedRows ==
    ASSUME GroupSupported, Sized, NEW p \in Pipe, NEW h \in DOMAIN HeadsOf(p), NEW t \in Int
    PROVE  /\ DOMAIN Emitted(p, t, h) = 1 .. Len(Emitted(p, t, h))
           /\ Len(Emitted(p, t, h)) = Cardinality(Part(p, t))
           /\ \A j \in 1 .. Cardinality(Part(p, t)) :
                 /\ \E i \in Part(p, t) : Emitted(p, t, h)[j] = <<p, h, i>>
                 /\ Emitted(p, t, h)[j] # Junk /\ Emitted(p, t, h)[j] # Old
           /\ \A i \in Part(p, t) : \E j \in 1 .. Cardinality(Part(p, t)) :
                 Emitted(p, t, h)[j] = <<p, h, i>>
<1> DEFINE S == Part(p, t)
           R == {<<p, h, i>> : i \in S}
           e == Emitted(p, t, h)
<1>1. RowsFor(p, t, h) = R
  <2>1. \A j \in DOMAIN HeadsOf(p) : OutputOf(p, j) = h <=> j = h
    BY HeadIsOutput
  <2>2. Share(p, t, WriteGrid(p)) = S
    BY SameGrid DEF Part
  <2>3. RowsFor(p, t, h) = {<<p, j, i>> : j \in {k \in DOMAIN HeadsOf(p) : OutputOf(p, k) = h}, i \in S}
    BY <2>2 DEF RowsFor
  <2>4. {k \in DOMAIN HeadsOf(p) : OutputOf(p, k) = h} = {h}
    BY <2>1
  <2> HIDE DEF S
  <2> QED
    BY <2>3, <2>4
<1>2. IsFiniteSet(S)
  BY PartIsFinite
<1>3. IsFiniteSet(R) /\ Cardinality(R) = Cardinality(S)
  <2>1. R = Triples(p, h, S)
    BY DEF Triples
  <2> HIDE DEF S, R
  <2> QED
    BY <1>2, <2>1, CountTriples
<1>4. e = SetToSeq(R)
  BY <1>1 DEF Emitted
<1> HIDE DEF R, e
<1>5. /\ e \in Seq(R) /\ Len(e) = Cardinality(R)
      /\ \A i \in DOMAIN e : e[i] \in R
      /\ \A x \in R : \E i \in DOMAIN e : e[i] = x
  BY <1>3, <1>4, ElementsInSequence
<1>6. DOMAIN e = 1 .. Len(e) /\ Len(e) = Cardinality(S)
  BY <1>3, <1>5
<1>7. \A x : x \in R <=> \E i \in S : x = <<p, h, i>>
  BY DEF R
<1>8. p # 0
  BY PipelinesTyped
<1>9. \A x \in R : x # Junk /\ x # Old
  BY <1>7, <1>8 DEF Junk, Old
<1> HIDE DEF S
<1>10. \A j \in 1 .. Cardinality(S) : \E i \in S : e[j] = <<p, h, i>>
  BY <1>5, <1>6, <1>7
<1>11. \A i \in S : \E j \in 1 .. Cardinality(S) : e[j] = <<p, h, i>>
  BY <1>5, <1>6, <1>7
<1>12. \A j \in 1 .. Cardinality(S) : e[j] # Junk /\ e[j] # Old
  BY <1>5, <1>6, <1>9
<1> QED
  BY <1>6, <1>10, <1>11, <1>12 DEF S, e

-----------------------------------------------------------------------------
(***************************************************************************)
(* What the invariant says                                                 *)
(***************************************************************************)
(* Every row behind the old ones is the j-th row of one thread that writes.*)
LEMMA RowsHaveThreads ==
    ASSUME GroupSupported, Sized, NEW base \in [Rel -> 0 .. 1], Laid(base),
           NEW d \in Rel, NEW k \in DOMAIN rows[d], ~(k <= base[d])
    PROVE  \E p \in Pipe : \E h \in DOMAIN HeadsOf(p) : \E t \in 1 .. CountGrid(p) :
              \E j \in 1 .. Cardinality(Part(p, t)) :
                 HeadsOf(p)[h] = d /\ ~CountOnly(p) /\ k = StartAt(p, h, t) + j
<1> DEFINE n == Cardinality(Meant(Writers(d)))
<1>1. /\ base[d] \in Nat
      /\ DOMAIN rows[d] = 1 .. base[d] + (IF Skipped(d) THEN 0 ELSE n)
      /\ \A p \in Pipe : ~CountOnly(p) =>
            \A h \in DOMAIN HeadsOf(p) : \A t \in 1 .. CountGrid(p) : Filled(base, p, h, t)
  BY DEF Laid
<1>2. n \in Nat
  BY RowsLaidOut
<1>3. ~Skipped(d) /\ k - base[d] \in 1 .. n
  <2> HIDE DEF n
  <2>1. CASE Skipped(d)
    BY <1>1, <2>1
  <2>2. CASE ~Skipped(d)
    BY <1>1, <1>2, <2>2
  <2> QED
    BY <2>1, <2>2
<1>4. PICK p \in Writers(d) : \E t \in 1 .. CountGrid(p) : \E j \in 1 .. Cardinality(Part(p, t)) :
         k - base[d] = Cardinality(RowsAhead(p, t, d)) + j
  BY <1>3, RowsLaidOut
<1>5. PICK t \in 1 .. CountGrid(p) : \E j \in 1 .. Cardinality(Part(p, t)) :
         k - base[d] = Cardinality(RowsAhead(p, t, d)) + j
  BY <1>4
<1>6. PICK j \in 1 .. Cardinality(Part(p, t)) : k - base[d] = Cardinality(RowsAhead(p, t, d)) + j
  BY <1>5
<1>7. PICK h \in DOMAIN HeadsOf(p) : HeadsOf(p)[h] = d /\ p \in Pipe
  BY DEF Writers
<1>8. ~CountOnly(p)
  <2>1. PICK w \in WritesOf(d) : ~CountOnly(w[1])
    BY <1>3 DEF Skipped
  <2>2. w[1] \in Pipe /\ w[2] \in DOMAIN HeadsOf(w[1]) /\ HeadsOf(w[1])[w[2]] = d
    BY WritesAre
  <2>3. CountOnly(p) = CountOnly(w[1])
    BY <1>7, <2>2 DEF GroupSupported
  <2> QED
    BY <2>1, <2>3
<1>9. StartAt(p, h, t) = base[d] + Cardinality(RowsAhead(p, t, d))
  BY <1>1, <1>7, <1>8 DEF Filled
<1>10. k = StartAt(p, h, t) + j
  <2>1. PICK a \in Nat : a = Cardinality(RowsAhead(p, t, d))
    BY RowsLaidOut
  <2>2. k \in Int
    BY <1>1, <1>2
  <2>3. k - base[d] = a + j /\ StartAt(p, h, t) = base[d] + a /\ j \in Int
    BY <1>6, <1>9, <2>1
  <2> QED
    BY <1>1, <2>1, <2>2, <2>3
<1> QED
  BY <1>7, <1>8, <1>10

(* The rows of a thread that writes lie in the columns behind the old ones,*)
(* apart from those of any other.                                          *)
LEMMA ThreadsHaveRows ==
    ASSUME GroupSupported, Sized, NEW base \in [Rel -> 0 .. 1], Laid(base),
           NEW p \in Pipe, ~CountOnly(p), NEW h \in DOMAIN HeadsOf(p), NEW t \in 1 .. CountGrid(p),
           NEW d, d = HeadsOf(p)[h]
    PROVE  /\ d \in Rel /\ p \in Writers(d) /\ ~Skipped(d)
           /\ StartAt(p, h, t) \in Nat /\ Cardinality(Part(p, t)) \in Nat
           /\ StartAt(p, h, t) = base[d] + Cardinality(RowsAhead(p, t, d))
           /\ StartAt(p, h, t) >= base[d]
           /\ \A j \in 1 .. Cardinality(Part(p, t)) : StartAt(p, h, t) + j \in DOMAIN rows[d]
<1> DEFINE a == Cardinality(RowsAhead(p, t, d))
           c == Cardinality(Part(p, t))
           n == Cardinality(Meant(Writers(d)))
           s == StartAt(p, h, t)
<1>1. d \in Rel /\ p \in Writers(d) /\ <<p, h>> \in WritesOf(d)
  BY PipelinesTyped, WritesAre DEF Writers
<1>2. ~Skipped(d)
  BY <1>1 DEF Skipped
<1>3. s = base[d] + a
  BY DEF Laid, Filled
<1>4. a \in Nat /\ a + c <= n /\ n \in Nat
  BY <1>1, RowsLaidOut
<1>5. c \in Nat
  <2>1. t \in Int
    BY SameGrid
  <2> QED
    BY <2>1, PartIsFinite
<1>6. DOMAIN rows[d] = 1 .. base[d] + n /\ base[d] \in Nat
  BY <1>1, <1>2 DEF Laid
<1> HIDE DEF a, c, n, s
<1>7. \A j \in 1 .. c : s + j \in DOMAIN rows[d]
  BY <1>3, <1>4, <1>5, <1>6
<1>8. s \in Nat /\ s >= base[d]
  BY <1>3, <1>4, <1>6
<1> QED
  BY <1>1, <1>2, <1>3, <1>5, <1>7, <1>8 DEF a, c, s

-----------------------------------------------------------------------------
(***************************************************************************)
(* Preservation                                                            *)
(***************************************************************************)
(* What is derived from the sizes stays as it is while the sizes do.       *)
LEMMA SizesKept ==
    ASSUME keys' = keys, matches' = matches
    PROVE  /\ Sized => Sized'
           /\ \A p : CountGrid(p)' = CountGrid(p) /\ Offset(p)' = Offset(p)
           /\ \A b : Slots(b)' = Slots(b)
           /\ \A p, t : Part(p, t)' = Part(p, t) /\ RowsBefore(p, t)' = RowsBefore(p, t)
           /\ \A p, t, h : Emitted(p, t, h)' = Emitted(p, t, h)
           /\ \A P : Meant(P)' = Meant(P)
           /\ \A p, t, d : RowsAhead(p, t, d)' = RowsAhead(p, t, d)
           /\ Writing' = Writing
<1>1. \A p : CountGrid(p)' = CountGrid(p) /\ WriteGrid(p)' = WriteGrid(p)
  BY DEF CountGrid, WriteGrid
<1>2. Grids' = Grids
  BY <1>1 DEF Grids
<1>3. \A p, t, g : Share(p, t, g)' = Share(p, t, g)
  BY DEF Share
<1>4. \A p, t : Part(p, t)' = Part(p, t)
  BY <1>1, <1>3 DEF Part, Share
<1>5. \A p, t : Parts(p, t)' = Parts(p, t)
  BY <1>4 DEF Parts
<1>6. \A P : Meant(P)' = Meant(P)
  BY DEF Meant
<1>7. \A p, t, d : RowsAhead(p, t, d)' = RowsAhead(p, t, d) /\ RowsBefore(p, t)' = RowsBefore(p, t)
  BY <1>5, <1>6 DEF RowsAhead, RowsBefore
<1>8. \A p : Offset(p)' = Offset(p)
  BY <1>2 DEF Offset, Sum
<1>9. \A b : Slots(b)' = Slots(b)
  BY <1>2 DEF Slots, Sum
<1>10. \A p, t, h : Emitted(p, t, h)' = Emitted(p, t, h)
  BY <1>1, <1>3 DEF Emitted, RowsFor
<1>11. Writing' = Writing
  BY <1>1 DEF Writing
<1>12. Sized => Sized'
  BY DEF Sized
<1> QED
  BY <1>1, <1>4, <1>6, <1>7, <1>8, <1>9, <1>10, <1>11, <1>12

(* The rows stay as they are while the state they depend on does.          *)
LEMMA WriteInvKept ==
    ASSUME WriteInv, keys' = keys, matches' = matches, pending' = pending, counts' = counts,
           old_size' = old_size, rows' = rows, recorded' = recorded
    PROVE  WriteInv'
<1>1. Sized' /\ Recorded' /\ pending' \subseteq Writing'
  BY SizesKept DEF WriteInv, Recorded
<1>2. PICK base \in [Rel -> 0 .. 1] : Laid(base)
  BY DEF WriteInv
<1>3. \A p, h, t : Filled(base, p, h, t) => Filled(base, p, h, t)'
  <2>1. \A p, h, t : StartAt(p, h, t)' = StartAt(p, h, t)
    BY SizesKept DEF StartAt
  <2> QED
    BY <2>1, SizesKept DEF Filled
<1>4. \A p : CountGrid(p)' = CountGrid(p)
  BY SizesKept
<1>5. \A d : Meant(Writers(d))' = Meant(Writers(d))
  BY DEF Meant
<1>6. Laid(base)'
  BY <1>2, <1>3, <1>4, <1>5 DEF Laid
<1> QED
  BY <1>1, <1>6 DEF WriteInv

(* A stuttering step.                                                      *)
LEMMA UnchangedKeeps ==
    ASSUME IInv, UNCHANGED vars
    PROVE  IInv'
<1>1. /\ phase' = phase /\ keys' = keys /\ matches' = matches /\ pending' = pending
      /\ counts' = counts /\ total' = total /\ old_size' = old_size /\ rows' = rows
      /\ recorded' = recorded
  BY DEF vars
<1>2. WriteInv => WriteInv'
  BY <1>1, WriteInvKept
<1>3. Fresh => Fresh'
  BY <1>1 DEF Fresh
<1>4. Scanned => Scanned'
  BY <1>1, SizesKept DEF Scanned
<1>5. CountInv => CountInv'
  <2>1. \A b, k : Stored(b, k)' = Stored(b, k)
    BY <1>1, SizesKept DEF Stored
  <2> QED
    BY <1>1, <1>3, <2>1, SizesKept DEF CountInv
<1>6. ReadInv => ReadInv'
  BY <1>1, <1>3, <1>4, SizesKept DEF ReadInv
<1>7. ResizeInv => ResizeInv'
  BY <1>1, <1>3, <1>4, SizesKept DEF ResizeInv, Recorded
<1> QED
  BY <1>1, <1>2, <1>3, <1>5, <1>6, <1>7 DEF IInv

(* The initial state.                                                      *)
LEMMA InitHolds ==
    ASSUME Init
    PROVE  IInv
BY DEF Init, IInv, Fresh

(* Sizes are chosen and nothing is counted yet.                            *)
LEMMA SetupKeeps ==
    ASSUME IInv, Setup
    PROVE  IInv'
<1>1. /\ phase = "setup" /\ phase' = "count"
      /\ keys' \in [Pipe -> {size[1] : size \in UNION Range(Sizes)}]
      /\ matches' \in [Pipe -> {size[2] : size \in UNION Range(Sizes)}]
      /\ \A p \in Pipe : <<keys'[p], matches'[p]>> \in Sizes[p]
      /\ counts' = [b \in Buffers |->
            [k \in 1 .. Slots(b)' + 1 |-> IF Shared(b) THEN Garbage ELSE 0]]
      /\ pending' = UNION {Threads(p, CountGrid(p)') : p \in Pipe}
      /\ rows' = rows /\ recorded' = recorded
  BY DEF Setup
<1>2. Fresh' /\ recorded' = NoTotals
  BY <1>1 DEF IInv, Fresh
<1>3. Sized'
  <2>1. \A p \in Pipe : keys'[p] \in Nat /\ matches'[p] \in Nat
    <3> SUFFICES ASSUME NEW p \in Pipe
                 PROVE  keys'[p] \in Nat /\ matches'[p] \in Nat
      OBVIOUS
    <3>1. Sizes[p] \subseteq Nat \X Nat
      BY GroupOK DEF Pipe
    <3>2. <<keys'[p], matches'[p]>> \in Nat \X Nat
      BY <1>1, <3>1
    <3> QED
      BY <3>2
  <2>2. keys' \in [Pipe -> Nat] /\ matches' \in [Pipe -> Nat]
    BY <1>1, <2>1
  <2> QED
    BY <1>1, <2>2 DEF Sized
<1>4. \A b \in Buffers : counts'[b] \in [1 .. Slots(b)' + 1 -> Nat]
  BY <1>1, GroupOK
<1>5. ASSUME NEW p \in Pipe, NEW t \in 1 .. CountGrid(p)'
      PROVE  <<p, t>> \in pending'
  BY <1>1 DEF Threads
<1>6. \A b \in Buffers : ~Shared(b) => \A k \in 1 .. Slots(b)' + 1 : counts'[b][k] = 0
  BY <1>1
<1>7. CountInv'
  BY <1>1, <1>2, <1>3, <1>4, <1>5, <1>6 DEF CountInv
<1> QED
  BY <1>1, <1>7 DEF IInv

(* A counting thread stores in its slot, which no other has, unless its    *)
(* pipeline is a product with an empty relation: then nothing is to be     *)
(* counted, and its buffer, its own, has held zero from the start.         *)
LEMMA CountThreadKeeps ==
    ASSUME GroupSupported, IInv,
           NEW p \in Pipe, NEW t \in 1 .. CountGrid(p), CountThread(p, t)
    PROVE  IInv'
<1> DEFINE b == BufferOf(p)
           s == Offset(p) + t
           v == Cardinality(Part(p, t))
<1>1. /\ phase = "count" /\ phase' = "count" /\ <<p, t>> \in pending
      /\ counts' = IF ReturnsEarly(p) THEN counts
                   ELSE [counts EXCEPT ![b][s] = Counted(p, t)]
      /\ pending' = pending \ {<<p, t>>}
      /\ keys' = keys /\ matches' = matches /\ rows' = rows /\ recorded' = recorded
  BY DEF CountThread
<1>2. CountInv
  BY <1>1 DEF IInv
<1>3. Sized /\ Fresh /\ recorded = NoTotals /\ DOMAIN counts = Buffers
  BY <1>2 DEF CountInv
<1>4. v \in Nat /\ IsFiniteSet(Part(p, t)) /\ Part(p, t) \subseteq 1 .. matches[p]
  <2>1. t \in Int
    BY <1>3, SameGrid
  <2> QED
    BY <1>3, <2>1, PartIsFinite
<1>5. b \in Buffers /\ p \in b
  BY BufferIsShared
<1>6. \A c \in Buffers : counts[c] \in [1 .. Slots(c) + 1 -> Nat]
  BY <1>2 DEF CountInv
<1>7. s \in 1 .. Slots(b) + 1
  <2>1. /\ Offset(p) \in Nat /\ Offset(p) + CountGrid(p) <= Slots(b) /\ Slots(b) \in Nat
        /\ CountGrid(p) \in Nat
    BY <1>3, <1>5, SlotsLaidOut, SameGrid
  <2> QED
    BY <2>1
<1>8. /\ \A q \in Pipe : \A u \in 1 .. CountGrid(q) :
            <<q, u>> \notin pending => counts[BufferOf(q)][Offset(q) + u] = Cardinality(Part(q, u))
      /\ \A c \in Buffers : ~Shared(c) =>
            \A k \in 1 .. Slots(c) + 1 : counts[c][k] = 0 \/ Stored(c, k)
  BY <1>2 DEF CountInv
<1>9. \A q \in Pipe : \A u \in 1 .. CountGrid(q) :
         BufferOf(q) = b /\ Offset(q) + u = s => <<q, u>> = <<p, t>>
  BY <1>3, <1>5, BufferIsShared, SlotIsOnes
<1>10. \A q \in Pipe : BufferOf(q) \in Buffers
  BY BufferIsShared
<1>a. \A c \in Buffers : c \subseteq Pipe /\ \A q \in c : BufferOf(q) = c
  BY BufferPipes
<1>b. ReturnsEarly(p) => v = 0 /\ counts[b][s] = 0
  <2> SUFFICES ASSUME ReturnsEarly(p)
               PROVE  v = 0 /\ counts[b][s] = 0
    OBVIOUS
  <2>1. Pipelines[p].product /\ keys[p] > 0 /\ matches[p] = 0
    BY DEF ReturnsEarly
  <2>2. <<keys[p], matches[p]>> \in Sizes[p]
    BY <1>3 DEF Sized
  <2>3. ~Shared(b)
    <3>1. Pipelines[p].product /\ Shared(b) =>
             \A size \in Sizes[p] : size[1] > 0 => size[2] > 0
      BY DEF GroupSupported
    <3>2. ASSUME Shared(b)
          PROVE  FALSE
      BY <2>1, <2>2, <3>1, <3>2
    <3> QED
      BY <3>2
  <2>4. Part(p, t) = {}
    BY <1>4, <2>1
  <2>5. ~Stored(b, s)
    <3> SUFFICES ASSUME NEW q \in b, NEW u \in 1 .. CountGrid(q),
                        s = Offset(q) + u, <<q, u>> \notin pending
                 PROVE  FALSE
      BY DEF Stored
    <3>1. q \in Pipe /\ BufferOf(q) = b
      BY <1>5, <1>a
    <3> QED
      BY <1>1, <1>9, <3>1
  <2> QED
    BY <1>5, <1>7, <1>8, <2>3, <2>4, <2>5, FS_EmptySet
<1>c. ~ReturnsEarly(p) => Counted(p, t) = v
  BY HeadIsOutput, PipelinesTyped DEF Counted, Part
<1>d. \A c, k : Stored(c, k) => Stored(c, k)'
  BY <1>1, SizesKept DEF Stored
<1>e. \A c, k : c = b /\ k = s => Stored(c, k)'
  <2>1. <<p, t>> \notin pending'
    BY <1>1
  <2> QED
    BY <1>1, <1>5, <2>1, SizesKept DEF Stored
<1> HIDE DEF b, s, v
<1>11. \A c \in Buffers : counts'[c] = IF c = b THEN [counts[b] EXCEPT ![s] = v] ELSE counts[c]
  <2>1. CASE ReturnsEarly(p)
    <3>1. counts[b] = [counts[b] EXCEPT ![s] = v]
      BY <1>5, <1>6, <1>7, <1>b, <2>1
    <3> QED
      BY <1>1, <2>1, <3>1
  <2>2. CASE ~ReturnsEarly(p)
    BY <1>1, <1>3, <1>c, <2>2
  <2> QED
    BY <2>1, <2>2
<1>12. DOMAIN counts' = Buffers /\ \A c \in Buffers : counts'[c] \in [1 .. Slots(c) + 1 -> Nat]
  <2>1. DOMAIN counts' = Buffers
    BY <1>1, <1>3
  <2>2. [counts[b] EXCEPT ![s] = v] \in [1 .. Slots(b) + 1 -> Nat]
    BY <1>4, <1>5, <1>6
  <2>3. ASSUME NEW c \in Buffers
        PROVE  counts'[c] \in [1 .. Slots(c) + 1 -> Nat]
    BY <1>6, <1>11, <2>2
  <2> QED
    BY <2>1, <2>3
<1>13. counts'[b][s] = v
  BY <1>5, <1>6, <1>7, <1>11
<1>14. ASSUME NEW q \in Pipe, NEW u \in 1 .. CountGrid(q), <<q, u>> \notin pending'
       PROVE  counts'[BufferOf(q)][Offset(q) + u] = Cardinality(Part(q, u))
  <2>1. CASE <<q, u>> = <<p, t>>
    BY <1>13, <2>1 DEF b, s, v
  <2>2. CASE <<q, u>> # <<p, t>>
    <3>1. counts[BufferOf(q)][Offset(q) + u] = Cardinality(Part(q, u))
      BY <1>1, <1>8, <1>14, <2>2
    <3>2. counts'[BufferOf(q)][Offset(q) + u] = counts[BufferOf(q)][Offset(q) + u]
      <4>1. CASE BufferOf(q) = b
        <5>1. Offset(q) + u # s
          BY <1>9, <2>2, <4>1
        <5>2. counts'[b] = [counts[b] EXCEPT ![s] = v]
          BY <1>5, <1>11
        <5> QED
          BY <4>1, <5>1, <5>2
      <4>2. CASE BufferOf(q) # b
        BY <1>10, <1>11, <4>2
      <4> QED
        BY <4>1, <4>2
    <3> QED
      BY <3>1, <3>2
  <2> QED
    BY <2>1, <2>2
<1>15. ASSUME NEW c \in Buffers, ~Shared(c), NEW k \in 1 .. Slots(c) + 1
       PROVE  counts'[c][k] = 0 \/ Stored(c, k)'
  <2>1. CASE c = b /\ k = s
    BY <1>e, <2>1
  <2>2. CASE c # b \/ k # s
    <3>1. counts'[c][k] = counts[c][k]
      BY <1>6, <1>11, <2>2
    <3>2. counts[c][k] = 0 \/ Stored(c, k)
      BY <1>8, <1>15
    <3> QED
      BY <1>d, <3>1, <3>2
  <2> QED
    BY <2>1, <2>2
<1>16. CountInv'
  BY <1>1, <1>3, <1>12, <1>14, <1>15, SizesKept DEF CountInv, Fresh
<1> QED
  BY <1>1, <1>16 DEF IInv

(* The scan turns counts of threads into numbers of rows.                  *)
LEMMA ScanBuffersKeeps ==
    ASSUME IInv, ScanBuffers
    PROVE  IInv'
<1>1. /\ phase = "count" /\ pending = {} /\ phase' = "read"
      /\ counts' = [b \in Buffers |-> ExclusiveScan(counts[b])]
      /\ keys' = keys /\ matches' = matches /\ rows' = rows /\ recorded' = recorded
  BY DEF ScanBuffers
<1>2. CountInv
  BY <1>1 DEF IInv
<1>3. Sized /\ Fresh /\ recorded = NoTotals
  BY <1>2 DEF CountInv
<1>4. ASSUME NEW p \in Pipe, NEW t \in 1 .. CountGrid(p) + 1
      PROVE  counts'[BufferOf(p)][Offset(p) + t] = Cardinality(RowsBefore(p, t))
  <2>1. BufferOf(p) \in Buffers /\ BufferOf(p) \subseteq Pipe /\ \A q \in BufferOf(p) : BufferOf(q) = BufferOf(p)
    BY BufferIsShared
  <2>2. counts[BufferOf(p)] \in [1 .. Slots(BufferOf(p)) + 1 -> Nat]
    BY <1>2, <2>1 DEF CountInv
  <2>3. \A q \in BufferOf(p) : \A u \in 1 .. CountGrid(q) :
           counts[BufferOf(p)][Offset(q) + u] = Cardinality(Part(q, u))
    BY <1>1, <1>2, <2>1 DEF CountInv
  <2>4. ExclusiveScan(counts[BufferOf(p)])[Offset(p) + t] = Cardinality(RowsBefore(p, t))
    BY <1>3, <2>2, <2>3, ScanCountsRows
  <2> QED
    BY <1>1, <2>1, <2>4
<1>5. Scanned'
  BY <1>1, <1>4, SizesKept DEF Scanned
<1>6. ReadInv'
  BY <1>1, <1>3, <1>5, SizesKept DEF ReadInv, Fresh
<1> QED
  BY <1>1, <1>6 DEF IInv

(* Each pipeline's total is its number of matches.                         *)
LEMMA ReadTotalsKeeps ==
    ASSUME IInv, ReadTotals
    PROVE  IInv'
<1>1. /\ phase = "read" /\ phase' = "resize"
      /\ total' = [p \in Pipe |-> TotalOf(p)]
      /\ recorded' = [p \in Pipe |-> recorded[p] + (IF CountOnly(p) THEN total'[p] ELSE 0)]
      /\ keys' = keys /\ matches' = matches /\ rows' = rows /\ counts' = counts
  BY DEF ReadTotals
<1>2. Sized /\ Fresh /\ Scanned /\ recorded = NoTotals
  BY <1>1 DEF IInv, ReadInv
<1>3. matches \in [Pipe -> Nat]
  BY <1>2 DEF Sized
<1>4. total' = matches
  BY <1>1, <1>2, <1>3, TotalIsMatches
<1>5. recorded' = [p \in Pipe |-> IF CountOnly(p) THEN matches[p] ELSE 0]
  <2>1. \A p \in Pipe : recorded[p] = 0
    BY <1>2 DEF NoTotals
  <2> QED
    BY <1>1, <1>3, <1>4, <2>1
<1>6. Scanned'
  BY <1>1, <1>2, SizesKept DEF Scanned
<1>7. ResizeInv'
  BY <1>1, <1>2, <1>4, <1>5, <1>6, SizesKept DEF ResizeInv, Fresh, Recorded
<1> QED
  BY <1>1, <1>7 DEF IInv

(* A relation is grown by as many rows as its writers find, and each       *)
(* thread that writes is given those after RowsAhead.                      *)
LEMMA ResizeKeeps ==
    ASSUME GroupSupported, IInv, Resize
    PROVE  IInv'
<1>1. /\ phase = "resize" /\ phase' = "write"
      /\ old_size' = [p \in Pipe |-> [h \in DOMAIN HeadsOf(p) |-> StartOf(p, h)]]
      /\ rows' = [d \in Rel |->
            IF Skipped(d) THEN rows[d]
            ELSE rows[d] \o [k \in 1 .. TotalRead(WritesOf(d)) |-> Junk]]
      /\ pending' = UNION {Threads(p, WriteGrid(p)) :
                              p \in {q \in Pipe : ~CountOnly(q) /\ total[q] > 0}}
      /\ keys' = keys /\ matches' = matches /\ counts' = counts /\ recorded' = recorded
  BY DEF Resize
<1>2. Sized /\ Fresh /\ Scanned /\ Recorded /\ total = matches
  BY <1>1 DEF IInv, ResizeInv
<1>3. \A p \in Pipe : WriteGrid(p) = CountGrid(p)
  BY <1>2, SameGrid
<1>4. pending' = UNION {{p} \X (1 .. CountGrid(p)) : p \in {q \in Pipe : ~CountOnly(q) /\ matches[q] > 0}}
  <2>1. \A p \in Pipe : Threads(p, WriteGrid(p)) = {p} \X (1 .. CountGrid(p))
    BY <1>3 DEF Threads
  <2> QED
    BY <1>1, <1>2, <2>1
<1>5. pending' \subseteq Writing
  BY <1>4 DEF Writing
<1>a. \A d \in Rel : rows[d] = <<>> \/ rows[d] = <<Old>>
  BY <1>2 DEF Fresh
<1>b. PICK base \in [Rel -> 0 .. 1] : \A d \in Rel : base[d] = Len(rows[d])
  <2>1. ASSUME NEW d \in Rel
        PROVE  Len(rows[d]) \in 0 .. 1
    <3>1. CASE rows[d] = <<>>
      BY <3>1
    <3>2. CASE rows[d] = <<Old>>
      BY <3>2
    <3> QED
      BY <1>a, <3>1, <3>2
  <2>2. \A d \in Rel : Len(rows[d]) \in 0 .. 1
    BY <2>1
  <2>3. [d \in Rel |-> Len(rows[d])] \in [Rel -> 0 .. 1]
    BY <2>2
  <2> QED
    BY <2>3
<1> DEFINE n(d) == Cardinality(Meant(Writers(d)))
<1>6. ASSUME NEW d \in Rel
      PROVE  /\ base[d] \in 0 .. 1 /\ rows[d] \in Seq({Old, Junk}) /\ base[d] = Len(rows[d])
             /\ \A k \in 1 .. base[d] : rows[d][k] = Old
  <2>1. CASE rows[d] = <<>>
    BY <1>b, <2>1
  <2>2. CASE rows[d] = <<Old>>
    <3>1. Len(rows[d]) = 1 /\ rows[d][1] = Old /\ rows[d] \in Seq({Old, Junk})
      BY <2>2
    <3> QED
      BY <1>b, <3>1
  <2> QED
    BY <1>a, <2>1, <2>2
<1>7. ASSUME NEW d \in Rel
      PROVE  TotalRead(WritesOf(d)) = n(d) /\ n(d) \in Nat
  <2>1. Writers(d) = {w[1] : w \in WritesOf(d)}
    BY WritesAre
  <2>2. WritesOf(d) \in SUBSET WritesOf(d)
    OBVIOUS
  <2>3. TotalRead(WritesOf(d)) = Cardinality(Meant(Writers(d))) /\ TotalRead(WritesOf(d)) \in Nat
    BY <1>2, <2>1, <2>2, TotalReadCounts
  <2> QED
    BY <2>3
<1>8. ASSUME NEW d \in Rel
      PROVE  /\ DOMAIN rows'[d] = 1 .. base[d] + (IF Skipped(d) THEN 0 ELSE n(d))
             /\ \A k \in 1 .. base[d] : rows'[d][k] = Old
             /\ ~Skipped(d) => \A k \in base[d] + 1 .. base[d] + n(d) : rows'[d][k] = Junk
  <2> DEFINE old == rows[d]
             m == n(d)
             new == [k \in 1 .. m |-> Junk]
  <2>1. old \in Seq({Old, Junk}) /\ m \in Nat /\ Len(old) = base[d] /\ base[d] \in Nat
    BY <1>6, <1>7
  <2>2. rows'[d] = IF Skipped(d) THEN old ELSE old \o new
    BY <1>1, <1>7
  <2>3. new \in Seq({Old, Junk}) /\ Len(new) = m /\ \A k \in 1 .. m : new[k] = Junk
    BY <2>1
  <2>4. \A k \in 1 .. base[d] : old[k] = Old
    BY <1>6
  <2> HIDE DEF old, m, new
  <2>5. CASE Skipped(d)
    <3>1. DOMAIN old = 1 .. Len(old)
      BY <2>1
    <3> QED
      BY <2>1, <2>2, <2>4, <2>5, <3>1
  <2>6. CASE ~Skipped(d)
    <3>1. /\ DOMAIN (old \o new) = 1 .. Len(old) + m
          /\ \A k \in 1 .. Len(old) : (old \o new)[k] = old[k]
          /\ \A k \in Len(old) + 1 .. Len(old) + m : (old \o new)[k] = Junk
      BY <2>1, <2>3
    <3> QED
      BY <2>1, <2>2, <2>4, <2>6, <3>1 DEF m
  <2> QED
    BY <2>5, <2>6
<1>9. ASSUME NEW p \in Pipe, ~CountOnly(p), NEW h \in DOMAIN HeadsOf(p), NEW t \in 1 .. CountGrid(p)
      PROVE  Filled(base, p, h, t)'
  <2> DEFINE d == HeadsOf(p)[h]
             a == Cardinality(RowsAhead(p, t, d))
             c == Cardinality(Part(p, t))
  <2>1. d \in Rel /\ p \in Writers(d) /\ <<p, h>> \in WritesOf(d)
    BY PipelinesTyped, WritesAre DEF Writers
  <2>2. ~Skipped(d)
    BY <1>9, <2>1 DEF Skipped
  <2>3. ~\E k \in 1 .. h - 1 : HeadsOf(p)[k] = d
    <3>1. \A k \in 1 .. h - 1 : k \in DOMAIN HeadsOf(p) /\ k # h
      BY PipelinesTyped
    <3> QED
      BY <3>1 DEF GroupSupported
  <2>4. OutputOf(p, h) = h
    BY HeadIsOutput
  <2>5. StartOf(p, h) = base[d] + Before(<<p, h>>, d)
    BY <1>6, <2>1, <2>2, <2>3, <2>4 DEF StartOf
  <2>6. old_size'[p][h] = StartOf(p, h)
    BY <1>1
  <2>7. counts[BufferOf(p)][Offset(p) + t] = Cardinality(RowsBefore(p, t))
    <3>1. t \in 1 .. CountGrid(p) + 1
      BY <1>2, SameGrid
    <3> QED
      BY <1>2, <3>1 DEF Scanned
  <2>8. /\ Before(<<p, h>>, d) \in Nat
        /\ Before(<<p, h>>, d) + Cardinality(RowsBefore(p, t)) = a
    BY <1>2, StartsAhead
  <2>9. StartAt(p, h, t)' = old_size'[p][h] + counts[BufferOf(p)][Offset(p) + t]
    BY <1>1, SizesKept DEF StartAt
  <2>10. p \in Pipe /\ t \in Int
    BY <1>2, SameGrid
  <2>11. Cardinality(RowsBefore(p, t)) \in Nat
    <3>1. IsFiniteSet(Meant({q \in BufferOf(p) : q < p})) /\ IsFiniteSet({p} \X Parts(p, t))
      BY <1>2, <2>10, BufferIsShared, MeantIsFinite, PartIsFinite
    <3>2. IsFiniteSet(RowsBefore(p, t))
      BY <3>1, FS_Union DEF RowsBefore
    <3> QED
      BY <3>2, FS_CardinalityType
  <2>12. base[d] \in Nat
    BY <1>6, <2>1
  <2>13. StartAt(p, h, t)' = base[d] + a
    <3>1. PICK x \in Nat : x = Before(<<p, h>>, d)
      BY <2>8
    <3>2. PICK y \in Nat : y = Cardinality(RowsBefore(p, t))
      BY <2>11
    <3>3. PICK z \in Nat : z = base[d]
      BY <2>12
    <3>4. StartAt(p, h, t)' = (z + x) + y /\ x + y = a
      BY <2>5, <2>6, <2>7, <2>8, <2>9, <3>1, <3>2, <3>3
    <3> HIDE DEF a
    <3> QED
      BY <3>3, <3>4
  <2>14. a \in Nat /\ c \in Nat /\ a + c <= n(d) /\ n(d) \in Nat
    BY <1>2, <2>1, <2>10, RowsLaidOut, PartIsFinite
  <2>15. \A k \in base[d] + 1 .. base[d] + n(d) : rows'[d][k] = Junk
    BY <1>8, <2>1, <2>2
  <2>16. ASSUME NEW j \in 1 .. c
         PROVE  <<p, t>> \in pending'
    <3>1. c # 0
      BY <2>14
    <3>2. Part(p, t) # {}
      BY <3>1, FS_EmptySet
    <3>3. Part(p, t) \subseteq 1 .. matches[p] /\ matches[p] \in Nat
      BY <1>2, <2>10, PartIsFinite, SameGrid
    <3>4. matches[p] > 0
      BY <3>2, <3>3
    <3> QED
      BY <1>4, <1>9, <3>4
  <2> HIDE DEF a, c, n
  <2>17. \A j \in 1 .. c : rows'[d][base[d] + a + j] = Junk
    BY <2>12, <2>14, <2>15
  <2>18. RowsAhead(p, t, d)' = RowsAhead(p, t, d) /\ Part(p, t)' = Part(p, t)
    BY <1>1, SizesKept
  <2>19. \A j \in 1 .. Cardinality(Part(p, t)) : rows'[d][StartAt(p, h, t)' + j] = Junk
    BY <2>13, <2>17 DEF c
  <2>20. \A j \in 1 .. Cardinality(Part(p, t)) : <<p, t>> \in pending'
    BY <2>16 DEF c
  <2> QED
    BY <2>13, <2>18, <2>19, <2>20 DEF Filled, a
<1>11. Laid(base)'
  <2>1. \A p : CountGrid(p)' = CountGrid(p)
    BY <1>1, SizesKept
  <2>2. \A d : Meant(Writers(d))' = Meant(Writers(d))
    BY <1>1 DEF Meant
  <2> QED
    BY <1>8, <1>9, <2>1, <2>2 DEF Laid
<1>12. WriteInv'
  <2>1. Sized' /\ Recorded' /\ pending' \subseteq Writing'
    BY <1>1, <1>2, <1>5, SizesKept DEF Recorded
  <2> QED
    BY <1>11, <2>1 DEF WriteInv
<1> QED
  BY <1>1, <1>12 DEF IInv

(* New values are laid over a part of the columns.                         *)
LEMMA OverlayAt ==
    ASSUME NEW r, NEW s, NEW e, NEW k \in DOMAIN r
    PROVE  Overlay(r, s, e)[k] = IF k > s /\ k <= s + Len(e) THEN e[k - s] ELSE r[k]
BY DEF Overlay

(* The j-th new value lies j rows after the last old one.                  *)
LEMMA OverlaidBy ==
    ASSUME NEW r, NEW s \in Int, NEW e, NEW j \in Int,
           s + j \in DOMAIN r, s + j > s, s + j <= s + Len(e)
    PROVE  Overlay(r, s, e)[s + j] = e[j]
<1>1. \A k \in DOMAIN r : k > s /\ k <= s + Len(e) => Overlay(r, s, e)[k] = e[k - s]
  BY DEF Overlay
<1>2. PICK k \in Int : k = s + j /\ k - s = j
  OBVIOUS
<1>3. k \in DOMAIN r /\ k > s /\ k <= s + Len(e)
  BY <1>2
<1>4. Overlay(r, s, e)[k] = e[k - s]
  BY <1>1, <1>3
<1> QED
  BY <1>2, <1>4

(* A thread that writes fills the rows given to it, and no others.         *)
LEMMA WriteThreadKeeps ==
    ASSUME GroupSupported, IInv,
           NEW p \in Pipe, NEW t \in 1 .. WriteGrid(p), WriteThread(p, t)
    PROVE  IInv'
<1> DEFINE off == counts[BufferOf(p)][Offset(p) + t]
           HeadOf(d) == OutputOf(p, CHOOSE h \in DOMAIN HeadsOf(p) : HeadsOf(p)[h] = d)
<1>1. /\ phase = "write" /\ phase' = "write"
      /\ <<p, t>> \in pending /\ pending' = pending \ {<<p, t>>}
      /\ rows' = [d \in Rel |->
            IF d \notin ToSet(HeadsOf(p)) THEN rows[d]
            ELSE Overlay(rows[d], old_size[p][HeadOf(d)] + off, Emitted(p, t, HeadOf(d)))]
      /\ keys' = keys /\ matches' = matches /\ counts' = counts /\ total' = total
      /\ old_size' = old_size /\ recorded' = recorded
  BY DEF WriteThread
<1>2. Sized /\ Recorded /\ pending \subseteq Writing
  BY <1>1 DEF IInv, WriteInv
<1>3. PICK base \in [Rel -> 0 .. 1] : Laid(base)
  BY <1>1 DEF IInv, WriteInv
<1>4. ~CountOnly(p) /\ t \in 1 .. CountGrid(p) /\ t \in Int
  <2>1. <<p, t>> \in Writing
    BY <1>1, <1>2
  <2>2. ~CountOnly(p) /\ t \in 1 .. CountGrid(p)
    BY <2>1 DEF Writing
  <2> QED
    BY <1>2, <2>2, SameGrid
<1>5. ASSUME NEW d \in Rel
      PROVE  /\ d \notin ToSet(HeadsOf(p)) => rows'[d] = rows[d]
             /\ \A h \in DOMAIN HeadsOf(p) : HeadsOf(p)[h] = d =>
                   rows'[d] = Overlay(rows[d], StartAt(p, h, t), Emitted(p, t, h))
  <2>1. ASSUME NEW h \in DOMAIN HeadsOf(p), HeadsOf(p)[h] = d
        PROVE  d \in ToSet(HeadsOf(p)) /\ HeadOf(d) = h
    <3>1. d \in ToSet(HeadsOf(p))
      BY <2>1 DEF ToSet
    <3>2. \A k \in DOMAIN HeadsOf(p) : HeadsOf(p)[k] = d <=> k = h
      BY <2>1 DEF GroupSupported
    <3>3. (CHOOSE k \in DOMAIN HeadsOf(p) : HeadsOf(p)[k] = d) = h
      BY <3>2
    <3> QED
      BY <3>1, <3>3, HeadIsOutput
  <2> HIDE DEF HeadOf
  <2>2. d \notin ToSet(HeadsOf(p)) => rows'[d] = rows[d]
    BY <1>1
  <2>3. ASSUME NEW h \in DOMAIN HeadsOf(p), HeadsOf(p)[h] = d
        PROVE  rows'[d] = Overlay(rows[d], StartAt(p, h, t), Emitted(p, t, h))
    BY <1>1, <2>1, <2>3 DEF StartAt
  <2> QED
    BY <2>2, <2>3
<1> HIDE DEF off, HeadOf
<1>6. \A d \in Rel : DOMAIN rows'[d] = DOMAIN rows[d]
  <2> SUFFICES ASSUME NEW d \in Rel
               PROVE  DOMAIN rows'[d] = DOMAIN rows[d]
    OBVIOUS
  <2>1. CASE d \notin ToSet(HeadsOf(p))
    BY <1>5, <2>1
  <2>2. CASE d \in ToSet(HeadsOf(p))
    <3>1. PICK h \in DOMAIN HeadsOf(p) : HeadsOf(p)[h] = d
      BY <2>2 DEF ToSet
    <3> QED
      BY <1>5, <3>1 DEF Overlay
  <2> QED
    BY <2>1, <2>2
<1>7. \A d \in Rel :
         /\ base[d] \in Nat
         /\ DOMAIN rows[d] = 1 .. base[d] + (IF Skipped(d) THEN 0 ELSE Cardinality(Meant(Writers(d))))
         /\ \A k \in 1 .. base[d] : rows[d][k] = Old
  BY <1>3 DEF Laid
<1>8. \A q \in Pipe : ~CountOnly(q) =>
         \A h \in DOMAIN HeadsOf(q) : \A u \in 1 .. CountGrid(q) : Filled(base, q, h, u)
  BY <1>3 DEF Laid
<1>9. ASSUME NEW q \in Pipe, ~CountOnly(q), NEW h \in DOMAIN HeadsOf(q), NEW u \in 1 .. CountGrid(q)
      PROVE  /\ HeadsOf(q)[h] \in Rel /\ q \in Writers(HeadsOf(q)[h]) /\ ~Skipped(HeadsOf(q)[h])
             /\ StartAt(q, h, u) \in Nat /\ Cardinality(Part(q, u)) \in Nat
             /\ StartAt(q, h, u) = base[HeadsOf(q)[h]] + Cardinality(RowsAhead(q, u, HeadsOf(q)[h]))
             /\ StartAt(q, h, u) >= base[HeadsOf(q)[h]]
             /\ \A j \in 1 .. Cardinality(Part(q, u)) :
                   StartAt(q, h, u) + j \in DOMAIN rows[HeadsOf(q)[h]]
  BY <1>2, <1>3, <1>9, ThreadsHaveRows
<1>10. ASSUME NEW d \in Rel, NEW k \in 1 .. base[d]
       PROVE  rows'[d][k] = Old
  <2>1. rows[d][k] = Old /\ k \in DOMAIN rows[d] /\ base[d] \in Nat
    <3>1. Cardinality(Meant(Writers(d))) \in Nat
      BY <1>2, RowsLaidOut
    <3> QED
      BY <1>7, <3>1
  <2>2. CASE d \notin ToSet(HeadsOf(p))
    BY <1>5, <2>1, <2>2
  <2>3. CASE d \in ToSet(HeadsOf(p))
    <3>1. PICK h \in DOMAIN HeadsOf(p) : HeadsOf(p)[h] = d
      BY <2>3 DEF ToSet
    <3>2. StartAt(p, h, t) \in Nat /\ StartAt(p, h, t) >= base[d]
      BY <1>4, <1>9, <3>1
    <3>3. ~(k > StartAt(p, h, t))
      BY <2>1, <3>2
    <3> QED
      BY <1>5, <2>1, <3>1, <3>3, OverlayAt
  <2> QED
    BY <2>2, <2>3
<1>11. ASSUME NEW q \in Pipe, ~CountOnly(q), NEW h \in DOMAIN HeadsOf(q), NEW u \in 1 .. CountGrid(q)
       PROVE  Filled(base, q, h, u)'
  <2> DEFINE d == HeadsOf(q)[h]
             c == Cardinality(Part(q, u))
             s == StartAt(q, h, u)
             e == Emitted(q, u, h)
  <2>1. /\ d \in Rel /\ q \in Writers(d) /\ ~Skipped(d) /\ s \in Nat /\ c \in Nat
        /\ s = base[d] + Cardinality(RowsAhead(q, u, d))
        /\ \A j \in 1 .. c : s + j \in DOMAIN rows[d]
    BY <1>9, <1>11
  <2>2. \A j \in 1 .. c : rows[d][s + j] = IF <<q, u>> \in pending THEN Junk ELSE e[j]
    BY <1>8, <1>11 DEF Filled
  <2>3. ASSUME NEW j \in 1 .. c
        PROVE  rows'[d][s + j] = IF <<q, u>> \in pending' THEN Junk ELSE e[j]
    <3>0. s \in Int /\ j \in Int
      BY <2>1
    <3>1. CASE <<q, u>> = <<p, t>>
      <4>1. rows'[d] = Overlay(rows[d], s, e)
        BY <1>5, <2>1, <3>1
      <4>2. Len(e) = c
        <5>1. u \in Int
          BY <1>4, <3>1
        <5> QED
          BY <1>2, <5>1, EmittedRows
      <4>3. s + j \in DOMAIN rows[d] /\ s + j > s /\ s + j <= s + Len(e) /\ s + j - s = j
        BY <2>1, <4>2
      <4>4. rows'[d][s + j] = e[j]
        <5> HIDE DEF c, d, s, e
        <5>0. PICK r, v : r = rows[d] /\ v = e
          OBVIOUS
        <5>1. PICK a \in Int, b \in Int : a = s /\ b = j
          BY <3>0
        <5>2. a + b \in DOMAIN r /\ a + b > a /\ a + b <= a + Len(v)
          BY <4>3, <5>0, <5>1
        <5>3. Overlay(r, a, v)[a + b] = v[b]
          BY <5>2, OverlaidBy
        <5>4. rows'[d] = Overlay(r, a, v)
          BY <4>1, <5>0, <5>1
        <5>5. rows'[d][a + b] = v[b]
          BY <5>3, <5>4
        <5> QED
          BY <5>0, <5>1, <5>5
      <4>5. <<q, u>> \notin pending'
        BY <1>1, <3>1
      <4> QED
        BY <4>4, <4>5
    <3>2. CASE <<q, u>> # <<p, t>>
      <4>1. <<q, u>> \in pending' <=> <<q, u>> \in pending
        BY <1>1, <3>2
      <4>2. rows'[d][s + j] = rows[d][s + j]
        <5>1. CASE d \notin ToSet(HeadsOf(p))
          BY <1>5, <2>1, <5>1
        <5>2. CASE d \in ToSet(HeadsOf(p))
          <6>1. PICK k \in DOMAIN HeadsOf(p) : HeadsOf(p)[k] = d
            BY <5>2 DEF ToSet
          <6> DEFINE z == StartAt(p, k, t)
                     f == Emitted(p, t, k)
          <6>2. /\ z \in Nat /\ p \in Writers(d) /\ Cardinality(Part(p, t)) \in Nat
                /\ z = base[d] + Cardinality(RowsAhead(p, t, d))
            BY <1>4, <1>9, <6>1
          <6>3. Len(f) = Cardinality(Part(p, t))
            BY <1>2, <1>4, EmittedRows
          <6>4. \/ Cardinality(RowsAhead(p, t, d)) + Len(f) <= Cardinality(RowsAhead(q, u, d))
                \/ Cardinality(RowsAhead(q, u, d)) + c <= Cardinality(RowsAhead(p, t, d))
            BY <1>2, <1>4, <2>1, <3>2, <6>2, <6>3, RowsLaidOut
          <6>5. /\ Cardinality(RowsAhead(p, t, d)) \in Nat /\ Cardinality(RowsAhead(q, u, d)) \in Nat
                /\ base[d] \in Nat /\ Len(f) \in Nat
            BY <1>2, <1>4, <1>7, <2>1, <6>2, <6>3, RowsLaidOut
          <6>6. z + Len(f) <= s \/ s + c <= z
            <7>1. PICK m \in Nat, n \in Nat : /\ m = Cardinality(RowsAhead(p, t, d))
                                             /\ n = Cardinality(RowsAhead(q, u, d))
              BY <6>5
            <7>2. /\ m + Len(f) <= n \/ n + c <= m
                  /\ z = base[d] + m /\ s = base[d] + n
              BY <2>1, <6>2, <6>4, <7>1
            <7>3. c \in Nat /\ Len(f) \in Nat
              BY <2>1, <6>5
            <7>4. PICK b \in Nat : b = base[d]
              BY <6>5
            <7> HIDE DEF z, f, s, c, d
            <7>5. z = b + m /\ s = b + n
              BY <7>2, <7>4
            <7> QED
              BY <7>2, <7>3, <7>5
          <6>7. rows'[d] = Overlay(rows[d], z, f)
            BY <1>5, <2>1, <6>1
          <6> HIDE DEF z, f, s, c, d
          <6>a. s \in Nat /\ c \in Nat /\ z \in Nat /\ j \in 1 .. c
            BY <2>1, <6>2
          <6>b. PICK l \in Nat : l = Len(f)
            BY <6>5
          <6>c. ~(s + j > z /\ s + j <= z + l)
            BY <6>6, <6>a, <6>b
          <6>8. ~(s + j > z /\ s + j <= z + Len(f))
            BY <6>b, <6>c
          <6>9. s + j \in DOMAIN rows[d]
            BY <2>1
          <6> QED
            BY <6>7, <6>8, <6>9, OverlayAt
        <5> QED
          BY <5>1, <5>2
      <4> QED
        BY <2>2, <4>1, <4>2
    <3> QED
      BY <3>1, <3>2
  <2>4. /\ StartAt(q, h, u)' = s /\ Part(q, u)' = Part(q, u) /\ Emitted(q, u, h)' = e
        /\ RowsAhead(q, u, d)' = RowsAhead(q, u, d)
    BY <1>1, SizesKept DEF StartAt
  <2> QED
    BY <2>1, <2>3, <2>4 DEF Filled
<1>12. Laid(base)'
  <2>1. \A q : CountGrid(q)' = CountGrid(q)
    BY <1>1, SizesKept
  <2>2. \A d : Meant(Writers(d))' = Meant(Writers(d))
    BY <1>1 DEF Meant
  <2> QED
    BY <1>6, <1>7, <1>10, <1>11, <2>1, <2>2 DEF Laid
<1>13. WriteInv'
  <2>1. Sized' /\ Recorded' /\ pending' \subseteq Writing'
    BY <1>1, <1>2, SizesKept DEF Recorded
  <2> QED
    BY <1>12, <2>1 DEF WriteInv
<1> QED
  BY <1>1, <1>13 DEF IInv

(* The group ends once all have written.                                   *)
LEMMA FinishKeeps ==
    ASSUME IInv, Finish
    PROVE  IInv'
<1>1. /\ phase = "write" /\ pending = {} /\ phase' = "done"
      /\ keys' = keys /\ matches' = matches /\ pending' = pending /\ counts' = counts
      /\ total' = total /\ old_size' = old_size /\ rows' = rows /\ recorded' = recorded
  BY DEF Finish
<1>2. WriteInv
  BY <1>1 DEF IInv
<1>3. WriteInv'
  BY <1>1, <1>2, WriteInvKept
<1> QED
  BY <1>1, <1>3 DEF IInv

(* The next iteration starts with empty columns.                           *)
LEMMA NextIterationKeeps ==
    ASSUME IInv, NextIteration
    PROVE  IInv'
<1>1. /\ phase = "done" /\ phase' = "setup" /\ pending' = pending
      /\ recorded' = NoTotals /\ rows' = [d \in Rel |-> <<>>]
  BY DEF NextIteration
<1>2. pending = {}
  BY <1>1 DEF IInv
<1>3. Fresh' /\ recorded' = NoTotals
  BY <1>1 DEF Fresh
<1> QED
  BY <1>1, <1>2, <1>3 DEF IInv

(* No step leads out of the invariant.                                     *)
LEMMA StepKeeps ==
    ASSUME GroupSupported, IInv, [Next]_vars
    PROVE  IInv'
<1>1. CASE Setup
  BY <1>1, SetupKeeps
<1>2. CASE \E p \in Pipe : \E t \in 1 .. CountGrid(p) : CountThread(p, t)
  BY <1>2, CountThreadKeeps
<1>3. CASE ScanBuffers
  BY <1>3, ScanBuffersKeeps
<1>4. CASE ReadTotals
  BY <1>4, ReadTotalsKeeps
<1>5. CASE Resize
  BY <1>5, ResizeKeeps
<1>6. CASE \E p \in Pipe : \E t \in 1 .. WriteGrid(p) : WriteThread(p, t)
  BY <1>6, WriteThreadKeeps
<1>7. CASE Finish
  BY <1>7, FinishKeeps
<1>8. CASE NextIteration
  BY <1>8, NextIterationKeeps
<1>9. CASE UNCHANGED vars
  BY <1>9, UnchangedKeeps
<1> QED
  BY <1>1, <1>2, <1>3, <1>4, <1>5, <1>6, <1>7, <1>8, <1>9 DEF Next, Step

-----------------------------------------------------------------------------
(***************************************************************************)
(* What the invariant says of the properties                               *)
(***************************************************************************)
(* A pending thread has reserved its part of the columns of its heads.     *)
LEMMA ReservedIs ==
    ASSUME GroupSupported, Sized, NEW p \in Pipe, NEW t \in 1 .. CountGrid(p), NEW d
    PROVE  /\ d \notin ToSet(HeadsOf(p)) => Reserved(p, t, d) = {}
           /\ \A h \in DOMAIN HeadsOf(p) : HeadsOf(p)[h] = d =>
                 Reserved(p, t, d)
                    = StartAt(p, h, t) + 1 .. StartAt(p, h, t) + Cardinality(Part(p, t))
<1> DEFINE K == {h \in DOMAIN HeadsOf(p) : HeadsOf(p)[h] = d /\ OutputOf(p, h) = h}
           span(k) == StartAt(p, k, t) + 1 .. StartAt(p, k, t) + Len(Emitted(p, t, k))
<1>1. Reserved(p, t, d) = UNION {span(k) : k \in K}
  BY DEF Reserved, StartAt
<1>2. d \notin ToSet(HeadsOf(p)) => K = {}
  BY DEF ToSet
<1>3. ASSUME NEW h \in DOMAIN HeadsOf(p), HeadsOf(p)[h] = d
      PROVE  /\ K = {h}
             /\ span(h) = StartAt(p, h, t) + 1 .. StartAt(p, h, t) + Cardinality(Part(p, t))
  <2>1. \A k \in DOMAIN HeadsOf(p) : HeadsOf(p)[k] = d <=> k = h
    BY <1>3 DEF GroupSupported
  <2>2. OutputOf(p, h) = h
    BY HeadIsOutput
  <2>3. t \in Int
    BY SameGrid
  <2>4. Len(Emitted(p, t, h)) = Cardinality(Part(p, t))
    BY <2>3, EmittedRows
  <2> QED
    BY <2>1, <2>2, <2>4
<1> HIDE DEF K, span
<1>4. d \notin ToSet(HeadsOf(p)) => Reserved(p, t, d) = {}
  BY <1>1, <1>2
<1>5. ASSUME NEW h \in DOMAIN HeadsOf(p), HeadsOf(p)[h] = d
      PROVE  Reserved(p, t, d) = span(h)
  BY <1>1, <1>3, <1>5
<1> QED
  BY <1>3, <1>4, <1>5

(* The invariant has every row that is not written reserved, once.         *)
LEMMA InvReserves ==
    ASSUME GroupSupported, IInv
    PROVE  ReservedOnce
<1> SUFFICES ASSUME phase = "write", NEW d \in Rel
             PROVE  /\ {k \in DOMAIN rows[d] : rows[d][k] = Junk}
                          = UNION {Reserved(w[1], w[2], d) : w \in pending}
                    /\ \A v, w \in pending : v # w =>
                          Reserved(v[1], v[2], d) \cap Reserved(w[1], w[2], d) = {}
  BY DEF ReservedOnce
<1>1. Sized /\ pending \subseteq Writing
  BY DEF IInv, WriteInv
<1>2. PICK base \in [Rel -> 0 .. 1] : Laid(base)
  BY DEF IInv, WriteInv
<1>3. \A w \in pending : /\ w = <<w[1], w[2]>> /\ w[1] \in Pipe /\ ~CountOnly(w[1])
                         /\ w[2] \in 1 .. CountGrid(w[1])
  BY <1>1 DEF Writing
<1>4. \A p \in Pipe : ~CountOnly(p) =>
         \A h \in DOMAIN HeadsOf(p) : \A t \in 1 .. CountGrid(p) : Filled(base, p, h, t)
  BY <1>2 DEF Laid
<1>5. ASSUME NEW w \in pending, NEW k \in Reserved(w[1], w[2], d)
      PROVE  k \in DOMAIN rows[d] /\ rows[d][k] = Junk
  <2>1. w = <<w[1], w[2]>> /\ w[1] \in Pipe /\ ~CountOnly(w[1]) /\ w[2] \in 1 .. CountGrid(w[1])
    BY <1>3
  <2>2. d \in ToSet(HeadsOf(w[1]))
    BY <1>1, <2>1, ReservedIs
  <2>3. PICK h \in DOMAIN HeadsOf(w[1]) : HeadsOf(w[1])[h] = d
    BY <2>2 DEF ToSet
  <2> DEFINE s == StartAt(w[1], h, w[2])
             c == Cardinality(Part(w[1], w[2]))
  <2>4. k \in s + 1 .. s + c
    BY <1>1, <2>1, <2>3, ReservedIs
  <2>5. s \in Nat /\ c \in Nat /\ \A j \in 1 .. c : s + j \in DOMAIN rows[d]
    BY <1>1, <1>2, <2>1, <2>3, ThreadsHaveRows
  <2>6. \A j \in 1 .. c : rows[d][s + j] = Junk
    BY <1>4, <2>1, <2>3 DEF Filled
  <2> HIDE DEF s, c
  <2>7. k - s \in 1 .. c /\ k = s + (k - s)
    BY <2>4, <2>5
  <2> QED
    BY <2>5, <2>6, <2>7
<1>6. ASSUME NEW k \in DOMAIN rows[d], rows[d][k] = Junk
      PROVE  \E w \in pending : k \in Reserved(w[1], w[2], d)
  <2>1. ~(k <= base[d])
    <3>1. DOMAIN rows[d] \subseteq Nat \ {0} /\ \A i \in 1 .. base[d] : rows[d][i] = Old /\ base[d] \in Nat
      <4>1. base[d] \in Nat /\ Cardinality(Meant(Writers(d))) \in Nat
        BY <1>1, RowsLaidOut
      <4>2. DOMAIN rows[d] = 1 .. base[d] + (IF Skipped(d) THEN 0 ELSE Cardinality(Meant(Writers(d))))
        BY <1>2 DEF Laid
      <4>3. \A i \in 1 .. base[d] : rows[d][i] = Old
        BY <1>2 DEF Laid
      <4> QED
        BY <4>1, <4>2, <4>3
    <3>2. Old # Junk
      BY DEF Old, Junk
    <3> QED
      BY <1>6, <3>1, <3>2
  <2>2. PICK p \in Pipe : \E h \in DOMAIN HeadsOf(p) : \E t \in 1 .. CountGrid(p) :
              \E j \in 1 .. Cardinality(Part(p, t)) :
                 HeadsOf(p)[h] = d /\ ~CountOnly(p) /\ k = StartAt(p, h, t) + j
    BY <1>1, <1>2, <2>1, RowsHaveThreads
  <2>3. PICK h \in DOMAIN HeadsOf(p) : \E t \in 1 .. CountGrid(p) :
              \E j \in 1 .. Cardinality(Part(p, t)) :
                 HeadsOf(p)[h] = d /\ ~CountOnly(p) /\ k = StartAt(p, h, t) + j
    BY <2>2
  <2>4. PICK t \in 1 .. CountGrid(p) : \E j \in 1 .. Cardinality(Part(p, t)) :
                 HeadsOf(p)[h] = d /\ ~CountOnly(p) /\ k = StartAt(p, h, t) + j
    BY <2>3
  <2>5. PICK j \in 1 .. Cardinality(Part(p, t)) :
                 HeadsOf(p)[h] = d /\ ~CountOnly(p) /\ k = StartAt(p, h, t) + j
    BY <2>4
  <2>6. <<p, t>> \in pending
    <3>1. rows[d][k] = IF <<p, t>> \in pending THEN Junk ELSE Emitted(p, t, h)[j]
      BY <1>4, <2>5 DEF Filled
    <3>2. t \in Int
      BY <1>1, SameGrid
    <3>3. Emitted(p, t, h)[j] # Junk
      BY <1>1, <2>5, <3>2, EmittedRows
    <3> QED
      BY <1>6, <3>1, <3>3
  <2>7. Reserved(p, t, d) = StartAt(p, h, t) + 1 .. StartAt(p, h, t) + Cardinality(Part(p, t))
    BY <1>1, <2>5, ReservedIs
  <2>8. StartAt(p, h, t) \in Nat /\ Cardinality(Part(p, t)) \in Nat
    BY <1>1, <1>2, <2>5, ThreadsHaveRows
  <2>9. k \in Reserved(p, t, d)
    BY <2>5, <2>7, <2>8
  <2>10. <<p, t>>[1] = p /\ <<p, t>>[2] = t
    OBVIOUS
  <2> QED
    BY <2>6, <2>9, <2>10
<1>7. ASSUME NEW v \in pending, NEW w \in pending, v # w
      PROVE  Reserved(v[1], v[2], d) \cap Reserved(w[1], w[2], d) = {}
  <2>1. /\ v = <<v[1], v[2]>> /\ v[1] \in Pipe /\ ~CountOnly(v[1]) /\ v[2] \in 1 .. CountGrid(v[1])
        /\ w = <<w[1], w[2]>> /\ w[1] \in Pipe /\ ~CountOnly(w[1]) /\ w[2] \in 1 .. CountGrid(w[1])
    BY <1>3
  <2> SUFFICES ASSUME d \in ToSet(HeadsOf(v[1])), d \in ToSet(HeadsOf(w[1]))
               PROVE  Reserved(v[1], v[2], d) \cap Reserved(w[1], w[2], d) = {}
    BY <1>1, <2>1, ReservedIs
  <2>2. PICK g \in DOMAIN HeadsOf(v[1]) : HeadsOf(v[1])[g] = d
    BY DEF ToSet
  <2>3. PICK h \in DOMAIN HeadsOf(w[1]) : HeadsOf(w[1])[h] = d
    BY DEF ToSet
  <2> DEFINE a == StartAt(v[1], g, v[2])
             b == StartAt(w[1], h, w[2])
             m == Cardinality(Part(v[1], v[2]))
             n == Cardinality(Part(w[1], w[2]))
             x == Cardinality(RowsAhead(v[1], v[2], d))
             y == Cardinality(RowsAhead(w[1], w[2], d))
  <2>4. Reserved(v[1], v[2], d) = a + 1 .. a + m /\ Reserved(w[1], w[2], d) = b + 1 .. b + n
    BY <1>1, <2>1, <2>2, <2>3, ReservedIs
  <2>5. a \in Nat /\ m \in Nat /\ a = base[d] + x /\ v[1] \in Writers(d)
    BY <1>1, <1>2, <2>1, <2>2, ThreadsHaveRows
  <2>6. b \in Nat /\ n \in Nat /\ b = base[d] + y /\ w[1] \in Writers(d)
    BY <1>1, <1>2, <2>1, <2>3, ThreadsHaveRows
  <2>7. x \in Nat /\ y \in Nat
    BY <1>1, <2>1, <2>5, <2>6, RowsLaidOut
  <2>8. x + m <= y \/ y + n <= x
    <3>1. <<v[1], v[2]>> # <<w[1], w[2]>>
      BY <1>7, <2>1
    <3> QED
      BY <1>1, <2>1, <2>5, <2>6, <3>1, RowsLaidOut
  <2>9. base[d] \in Nat
    OBVIOUS
  <2> HIDE DEF a, b, m, n, x, y
  <2>10. a + m <= b \/ b + n <= a
    BY <2>5, <2>6, <2>7, <2>8, <2>9
  <2>11. (a + 1 .. a + m) \cap (b + 1 .. b + n) = {}
    <3>1. a \in Nat /\ b \in Nat /\ m \in Nat /\ n \in Nat
      BY <2>5, <2>6
    <3> QED
      BY <2>10, <3>1
  <2> QED
    BY <2>4, <2>11
<1>8. \A k : k \in UNION {Reserved(w[1], w[2], d) : w \in pending}
               <=> \E w \in pending : k \in Reserved(w[1], w[2], d)
  OBVIOUS
<1>9. {k \in DOMAIN rows[d] : rows[d][k] = Junk} = UNION {Reserved(w[1], w[2], d) : w \in pending}
  BY <1>5, <1>6, <1>8
<1> QED
  BY <1>7, <1>9

(* A head has one fact for each match of its pipeline.                     *)
LEMMA FactsAreMatches ==
    ASSUME Sized, NEW p \in Pipe, NEW h \in DOMAIN HeadsOf(p)
    PROVE  /\ IsFiniteSet(Facts(p, h))
           /\ Cardinality(Facts(p, h)) = Cardinality(1 .. matches[p])
<1> DEFINE S == 1 .. matches[p]
           R == {<<p, h, i>> : i \in S}
<1>1. PICK m \in Nat : m = matches[p]
  BY DEF Sized
<1>2. IsFiniteSet(S)
  BY <1>1, FS_Interval
<1>3. IsFiniteSet(R) /\ Cardinality(R) = Cardinality(S)
  <2>1. R = Triples(p, h, S)
    BY DEF Triples
  <2> HIDE DEF S, R
  <2> QED
    BY <1>2, <2>1, CountTriples
<1>4. Facts(p, h) = R
  BY DEF Facts
<1> HIDE DEF R
<1> QED
  BY <1>3, <1>4

(* The matches that writers of d find are as many as the facts for d.      *)
LEMMA FactsCount ==
    ASSUME GroupSupported, Sized, NEW d, NEW A,
           A = UNION {Facts(w[1], w[2]) : w \in WritesOf(d)}
    PROVE  Cardinality(A) = Cardinality(Meant(Writers(d)))
<1> DEFINE W == WritesOf(d)
           F == [w \in W |-> {w[1]} \X (1 .. matches[w[1]])]
           G == [w \in W |-> Facts(w[1], w[2])]
<1>1. \A w \in W : w[1] \in Pipe /\ w[1] \in Writers(d)
  BY WritesAre
<1>2. Writers(d) \subseteq Pipe
  BY DEF Writers
<1>3. Pile(G, W) = A
  BY DEF Pile
<1>4. Pile(F, W) = Meant(Writers(d))
  <2>1. \A x : x \in Pile(F, W) <=> \E w \in W : x \in {w[1]} \X (1 .. matches[w[1]])
    BY DEF Pile
  <2>2. \A x : x \in Meant(Writers(d)) <=> \E q \in Writers(d) : x \in {q} \X (1 .. matches[q])
    BY DEF Meant
  <2>3. \A q \in Writers(d) : \E w \in W : w[1] = q
    BY WritesAre
  <2> QED
    BY <1>1, <2>1, <2>2, <2>3
<1>5. ASSUME NEW w \in W
      PROVE  IsFiniteSet(F[w]) /\ IsFiniteSet(G[w]) /\ Cardinality(F[w]) = Cardinality(G[w])
  <2>1. PICK m \in Nat : m = matches[w[1]]
    BY <1>1, SameGrid
  <2>2. F[w] = {w[1]} \X (1 .. m) /\ G[w] = Facts(w[1], w[2])
    BY <2>1
  <2>3. IsFiniteSet(1 .. m)
    BY FS_Interval
  <2> HIDE DEF F, G
  <2>4. LET S == {w[1]} \X (1 .. m)
        IN  IsFiniteSet(S) /\ Cardinality(S) = Cardinality(1 .. m)
    BY <2>3, CountNamed, Zenon
  <2>5. IsFiniteSet(F[w]) /\ Cardinality(F[w]) = Cardinality(1 .. m)
    BY <2>2, <2>4, Zenon
  <2>6. IsFiniteSet(G[w]) /\ Cardinality(G[w]) = Cardinality(1 .. m)
    BY <1>1, <2>1, <2>2, FactsAreMatches, WritesAre
  <2> QED
    BY <2>5, <2>6
<1>6. \A v, w \in W : v # w => F[v] \cap F[w] = {} /\ G[v] \cap G[w] = {}
  <2> SUFFICES ASSUME NEW v \in W, NEW w \in W, v # w
               PROVE  F[v] \cap F[w] = {} /\ G[v] \cap G[w] = {}
    OBVIOUS
  <2>1. v[1] # w[1]
    BY WritesAre
  <2>2. F[v] \cap F[w] = {}
    BY <2>1
  <2>3. G[v] \cap G[w] = {}
    BY <2>1 DEF Facts
  <2> QED
    BY <2>2, <2>3
<1>7. IsFiniteSet(W)
  <2>1. IsFiniteSet(Writers(d))
    BY <1>2, PipelinesTyped, FS_Subset
  <2> DEFINE k == [w \in W |-> w[1]]
  <2>2. k \in Injection(W, Writers(d))
    BY <1>1, WritesAre DEF Injection, IsInjective
  <2> HIDE DEF k
  <2> QED
    BY <2>1, <2>2, FS_Injection
<1> HIDE DEF F, G
<1>8. IsFiniteSet(Pile(F, W)) /\ IsFiniteSet(Pile(G, W))
  BY <1>5, <1>7, PileIsFinite
<1>9. Cardinality(Pile(F, W)) = Cardinality(Pile(G, W))
  BY <1>5, <1>6, <1>8, PilesCountAlike
<1> QED
  BY <1>3, <1>4, <1>9

(* The invariant has, when no thread is pending, all facts in the columns. *)
LEMMA InvCompletes ==
    ASSUME GroupSupported, IInv
    PROVE  NewIsComplete
<1> SUFFICES ASSUME phase = "done"
             PROVE  NewIsComplete
  BY DEF NewIsComplete
<1>1. Sized /\ Recorded /\ pending = {}
  BY DEF IInv, WriteInv
<1>2. PICK base \in [Rel -> 0 .. 1] : Laid(base)
  BY DEF IInv, WriteInv
<1>3. \A p \in Pipe : CountOnly(p) => recorded[p] = matches[p]
  BY <1>1 DEF Recorded
<1> DEFINE Added(d) == UNION {UNION {IF HeadsOf(p)[h] = d /\ ~CountOnly(p) THEN Facts(p, h) ELSE {}
                                     : h \in DOMAIN HeadsOf(p)} : p \in Pipe}
<1>4. ASSUME NEW d \in Rel
      PROVE  /\ ToSet(rows[d]) \ {Old} = Added(d)
             /\ Cardinality({k \in DOMAIN rows[d] : rows[d][k] # Old}) = Cardinality(Added(d))
  <2> DEFINE n == Cardinality(Meant(Writers(d)))
  <2>1. /\ base[d] \in Nat /\ n \in Nat
        /\ DOMAIN rows[d] = 1 .. base[d] + (IF Skipped(d) THEN 0 ELSE n)
        /\ \A k \in 1 .. base[d] : rows[d][k] = Old
    BY <1>1, <1>2, RowsLaidOut DEF Laid
  <2>2. \A x : x \in Added(d) <=> \E p \in Pipe : \E h \in DOMAIN HeadsOf(p) :
                 HeadsOf(p)[h] = d /\ ~CountOnly(p) /\ \E i \in 1 .. matches[p] : x = <<p, h, i>>
    BY DEF Facts
  <2>3. ASSUME NEW p \in Pipe, NEW h \in DOMAIN HeadsOf(p), HeadsOf(p)[h] = d, ~CountOnly(p),
               NEW t \in 1 .. CountGrid(p)
        PROVE  /\ t \in Int /\ StartAt(p, h, t) >= base[d] /\ StartAt(p, h, t) \in Nat
               /\ \A j \in 1 .. Cardinality(Part(p, t)) :
                     /\ StartAt(p, h, t) + j \in DOMAIN rows[d]
                     /\ rows[d][StartAt(p, h, t) + j] = Emitted(p, t, h)[j]
    <3>1. Filled(base, p, h, t)
      BY <1>2, <2>3 DEF Laid
    <3>2. \A j \in 1 .. Cardinality(Part(p, t)) : rows[d][StartAt(p, h, t) + j] = Emitted(p, t, h)[j]
      BY <1>1, <2>3, <3>1 DEF Filled
    <3>3. /\ StartAt(p, h, t) >= base[d] /\ StartAt(p, h, t) \in Nat
          /\ \A j \in 1 .. Cardinality(Part(p, t)) : StartAt(p, h, t) + j \in DOMAIN rows[d]
      BY <1>1, <1>2, <2>3, ThreadsHaveRows
    <3>4. t \in Int
      BY <1>1, SameGrid
    <3> QED
      BY <3>2, <3>3, <3>4
  <2> HIDE DEF Added
  <2>4. ASSUME NEW k \in DOMAIN rows[d], ~(k <= base[d])
        PROVE  rows[d][k] \in Added(d) /\ rows[d][k] # Old
    <3>1. PICK p \in Pipe : \E h \in DOMAIN HeadsOf(p) : \E t \in 1 .. CountGrid(p) :
                \E j \in 1 .. Cardinality(Part(p, t)) :
                   HeadsOf(p)[h] = d /\ ~CountOnly(p) /\ k = StartAt(p, h, t) + j
      BY <1>1, <1>2, <2>4, RowsHaveThreads
    <3>2. PICK h \in DOMAIN HeadsOf(p) : \E t \in 1 .. CountGrid(p) :
                \E j \in 1 .. Cardinality(Part(p, t)) :
                   HeadsOf(p)[h] = d /\ ~CountOnly(p) /\ k = StartAt(p, h, t) + j
      BY <3>1
    <3>3. PICK t \in 1 .. CountGrid(p) : \E j \in 1 .. Cardinality(Part(p, t)) :
                   HeadsOf(p)[h] = d /\ ~CountOnly(p) /\ k = StartAt(p, h, t) + j
      BY <3>2
    <3>4. PICK j \in 1 .. Cardinality(Part(p, t)) :
                   HeadsOf(p)[h] = d /\ ~CountOnly(p) /\ k = StartAt(p, h, t) + j
      BY <3>3
    <3>5. rows[d][k] = Emitted(p, t, h)[j] /\ t \in Int
      BY <2>3, <3>4
    <3>6. PICK i \in Part(p, t) : Emitted(p, t, h)[j] = <<p, h, i>>
      BY <1>1, <3>5, EmittedRows
    <3>7. Emitted(p, t, h)[j] # Old
      BY <1>1, <3>5, EmittedRows
    <3>8. i \in 1 .. matches[p]
      BY <1>1, <3>5, PartIsFinite
    <3> QED
      BY <2>2, <3>4, <3>5, <3>6, <3>7, <3>8
  <2>5. ASSUME NEW x \in Added(d)
        PROVE  \E k \in DOMAIN rows[d] : ~(k <= base[d]) /\ rows[d][k] = x
    <3>1. PICK p \in Pipe : \E h \in DOMAIN HeadsOf(p) :
                 HeadsOf(p)[h] = d /\ ~CountOnly(p) /\ \E i \in 1 .. matches[p] : x = <<p, h, i>>
      BY <2>2
    <3>2. PICK h \in DOMAIN HeadsOf(p) :
                 HeadsOf(p)[h] = d /\ ~CountOnly(p) /\ \E i \in 1 .. matches[p] : x = <<p, h, i>>
      BY <3>1
    <3>3. PICK i \in 1 .. matches[p] : x = <<p, h, i>>
      BY <3>2
    <3>4. PICK t \in 1 .. CountGrid(p) : i \in Part(p, t)
      BY <1>1, PartsPartition
    <3>5. t \in Int
      BY <2>3, <3>2
    <3>6. PICK j \in 1 .. Cardinality(Part(p, t)) : Emitted(p, t, h)[j] = <<p, h, i>>
      BY <1>1, <3>4, <3>5, EmittedRows
    <3>7. /\ StartAt(p, h, t) + j \in DOMAIN rows[d]
          /\ rows[d][StartAt(p, h, t) + j] = x
      BY <2>3, <3>2, <3>3, <3>6
    <3>8. ~(StartAt(p, h, t) + j <= base[d])
      <4>1. StartAt(p, h, t) >= base[d] /\ StartAt(p, h, t) \in Nat
        BY <2>3, <3>2
      <4>2. j \in Int /\ j >= 1
        BY <1>1, <3>5, PartIsFinite
      <4> QED
        BY <2>1, <4>1, <4>2
    <3> QED
      BY <3>7, <3>8
  <2>6. ToSet(rows[d]) \ {Old} = Added(d)
    <3>1. \A x : x \in ToSet(rows[d]) <=> \E k \in DOMAIN rows[d] : rows[d][k] = x
      BY DEF ToSet
    <3>2. \A k \in DOMAIN rows[d] : k <= base[d] => rows[d][k] = Old
      BY <2>1
    <3>3. \A x \in Added(d) : x \in ToSet(rows[d]) /\ x # Old
      BY <2>4, <2>5, <3>1
    <3>4. \A x \in ToSet(rows[d]) : x # Old => x \in Added(d)
      BY <2>4, <3>1, <3>2
    <3> QED
      BY <3>3, <3>4
  <2>7. {k \in DOMAIN rows[d] : rows[d][k] # Old} = {k \in DOMAIN rows[d] : ~(k <= base[d])}
    <3>1. \A k \in DOMAIN rows[d] : k <= base[d] => rows[d][k] = Old
      BY <2>1
    <3> QED
      BY <2>4, <3>1
  <2>8. Cardinality({k \in DOMAIN rows[d] : ~(k <= base[d])}) = Cardinality(Added(d))
    <3>1. CASE Skipped(d)
      <4>1. {k \in DOMAIN rows[d] : ~(k <= base[d])} = {}
        BY <2>1, <3>1
      <4>2. Added(d) = {}
        BY <2>5, <4>1
      <4> QED
        BY <4>1, <4>2
    <3>2. CASE ~Skipped(d)
      <4>1. {k \in DOMAIN rows[d] : ~(k <= base[d])} = base[d] + 1 .. base[d] + n
        <5> HIDE DEF n
        <5> QED
          BY <2>1, <3>2
      <4>2. Cardinality(base[d] + 1 .. base[d] + n) = n
        <5>1. PICK b \in Nat : b = base[d]
          BY <2>1
        <5>2. PICK m \in Nat : m = n
          BY <2>1
        <5>3. Cardinality(b + 1 .. b + m) = IF b + 1 > b + m THEN 0 ELSE b + m - (b + 1) + 1
          BY FS_Interval
        <5>4. Cardinality(b + 1 .. b + m) = m
          BY <5>3
        <5> QED
          BY <5>1, <5>2, <5>4
      <4>3. \A w \in WritesOf(d) : ~CountOnly(w[1])
        <5>1. PICK v \in WritesOf(d) : ~CountOnly(v[1])
          BY <3>2 DEF Skipped
        <5>2. \A w \in WritesOf(d) : w[1] \in Pipe /\ w[2] \in DOMAIN HeadsOf(w[1])
                                      /\ HeadsOf(w[1])[w[2]] = d
          BY WritesAre
        <5>3. \A w \in WritesOf(d) : CountOnly(w[1]) = CountOnly(v[1])
          BY <5>2 DEF GroupSupported
        <5> QED
          BY <5>1, <5>3
      <4>4. Added(d) = UNION {Facts(w[1], w[2]) : w \in WritesOf(d)}
        <5>1. \A x : x \in UNION {Facts(w[1], w[2]) : w \in WritesOf(d)}
                     <=> \E w \in WritesOf(d) : \E i \in 1 .. matches[w[1]] : x = <<w[1], w[2], i>>
          BY DEF Facts
        <5>2. ASSUME NEW x \in Added(d)
              PROVE  x \in UNION {Facts(w[1], w[2]) : w \in WritesOf(d)}
          <6>1. PICK p \in Pipe : \E h \in DOMAIN HeadsOf(p) :
                       HeadsOf(p)[h] = d /\ ~CountOnly(p) /\ \E i \in 1 .. matches[p] : x = <<p, h, i>>
            BY <2>2
          <6>2. PICK h \in DOMAIN HeadsOf(p) :
                       HeadsOf(p)[h] = d /\ ~CountOnly(p) /\ \E i \in 1 .. matches[p] : x = <<p, h, i>>
            BY <6>1
          <6>3. <<p, h>> \in WritesOf(d) /\ <<p, h>>[1] = p /\ <<p, h>>[2] = h
            BY <6>2, WritesAre
          <6>4. \E i \in 1 .. matches[p] : x = <<p, h, i>>
            BY <6>2
          <6> QED
            BY <5>1, <6>3, <6>4
        <5>3. ASSUME NEW x \in UNION {Facts(w[1], w[2]) : w \in WritesOf(d)}
              PROVE  x \in Added(d)
          <6>1. PICK w \in WritesOf(d) : \E i \in 1 .. matches[w[1]] : x = <<w[1], w[2], i>>
            BY <5>1
          <6>2. w[1] \in Pipe /\ w[2] \in DOMAIN HeadsOf(w[1]) /\ HeadsOf(w[1])[w[2]] = d
            BY WritesAre
          <6> QED
            BY <2>2, <4>3, <6>1, <6>2
        <5> QED
          BY <5>2, <5>3
      <4>5. Cardinality(Added(d)) = n
        BY <1>1, <4>4, FactsCount
      <4> QED
        BY <4>1, <4>2, <4>5
    <3> QED
      BY <3>1, <3>2
  <2> QED
    BY <2>6, <2>7, <2>8
<1> QED
  BY <1>3, <1>4 DEF NewIsComplete

-----------------------------------------------------------------------------
(***************************************************************************)
(* Theorems                                                                *)
(***************************************************************************)
(* In every state the columns and buffers of a group are laid out as IInv  *)
(* says, whatever the order its threads run in.                            *)
THEOREM LayoutHolds ==
    ASSUME GroupSupported
    PROVE  Spec => []IInv
<1>1. Init => IInv
  BY InitHolds
<1>2. IInv /\ [Next]_vars => IInv'
  BY StepKeeps
<1> QED
  BY <1>1, <1>2, PTL DEF Spec

(* While writing kernels run, each row that is not written is reserved by  *)
(* one thread that has not run: counting and writing kernels agree.        *)
THEOREM RowsAreReservedOnce ==
    ASSUME GroupSupported
    PROVE  Spec => []ReservedOnce
<1>1. IInv => ReservedOnce
  BY InvReserves
<1> QED
  BY <1>1, LayoutHolds, PTL

(* When a group is done, NEW has gained one row for each match of each     *)
(* pipeline and head and nothing else, and counts are those of matches.    *)
THEOREM NewBecomesComplete ==
    ASSUME GroupSupported
    PROVE  Spec => []NewIsComplete
<1>1. IInv => NewIsComplete
  BY InvCompletes
<1> QED
  BY <1>1, LayoutHolds, PTL
=============================================================================
