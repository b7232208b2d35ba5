-------------------------- MODULE KernelRun_proofs --------------------------
(***************************************************************************)
(* Theorems about KernelRun: no row of an iteration is lost or handed out  *)
(* twice, whatever the work source, the interleaving and the sizes; and no *)
(* row of NEW that has been written is written over.                       *)
(*                                                                         *)
(* The argument.  The rows of an iteration are a family of sets indexed by *)
(* places (Family), and Exact says that the family shares them out.  Every *)
(* step moves a set of rows between two places (Transfer) or none.  That   *)
(* it may, needs the tickets of the work queue (Ticketed), the strides     *)
(* (Strides), and for the fan-out queue a second family, of the flat rows  *)
(* (Fanned): only when every row has been explored, and no chunk is in a   *)
(* warp's hands, does the second kernel's queue share out the flat rows.   *)
(*                                                                         *)
(* Positions of NEW are claimed likewise: by the warp that is going to     *)
(* write them (Aims), with a chunk of the queue (Booked), or by nobody yet *)
(* (Free).  Claims are Apart, what is claimed is Blank, and a step writes  *)
(* what its warp has claimed.  With counting, a warp's claim starts at the *)
(* scanned sum and ends before the next one's because its counter, when    *)
(* the counting kernel returns, is the number of rows in its stride        *)
(* (Tally).                                                                *)
(***************************************************************************)
EXTENDS KernelRun, FiniteSetTheorems, WellFoundedInduction, TLAPS

-----------------------------------------------------------------------------
(***************************************************************************)
(* Counting and least elements.                                            *)
(***************************************************************************)

(* A set of natural numbers that is not empty has a least element.         *)
LEMMA MinOfNaturals ==
    ASSUME NEW S \in SUBSET Nat, S # {}
    PROVE  Min(S) \in S /\ \A k \in S : Min(S) <= k
<1> DEFINE R == {ss \in Nat \X Nat : ss[1] < ss[2]}
<1>1. IsWellFoundedOn(R, Nat)
  BY NatLessThanWellFounded DEF OpToRel
<1>2. PICK m \in S : \A k \in S : <<k, m>> \notin R
  <2> HIDE DEF R
  <2> QED
    BY <1>1, WFMin
<1>3. ASSUME NEW k \in S
      PROVE  m <= k
  <2>1. <<k, m>> \notin R /\ k \in Nat /\ m \in Nat
    BY <1>2
  <2>2. ~(k < m)
    BY <2>1
  <2> QED
    BY <2>1, <2>2
<1> QED
  BY <1>3 DEF Min

(* Two finite sets apart count together.                                   *)
LEMMA CountApart ==
    ASSUME NEW S, IsFiniteSet(S), NEW T, IsFiniteSet(T), S \cap T = {}
    PROVE  /\ IsFiniteSet(S \cup T)
           /\ Cardinality(S \cup T) = Cardinality(S) + Cardinality(T)
           /\ Cardinality(S) \in Nat /\ Cardinality(T) \in Nat
<1>1. Cardinality({}) = 0
  BY FS_EmptySet
<1>2. Cardinality(S) \in Nat /\ Cardinality(T) \in Nat
  BY FS_CardinalityType
<1>3. /\ IsFiniteSet(S \cup T)
      /\ Cardinality(S \cup T) = Cardinality(S) + Cardinality(T) - Cardinality(S \cap T)
  BY FS_Union
<1>4. Cardinality(S \cap T) = 0
  BY <1>1
<1> QED
  BY <1>2, <1>3, <1>4

(* Elements of S under one name are as many as the elements of S.          *)
LEMMA CountNamed ==
    ASSUME NEW q, NEW S, IsFiniteSet(S)
    PROVE  /\ IsFiniteSet({q} \X S) /\ Cardinality({q} \X S) = Cardinality(S)
           /\ Cardinality(S) \in Nat
<1> DEFINE f == [x \in S |-> <<q, x>>]
<1>1. f \in Injection(S, {q} \X S)
  BY DEF Injection, IsInjective
<1>2. f \in Surjection(S, {q} \X S)
  <2>1. \A y \in {q} \X S : \E x \in S : y = <<q, x>>
    OBVIOUS
  <2>2. f \in [S -> {q} \X S] /\ \A x \in S : f[x] = <<q, x>>
    OBVIOUS
  <2> HIDE DEF f
  <2>3. \A y \in {q} \X S : \E x \in S : f[x] = y
    BY <2>1, <2>2
  <2> QED
    BY <2>2, <2>3 DEF Surjection
<1>3. ExistsBijection(S, {q} \X S)
  BY <1>1, <1>2 DEF ExistsBijection, Bijection
<1> QED
  BY <1>3, FS_Bijection, FS_CardinalityType

(* The pile of the sets F[w], one for each w in I.                         *)
Pile(F, I) == UNION {F[w] : w \in I}

(* Finitely many finite sets make a finite pile.                           *)
LEMMA PileIsFinite ==
    ASSUME NEW I, NEW F, IsFiniteSet(I), \A w \in I : IsFiniteSet(F[w])
    PROVE  IsFiniteSet(Pile(F, I)) /\ Cardinality(Pile(F, I)) \in Nat
<1> DEFINE T == {F[w] : w \in I}
           f == [w \in I |-> F[w]]
<1>1. f \in Surjection(I, T)
  BY DEF Surjection
<1> HIDE DEF f
<1>2. IsFiniteSet(T)
  <2> HIDE DEF T
  <2> QED
    BY <1>1, FS_Surjection
<1>3. \A S \in T : IsFiniteSet(S)
  OBVIOUS
<1> HIDE DEF T
<1>4. IsFiniteSet(UNION T)
  BY <1>2, <1>3, FS_UNION
<1> QED
  BY <1>4, FS_CardinalityType DEF Pile, T

-----------------------------------------------------------------------------
(***************************************************************************)
(* Arithmetic of strides, shares and chunks.                               *)
(***************************************************************************)

(* Division with remainder.                                                *)
LEMMA DivMod ==
    ASSUME NEW d \in Nat \ {0}, NEW r \in Nat
    PROVE  r \div d \in Nat /\ (r % d) \in 0 .. d - 1 /\ r = d * (r \div d) + (r % d)
<1> DEFINE q == r \div d
           m == r % d
<1>1. q \in Nat /\ m \in 0 .. d - 1
  OBVIOUS
<1>2. m = r - d * q
  OBVIOUS
<1> HIDE DEF q, m
<1>3. d * q \in Int
  BY <1>1
<1>4. r = d * q + m
  BY <1>1, <1>2, <1>3
<1> QED
  BY <1>1, <1>4 DEF q, m

(* Quotient and remainder are unique.                                      *)
LEMMA SameQuotient ==
    ASSUME NEW d \in Nat \ {0}, NEW p \in Nat, NEW q \in Nat,
           NEW m \in 0 .. d - 1, NEW n \in 0 .. d - 1, d * p + m = d * q + n
    PROVE  p = q /\ m = n
<1>1. ASSUME p < q
      PROVE  FALSE
  <2>1. d * (p + 1) <= d * q
    BY <1>1
  <2>2. d * (p + 1) = d * p + d
    OBVIOUS
  <2> QED
    BY <2>1, <2>2
<1>2. ASSUME q < p
      PROVE  FALSE
  <2>1. d * (q + 1) <= d * p
    BY <1>2
  <2>2. d * (q + 1) = d * q + d
    OBVIOUS
  <2> QED
    BY <2>1, <2>2
<1>3. p = q
  BY <1>1, <1>2
<1> QED
  BY <1>3

(* A stride keeps the remainder, and no number in between has it.          *)
LEMMA StrideStep ==
    ASSUME NEW d \in Nat \ {0}, NEW b \in Nat
    PROVE  (b + d) % d = b % d
<1> DEFINE p == b \div d
           m == b % d
           c == b + d
           q == c \div d
           n == c % d
<1>1. p \in Nat /\ m \in 0 .. d - 1 /\ b = d * p + m
  BY DivMod
<1>2. c \in Nat
  OBVIOUS
<1> HIDE DEF c
<1>3. q \in Nat /\ n \in 0 .. d - 1 /\ c = d * q + n
  BY <1>2, DivMod
<1> HIDE DEF p, q, m, n
<1>4. d * (p + 1) = d * p + d /\ p + 1 \in Nat
  BY <1>1
<1>5. d * (p + 1) + m = d * q + n
  BY <1>1, <1>3, <1>4 DEF c
<1>6. m = n
  BY <1>1, <1>3, <1>4, <1>5, SameQuotient
<1> QED
  BY <1>6 DEF m, n, c

LEMMA StrideGap ==
    ASSUME NEW d \in Nat \ {0}, NEW b \in Nat, NEW r \in Nat, b < r, r < b + d
    PROVE  r % d # b % d
<1> SUFFICES ASSUME r % d = b % d
             PROVE  FALSE
  OBVIOUS
<1> DEFINE p == b \div d
           q == r \div d
           m == b % d
           n == r % d
<1>1. p \in Nat /\ m \in 0 .. d - 1 /\ b = d * p + m
  BY DivMod
<1>2. q \in Nat /\ n \in 0 .. d - 1 /\ r = d * q + n
  BY DivMod
<1>3. m = n
  OBVIOUS
<1> HIDE DEF p, q, m, n
<1>4. p < q
  <2> SUFFICES ASSUME q <= p
               PROVE  FALSE
    BY <1>1, <1>2
  <2>1. d * q <= d * p
    BY <1>1, <1>2
  <2> QED
    BY <1>1, <1>2, <1>3, <2>1
<1>5. d * (p + 1) <= d * q
  BY <1>1, <1>2, <1>4
<1>6. d * (p + 1) = d * p + d
  BY <1>1
<1> QED
  BY <1>1, <1>2, <1>3, <1>5, <1>6

LEMMA Remainder ==
    ASSUME NEW d \in Nat \ {0}, NEW r \in Nat
    PROVE  r % d \in 0 .. d - 1 /\ r >= r % d
  OBVIOUS

LEMMA SmallRemainder ==
    ASSUME NEW d \in Nat \ {0}, NEW r \in 0 .. d - 1
    PROVE  r % d = r
  OBVIOUS

(* The bounds of the shares of the board.                                  *)
LEMMA ShareBounds ==
    ASSUME NEW d \in Nat \ {0}, NEW n \in Nat, NEW w \in 0 .. d
    PROVE  /\ (w * n) \div d \in Nat
           /\ (0 * n) \div d = 0 /\ (d * n) \div d = n
           /\ \A v \in 0 .. w : (v * n) \div d <= (w * n) \div d
<1>1. w * n \in Nat
  OBVIOUS
<1>2. (w * n) \div d \in Nat
  BY <1>1
<1>3. (0 * n) \div d = 0 /\ (d * n) \div d = n
  OBVIOUS
<1>4. ASSUME NEW v \in 0 .. w
      PROVE  (v * n) \div d <= (w * n) \div d
  <2>1. v * n <= w * n /\ v * n \in Nat
    OBVIOUS
  <2> QED
    BY <1>1, <2>1
<1> QED
  BY <1>2, <1>3, <1>4

(* The chunks below one row end before those below a later row.            *)
LEMMA FlatApart ==
    ASSUME NEW n \in Nat \ {0}, NEW a \in Nat, NEW b \in Nat, a < b
    PROVE  a * n + n <= b * n /\ a * n \in Nat /\ b * n \in Nat
  OBVIOUS

-----------------------------------------------------------------------------
(***************************************************************************)
(* Families of sets that share out a set.                                  *)
(***************************************************************************)

(* Every element of X is in exactly one F[k].                              *)
Exact(F, K, X) ==
    /\ UNION {F[k] : k \in K} = X
    /\ \A j, k \in K : j # k => F[j] \cap F[k] = {}

(* What two members of the family exchange stays shared out.               *)
LEMMA Transfer ==
    ASSUME NEW K, NEW F, NEW G, NEW X, Exact(F, K, X),
           NEW j \in K, NEW k \in K, j # k,
           \A i \in K : i = j \/ i = k \/ G[i] = F[i],
           G[j] \cup G[k] = F[j] \cup F[k], G[j] \cap G[k] = {}
    PROVE  Exact(G, K, X)
<1>1. \A x : (\E i \in K : x \in G[i]) <=> (\E i \in K : x \in F[i])
  <2>1. \A x : x \in F[j] \/ x \in F[k] <=> x \in G[j] \/ x \in G[k]
    OBVIOUS
  <2> QED
    BY <2>1
<1>2. UNION {G[i] : i \in K} = UNION {F[i] : i \in K}
  BY <1>1
<1>3. ASSUME NEW x, NEW i \in K, NEW l \in K, i # l, x \in G[i], x \in G[l]
      PROVE  FALSE
  <2>1. \A h \in K : x \in G[h] /\ h # j /\ h # k => x \in F[h]
    OBVIOUS
  <2>2. x \in G[j] \/ x \in G[k] => x \in F[j] \/ x \in F[k]
    OBVIOUS
  <2>3. \A h, m \in K : h # m => ~(x \in F[h] /\ x \in F[m])
    BY DEF Exact
  <2>4. ~(x \in G[j] /\ x \in G[k])
    OBVIOUS
  <2> QED
    BY <1>3, <2>1, <2>2, <2>3, <2>4
<1>4. \A i, l \in K : i # l => G[i] \cap G[l] = {}
  BY <1>3
<1> QED
  BY <1>2, <1>4 DEF Exact

LEMMA NothingMoved ==
    ASSUME NEW K, NEW F, NEW G, NEW X, Exact(F, K, X), \A i \in K : G[i] = F[i]
    PROVE  Exact(G, K, X)
<1>1. \A x : (\E i \in K : x \in G[i]) <=> (\E i \in K : x \in F[i])
  OBVIOUS
<1>2. UNION {G[i] : i \in K} = UNION {F[i] : i \in K}
  BY <1>1
<1> QED
  BY <1>2 DEF Exact

(* An element that is in two members: they are the same one.               *)
LEMMA OnePlace ==
    ASSUME NEW K, NEW F, NEW X, Exact(F, K, X), NEW j \in K, NEW k \in K,
           NEW x, x \in F[j], x \in F[k]
    PROVE  j = k /\ x \in X
  BY DEF Exact

LEMMA SomePlace ==
    ASSUME NEW K, NEW F, NEW X, Exact(F, K, X), NEW x \in X
    PROVE  \E k \in K : x \in F[k]
  BY DEF Exact

LEMMA MakeExact ==
    ASSUME NEW K, NEW F, NEW X,
           \A k \in K : \A x \in F[k] : x \in X,
           \A x \in X : \E k \in K : x \in F[k],
           \A j, k \in K : \A x : x \in F[j] /\ x \in F[k] => j = k
    PROVE  Exact(F, K, X)
<1>1. \A x : x \in UNION {F[k] : k \in K} <=> x \in X
  OBVIOUS
<1> QED
  BY <1>1 DEF Exact

-----------------------------------------------------------------------------
(***************************************************************************)
(* The places of the rows of an iteration.                                 *)
(***************************************************************************)
AllPlaces == {<<"visited", 0>>} \cup ({"held", "offered"} \X Warps)
               \cup ({"queued"} \X Slots) \cup ({"posted"} \X (1 .. BoardCapacity))

Family(V, H, O, Q, P) ==
    [p \in AllPlaces |->
        CASE p[1] = "visited" -> V
          [] p[1] = "held" -> H[p[2]]
          [] p[1] = "offered" -> O[p[2]]
          [] p[1] = "queued" -> Q[p[2]]
          [] p[1] = "posted" -> P[p[2]]]

FamilyHas(F, V, H, O, Q, P) ==
    /\ F[<<"visited", 0>>] = V
    /\ \A w \in Warps : F[<<"held", w>>] = H[w] /\ F[<<"offered", w>>] = O[w]
    /\ \A s \in Slots : F[<<"queued", s>>] = Q[s]
    /\ \A s \in 1 .. BoardCapacity : F[<<"posted", s>>] = P[s]

PlacesOf(K) ==
    /\ <<"visited", 0>> \in K
    /\ \A w \in Warps : <<"held", w>> \in K /\ <<"offered", w>> \in K
    /\ \A s \in Slots : <<"queued", s>> \in K
    /\ \A s \in 1 .. BoardCapacity : <<"posted", s>> \in K
    /\ \A p \in K : \/ p = <<"visited", 0>>
                    \/ \E w \in Warps : p = <<"held", w>> \/ p = <<"offered", w>>
                    \/ \E s \in Slots : p = <<"queued", s>>
                    \/ \E s \in 1 .. BoardCapacity : p = <<"posted", s>>

LEMMA PlacesAre == PlacesOf(AllPlaces)
<1>1. <<"visited", 0>> \in AllPlaces
  BY DEF AllPlaces
<1>2. \A w \in Warps : <<"held", w>> \in AllPlaces /\ <<"offered", w>> \in AllPlaces
  BY DEF AllPlaces
<1>3. \A s \in Slots : <<"queued", s>> \in AllPlaces
  BY DEF AllPlaces
<1>4. \A s \in 1 .. BoardCapacity : <<"posted", s>> \in AllPlaces
  BY DEF AllPlaces
<1>5. ASSUME NEW p \in AllPlaces
      PROVE  \/ p = <<"visited", 0>>
             \/ \E w \in Warps : p = <<"held", w>> \/ p = <<"offered", w>>
             \/ \E s \in Slots : p = <<"queued", s>>
             \/ \E s \in 1 .. BoardCapacity : p = <<"posted", s>>
  <2>1. CASE p = <<"visited", 0>>
    BY <2>1
  <2>2. CASE p \in {"held", "offered"} \X Warps
    BY <2>2
  <2>3. CASE p \in {"queued"} \X Slots
    BY <2>3
  <2>4. CASE p \in {"posted"} \X (1 .. BoardCapacity)
    BY <2>4
  <2> QED
    BY <2>1, <2>2, <2>3, <2>4 DEF AllPlaces
<1> QED
  BY <1>1, <1>2, <1>3, <1>4, <1>5 DEF PlacesOf

LEMMA FamilyAt ==
    ASSUME NEW V, NEW H, NEW O, NEW Q, NEW P
    PROVE  FamilyHas(Family(V, H, O, Q, P), V, H, O, Q, P)
<1> DEFINE F == Family(V, H, O, Q, P)
<1>0. PlacesOf(AllPlaces)
  BY PlacesAre
<1>1. F[<<"visited", 0>>] = V
  BY <1>0 DEF Family, PlacesOf
<1>2. \A w \in Warps : F[<<"held", w>>] = H[w]
  BY <1>0 DEF Family, PlacesOf
<1>3. \A w \in Warps : F[<<"offered", w>>] = O[w]
  BY <1>0 DEF Family, PlacesOf
<1>4. \A s \in Slots : F[<<"queued", s>>] = Q[s]
  BY <1>0 DEF Family, PlacesOf
<1>5. \A s \in 1 .. BoardCapacity : F[<<"posted", s>>] = P[s]
  BY <1>0 DEF Family, PlacesOf
<1> HIDE DEF F
<1>6. FamilyHas(F, V, H, O, Q, P)
  BY <1>1, <1>2, <1>3, <1>4, <1>5 DEF FamilyHas
<1> QED
  BY <1>6 DEF F

-----------------------------------------------------------------------------
(***************************************************************************)
(* The state of the warps, the queue and the board.                        *)
(***************************************************************************)
Fields == {"pc", "b", "e", "give", "slot", "full", "buf", "count", "at", "n"}
Giving == {"fill", "ready"}
Working == {"run", "probe", "flush", "store", "stop"}
Pcs == Working \cup Giving \cup {"start", "await", "donate"}

TaskTyped(t) == t.b \in Nat /\ t.e \in Nat
WarpTyped(r) ==
    /\ DOMAIN r = Fields
    /\ r.pc \in Pcs
    /\ r.b \in Nat /\ r.e \in Nat /\ r.slot \in Nat
    /\ r.count \in Nat /\ r.n \in Nat
    /\ TaskTyped(r.give)

WarpsTyped == DOMAIN warp = Warps /\ \A w \in Warps : WarpTyped(warp[w])
RunTyped ==
    /\ mode \in Combinations /\ Iterable(mode, column)
    /\ pass \in {"count", "write", "done"}
    /\ mode.out = "speculative" => pass # "count"
QueueTyped ==
    /\ DOMAIN queue = {"head", "tail", "tasks", "ready"}
    /\ queue.head \in Nat /\ queue.tail \in Nat
    /\ DOMAIN queue.tasks = Slots /\ \A s \in Slots : TaskTyped(queue.tasks[s])
    /\ queue.ready \subseteq Slots
BoardTyped ==
    /\ DOMAIN board = {"count", "ranges"}
    /\ board.count \in Nat /\ board.ranges \in Seq([cursor : Nat, end : Nat])
    /\ Len(board.ranges) = IF board.count <= BoardCapacity THEN board.count ELSE BoardCapacity
WorkTyped == RunTyped /\ WarpsTyped /\ QueueTyped /\ BoardTyped

LEMMA WarpCount == W \in Nat \ {0} /\ Warps = 1 .. W
<1>1. W \in Nat
  BY WarpsAssumption, FS_CardinalityType DEF W
<1>2. Warps = 1 .. W /\ Warps # {}
  BY WarpsAssumption DEF W
<1>3. W # 0
  BY <1>1, <1>2
<1> QED
  BY <1>1, <1>2, <1>3

LEMMA Sizes ==
    /\ QueueCapacity \in Nat /\ BoardCapacity \in Nat /\ FanCapacity \in Nat
    /\ GrabSize \in Nat \ {0} /\ FanChunk \in Nat \ {0} /\ FanDegree \in Nat \ {0}
  BY SizesAssumption

(* The slots are those of the larger queue.                                *)
LEMMA SlotsAre ==
    /\ \A s \in Nat : s < QueueCapacity \/ s < FanCapacity => s \in Slots
    /\ Slots \subseteq Nat
<1>1. QueueCapacity \in Nat /\ FanCapacity \in Nat
  BY Sizes
<1> DEFINE top == Max({QueueCapacity, FanCapacity})
<1>2. top \in {QueueCapacity, FanCapacity} /\ \A x \in {QueueCapacity, FanCapacity} : top >= x
  <2>1. \E x \in {QueueCapacity, FanCapacity} : \A y \in {QueueCapacity, FanCapacity} : x >= y
    BY <1>1
  <2> QED
    BY <2>1 DEF Max
<1>3. Slots = 0 .. top - 1
  BY DEF Slots
<1> HIDE DEF top
<1>4. top \in Nat /\ top >= QueueCapacity /\ top >= FanCapacity
  BY <1>1, <1>2
<1> QED
  BY <1>1, <1>3, <1>4

LEMMA ModeCases ==
    ASSUME NEW m \in Combinations
    PROVE  /\ m.work \in {"static", "queue", "board", "fanout"}
           /\ m.work = "static" => m.out \in {"counted", "speculative", "dedup"}
           /\ m.work = "queue" => m.out = "chunked"
           /\ m.work = "board" => m.out = "coalesced"
           /\ m.work = "fanout" => m.out = "preassigned"
  BY DEF Combinations, Generated, LibraryOnly

(* What becomes of the warps when one of them takes a step.                *)
Others(w) == \A v \in Warps : v = w \/ warp'[v] = warp[v]
Alone(w) == DOMAIN warp' = Warps /\ Others(w)
Shown(w, pc, b, e, slot) ==
    /\ Alone(w) /\ DOMAIN warp'[w] = Fields
    /\ warp'[w].pc = pc /\ warp'[w].b = b /\ warp'[w].e = e /\ warp'[w].slot = slot

LEMMA Becoming ==
    ASSUME NEW f, NEW w, NEW X, DOMAIN f = Warps, w \in Warps,
           NEW g, g = [f EXCEPT ![w] = X]
    PROVE  DOMAIN g = Warps /\ g[w] = X /\ \A v \in Warps : v = w \/ g[v] = f[v]
  OBVIOUS

LEMMA BecomesAlone ==
    ASSUME WarpsTyped, NEW w \in Warps, NEW X, Becomes(w, X)
    PROVE  Alone(w) /\ warp'[w] = X
<1>1. DOMAIN warp' = Warps /\ warp'[w] = X /\ \A v \in Warps : v = w \/ warp'[v] = warp[v]
  BY Becoming DEF Becomes, WarpsTyped
<1> QED
  BY <1>1 DEF Alone, Others

LEMMA BeginEffect ==
    ASSUME WarpsTyped, NEW w \in Warps, Begin(w)
    PROVE  LET L    == Len(column)
               part == CASE Static -> Task(w - 1, L, 0)
                         [] mode.work = "queue" -> IF w = 1 THEN Task(0, L, 0) ELSE NoTask
                         [] mode.work = "board" -> Task(((w - 1) * L) \div W, (w * L) \div W, 0)
                         [] OTHER -> NoTask
               kept == IF Posting(w) THEN NoTask ELSE part
           IN  /\ Shown(w, "run", kept.b, kept.e, warp[w].slot)
               /\ warp'[w].give = warp[w].give /\ warp'[w].at = warp[w].at
               /\ warp'[w].n = warp[w].n /\ warp'[w].count = warp[w].count
               /\ warp'[w].buf = warp[w].buf
               /\ IF Posting(w) THEN SetRange(warp[w].n, part.b, part.e) ELSE UNCHANGED board
               /\ At(w, "start") /\ (mode.work = "board" => warp[w].n > 0)
               /\ UNCHANGED <<column, queue, outputs, host, total, visited>>
<1> DEFINE L    == Len(column)
           part == CASE Static -> Task(w - 1, L, 0)
                     [] mode.work = "queue" -> IF w = 1 THEN Task(0, L, 0) ELSE NoTask
                     [] mode.work = "board" -> Task(((w - 1) * L) \div W, (w * L) \div W, 0)
                     [] OTHER -> NoTask
           kept == IF Posting(w) THEN NoTask ELSE part
<1>1. Becomes(w, [warp[w] EXCEPT !.pc = "run", !.b = kept.b, !.e = kept.e])
  BY DEF Begin
<1>2. IF Posting(w) THEN SetRange(warp[w].n, part.b, part.e) ELSE UNCHANGED board
  BY DEF Begin
<1>3. /\ At(w, "start") /\ (mode.work = "board" => warp[w].n > 0)
      /\ UNCHANGED <<column, queue, outputs, host, total, visited>>
  BY DEF Begin
<1> HIDE DEF kept, part
<1>4. Alone(w) /\ warp'[w] = [warp[w] EXCEPT !.pc = "run", !.b = kept.b, !.e = kept.e]
  BY <1>1, BecomesAlone
<1>5. DOMAIN warp[w] = Fields
  BY DEF WarpsTyped, WarpTyped
<1>6. /\ DOMAIN warp'[w] = Fields
      /\ warp'[w].pc = "run" /\ warp'[w].b = kept.b /\ warp'[w].e = kept.e
      /\ warp'[w].slot = warp[w].slot
      /\ warp'[w].give = warp[w].give /\ warp'[w].at = warp[w].at
      /\ warp'[w].n = warp[w].n /\ warp'[w].count = warp[w].count
      /\ warp'[w].buf = warp[w].buf
  BY <1>4, <1>5 DEF Fields
<1>7. Shown(w, "run", kept.b, kept.e, warp[w].slot)
  BY <1>4, <1>6 DEF Shown
<1> QED
  BY <1>2, <1>3, <1>6, <1>7, Zenon DEF kept, part

VisitAs(w, pc, count, at, n, buf) ==
    /\ warp'[w].pc = pc /\ warp'[w].count = count /\ warp'[w].at = at
    /\ warp'[w].n = n /\ warp'[w].buf = buf
Emission(w) ==
    /\ pass = "count" /\ mode.out # "dedup" =>
         VisitAs(w, "run", warp[w].count + 1, warp[w].at, warp[w].n, warp[w].buf) /\ rows' = rows
    /\ mode.out = "dedup" =>
         VisitAs(w, "probe", warp[w].count, warp[w].at, 0, <<Tuple(w)>>) /\ rows' = rows
    /\ pass # "count" /\ mode.out = "counted" =>
         /\ VisitAs(w, "run", warp[w].count + 1, warp[w].at, warp[w].n, warp[w].buf)
         /\ rows' = Stored(base[w] + warp[w].count, <<Tuple(w)>>)
    /\ pass # "count" /\ mode.out = "preassigned" =>
         /\ VisitAs(w, "run", warp[w].count, warp[w].at + 1, warp[w].n, warp[w].buf)
         /\ rows' = Stored(warp[w].at, <<Tuple(w)>>)
    /\ pass # "count" /\ mode.out = "speculative" /\ overflow =>
         VisitAs(w, "run", warp[w].count, warp[w].at, warp[w].n, warp[w].buf) /\ rows' = rows
    /\ pass # "count" /\ (mode.out \in {"chunked", "coalesced"}
                           \/ (mode.out = "speculative" /\ ~overflow)) =>
         /\ \/ VisitAs(w, "flush", warp[w].count, warp[w].at, warp[w].n, Append(warp[w].buf, Tuple(w)))
            \/ VisitAs(w, "run", warp[w].count, warp[w].at, warp[w].n, Append(warp[w].buf, Tuple(w)))
         /\ rows' = rows

VisitDone(w) ==
    /\ InHand(w) /\ ~(mode.work = "fanout" /\ pass = "count")
    /\ Alone(w) /\ DOMAIN warp'[w] = Fields
    /\ warp'[w].b = NextRow(w) /\ warp'[w].e = warp[w].e
    /\ warp'[w].slot = warp[w].slot /\ warp'[w].give = warp[w].give
    /\ visited' = visited \cup IF Static THEN {warp[w].b} ELSE warp[w].b .. NextRow(w) - 1
    /\ Emission(w)
    /\ UNCHANGED <<column, queue, board, oldSize, writePos, capacity, overflow, table,
                   mode, pass, base, total>>

LEMMA VisitEffect ==
    ASSUME WarpsTyped, RunTyped, NEW w \in Warps, Visit(w)
    PROVE  VisitDone(w)
<1> DEFINE nb == NextRow(w)
           t == Tuple(w)
           next == [warp[w] EXCEPT !.b = nb, !.full = FALSE]
           full == FullBuffer(mode.out, Append(next.buf, t))
           kept == [next EXCEPT !.buf = Append(@, t)]
           counting == [next EXCEPT !.count = @ + 1]
           probing == [next EXCEPT !.pc = "probe", !.buf = <<t>>, !.n = 0]
           placing == [next EXCEPT !.at = @ + 1]
           flushing == [kept EXCEPT !.pc = "flush"]
<1>1. InHand(w) /\ ~(mode.work = "fanout" /\ pass = "count")
  BY DEF Visit
<1>2. visited' = visited \cup IF Static THEN {warp[w].b} ELSE warp[w].b .. nb - 1
  BY DEF Visit
<1>3. IF pass = "count" /\ mode.out # "dedup"
      THEN Becomes(w, counting) /\ UNCHANGED rows
      ELSE CASE mode.out = "dedup" -> Becomes(w, probing) /\ UNCHANGED rows
             [] mode.out = "counted" ->
                  rows' = Stored(base[w] + next.count, <<t>>) /\ Becomes(w, counting)
             [] mode.out = "preassigned" ->
                  rows' = Stored(next.at, <<t>>) /\ Becomes(w, placing)
             [] mode.out = "speculative" /\ overflow -> Becomes(w, next) /\ UNCHANGED rows
             [] OTHER -> Becomes(w, IF full THEN flushing ELSE kept) /\ UNCHANGED rows
  BY Zenon DEF Visit
<1>4. UNCHANGED <<column, queue, board, oldSize, writePos, capacity, overflow, table,
                  mode, pass, base, total>>
  BY DEF Visit, sources, host
<1>5. DOMAIN warp[w] = Fields
  BY DEF WarpsTyped, WarpTyped
<1>6. /\ DOMAIN next = Fields /\ next.pc = warp[w].pc /\ next.b = nb /\ next.e = warp[w].e
      /\ next.slot = warp[w].slot /\ next.give = warp[w].give /\ next.count = warp[w].count
      /\ next.at = warp[w].at /\ next.n = warp[w].n /\ next.buf = warp[w].buf
  BY <1>5 DEF Fields
<1> HIDE DEF next, nb, t
<1>7. warp[w].pc = "run"
  BY <1>1 DEF InHand, At
<1> DEFINE Same(r) == /\ DOMAIN r = Fields /\ r.b = nb /\ r.e = warp[w].e
                      /\ r.slot = warp[w].slot /\ r.give = warp[w].give
           As(r, pc, count, at, n, buf) ==
               r.pc = pc /\ r.count = count /\ r.at = at /\ r.n = n /\ r.buf = buf
<1>8. Same(counting) /\ As(counting, "run", warp[w].count + 1, warp[w].at, warp[w].n, warp[w].buf)
  BY <1>6, <1>7 DEF Fields
<1>9. Same(probing) /\ As(probing, "probe", warp[w].count, warp[w].at, 0, <<t>>)
  BY <1>6, <1>7 DEF Fields
<1>10. Same(placing) /\ As(placing, "run", warp[w].count, warp[w].at + 1, warp[w].n, warp[w].buf)
  BY <1>6, <1>7 DEF Fields
<1>11. Same(next) /\ As(next, "run", warp[w].count, warp[w].at, warp[w].n, warp[w].buf)
  BY <1>6, <1>7
<1>12. Same(kept) /\ As(kept, "run", warp[w].count, warp[w].at, warp[w].n, Append(warp[w].buf, t))
  BY <1>6, <1>7 DEF Fields
<1>13. Same(flushing) /\ As(flushing, "flush", warp[w].count, warp[w].at, warp[w].n, Append(warp[w].buf, t))
  BY <1>12 DEF Fields
<1> HIDE DEF counting, probing, placing, kept, flushing, full
<1>14. ASSUME NEW r, Becomes(w, r), Same(r)
       PROVE  /\ warp'[w] = r /\ Alone(w) /\ DOMAIN warp'[w] = Fields
              /\ warp'[w].b = nb /\ warp'[w].e = warp[w].e
              /\ warp'[w].slot = warp[w].slot /\ warp'[w].give = warp[w].give
  BY <1>14, BecomesAlone
<1>15. mode.out \in {"dedup", "counted", "preassigned", "speculative", "chunked", "coalesced"}
  BY DEF RunTyped, Combinations, Generated, LibraryOnly
<1> DEFINE Ok == /\ Alone(w) /\ DOMAIN warp'[w] = Fields
                 /\ warp'[w].b = nb /\ warp'[w].e = warp[w].e
                 /\ warp'[w].slot = warp[w].slot /\ warp'[w].give = warp[w].give
                 /\ Emission(w)
<1>16. ASSUME pass = "count" /\ mode.out # "dedup"
       PROVE  Ok
  <2>1. Becomes(w, counting) /\ rows' = rows
    BY <1>3, <1>16
  <2>2. VisitAs(w, "run", warp[w].count + 1, warp[w].at, warp[w].n, warp[w].buf)
    BY <2>1, <1>8, <1>14 DEF VisitAs
  <2>3. Emission(w)
    BY <1>16, <2>1, <2>2 DEF Emission
  <2> QED
    BY <1>8, <1>14, <2>1, <2>3
<1>17. ASSUME mode.out = "dedup"
       PROVE  Ok
  <2>1. Becomes(w, probing) /\ rows' = rows
    BY <1>3, <1>17
  <2>2. VisitAs(w, "probe", warp[w].count, warp[w].at, 0, <<t>>)
    BY <2>1, <1>9, <1>14 DEF VisitAs
  <2>3. Emission(w)
    BY <1>17, <2>1, <2>2 DEF Emission, t
  <2> QED
    BY <1>9, <1>14, <2>1, <2>3
<1>18. ASSUME pass # "count" /\ mode.out = "counted"
       PROVE  Ok
  <2>1. Becomes(w, counting) /\ rows' = Stored(base[w] + next.count, <<t>>)
    BY <1>3, <1>18
  <2>2. VisitAs(w, "run", warp[w].count + 1, warp[w].at, warp[w].n, warp[w].buf)
    BY <2>1, <1>8, <1>14 DEF VisitAs
  <2>3. rows' = Stored(base[w] + warp[w].count, <<t>>)
    BY <1>6, <2>1
  <2>4. Emission(w)
    BY <1>18, <2>2, <2>3 DEF Emission, t
  <2> QED
    BY <1>8, <1>14, <2>1, <2>4
<1>19. ASSUME pass # "count" /\ mode.out = "preassigned"
       PROVE  Ok
  <2>1. Becomes(w, placing) /\ rows' = Stored(next.at, <<t>>)
    BY <1>3, <1>19
  <2>2. VisitAs(w, "run", warp[w].count, warp[w].at + 1, warp[w].n, warp[w].buf)
    BY <2>1, <1>10, <1>14 DEF VisitAs
  <2>3. rows' = Stored(warp[w].at, <<t>>)
    BY <1>6, <2>1
  <2>4. Emission(w)
    BY <1>19, <2>2, <2>3 DEF Emission, t
  <2> QED
    BY <1>10, <1>14, <2>1, <2>4
<1>20. ASSUME pass # "count" /\ mode.out = "speculative" /\ overflow
       PROVE  Ok
  <2>1. Becomes(w, next) /\ rows' = rows
    BY <1>3, <1>20
  <2>2. VisitAs(w, "run", warp[w].count, warp[w].at, warp[w].n, warp[w].buf)
    BY <2>1, <1>11, <1>14 DEF VisitAs
  <2>3. Emission(w)
    BY <1>20, <2>1, <2>2 DEF Emission
  <2> QED
    BY <1>11, <1>14, <2>1, <2>3
<1>21. ASSUME pass # "count" /\ (mode.out \in {"chunked", "coalesced"}
                                   \/ (mode.out = "speculative" /\ ~overflow))
       PROVE  Ok
  <2>1. Becomes(w, IF full THEN flushing ELSE kept) /\ rows' = rows
    BY <1>3, <1>21
  <2>2. PICK r \in {flushing, kept} : Becomes(w, r)
    BY <2>1
  <2>3. Same(r)
    BY <1>12, <1>13
  <2>4. \/ VisitAs(w, "flush", warp[w].count, warp[w].at, warp[w].n, Append(warp[w].buf, t))
        \/ VisitAs(w, "run", warp[w].count, warp[w].at, warp[w].n, Append(warp[w].buf, t))
    BY <2>2, <2>3, <1>12, <1>13, <1>14 DEF VisitAs
  <2>5. Emission(w)
    BY <1>21, <2>1, <2>4 DEF Emission, t
  <2> QED
    BY <1>14, <2>2, <2>3, <2>5
<1>22. Ok
  BY <1>15, <1>16, <1>17, <1>18, <1>19, <1>20, <1>21
<1> QED
  BY <1>1, <1>2, <1>4, <1>22, Zenon DEF VisitDone, nb

IsWarp(r, pc, b, e, slot, give, count, at, n, buf) ==
    /\ DOMAIN r = Fields
    /\ r.pc = pc /\ r.b = b /\ r.e = e /\ r.slot = slot /\ r.give = give
    /\ r.count = count /\ r.at = at /\ r.n = n /\ r.buf = buf
Turns(w, pc, b, e, slot, give, count, at, n, buf) ==
    Alone(w) /\ IsWarp(warp'[w], pc, b, e, slot, give, count, at, n, buf)

LEMMA Turning ==
    ASSUME WarpsTyped, NEW w \in Warps, NEW r, Becomes(w, r),
           NEW pc, NEW b, NEW e, NEW slot, NEW give, NEW count, NEW at, NEW n, NEW buf,
           IsWarp(r, pc, b, e, slot, give, count, at, n, buf)
    PROVE  Turns(w, pc, b, e, slot, give, count, at, n, buf)
  BY BecomesAlone DEF Turns

LEMMA WarpNow ==
    ASSUME WarpsTyped, NEW w \in Warps
    PROVE  LET r == warp[w] IN IsWarp(r, r.pc, r.b, r.e, r.slot, r.give, r.count, r.at, r.n, r.buf)
  BY DEF WarpsTyped, WarpTyped, IsWarp

ExploreDone(w) ==
    /\ InHand(w) /\ mode.work = "fanout" /\ pass = "count"
    /\ total' = total + FanDegree /\ visited' = visited \cup {warp[w].b}
    /\ Turns(w, "donate", warp[w].b, warp[w].e, warp[w].slot, warp[w].give, warp[w].count,
             total, 0, warp[w].buf)
    /\ UNCHANGED <<sources, outputs, host>>

LEMMA ExploreEffect ==
    ASSUME WarpsTyped, NEW w \in Warps, Explore(w)
    PROVE  ExploreDone(w)
<1> DEFINE r == [warp[w] EXCEPT !.pc = "donate", !.at = total, !.n = 0]
<1>1. IsWarp(r, "donate", warp[w].b, warp[w].e, warp[w].slot, warp[w].give, warp[w].count,
             total, 0, warp[w].buf)
  BY WarpNow DEF IsWarp, Fields
<1>2. Becomes(w, r)
  BY DEF Explore
<1> HIDE DEF r
<1>3. Turns(w, "donate", warp[w].b, warp[w].e, warp[w].slot, warp[w].give, warp[w].count,
            total, 0, warp[w].buf)
  BY <1>1, <1>2, Turning
<1> QED
  BY <1>3 DEF Explore, ExploreDone

PushDone(w) ==
    LET f == warp[w].b * FanDegree
        n == warp[w].n
        m == Min({n + FanChunk, FanDegree})
    IN  /\ At(w, "donate")
        /\ BlindPush(Task(f + n, f + m, warp[w].at + n))
        /\ \/ /\ m = FanDegree
              /\ Turns(w, "run", warp[w].b + W, warp[w].e, warp[w].slot, warp[w].give,
                       warp[w].count, warp[w].at, n, warp[w].buf)
           \/ /\ m # FanDegree
              /\ Turns(w, "donate", warp[w].b, warp[w].e, warp[w].slot, warp[w].give,
                       warp[w].count, warp[w].at, m, warp[w].buf)
        /\ UNCHANGED <<column, board, outputs, host, total, visited>>

LEMMA PushEffect ==
    ASSUME WarpsTyped, NEW w \in Warps, PushChunk(w)
    PROVE  PushDone(w)
<1> DEFINE f == warp[w].b * FanDegree
           n == warp[w].n
           m == Min({n + FanChunk, FanDegree})
           r == [warp[w] EXCEPT !.pc = "run", !.b = @ + W]
           s == [warp[w] EXCEPT !.n = m]
<1>1. /\ At(w, "donate") /\ BlindPush(Task(f + n, f + m, warp[w].at + n))
      /\ Becomes(w, IF m = FanDegree THEN r ELSE s)
      /\ UNCHANGED <<column, board, outputs, host, total, visited>>
  BY DEF PushChunk
<1> HIDE DEF m
<1>2. IsWarp(r, "run", warp[w].b + W, warp[w].e, warp[w].slot, warp[w].give,
             warp[w].count, warp[w].at, n, warp[w].buf)
  BY WarpNow DEF IsWarp, Fields
<1>3. IsWarp(s, "donate", warp[w].b, warp[w].e, warp[w].slot, warp[w].give,
             warp[w].count, warp[w].at, m, warp[w].buf)
  BY <1>1, WarpNow DEF IsWarp, Fields, At
<1> HIDE DEF r, s
<1>4. \/ /\ m = FanDegree
         /\ Turns(w, "run", warp[w].b + W, warp[w].e, warp[w].slot, warp[w].give,
                  warp[w].count, warp[w].at, n, warp[w].buf)
      \/ /\ m # FanDegree
         /\ Turns(w, "donate", warp[w].b, warp[w].e, warp[w].slot, warp[w].give,
                  warp[w].count, warp[w].at, m, warp[w].buf)
  <2>1. CASE m = FanDegree
    <3>1. Becomes(w, r)
      BY <1>1, <2>1
    <3> QED
      BY <3>1, <2>1, <1>2, Turning
  <2>2. CASE m # FanDegree
    <3>1. Becomes(w, s)
      BY <1>1, <2>2
    <3> QED
      BY <3>1, <2>2, <1>3, Turning
  <2> QED
    BY <2>1, <2>2
<1> QED
  BY <1>1, <1>4, Zenon DEF PushDone, m

PopDone(w) ==
    LET task == queue.tasks[queue.head] IN
    /\ Drained(w) /\ mode.work = "fanout" /\ pass = "write" /\ BlindPop
    /\ \/ /\ PoppedBlindly
          /\ Turns(w, "run", task.b, task.e, warp[w].slot, warp[w].give, warp[w].count,
                   task.at, warp[w].n, warp[w].buf)
       \/ /\ ~PoppedBlindly
          /\ Turns(w, "stop", warp[w].b, warp[w].e, warp[w].slot, warp[w].give, warp[w].count,
                   warp[w].at, warp[w].n, warp[w].buf)
    /\ UNCHANGED <<column, board, outputs, host, total, visited>>

LEMMA PopEffect ==
    ASSUME WarpsTyped, NEW w \in Warps, PopChunk(w)
    PROVE  PopDone(w)
<1> DEFINE task == queue.tasks[queue.head]
           r == [warp[w] EXCEPT !.b = task.b, !.e = task.e, !.at = task.at]
           s == [warp[w] EXCEPT !.pc = "stop"]
<1>1. /\ Drained(w) /\ mode.work = "fanout" /\ pass = "write" /\ BlindPop
      /\ Becomes(w, IF PoppedBlindly THEN r ELSE s)
      /\ UNCHANGED <<column, board, outputs, host, total, visited>>
  BY DEF PopChunk
<1> HIDE DEF task
<1>2. warp[w].pc = "run"
  BY <1>1 DEF Drained, At
<1>3. IsWarp(r, "run", task.b, task.e, warp[w].slot, warp[w].give, warp[w].count,
             task.at, warp[w].n, warp[w].buf)
  BY <1>2, WarpNow DEF IsWarp, Fields
<1>4. IsWarp(s, "stop", warp[w].b, warp[w].e, warp[w].slot, warp[w].give, warp[w].count,
             warp[w].at, warp[w].n, warp[w].buf)
  BY <1>1, WarpNow DEF IsWarp, Fields
<1> HIDE DEF r, s
<1>5. \/ /\ PoppedBlindly
         /\ Turns(w, "run", task.b, task.e, warp[w].slot, warp[w].give, warp[w].count,
                  task.at, warp[w].n, warp[w].buf)
      \/ /\ ~PoppedBlindly
         /\ Turns(w, "stop", warp[w].b, warp[w].e, warp[w].slot, warp[w].give, warp[w].count,
                  warp[w].at, warp[w].n, warp[w].buf)
  <2>1. CASE PoppedBlindly
    <3>1. Becomes(w, r)
      BY <1>1, <2>1
    <3> QED
      BY <3>1, <2>1, <1>3, Turning
  <2>2. CASE ~PoppedBlindly
    <3>1. Becomes(w, s)
      BY <1>1, <2>2
    <3> QED
      BY <3>1, <2>2, <1>4, Turning
  <2> QED
    BY <2>1, <2>2
<1> QED
  BY <1>1, <1>5, Zenon DEF PopDone, task

DonateDone(w) ==
    LET s == ValueAlignedSplit(warp[w].b, warp[w].e) IN
    /\ InHand(w) /\ mode.work = "queue" /\ s # 0
    /\ \/ /\ Reserve(TRUE)
          /\ Turns(w, "fill", warp[w].b, s, queue.tail, Task(s, warp[w].e, 0), warp[w].count,
                   warp[w].at, warp[w].n, warp[w].buf)
       \/ /\ Reserve(FALSE)
          /\ Turns(w, "run", warp[w].b, warp[w].e, warp[w].slot, warp[w].give, warp[w].count,
                   warp[w].at, warp[w].n, warp[w].buf)
    /\ UNCHANGED <<column, board, outputs, host, total, visited>>

LEMMA DonateEffect ==
    ASSUME WarpsTyped, NEW w \in Warps, Donate(w)
    PROVE  DonateDone(w)
<1> DEFINE s == ValueAlignedSplit(warp[w].b, warp[w].e)
           q == [warp[w] EXCEPT !.pc = "fill", !.slot = queue.tail,
                                !.e = s, !.give = Task(s, warp[w].e, 0)]
           r == [warp[w] EXCEPT !.full = TRUE]
<1>1. /\ InHand(w) /\ mode.work = "queue" /\ s # 0
      /\ \E won \in BOOLEAN : Reserve(won) /\ Becomes(w, IF won THEN q ELSE r)
      /\ UNCHANGED <<column, board, outputs, host, total, visited>>
  BY DEF Donate
<1> HIDE DEF s
<1>2. warp[w].pc = "run"
  BY <1>1 DEF InHand, At
<1>3. IsWarp(q, "fill", warp[w].b, s, queue.tail, Task(s, warp[w].e, 0), warp[w].count,
             warp[w].at, warp[w].n, warp[w].buf)
  BY WarpNow DEF IsWarp, Fields
<1>4. IsWarp(r, "run", warp[w].b, warp[w].e, warp[w].slot, warp[w].give, warp[w].count,
             warp[w].at, warp[w].n, warp[w].buf)
  BY <1>2, WarpNow DEF IsWarp, Fields
<1>5. (Reserve(TRUE) /\ Becomes(w, q)) \/ (Reserve(FALSE) /\ Becomes(w, r))
  BY <1>1, Zenon
<1> HIDE DEF q, r
<1>6. \/ /\ Reserve(TRUE)
         /\ Turns(w, "fill", warp[w].b, s, queue.tail, Task(s, warp[w].e, 0), warp[w].count,
                  warp[w].at, warp[w].n, warp[w].buf)
      \/ /\ Reserve(FALSE)
         /\ Turns(w, "run", warp[w].b, warp[w].e, warp[w].slot, warp[w].give, warp[w].count,
                  warp[w].at, warp[w].n, warp[w].buf)
  BY <1>3, <1>4, <1>5, Turning, Zenon
<1> QED
  BY <1>1, <1>6, Zenon DEF DonateDone, s

FillDone(w) ==
    /\ At(w, "fill")
    /\ Fill(warp[w].slot, warp[w].give)
    /\ Turns(w, "ready", warp[w].b, warp[w].e, warp[w].slot, warp[w].give,
             warp[w].count, warp[w].at, warp[w].n, warp[w].buf)
    /\ UNCHANGED <<column, board, outputs, host, total, visited>>

LEMMA FillSlotEffect ==
    ASSUME WarpsTyped, NEW w \in Warps, FillSlot(w)
    PROVE  FillDone(w)
<1> DEFINE r == [warp[w] EXCEPT !.pc = "ready"]
<1>1. Becomes(w, r)
  BY DEF FillSlot
<1>2. IsWarp(r, "ready", warp[w].b, warp[w].e, warp[w].slot, warp[w].give,
             warp[w].count, warp[w].at, warp[w].n, warp[w].buf)
  BY WarpNow DEF IsWarp, Fields
<1> HIDE DEF r
<1>3. Turns(w, "ready", warp[w].b, warp[w].e, warp[w].slot, warp[w].give,
             warp[w].count, warp[w].at, warp[w].n, warp[w].buf)
  BY <1>1, <1>2, Turning
<1> QED
  BY <1>3 DEF FillSlot, FillDone

RaiseDone(w) ==
    /\ At(w, "ready")
    /\ MakeReady(warp[w].slot)
    /\ Turns(w, "run", warp[w].b, warp[w].e, warp[w].slot, NoTask,
             warp[w].count, warp[w].at, warp[w].n, warp[w].buf)
    /\ UNCHANGED <<column, board, outputs, host, total, visited>>

LEMMA RaiseFlagEffect ==
    ASSUME WarpsTyped, NEW w \in Warps, RaiseFlag(w)
    PROVE  RaiseDone(w)
<1> DEFINE r == [warp[w] EXCEPT !.pc = "run", !.give = NoTask]
<1>1. Becomes(w, r)
  BY DEF RaiseFlag
<1>2. IsWarp(r, "run", warp[w].b, warp[w].e, warp[w].slot, NoTask,
             warp[w].count, warp[w].at, warp[w].n, warp[w].buf)
  BY WarpNow DEF IsWarp, Fields
<1> HIDE DEF r
<1>3. Turns(w, "run", warp[w].b, warp[w].e, warp[w].slot, NoTask,
             warp[w].count, warp[w].at, warp[w].n, warp[w].buf)
  BY <1>1, <1>2, Turning
<1> QED
  BY <1>3 DEF RaiseFlag, RaiseDone

AnnounceDone(w) ==
    /\ At(w, "start") /\ mode.work = "board" /\ AddRange
    /\ Turns(w, "start", warp[w].b, warp[w].e, warp[w].slot, warp[w].give,
             warp[w].count, warp[w].at, board.count + 1, warp[w].buf)
    /\ UNCHANGED <<column, queue, outputs, host, total, visited>>

LEMMA AnnounceEffect ==
    ASSUME WarpsTyped, NEW w \in Warps, Announce(w)
    PROVE  AnnounceDone(w)
<1> DEFINE r == [warp[w] EXCEPT !.n = board.count + 1]
<1>1. Becomes(w, r) /\ warp[w].pc = "start"
  BY DEF Announce, At
<1>2. IsWarp(r, "start", warp[w].b, warp[w].e, warp[w].slot, warp[w].give,
             warp[w].count, warp[w].at, board.count + 1, warp[w].buf)
  BY <1>1, WarpNow DEF IsWarp, Fields
<1> HIDE DEF r
<1>3. Turns(w, "start", warp[w].b, warp[w].e, warp[w].slot, warp[w].give,
             warp[w].count, warp[w].at, board.count + 1, warp[w].buf)
  BY <1>1, <1>2, Turning
<1> QED
  BY <1>3 DEF Announce, AnnounceDone

StealDone(w) ==
    /\ Drained(w)
    /\ mode.work = "queue"
    /\ TakeSlot(queue.head)
    /\ Turns(w, "await", warp[w].b, warp[w].e, queue.head, warp[w].give,
             warp[w].count, warp[w].at, warp[w].n, warp[w].buf)
    /\ UNCHANGED <<column, board, outputs, host, total, visited>>

LEMMA StealEffect ==
    ASSUME WarpsTyped, NEW w \in Warps, Steal(w)
    PROVE  StealDone(w)
<1> DEFINE r == [warp[w] EXCEPT !.pc = "await", !.slot = queue.head]
<1>1. Becomes(w, r)
  BY DEF Steal
<1>2. IsWarp(r, "await", warp[w].b, warp[w].e, queue.head, warp[w].give,
             warp[w].count, warp[w].at, warp[w].n, warp[w].buf)
  BY WarpNow DEF IsWarp, Fields
<1> HIDE DEF r
<1>3. Turns(w, "await", warp[w].b, warp[w].e, queue.head, warp[w].give,
             warp[w].count, warp[w].at, warp[w].n, warp[w].buf)
  BY <1>1, <1>2, Turning
<1> QED
  BY <1>3 DEF Steal, StealDone

TakeDone(w) ==
    /\ At(w, "await")
    /\ IsReady(warp[w].slot)
    /\ Turns(w, "run", queue.tasks[warp[w].slot].b, queue.tasks[warp[w].slot].e, warp[w].slot, warp[w].give,
             warp[w].count, warp[w].at, warp[w].n, warp[w].buf)
    /\ UNCHANGED <<sources, outputs, host, total, visited>>

LEMMA TakeTaskEffect ==
    ASSUME WarpsTyped, NEW w \in Warps, TakeTask(w)
    PROVE  TakeDone(w)
<1> DEFINE r == [warp[w] EXCEPT !.pc = "run", !.b = queue.tasks[warp[w].slot].b, !.e = queue.tasks[warp[w].slot].e]
<1>1. Becomes(w, r)
  BY DEF TakeTask
<1>2. IsWarp(r, "run", queue.tasks[warp[w].slot].b, queue.tasks[warp[w].slot].e, warp[w].slot, warp[w].give,
             warp[w].count, warp[w].at, warp[w].n, warp[w].buf)
  BY WarpNow DEF IsWarp, Fields
<1> HIDE DEF r
<1>3. Turns(w, "run", queue.tasks[warp[w].slot].b, queue.tasks[warp[w].slot].e, warp[w].slot, warp[w].give,
             warp[w].count, warp[w].at, warp[w].n, warp[w].buf)
  BY <1>1, <1>2, Turning
<1> QED
  BY <1>3 DEF TakeTask, TakeDone

StoreDone(w) ==
    /\ At(w, "store")
    /\ rows' = Stored(warp[w].at, warp[w].buf)
    /\ Turns(w, "run", warp[w].b, warp[w].e, warp[w].slot, warp[w].give,
             warp[w].count, warp[w].at, warp[w].n, <<>>)
    /\ UNCHANGED <<sources, oldSize, writePos, capacity, overflow, table, host, total, visited>>

LEMMA StoreEffect ==
    ASSUME WarpsTyped, NEW w \in Warps, Store(w)
    PROVE  StoreDone(w)
<1> DEFINE r == [warp[w] EXCEPT !.pc = "run", !.buf = <<>>]
<1>1. Becomes(w, r)
  BY DEF Store
<1>2. IsWarp(r, "run", warp[w].b, warp[w].e, warp[w].slot, warp[w].give,
             warp[w].count, warp[w].at, warp[w].n, <<>>)
  BY WarpNow DEF IsWarp, Fields
<1> HIDE DEF r
<1>3. Turns(w, "run", warp[w].b, warp[w].e, warp[w].slot, warp[w].give,
             warp[w].count, warp[w].at, warp[w].n, <<>>)
  BY <1>1, <1>2, Turning
<1> QED
  BY <1>3 DEF Store, StoreDone


GrabDone(w) ==
    LET s == warp[w].slot + 1 IN
    /\ Drained(w) /\ mode.work = "board" /\ IsSet(s)
    /\ s <= Len(board.ranges) /\ Grab(s)
    /\ \/ /\ Exhausted(s)
          /\ Turns(w, "run", warp[w].b, warp[w].e, s, warp[w].give, warp[w].count,
                   warp[w].at, warp[w].n, warp[w].buf)
       \/ /\ ~Exhausted(s)
          /\ Turns(w, "run", Grabbed(s).b, Grabbed(s).e, warp[w].slot, warp[w].give,
                   warp[w].count, warp[w].at, warp[w].n, warp[w].buf)
    /\ UNCHANGED <<column, queue, outputs, host, total, visited>>

LEMMA GrabEffect ==
    ASSUME WarpsTyped, BoardTyped, NEW w \in Warps, GrabRange(w)
    PROVE  GrabDone(w)
<1> DEFINE s == warp[w].slot + 1
           q == [warp[w] EXCEPT !.slot = s]
           r == [warp[w] EXCEPT !.b = Grabbed(s).b, !.e = Grabbed(s).e]
<1>1. /\ Drained(w) /\ mode.work = "board" /\ IsSet(s)
      /\ warp[w].slot < Len(board.ranges)
      /\ Grab(s) /\ Becomes(w, IF Exhausted(s) THEN q ELSE r)
      /\ UNCHANGED <<column, queue, outputs, host, total, visited>>
  BY DEF GrabRange
<1>2. warp[w].pc = "run"
  BY <1>1 DEF Drained, At
<1>3. s <= Len(board.ranges)
  BY <1>1 DEF WarpsTyped, WarpTyped, BoardTyped
<1> HIDE DEF s
<1>4. IsWarp(q, "run", warp[w].b, warp[w].e, s, warp[w].give, warp[w].count,
             warp[w].at, warp[w].n, warp[w].buf)
  BY <1>2, WarpNow DEF IsWarp, Fields
<1>5. IsWarp(r, "run", Grabbed(s).b, Grabbed(s).e, warp[w].slot, warp[w].give,
             warp[w].count, warp[w].at, warp[w].n, warp[w].buf)
  BY <1>2, WarpNow DEF IsWarp, Fields
<1> HIDE DEF q, r
<1>6. \/ /\ Exhausted(s)
         /\ Turns(w, "run", warp[w].b, warp[w].e, s, warp[w].give, warp[w].count,
                  warp[w].at, warp[w].n, warp[w].buf)
      \/ /\ ~Exhausted(s)
         /\ Turns(w, "run", Grabbed(s).b, Grabbed(s).e, warp[w].slot, warp[w].give,
                  warp[w].count, warp[w].at, warp[w].n, warp[w].buf)
  <2>1. CASE Exhausted(s)
    <3>1. Becomes(w, q)
      BY <1>1, <2>1
    <3> QED
      BY <3>1, <2>1, <1>4, Turning
  <2>2. CASE ~Exhausted(s)
    <3>1. Becomes(w, r)
      BY <1>1, <2>2
    <3> QED
      BY <3>1, <2>2, <1>5, Turning
  <2> QED
    BY <2>1, <2>2
<1> QED
  BY <1>1, <1>3, <1>6, Zenon DEF GrabDone, s

(* A probe: the tuple is in the table, the next slot is tried, or the      *)
(* thread has the tuple to itself.                                         *)
ProbeDone(w) ==
    LET t == warp[w].buf[1]
        n == warp[w].n
    IN  /\ At(w, "probe") /\ Insert(t, n)
        /\ \/ /\ Lost(t, n) \/ ((Won(t, n) \/ Exceeded(n)) /\ ~Leads(w))
              /\ Turns(w, "run", warp[w].b, warp[w].e, warp[w].slot, warp[w].give,
                       warp[w].count, warp[w].at, n, <<>>)
           \/ /\ ~Lost(t, n) /\ ~Won(t, n) /\ ~Exceeded(n)
              /\ Turns(w, "probe", warp[w].b, warp[w].e, warp[w].slot, warp[w].give,
                       warp[w].count, warp[w].at, n + 1, warp[w].buf)
           \/ /\ ~Lost(t, n) /\ (Won(t, n) \/ Exceeded(n)) /\ Leads(w) /\ pass = "count"
              /\ Turns(w, "run", warp[w].b, warp[w].e, warp[w].slot, warp[w].give,
                       warp[w].count + 1, warp[w].at, n, <<>>)
           \/ /\ ~Lost(t, n) /\ (Won(t, n) \/ Exceeded(n)) /\ Leads(w) /\ pass # "count"
              /\ Turns(w, "flush", warp[w].b, warp[w].e, warp[w].slot, warp[w].give,
                       warp[w].count, warp[w].at, n, warp[w].buf)
        /\ UNCHANGED <<sources, rows, oldSize, writePos, capacity, overflow, host, total, visited>>

LEMMA ProbeEffect ==
    ASSUME WarpsTyped, NEW w \in Warps, Probe(w)
    PROVE  ProbeDone(w)
<1> DEFINE t == warp[w].buf[1]
           n == warp[w].n
           none == [warp[w] EXCEPT !.pc = "run", !.buf = <<>>]
           next == [warp[w] EXCEPT !.n = n + 1]
           counted == [none EXCEPT !.count = @ + 1]
           emitting == [warp[w] EXCEPT !.pc = "flush"]
<1>1. /\ At(w, "probe") /\ Insert(t, n)
      /\ Becomes(w, IF Lost(t, n) THEN none
                    ELSE IF ~Won(t, n) /\ ~Exceeded(n) THEN next
                    ELSE IF ~Leads(w) THEN none
                    ELSE IF pass = "count" THEN counted
                    ELSE emitting)
      /\ UNCHANGED <<sources, rows, oldSize, writePos, capacity, overflow, host, total, visited>>
  BY DEF Probe
<1>2. warp[w].pc = "probe"
  BY <1>1 DEF At
<1>3. IsWarp(none, "run", warp[w].b, warp[w].e, warp[w].slot, warp[w].give,
             warp[w].count, warp[w].at, n, <<>>)
  BY WarpNow DEF IsWarp, Fields
<1>4. IsWarp(next, "probe", warp[w].b, warp[w].e, warp[w].slot, warp[w].give,
             warp[w].count, warp[w].at, n + 1, warp[w].buf)
  BY <1>2, WarpNow DEF IsWarp, Fields
<1>5. IsWarp(counted, "run", warp[w].b, warp[w].e, warp[w].slot, warp[w].give,
             warp[w].count + 1, warp[w].at, n, <<>>)
  BY WarpNow DEF IsWarp, Fields
<1>6. IsWarp(emitting, "flush", warp[w].b, warp[w].e, warp[w].slot, warp[w].give,
             warp[w].count, warp[w].at, n, warp[w].buf)
  BY WarpNow DEF IsWarp, Fields
<1> HIDE DEF none, next, counted, emitting, t, n
<1>7. \/ /\ Lost(t, n) \/ ((Won(t, n) \/ Exceeded(n)) /\ ~Leads(w))
         /\ Becomes(w, none)
      \/ /\ ~Lost(t, n) /\ ~Won(t, n) /\ ~Exceeded(n)
         /\ Becomes(w, next)
      \/ /\ ~Lost(t, n) /\ (Won(t, n) \/ Exceeded(n)) /\ Leads(w) /\ pass = "count"
         /\ Becomes(w, counted)
      \/ /\ ~Lost(t, n) /\ (Won(t, n) \/ Exceeded(n)) /\ Leads(w) /\ pass # "count"
         /\ Becomes(w, emitting)
  BY <1>1
<1>8. \/ /\ Lost(t, n) \/ ((Won(t, n) \/ Exceeded(n)) /\ ~Leads(w))
         /\ Turns(w, "run", warp[w].b, warp[w].e, warp[w].slot, warp[w].give,
                  warp[w].count, warp[w].at, n, <<>>)
      \/ /\ ~Lost(t, n) /\ ~Won(t, n) /\ ~Exceeded(n)
         /\ Turns(w, "probe", warp[w].b, warp[w].e, warp[w].slot, warp[w].give,
                  warp[w].count, warp[w].at, n + 1, warp[w].buf)
      \/ /\ ~Lost(t, n) /\ (Won(t, n) \/ Exceeded(n)) /\ Leads(w) /\ pass = "count"
         /\ Turns(w, "run", warp[w].b, warp[w].e, warp[w].slot, warp[w].give,
                  warp[w].count + 1, warp[w].at, n, <<>>)
      \/ /\ ~Lost(t, n) /\ (Won(t, n) \/ Exceeded(n)) /\ Leads(w) /\ pass # "count"
         /\ Turns(w, "flush", warp[w].b, warp[w].e, warp[w].slot, warp[w].give,
                  warp[w].count, warp[w].at, n, warp[w].buf)
  BY <1>3, <1>4, <1>5, <1>6, <1>7, Turning, Zenon
<1> QED
  BY <1>1, <1>8, Zenon DEF ProbeDone, t, n

FlushDone(w) ==
    /\ At(w, "flush") /\ Claim(mode.out, warp[w].buf)
    /\ \/ /\ Fits(mode.out, warp[w].buf)
          /\ Turns(w, "store", warp[w].b, warp[w].e, warp[w].slot, warp[w].give,
                   warp[w].count, writePos, warp[w].n, warp[w].buf)
       \/ /\ ~Fits(mode.out, warp[w].buf)
          /\ Turns(w, "run", warp[w].b, warp[w].e, warp[w].slot, warp[w].give,
                   warp[w].count, warp[w].at, warp[w].n, <<>>)
    /\ UNCHANGED <<sources, rows, oldSize, capacity, table, host, total, visited>>

LEMMA FlushEffect ==
    ASSUME WarpsTyped, NEW w \in Warps, Flush(w)
    PROVE  FlushDone(w)
<1> DEFINE q == [warp[w] EXCEPT !.pc = "store", !.at = writePos]
           r == [warp[w] EXCEPT !.pc = "run", !.buf = <<>>]
<1>1. /\ At(w, "flush") /\ Claim(mode.out, warp[w].buf)
      /\ Becomes(w, IF Fits(mode.out, warp[w].buf) THEN q ELSE r)
      /\ UNCHANGED <<sources, rows, oldSize, capacity, table, host, total, visited>>
  BY DEF Flush
<1>2. IsWarp(q, "store", warp[w].b, warp[w].e, warp[w].slot, warp[w].give,
             warp[w].count, writePos, warp[w].n, warp[w].buf)
  BY WarpNow DEF IsWarp, Fields
<1>3. IsWarp(r, "run", warp[w].b, warp[w].e, warp[w].slot, warp[w].give,
             warp[w].count, warp[w].at, warp[w].n, <<>>)
  BY WarpNow DEF IsWarp, Fields
<1> HIDE DEF q, r
<1>4. \/ /\ Fits(mode.out, warp[w].buf)
         /\ Turns(w, "store", warp[w].b, warp[w].e, warp[w].slot, warp[w].give,
                  warp[w].count, writePos, warp[w].n, warp[w].buf)
      \/ /\ ~Fits(mode.out, warp[w].buf)
         /\ Turns(w, "run", warp[w].b, warp[w].e, warp[w].slot, warp[w].give,
                  warp[w].count, warp[w].at, warp[w].n, <<>>)
  <2>1. CASE Fits(mode.out, warp[w].buf)
    <3>1. Becomes(w, q)
      BY <1>1, <2>1
    <3> QED
      BY <3>1, <2>1, <1>2, Turning
  <2>2. CASE ~Fits(mode.out, warp[w].buf)
    <3>1. Becomes(w, r)
      BY <1>1, <2>2
    <3> QED
      BY <3>1, <2>2, <1>3, Turning
  <2> QED
    BY <2>1, <2>2
<1> QED
  BY <1>1, <1>4, Zenon DEF FlushDone

FinishDone(w) ==
    /\ Drained(w) /\ NoWork(w)
    /\ \/ /\ warp[w].buf # <<>>
          /\ Turns(w, "flush", warp[w].b, warp[w].e, warp[w].slot, warp[w].give,
                   warp[w].count, warp[w].at, warp[w].n, warp[w].buf)
       \/ /\ warp[w].buf = <<>>
          /\ Turns(w, "stop", warp[w].b, warp[w].e, warp[w].slot, warp[w].give,
                   warp[w].count, warp[w].at, warp[w].n, warp[w].buf)
    /\ UNCHANGED <<sources, outputs, host, total, visited>>

LEMMA FinishEffect ==
    ASSUME WarpsTyped, NEW w \in Warps, Finish(w)
    PROVE  FinishDone(w)
<1> DEFINE q == [warp[w] EXCEPT !.pc = "flush"]
           r == [warp[w] EXCEPT !.pc = "stop"]
<1>1. /\ Drained(w) /\ NoWork(w)
      /\ warp[w].buf # <<>> => Becomes(w, q)
      /\ warp[w].buf = <<>> => Becomes(w, r)
      /\ UNCHANGED <<sources, outputs, host, total, visited>>
  BY DEF Finish
<1>2. IsWarp(q, "flush", warp[w].b, warp[w].e, warp[w].slot, warp[w].give,
             warp[w].count, warp[w].at, warp[w].n, warp[w].buf)
  BY WarpNow DEF IsWarp, Fields
<1>3. IsWarp(r, "stop", warp[w].b, warp[w].e, warp[w].slot, warp[w].give,
             warp[w].count, warp[w].at, warp[w].n, warp[w].buf)
  BY WarpNow DEF IsWarp, Fields
<1> HIDE DEF q, r
<1>4. \/ /\ warp[w].buf # <<>>
         /\ Turns(w, "flush", warp[w].b, warp[w].e, warp[w].slot, warp[w].give,
                  warp[w].count, warp[w].at, warp[w].n, warp[w].buf)
      \/ /\ warp[w].buf = <<>>
         /\ Turns(w, "stop", warp[w].b, warp[w].e, warp[w].slot, warp[w].give,
                  warp[w].count, warp[w].at, warp[w].n, warp[w].buf)
  <2>1. CASE warp[w].buf # <<>>
    BY <1>1, <2>1, <1>2, Turning, Zenon
  <2>2. CASE warp[w].buf = <<>>
    BY <1>1, <2>2, <1>3, Turning, Zenon
  <2> QED
    BY <2>1, <2>2
<1> QED
  BY <1>1, <1>4, Zenon DEF FinishDone

-----------------------------------------------------------------------------
(***************************************************************************)
(* The inductive invariant of the shared work.                             *)
(***************************************************************************)

(* What a warp that has not started is going to take.                      *)
Source == IF Static THEN "stride" ELSE mode.work
Allotment(source, n, w) ==
    CASE source = "stride" -> {r \in 0 .. n - 1 : r % W = w - 1}
      [] source = "queue" -> IF w = 1 THEN 0 .. n - 1 ELSE {}
      [] source = "board" -> ((w - 1) * n) \div W .. ((w * n) \div W) - 1
      [] OTHER -> {}
Held(w) == IF warp[w].pc = "start" THEN Allotment(Source, Len(column), w) ELSE ToVisit(w)
OnBoard(s) == IF s \in DOMAIN board.ranges THEN Posted(s) ELSE {}

Shares == Family(visited, [w \in Warps |-> Held(w)], [w \in Warps |-> Offered(w)],
                 [s \in Slots |-> Queued(s)], [s \in 1 .. BoardCapacity |-> OnBoard(s)])
Shared == pass # "done" => Exact(Shares, AllPlaces, AllRows)

Phases ==
    \A w \in Warps :
        /\ warp[w].pc \in Giving \cup {"await"} => mode.work = "queue"
        /\ warp[w].pc = "donate" => mode.work = "fanout" /\ pass = "count"

Strides ==
    pass # "done" /\ Static =>
        \A w \in Warps :
            /\ warp[w].pc # "start" => warp[w].b % W = w - 1 /\ warp[w].e = Len(column)
            /\ warp[w].pc = "donate" => warp[w].b < Len(column)

(* A slot below tail is ready or still being filled by one warp; a slot    *)
(* below head was taken when ready, or one warp awaits it.                 *)
Ticketed ==
    mode.work = "queue" =>
        /\ queue.head <= queue.tail /\ queue.tail <= QueueCapacity
        /\ \A s \in queue.ready : s < queue.tail
        /\ \A w \in Warps : warp[w].pc \in Giving =>
              warp[w].slot < queue.tail /\ warp[w].slot \notin queue.ready
        /\ \A v, w \in Warps :
              warp[v].pc \in Giving /\ warp[w].pc \in Giving /\ warp[v].slot = warp[w].slot => v = w
        /\ \A w \in Warps : warp[w].pc = "ready" => queue.tasks[warp[w].slot] = warp[w].give
        /\ \A w \in Warps : warp[w].pc = "await" =>
              warp[w].slot < queue.head /\ warp[w].b >= warp[w].e
        /\ \A v, w \in Warps :
              warp[v].pc = "await" /\ warp[w].pc = "await" /\ warp[v].slot = warp[w].slot => v = w
        /\ \A s \in Slots : s < queue.head /\ s \notin queue.ready =>
              \E w \in Warps : warp[w].pc = "await" /\ warp[w].slot = s

Unused ==
    /\ mode.work # "queue" => queue.ready = {}
    /\ mode.work # "board" => board.count = 0 /\ board.ranges = <<>>

(* The fan-out queue, while the first kernel fills it: the flat rows below *)
(* every row of the column are still below an unvisited row, left in the   *)
(* hands of a warp that pushes chunks, or in a chunk of the queue.         *)
FlatRows == 0 .. Len(column) * FanDegree - 1
Left(w) ==
    IF warp[w].pc = "donate"
    THEN warp[w].b * FanDegree + warp[w].n .. warp[w].b * FanDegree + FanDegree - 1 ELSE {}
Below(r) == IF r \in visited THEN {} ELSE r * FanDegree .. r * FanDegree + FanDegree - 1
Pushed(s) == IF s < queue.tail THEN Span(queue.tasks[s]) ELSE {}

FlatPlaces(n) == ({"below"} \X (0 .. n - 1)) \cup ({"left"} \X Warps) \cup ({"pushed"} \X Slots)
FlatFamily(n, B, H, Q) ==
    [p \in FlatPlaces(n) |->
        CASE p[1] = "below" -> B[p[2]]
          [] p[1] = "left" -> H[p[2]]
          [] p[1] = "pushed" -> Q[p[2]]]
FlatShares == FlatFamily(Len(column), [r \in 0 .. Len(column) - 1 |-> Below(r)],
                         [w \in Warps |-> Left(w)], [s \in Slots |-> Pushed(s)])
Chunk(r, k) == r * FanDegree + k * FanChunk
Fanned ==
    mode.work = "fanout" /\ pass = "count" =>
        /\ queue.head = 0 /\ queue.tail <= FanCapacity
        /\ Exact(FlatShares, FlatPlaces(Len(column)), FlatRows)
        /\ \A w \in Warps : warp[w].pc = "donate" =>
              /\ warp[w].n < FanDegree
              /\ \E k \in 0 .. ChunksPerRow - 1 : warp[w].n = k * FanChunk
        /\ \A s \in Slots : s < queue.tail =>
              /\ queue.tasks[s].b < queue.tasks[s].e
              /\ \E r \in 0 .. Len(column) - 1, k \in 0 .. ChunksPerRow - 1 :
                    queue.tasks[s].b = Chunk(r, k)
FanHeld == mode.work = "fanout" => queue.tail <= FanCapacity

WorkInv ==
    /\ WorkTyped /\ Phases /\ Strides /\ Ticketed /\ Unused /\ Fanned /\ FanHeld /\ Shared

(* A warp that has turned into a well-formed one.                          *)
LEMMA TypedTurn ==
    ASSUME WarpsTyped, NEW w \in Warps, Alone(w), WarpTyped(warp'[w])
    PROVE  WarpsTyped'
<1>1. \A v \in Warps : WarpTyped(warp'[v])
  BY DEF WarpsTyped, Alone, Others
<1> QED
  BY <1>1 DEF WarpsTyped, WarpTyped, TaskTyped, Alone

LEMMA TurnTyped ==
    ASSUME WarpsTyped, NEW w \in Warps, 
           NEW pc \in Pcs, NEW b \in Nat, NEW e \in Nat, NEW slot \in Nat, NEW give,
           TaskTyped(give), NEW count \in Nat, NEW at, NEW n \in Nat, NEW buf,
           Turns(w, pc, b, e, slot, give, count, at, n, buf)
    PROVE  WarpTyped(warp'[w]) /\ WarpsTyped'
<1>1. WarpTyped(warp'[w])
  BY DEF Turns, IsWarp, WarpTyped
<1>2. Alone(w)
  BY DEF Turns
<1> QED
  BY <1>1, <1>2, TypedTurn

(* What is in a warp's hands depends on the warp, the column and the mode. *)
Frame == UNCHANGED <<column, mode, pass>>

LEMMA FrameSource ==
    ASSUME Frame
    PROVE  Source' = Source /\ (Static' <=> Static) /\ AllRows' = AllRows /\ FlatRows' = FlatRows
  BY DEF Frame, Source, Static, AllRows, FlatRows

LEMMA HeldKept ==
    ASSUME Frame, NEW w, warp'[w] = warp[w]
    PROVE  Held(w)' = Held(w) /\ Offered(w)' = Offered(w) /\ Left(w)' = Left(w)
<1>1. Source' = Source /\ (Static' <=> Static) /\ column' = column
  BY FrameSource DEF Frame
<1>2. Strided(w)' = Strided(w)
  BY DEF Strided, Span
<1>3. ToVisit(w)' = ToVisit(w)
  BY <1>1, <1>2 DEF ToVisit, Span
<1>4. Held(w)' = Held(w)
  BY <1>1, <1>3 DEF Held
<1>5. Offered(w)' = Offered(w)
  BY DEF Offered, Span
<1>6. Left(w)' = Left(w)
  BY DEF Left
<1> QED
  BY <1>4, <1>5, <1>6

(* What a warp has in its hands after it has started.                      *)
LEMMA HeldIs ==
    ASSUME NEW w
    PROVE  /\ warp[w].pc = "donate" => Held(w) = Strided(w) \ {warp[w].b}
           /\ warp[w].pc \notin {"start", "donate"} /\ Static => Held(w) = Strided(w)
           /\ warp[w].pc \notin {"start", "donate"} /\ ~Static => Held(w) = Span(warp[w])
<1>1. CASE warp[w].pc = "donate"
  BY <1>1 DEF Held, ToVisit
<1>2. CASE warp[w].pc \notin {"start", "donate"} /\ Static
  BY <1>2 DEF Held, ToVisit
<1>3. CASE warp[w].pc \notin {"start", "donate"} /\ ~Static
  BY <1>3 DEF Held, ToVisit
<1> QED
  BY <1>1, <1>2, <1>3

(* The same for the warp after a step.                                     *)
LEMMA HeldNow ==
    ASSUME Frame, NEW w
    PROVE  /\ warp'[w].pc = "donate" => Held(w)' = Strided(w)' \ {warp'[w].b}
           /\ warp'[w].pc \notin {"start", "donate"} /\ Static => Held(w)' = Strided(w)'
           /\ warp'[w].pc \notin {"start", "donate"} /\ ~Static => Held(w)' = Span(warp'[w])
<1>0. Static' <=> Static
  BY FrameSource
<1>1. CASE warp'[w].pc = "donate"
  BY <1>1 DEF Held, ToVisit
<1>2. CASE warp'[w].pc \notin {"start", "donate"} /\ Static
  BY <1>0, <1>2 DEF Held, ToVisit
<1>3. CASE warp'[w].pc \notin {"start", "donate"} /\ ~Static
  BY <1>0, <1>3 DEF Held, ToVisit, Span
<1> QED
  BY <1>1, <1>2, <1>3

(* The queue and who awaits its slots.                                     *)
Awaited(s) == \E w \in Warps : At(w, "await") /\ warp[w].slot = s
LEMMA WaitingIs ==
    ASSUME NEW s
    PROVE  Waiting(s) <=>
              \/ mode.work = "fanout" /\ pass = "write" /\ queue.head <= s /\ s < queue.tail
              \/ s \in queue.ready /\ (s >= queue.head \/ Awaited(s))
  BY DEF Waiting, Awaited

LEMMA AwaitedKept ==
    ASSUME NEW s, NEW w \in Warps, Alone(w), UNCHANGED pass,
           warp[w].pc # "await" \/ warp[w].slot # s,
           warp'[w].pc # "await" \/ warp'[w].slot # s
    PROVE  Awaited(s)' <=> Awaited(s)
<1>1. \A v \in Warps : At(v, "await")' /\ warp'[v].slot = s <=> At(v, "await") /\ warp[v].slot = s
  BY DEF At, Alone, Others
<1> QED
  BY <1>1 DEF Awaited

LEMMA QueuedKept ==
    ASSUME Frame, UNCHANGED queue, NEW s, Awaited(s)' <=> Awaited(s)
    PROVE  Queued(s)' = Queued(s)
<1>1. Waiting(s)' <=> Waiting(s)
  BY WaitingIs DEF Frame, Waiting, Awaited
<1> QED
  BY <1>1 DEF Queued, Span

LEMMA PostedKept ==
    ASSUME UNCHANGED board, NEW s
    PROVE  OnBoard(s)' = OnBoard(s)
  BY DEF OnBoard, Posted

(* The families of shares before and after a step.                         *)
SharesDiffer(j, k) ==
    /\ <<"visited", 0>> \in {j, k} \/ visited' = visited
    /\ \A w \in Warps : <<"held", w>> \in {j, k} \/ Held(w)' = Held(w)
    /\ \A w \in Warps : <<"offered", w>> \in {j, k} \/ Offered(w)' = Offered(w)
    /\ \A s \in Slots : <<"queued", s>> \in {j, k} \/ Queued(s)' = Queued(s)
    /\ \A s \in 1 .. BoardCapacity : <<"posted", s>> \in {j, k} \/ OnBoard(s)' = OnBoard(s)

LEMMA SharesNow ==
    /\ Shares[<<"visited", 0>>] = visited
    /\ \A w \in Warps : Shares[<<"held", w>>] = Held(w) /\ Shares[<<"offered", w>>] = Offered(w)
    /\ \A s \in Slots : Shares[<<"queued", s>>] = Queued(s)
    /\ \A s \in 1 .. BoardCapacity : Shares[<<"posted", s>>] = OnBoard(s)
<1> DEFINE H == [w \in Warps |-> Held(w)]
           O == [w \in Warps |-> Offered(w)]
           Q == [s \in Slots |-> Queued(s)]
           P == [s \in 1 .. BoardCapacity |-> OnBoard(s)]
<1>1. FamilyHas(Shares, visited, H, O, Q, P)
  BY FamilyAt DEF Shares
<1> QED
  BY <1>1 DEF FamilyHas

LEMMA SharesNext ==
    /\ Shares'[<<"visited", 0>>] = visited'
    /\ \A w \in Warps : Shares'[<<"held", w>>] = Held(w)' /\ Shares'[<<"offered", w>>] = Offered(w)'
    /\ \A s \in Slots : Shares'[<<"queued", s>>] = Queued(s)'
    /\ \A s \in 1 .. BoardCapacity : Shares'[<<"posted", s>>] = OnBoard(s)'
<1> DEFINE H == [w \in Warps |-> Held(w)']
           O == [w \in Warps |-> Offered(w)']
           Q == [s \in Slots |-> Queued(s)']
           P == [s \in 1 .. BoardCapacity |-> OnBoard(s)']
<1>1. FamilyHas(Shares', visited', H, O, Q, P)
  BY FamilyAt DEF Shares
<1> QED
  BY <1>1 DEF FamilyHas

LEMMA SharesTransfer ==
    ASSUME Shared, pass # "done", AllRows' = AllRows,
           NEW j \in AllPlaces, NEW k \in AllPlaces, j # k, SharesDiffer(j, k),
           Shares'[j] \cup Shares'[k] = Shares[j] \cup Shares[k],
           Shares'[j] \cap Shares'[k] = {}
    PROVE  Shared'
<1> DEFINE F == Shares
           G == Shares'
<1>1. Exact(F, AllPlaces, AllRows)
  BY DEF Shared
<1>2. ASSUME NEW i \in AllPlaces
      PROVE  i = j \/ i = k \/ G[i] = F[i]
  <2>1. PlacesOf(AllPlaces)
    BY PlacesAre
  <2>2. CASE i = <<"visited", 0>>
    BY <2>2, SharesNow, SharesNext DEF SharesDiffer
  <2>3. ASSUME NEW w \in Warps, i = <<"held", w>>
        PROVE  i = j \/ i = k \/ G[i] = F[i]
    BY <2>3, SharesNow, SharesNext DEF SharesDiffer
  <2>4. ASSUME NEW w \in Warps, i = <<"offered", w>>
        PROVE  i = j \/ i = k \/ G[i] = F[i]
    BY <2>4, SharesNow, SharesNext DEF SharesDiffer
  <2>5. ASSUME NEW s \in Slots, i = <<"queued", s>>
        PROVE  i = j \/ i = k \/ G[i] = F[i]
    BY <2>5, SharesNow, SharesNext DEF SharesDiffer
  <2>6. ASSUME NEW s \in 1 .. BoardCapacity, i = <<"posted", s>>
        PROVE  i = j \/ i = k \/ G[i] = F[i]
    BY <2>6, SharesNow, SharesNext DEF SharesDiffer
  <2> HIDE DEF F, G
  <2> QED
    BY <2>1, <2>2, <2>3, <2>4, <2>5, <2>6 DEF PlacesOf
<1>3. G[j] \cup G[k] = F[j] \cup F[k] /\ G[j] \cap G[k] = {}
  OBVIOUS
<1> HIDE DEF F, G
<1>4. Exact(G, AllPlaces, AllRows)
  BY <1>1, <1>2, <1>3, Transfer
<1> QED
  BY <1>4 DEF Shared, G

LEMMA SharesSame ==
    ASSUME Shared, pass # "done", AllRows' = AllRows, visited' = visited,
           \A w \in Warps : Held(w)' = Held(w) /\ Offered(w)' = Offered(w),
           \A s \in Slots : Queued(s)' = Queued(s),
           \A s \in 1 .. BoardCapacity : OnBoard(s)' = OnBoard(s)
    PROVE  Shared'
<1> DEFINE F == Shares
           G == Shares'
<1>1. Exact(F, AllPlaces, AllRows)
  BY DEF Shared
<1>2. ASSUME NEW i \in AllPlaces
      PROVE  G[i] = F[i]
  <2>1. PlacesOf(AllPlaces)
    BY PlacesAre
  <2>2. G[<<"visited", 0>>] = F[<<"visited", 0>>]
    BY SharesNow, SharesNext
  <2>3. \A w \in Warps : G[<<"held", w>>] = F[<<"held", w>>] /\ G[<<"offered", w>>] = F[<<"offered", w>>]
    BY SharesNow, SharesNext
  <2>4. \A s \in Slots : G[<<"queued", s>>] = F[<<"queued", s>>]
    BY SharesNow, SharesNext
  <2>5. \A s \in 1 .. BoardCapacity : G[<<"posted", s>>] = F[<<"posted", s>>]
    BY SharesNow, SharesNext
  <2> HIDE DEF F, G
  <2> QED
    BY <2>1, <2>2, <2>3, <2>4, <2>5 DEF PlacesOf
<1> HIDE DEF F, G
<1>3. Exact(G, AllPlaces, AllRows)
  BY <1>1, <1>2, NothingMoved
<1> QED
  BY <1>3 DEF Shared, G

(* The places that rows move between.                                      *)
LEMMA PlaceNames ==
    /\ <<"visited", 0>> \in AllPlaces
    /\ \A w \in Warps : <<"held", w>> \in AllPlaces /\ <<"offered", w>> \in AllPlaces
    /\ \A s \in Slots : <<"queued", s>> \in AllPlaces
    /\ \A s \in 1 .. BoardCapacity : <<"posted", s>> \in AllPlaces
  BY PlacesAre DEF PlacesOf

(* Rows that a warp has visited.                                           *)
LEMMA HeldToVisited ==
    ASSUME Shared, pass # "done", AllRows' = AllRows, NEW w \in Warps,
           \A v \in Warps : v = w \/ Held(v)' = Held(v),
           \A v \in Warps : Offered(v)' = Offered(v),
           \A s \in Slots : Queued(s)' = Queued(s),
           \A s \in 1 .. BoardCapacity : OnBoard(s)' = OnBoard(s),
           NEW R, visited' = visited \cup R, R \subseteq Held(w), Held(w)' = Held(w) \ R
    PROVE  Shared'
<1> DEFINE j == <<"visited", 0>>
           k == <<"held", w>>
<1>1. j \in AllPlaces /\ k \in AllPlaces /\ j # k
  BY PlaceNames
<1>2. SharesDiffer(j, k)
  BY DEF SharesDiffer
<1>3. Shares[j] = visited /\ Shares[k] = Held(w) /\ Shares'[j] = visited' /\ Shares'[k] = Held(w)'
  BY SharesNow, SharesNext
<1>4. Shares[j] \cap Shares[k] = {}
  BY <1>1, Zenon DEF Shared, Exact
<1> HIDE DEF j, k
<1>5. Shares'[j] \cup Shares'[k] = Shares[j] \cup Shares[k] /\ Shares'[j] \cap Shares'[k] = {}
  BY <1>3, <1>4
<1> QED
  BY <1>1, <1>2, <1>5, SharesTransfer

(* A warp's rows that it offers, and rows that it has taken from a slot of *)
(* the queue or from the board.                                            *)
LEMMA HeldToOffered ==
    ASSUME Shared, pass # "done", AllRows' = AllRows, visited' = visited, NEW w \in Warps,
           \A v \in Warps : v = w \/ (Held(v)' = Held(v) /\ Offered(v)' = Offered(v)),
           \A s \in Slots : Queued(s)' = Queued(s),
           \A s \in 1 .. BoardCapacity : OnBoard(s)' = OnBoard(s),
           Held(w)' \cup Offered(w)' = Held(w) \cup Offered(w), Held(w)' \cap Offered(w)' = {}
    PROVE  Shared'
<1> DEFINE j == <<"offered", w>>
           k == <<"held", w>>
<1>1. j \in AllPlaces /\ k \in AllPlaces /\ j # k
  BY PlaceNames
<1>2. SharesDiffer(j, k)
  BY DEF SharesDiffer
<1>3. Shares[j] = Offered(w) /\ Shares[k] = Held(w) /\ Shares'[j] = Offered(w)' /\ Shares'[k] = Held(w)'
  BY SharesNow, SharesNext
<1>5. Shares'[j] \cup Shares'[k] = Shares[j] \cup Shares[k] /\ Shares'[j] \cap Shares'[k] = {}
  BY <1>3
<1> HIDE DEF j, k
<1> QED
  BY <1>1, <1>2, <1>5, SharesTransfer

LEMMA OfferedToQueued ==
    ASSUME Shared, pass # "done", AllRows' = AllRows, visited' = visited, NEW w \in Warps,
           NEW s \in Slots,
           \A v \in Warps : Held(v)' = Held(v),
           \A v \in Warps : v = w \/ Offered(v)' = Offered(v),
           \A t \in Slots : t = s \/ Queued(t)' = Queued(t),
           \A t \in 1 .. BoardCapacity : OnBoard(t)' = OnBoard(t),
           Offered(w)' = {}, Queued(s) = {}, Queued(s)' = Offered(w)
    PROVE  Shared'
<1> DEFINE j == <<"offered", w>>
           k == <<"queued", s>>
<1>1. j \in AllPlaces /\ k \in AllPlaces /\ j # k
  BY PlaceNames
<1>2. SharesDiffer(j, k)
  BY DEF SharesDiffer
<1>3. Shares[j] = Offered(w) /\ Shares[k] = {} /\ Shares'[j] = {} /\ Shares'[k] = Offered(w)
  BY SharesNow, SharesNext
<1> HIDE DEF j, k
<1>5. Shares'[j] \cup Shares'[k] = Shares[j] \cup Shares[k] /\ Shares'[j] \cap Shares'[k] = {}
  BY <1>3
<1> QED
  BY <1>1, <1>2, <1>5, SharesTransfer

LEMMA QueuedToHeld ==
    ASSUME Shared, pass # "done", AllRows' = AllRows, visited' = visited, NEW w \in Warps,
           NEW s \in Slots,
           \A v \in Warps : v = w \/ Held(v)' = Held(v),
           \A v \in Warps : Offered(v)' = Offered(v),
           \A t \in Slots : t = s \/ Queued(t)' = Queued(t),
           \A t \in 1 .. BoardCapacity : OnBoard(t)' = OnBoard(t),
           Queued(s)' = {}, Held(w) = {}, Held(w)' = Queued(s)
    PROVE  Shared'
<1> DEFINE j == <<"held", w>>
           k == <<"queued", s>>
<1>1. j \in AllPlaces /\ k \in AllPlaces /\ j # k
  BY PlaceNames
<1>2. SharesDiffer(j, k)
  BY DEF SharesDiffer
<1>3. Shares[j] = {} /\ Shares[k] = Queued(s) /\ Shares'[j] = Queued(s) /\ Shares'[k] = {}
  BY SharesNow, SharesNext
<1> HIDE DEF j, k
<1>5. Shares'[j] \cup Shares'[k] = Shares[j] \cup Shares[k] /\ Shares'[j] \cap Shares'[k] = {}
  BY <1>3
<1> QED
  BY <1>1, <1>2, <1>5, SharesTransfer

LEMMA HeldAndPosted ==
    ASSUME Shared, pass # "done", AllRows' = AllRows, visited' = visited, NEW w \in Warps,
           NEW s \in 1 .. BoardCapacity,
           \A v \in Warps : v = w \/ Held(v)' = Held(v),
           \A v \in Warps : Offered(v)' = Offered(v),
           \A t \in Slots : Queued(t)' = Queued(t),
           \A t \in 1 .. BoardCapacity : t = s \/ OnBoard(t)' = OnBoard(t),
           Held(w)' \cup OnBoard(s)' = Held(w) \cup OnBoard(s), Held(w)' \cap OnBoard(s)' = {}
    PROVE  Shared'
<1> DEFINE j == <<"held", w>>
           k == <<"posted", s>>
<1>1. j \in AllPlaces /\ k \in AllPlaces /\ j # k
  BY PlaceNames
<1>2. SharesDiffer(j, k)
  BY DEF SharesDiffer
<1>3. Shares[j] = Held(w) /\ Shares[k] = OnBoard(s) /\ Shares'[j] = Held(w)' /\ Shares'[k] = OnBoard(s)'
  BY SharesNow, SharesNext
<1> HIDE DEF j, k
<1>5. Shares'[j] \cup Shares'[k] = Shares[j] \cup Shares[k] /\ Shares'[j] \cap Shares'[k] = {}
  BY <1>3
<1> QED
  BY <1>1, <1>2, <1>5, SharesTransfer

(* What steps that leave a part of the state alone keep.                   *)
Idle(r) == r.pc \notin Giving /\ r.pc # "await"
BesideFan == mode.work # "fanout" \/ pass # "count"

LEMMA RunKept ==
    ASSUME RunTyped, Frame
    PROVE  RunTyped'
<1>1. Iterable(mode, column)'
  BY DEF RunTyped, Frame, Iterable
<1> QED
  BY <1>1 DEF RunTyped, Frame

LEMMA QueueTypeKept ==
    ASSUME QueueTyped, UNCHANGED queue
    PROVE  QueueTyped'
  BY DEF QueueTyped, TaskTyped

LEMMA BoardTypeKept ==
    ASSUME BoardTyped, UNCHANGED board
    PROVE  BoardTyped'
  BY DEF BoardTyped

LEMMA TicketsKept ==
    ASSUME Ticketed, UNCHANGED <<queue, mode>>, NEW w \in Warps, Alone(w),
           Idle(warp[w]), Idle(warp'[w])
    PROVE  Ticketed'
<1>1. \A v \in Warps : v = w \/ warp'[v] = warp[v]
  BY DEF Alone, Others
<1> SUFFICES ASSUME mode.work = "queue"
             PROVE  Ticketed'
  BY DEF Ticketed
<1>2. \A v \in Warps : warp'[v].pc \in Giving \/ warp'[v].pc = "await" => warp'[v] = warp[v]
  BY <1>1 DEF Idle
<1>3. \A v \in Warps : warp[v].pc = "await" => warp'[v] = warp[v]
  BY <1>1 DEF Idle
<1>4. queue' = queue /\ mode' = mode
  OBVIOUS
<1>5. \A v \in Warps : warp'[v].pc = "ready" => warp'[v] = warp[v]
  BY <1>2 DEF Giving
<1> QED
  BY <1>2, <1>3, <1>4, <1>5 DEF Ticketed

(* A step of a mode without a work queue.                                  *)
LEMMA NoTickets ==
    ASSUME mode.work # "queue", UNCHANGED mode
    PROVE  Ticketed'
  BY DEF Ticketed

LEMMA PhasesKept ==
    ASSUME Phases, UNCHANGED <<mode, pass>>, NEW w \in Warps, Alone(w),
           warp'[w].pc \in Giving \cup {"await"} => mode.work = "queue",
           warp'[w].pc = "donate" => mode.work = "fanout" /\ pass = "count"
    PROVE  Phases'
  BY DEF Phases, Alone, Others

LEMMA StridesKept ==
    ASSUME Strides, Frame, NEW w \in Warps, Alone(w),
           pass # "done" /\ Static =>
              /\ warp'[w].pc # "start" => warp'[w].b % W = w - 1 /\ warp'[w].e = Len(column)
              /\ warp'[w].pc = "donate" => warp'[w].b < Len(column)
    PROVE  Strides'
<1>1. (Static' <=> Static) /\ column' = column /\ pass' = pass
  BY FrameSource DEF Frame
<1> QED
  BY <1>1 DEF Strides, Alone, Others

LEMMA UnusedKept ==
    ASSUME Unused, UNCHANGED mode,
           mode.work # "queue" => queue'.ready = queue.ready,
           mode.work # "board" => UNCHANGED board
    PROVE  Unused'
  BY DEF Unused

LEMMA FannedBeside ==
    ASSUME BesideFan, UNCHANGED <<mode, pass>>
    PROVE  Fanned'
  BY DEF Fanned, BesideFan

LEMMA FlatKept ==
    ASSUME Frame, UNCHANGED <<queue, visited>>, NEW w \in Warps, Alone(w),
           warp[w].pc # "donate", warp'[w].pc # "donate"
    PROVE  FlatShares' = FlatShares
<1>1. \A v \in Warps : Left(v)' = Left(v)
  BY HeldKept DEF Left, Alone, Others
<1>2. \A s \in Slots : Pushed(s)' = Pushed(s)
  BY DEF Pushed, Span
<1>3. \A r \in 0 .. Len(column) - 1 : Below(r)' = Below(r)
  BY DEF Below
<1>4. column' = column
  BY DEF Frame
<1>5. [v \in Warps |-> Left(v)'] = [v \in Warps |-> Left(v)]
  BY <1>1
<1>6. [s \in Slots |-> Pushed(s)'] = [s \in Slots |-> Pushed(s)]
  BY <1>2
<1>7. [r \in 0 .. Len(column) - 1 |-> Below(r)'] = [r \in 0 .. Len(column) - 1 |-> Below(r)]
  BY <1>3
<1> QED
  BY <1>4, <1>5, <1>6, <1>7 DEF FlatShares

LEMMA FannedKept ==
    ASSUME Fanned, Frame, UNCHANGED <<queue, visited>>, NEW w \in Warps, Alone(w),
           warp[w].pc # "donate", warp'[w].pc # "donate"
    PROVE  Fanned'
<1>1. FlatShares' = FlatShares /\ FlatRows' = FlatRows /\ column' = column
  BY FlatKept, FrameSource DEF Frame
<1>2. \A v \in Warps : warp'[v].pc = "donate" => warp'[v] = warp[v]
  BY DEF Alone, Others
<1>3. mode' = mode /\ pass' = pass /\ queue' = queue
  BY DEF Frame
<1> SUFFICES ASSUME mode.work = "fanout" /\ pass = "count"
             PROVE  Fanned'
  BY <1>3 DEF Fanned
<1>4. Exact(FlatShares, FlatPlaces(Len(column)), FlatRows)'
  BY <1>1 DEF Fanned
<1> QED
  BY <1>1, <1>2, <1>3, <1>4 DEF Fanned

(* A warp that puts out what it has visited, or stops.                     *)
QuietTurn(w) ==
    /\ Alone(w) /\ WarpTyped(warp'[w])
    /\ warp[w].pc \in Working /\ warp'[w].pc \in Working
    /\ warp'[w].b = warp[w].b /\ warp'[w].e = warp[w].e
    /\ UNCHANGED <<column, queue, board, mode, pass, visited>>

LEMMA QuietStep ==
    ASSUME WorkInv, pass # "done", NEW w \in Warps, QuietTurn(w)
    PROVE  WorkInv'
<1>0. /\ Alone(w) /\ WarpTyped(warp'[w]) /\ Frame
      /\ warp[w].pc \in Working /\ warp'[w].pc \in Working
      /\ warp'[w].b = warp[w].b /\ warp'[w].e = warp[w].e
      /\ queue' = queue /\ board' = board /\ mode' = mode /\ pass' = pass /\ visited' = visited
  BY DEF QuietTurn, Frame
<1>a. /\ WorkTyped /\ Phases /\ Strides /\ Ticketed /\ Unused /\ Fanned /\ FanHeld /\ Shared
  BY DEF WorkInv
<1>b. RunTyped /\ WarpsTyped /\ QueueTyped /\ BoardTyped
  BY <1>a DEF WorkTyped
<1>c. /\ Idle(warp[w]) /\ Idle(warp'[w])
      /\ warp[w].pc \notin {"start", "donate"} /\ warp'[w].pc \notin {"start", "donate"}
  BY <1>0 DEF Idle, Working, Giving
<1>1. WorkTyped'
  BY <1>0, <1>b, RunKept, TypedTurn, QueueTypeKept, BoardTypeKept DEF WorkTyped
<1>2. Phases'
  BY <1>0, <1>a, <1>c, PhasesKept DEF Idle
<1>3. Strides'
  BY <1>0, <1>a, <1>c, StridesKept DEF Strides
<1>4. Ticketed'
  BY <1>0, <1>a, <1>c, TicketsKept
<1>5. Unused'
  BY <1>0, <1>a, UnusedKept
<1>6. Fanned'
  BY <1>0, <1>a, <1>c, FannedKept
<1>7. FanHeld'
  BY <1>0, <1>a DEF FanHeld
<1>8. Shared'
  <2>1. \A v \in Warps : v = w \/ (Held(v)' = Held(v) /\ Offered(v)' = Offered(v))
    BY <1>0, HeldKept DEF Alone, Others
  <2>2. Strided(w)' = Strided(w) /\ Span(warp'[w]) = Span(warp[w])
    BY <1>0 DEF Strided, Span
  <2>3. Held(w)' = Held(w)
    BY <1>0, <1>c, <2>2, HeldIs, HeldNow
  <2>4. Offered(w)' = Offered(w)
    BY <1>c DEF Offered, Idle, Giving
  <2>5. \A s \in Slots : Queued(s)' = Queued(s)
    BY <1>0, <1>c, AwaitedKept, QueuedKept DEF Idle
  <2>6. \A s \in 1 .. BoardCapacity : OnBoard(s)' = OnBoard(s)
    BY <1>0, PostedKept
  <2>7. AllRows' = AllRows
    BY <1>0, FrameSource
  <2> QED
    BY <1>0, <1>a, <2>1, <2>3, <2>4, <2>5, <2>6, <2>7, SharesSame
<1> QED
  BY <1>1, <1>2, <1>3, <1>4, <1>5, <1>6, <1>7, <1>8 DEF WorkInv

(* The run of a row ends behind it, and no later than the range.           *)
LEMMA RunEndAfter ==
    ASSUME NEW p \in Nat, NEW e \in Nat, p < e
    PROVE  RunEnd(p, e) \in p + 1 .. e
<1> DEFINE S == {q \in p .. e : q = e \/ column[q + 1] # column[p + 1]}
<1>1. S \subseteq Nat /\ e \in S /\ \A q \in S : q \in p + 1 .. e
  OBVIOUS
<1>2. RunEnd(p, e) = Min(S)
  BY DEF RunEnd
<1> HIDE DEF S
<1>3. Min(S) \in S
  BY <1>1, MinOfNaturals
<1> QED
  BY <1>1, <1>2, <1>3

LEMMA NextRowAfter ==
    ASSUME NEW w, warp[w].b \in Nat, warp[w].e \in Nat, warp[w].b < warp[w].e
    PROVE  /\ Static => NextRow(w) = warp[w].b + W
           /\ ~Static => NextRow(w) \in warp[w].b + 1 .. warp[w].e
<1>1. CASE Static
  BY <1>1 DEF NextRow, Static
<1>2. CASE ~Static /\ mode.work = "queue"
  BY <1>2, RunEndAfter DEF NextRow
<1>3. CASE ~Static /\ mode.work # "queue"
  BY <1>3 DEF NextRow
<1> QED
  BY <1>1, <1>2, <1>3

LEMMA VisitTyped ==
    ASSUME WarpsTyped, RunTyped, NEW w \in Warps, VisitDone(w)
    PROVE  WarpTyped(warp'[w]) /\ warp'[w].pc \in {"run", "probe", "flush"}
<1>1. /\ DOMAIN warp'[w] = Fields
      /\ warp'[w].b = NextRow(w) /\ warp'[w].e = warp[w].e
      /\ warp'[w].slot = warp[w].slot /\ warp'[w].give = warp[w].give
      /\ warp[w].b < warp[w].e
  BY DEF VisitDone, InHand
<1>2. WarpTyped(warp[w])
  BY DEF WarpsTyped
<1>3. NextRow(w) \in Nat
  <2>1. W \in Nat
    BY WarpCount
  <2> QED
    BY <1>1, <1>2, <2>1, NextRowAfter DEF WarpTyped
<1>4. /\ warp'[w].pc \in {"run", "probe", "flush"}
      /\ warp'[w].count \in Nat /\ warp'[w].n \in Nat
  <2>1. Emission(w)
    BY DEF VisitDone
  <2>2. mode.out \in {"dedup", "counted", "preassigned", "speculative", "chunked", "coalesced"}
    BY DEF RunTyped, Combinations, Generated, LibraryOnly
  <2>3. warp[w].count \in Nat /\ warp[w].n \in Nat
    BY <1>2 DEF WarpTyped
  <2>4. CASE pass = "count" /\ mode.out # "dedup"
    BY <2>1, <2>3, <2>4 DEF Emission, VisitAs
  <2>5. CASE mode.out = "dedup"
    BY <2>1, <2>3, <2>5 DEF Emission, VisitAs
  <2>6. CASE pass # "count" /\ mode.out = "counted"
    BY <2>1, <2>3, <2>6 DEF Emission, VisitAs
  <2>7. CASE pass # "count" /\ mode.out = "preassigned"
    BY <2>1, <2>3, <2>7 DEF Emission, VisitAs
  <2>8. CASE pass # "count" /\ mode.out = "speculative" /\ overflow
    BY <2>1, <2>3, <2>8 DEF Emission, VisitAs
  <2>9. CASE pass # "count" /\ (mode.out \in {"chunked", "coalesced"}
                                  \/ (mode.out = "speculative" /\ ~overflow))
    <3>1. \/ VisitAs(w, "flush", warp[w].count, warp[w].at, warp[w].n, Append(warp[w].buf, Tuple(w)))
          \/ VisitAs(w, "run", warp[w].count, warp[w].at, warp[w].n, Append(warp[w].buf, Tuple(w)))
      BY <2>1, <2>9, Zenon DEF Emission
    <3> QED
      BY <2>3, <3>1 DEF VisitAs
  <2> QED
    BY <2>2, <2>4, <2>5, <2>6, <2>7, <2>8, <2>9
<1> QED
  BY <1>1, <1>2, <1>3, <1>4 DEF WarpTyped, Pcs, Working

LEMMA VisitStep ==
    ASSUME WorkInv, NEW w \in Warps, Visit(w)
    PROVE  WorkInv'
<1>a. /\ WorkTyped /\ Phases /\ Strides /\ Ticketed /\ Unused /\ Fanned /\ FanHeld /\ Shared
  BY DEF WorkInv
<1>b. RunTyped /\ WarpsTyped /\ QueueTyped /\ BoardTyped
  BY <1>a DEF WorkTyped
<1>0. VisitDone(w)
  BY <1>b, VisitEffect
<1>c. /\ Alone(w) /\ Frame /\ BesideFan /\ pass # "done" /\ warp[w].pc = "run"
      /\ warp'[w].b = NextRow(w) /\ warp'[w].e = warp[w].e /\ warp[w].b < warp[w].e
      /\ visited' = visited \cup IF Static THEN {warp[w].b} ELSE warp[w].b .. NextRow(w) - 1
      /\ queue' = queue /\ board' = board /\ mode' = mode /\ pass' = pass
  BY <1>0 DEF VisitDone, Frame, BesideFan, InHand, At
<1>d. WarpTyped(warp'[w]) /\ warp'[w].pc \in {"run", "probe", "flush"}
  BY <1>0, <1>b, VisitTyped
<1>e. /\ Idle(warp[w]) /\ Idle(warp'[w])
      /\ warp[w].pc \notin {"start", "donate"} /\ warp'[w].pc \notin {"start", "donate"}
  BY <1>c, <1>d DEF Idle, Giving
<1>f. warp[w].b \in Nat /\ warp[w].e \in Nat /\ W \in Nat \ {0}
  BY <1>b, WarpCount DEF WarpsTyped, WarpTyped
<1>1. WorkTyped'
  BY <1>b, <1>c, <1>d, RunKept, TypedTurn, QueueTypeKept, BoardTypeKept DEF WorkTyped
<1>2. Phases'
  BY <1>a, <1>c, <1>e, PhasesKept DEF Idle
<1>3. Strides'
  <2>1. pass # "done" /\ Static => warp[w].b % W = w - 1 /\ warp[w].e = Len(column)
    BY <1>a, <1>e DEF Strides
  <2>2. Static => warp'[w].b % W = warp[w].b % W
    BY <1>c, <1>f, NextRowAfter, StrideStep
  <2> QED
    BY <1>a, <1>c, <1>e, <2>1, <2>2, StridesKept
<1>4. Ticketed'
  BY <1>a, <1>c, <1>e, TicketsKept
<1>5. Unused'
  BY <1>a, <1>c, UnusedKept
<1>6. Fanned'
  BY <1>c, FannedBeside
<1>7. FanHeld'
  BY <1>a, <1>c DEF FanHeld
<1>8. Shared'
  <2>1. \A v \in Warps : v = w \/ (Held(v)' = Held(v) /\ Offered(v)' = Offered(v))
    BY <1>c, HeldKept DEF Alone, Others
  <2>2. Offered(w)' = Offered(w)
    BY <1>e DEF Offered, Idle, Giving
  <2>3. \A s \in Slots : Queued(s)' = Queued(s)
    BY <1>c, <1>e, AwaitedKept, QueuedKept DEF Idle
  <2>4. \A s \in 1 .. BoardCapacity : OnBoard(s)' = OnBoard(s)
    BY <1>c, PostedKept
  <2>5. AllRows' = AllRows
    BY <1>c, FrameSource
  <2> DEFINE R == IF Static THEN {warp[w].b} ELSE warp[w].b .. NextRow(w) - 1
  <2>6. R \subseteq Held(w) /\ Held(w)' = Held(w) \ R
    <3>1. CASE Static
      <4> DEFINE b == warp[w].b
                 e == warp[w].e
      <4>1. Held(w) = {r \in b .. e - 1 : r % W = w - 1}
        BY <1>e, <3>1, HeldIs DEF Strided, Span
      <4>2. Held(w)' = {r \in b + W .. e - 1 : r % W = w - 1}
        <5>1. Held(w)' = Strided(w)'
          BY <1>c, <1>e, <3>1, HeldNow
        <5>2. warp'[w].b = b + W /\ warp'[w].e = e
          BY <1>c, <1>f, <3>1, NextRowAfter
        <5> QED
          BY <5>1, <5>2 DEF Strided, Span
      <4>3. b % W = w - 1
        BY <1>a, <1>c, <1>e, <3>1 DEF Strides
      <4>4. b \in Nat /\ e \in Nat /\ b < e
        BY <1>c, <1>f
      <4> HIDE DEF b, e
      <4>5. \A r \in b .. e - 1 : r % W = w - 1 /\ r # b => r \in b + W .. e - 1
        <5> SUFFICES ASSUME NEW r \in b .. e - 1, r % W = w - 1, r # b
                     PROVE  r \in b + W .. e - 1
          OBVIOUS
        <5>1. r \in Nat /\ b < r
          BY <4>4
        <5>2. ~(r < b + W)
          BY <1>f, <4>3, <4>4, <5>1, StrideGap
        <5> QED
          BY <1>f, <4>4, <5>1, <5>2
      <4>6. b \in Held(w)
        BY <4>1, <4>3, <4>4
      <4>7. Held(w)' = Held(w) \ {b}
        <5> DEFINE H == Held(w)
                   H1 == Held(w)'
        <5>1. \A r : r \in H <=> r \in b .. e - 1 /\ r % W = w - 1
          BY <4>1
        <5>2. \A r : r \in H1 <=> r \in b + W .. e - 1 /\ r % W = w - 1
          BY <4>2
        <5>3. \A r : r \in b + W .. e - 1 => r \in b .. e - 1 /\ r # b
          BY <1>f, <4>4
        <5> HIDE DEF H, H1
        <5>4. H1 = H \ {b}
          BY <4>5, <5>1, <5>2, <5>3
        <5> QED
          BY <5>4 DEF H, H1
      <4> QED
        BY <3>1, <4>6, <4>7 DEF b
    <3>2. CASE ~Static
      <4>1. Held(w) = warp[w].b .. warp[w].e - 1
        BY <1>e, <3>2, HeldIs DEF Span
      <4>2. Held(w)' = NextRow(w) .. warp[w].e - 1
        BY <1>c, <1>e, <3>2, HeldNow DEF Span
      <4>3. NextRow(w) \in warp[w].b + 1 .. warp[w].e
        BY <1>c, <1>f, <3>2, NextRowAfter
      <4>4. R = warp[w].b .. NextRow(w) - 1
        BY <3>2
      <4> HIDE DEF R
      <4> QED
        BY <1>f, <4>1, <4>2, <4>3, <4>4
    <3> QED
      BY <3>1, <3>2
  <2>7. visited' = visited \cup R
    BY <1>c
  <2> HIDE DEF R
  <2> QED
    BY <1>a, <1>c, <2>1, <2>2, <2>3, <2>4, <2>5, <2>6, <2>7, HeldToVisited
<1> QED
  BY <1>1, <1>2, <1>3, <1>4, <1>5, <1>6, <1>7, <1>8 DEF WorkInv

LEMMA SplitBetween ==
    ASSUME NEW b \in Nat, NEW e \in Nat, ValueAlignedSplit(b, e) # 0
    PROVE  ValueAlignedSplit(b, e) \in b + 1 .. e - 1
<1> DEFINE m == b + (e - b) \div 2
           s == RunEnd(m, e)
<1>1. ValueAlignedSplit(b, e) = IF e - b <= 1 \/ s <= b \/ s >= e THEN 0 ELSE s
  BY DEF ValueAlignedSplit
<1>2. ~(e - b <= 1 \/ s <= b \/ s >= e) /\ ValueAlignedSplit(b, e) = s
  BY <1>1
<1>3. m \in Nat /\ m < e
  BY <1>2
<1> HIDE DEF m
<1>4. s \in m + 1 .. e
  BY <1>3, RunEndAfter
<1> QED
  BY <1>2, <1>3, <1>4

(* A warp's step in a mode with a work queue.                              *)
QueueStep(w) ==
    /\ mode.work = "queue" /\ pass # "done"
    /\ Alone(w) /\ WarpTyped(warp'[w])
    /\ warp[w].pc # "start" /\ warp'[w].pc \notin {"start", "donate"}
    /\ QueueTyped' /\ Ticketed' /\ Shared'
    /\ UNCHANGED <<column, board, mode, pass, visited>>

LEMMA QueueStepKeeps ==
    ASSUME WorkInv, NEW w \in Warps, QueueStep(w)
    PROVE  WorkInv'
<1>a. /\ WorkTyped /\ Phases /\ Strides /\ Ticketed /\ Unused /\ Fanned /\ FanHeld /\ Shared
  BY DEF WorkInv
<1>b. RunTyped /\ WarpsTyped /\ QueueTyped /\ BoardTyped
  BY <1>a DEF WorkTyped
<1>c. /\ Alone(w) /\ WarpTyped(warp'[w]) /\ Frame /\ BesideFan /\ mode.work = "queue"
      /\ ~Static
      /\ warp'[w].pc \notin {"start", "donate"}
      /\ QueueTyped' /\ Ticketed' /\ Shared' /\ board' = board
      /\ mode' = mode /\ pass' = pass
  BY DEF QueueStep, Frame, BesideFan, Static
<1>1. WorkTyped'
  BY <1>b, <1>c, RunKept, TypedTurn, BoardTypeKept DEF WorkTyped
<1>2. Phases'
  BY <1>a, <1>c, PhasesKept
<1>3. Strides'
  BY <1>a, <1>c, StridesKept
<1>5. Unused'
  BY <1>a, <1>c, UnusedKept
<1>6. Fanned'
  BY <1>c, FannedBeside
<1>7. FanHeld'
  BY <1>a, <1>c DEF FanHeld
<1> QED
  BY <1>1, <1>2, <1>3, <1>c, <1>5, <1>6, <1>7 DEF WorkInv

(* The facts about the tickets, one by one.                                *)
TicketFacts ==
    /\ queue.head \in Nat /\ queue.tail \in Nat
    /\ queue.head <= queue.tail /\ queue.tail <= QueueCapacity
    /\ queue.ready \subseteq Slots /\ \A s \in queue.ready : s < queue.tail
    /\ \A w \in Warps : warp[w].slot \in Nat
    /\ \A w \in Warps : warp[w].pc \in Giving =>
          warp[w].slot < queue.tail /\ warp[w].slot \notin queue.ready
    /\ \A v, w \in Warps :
          warp[v].pc \in Giving /\ warp[w].pc \in Giving /\ warp[v].slot = warp[w].slot => v = w
    /\ \A w \in Warps : warp[w].pc = "ready" => queue.tasks[warp[w].slot] = warp[w].give
    /\ \A w \in Warps : warp[w].pc = "await" =>
          warp[w].slot < queue.head /\ warp[w].b >= warp[w].e
    /\ \A v, w \in Warps :
          warp[v].pc = "await" /\ warp[w].pc = "await" /\ warp[v].slot = warp[w].slot => v = w
    /\ \A s \in Slots : s < queue.head /\ s \notin queue.ready =>
          \E w \in Warps : warp[w].pc = "await" /\ warp[w].slot = s

LEMMA Tickets ==
    ASSUME WorkInv, mode.work = "queue"
    PROVE  /\ TicketFacts /\ WarpsTyped /\ QueueTyped /\ BoardTyped /\ Shared
           /\ ~Static
           /\ \A s \in Nat : s < queue.tail => s \in Slots
<1>1. WarpsTyped /\ QueueTyped /\ BoardTyped /\ Ticketed /\ Shared
  BY DEF WorkInv, WorkTyped
<1>2. \A w \in Warps : warp[w].slot \in Nat
  BY <1>1 DEF WarpsTyped, WarpTyped
<1>3. TicketFacts
  BY <1>1, <1>2 DEF TicketFacts, Ticketed, QueueTyped
<1>4. ~Static
  BY DEF Static
<1>5. \A s \in Nat : s < queue.tail => s \in Slots
  BY <1>3, SlotsAre, Sizes DEF TicketFacts
<1> QED
  BY <1>1, <1>3, <1>4, <1>5

(* Whether a slot is waiting, in a mode with a work queue.                 *)
LEMMA WaitingNow ==
    ASSUME mode.work = "queue", pass # "done", NEW s
    PROVE  Waiting(s) <=> s \in queue.ready /\ (s >= queue.head \/
              \E w \in Warps : warp[w].pc = "await" /\ warp[w].slot = s)
  BY DEF Waiting, At

LEMMA WaitingNext ==
    ASSUME mode.work = "queue", pass # "done", UNCHANGED <<mode, pass>>, NEW s
    PROVE  Waiting(s)' <=> s \in queue'.ready /\ (s >= queue'.head \/
              \E w \in Warps : warp'[w].pc = "await" /\ warp'[w].slot = s)
  BY DEF Waiting, At

LEMMA ReserveWon ==
    ASSUME QueueTyped, Reserve(TRUE)
    PROVE  /\ queue.tail < QueueCapacity
           /\ DOMAIN queue' = {"head", "tail", "tasks", "ready"}
           /\ queue'.head = queue.head /\ queue'.tail = queue.tail + 1
           /\ queue'.tasks = queue.tasks /\ queue'.ready = queue.ready
<1>1. queue.tail < QueueCapacity /\ queue' = [queue EXCEPT !.tail = @ + 1]
  BY Zenon DEF Reserve
<1> QED
  BY <1>1 DEF QueueTyped

LEMMA ReserveLost ==
    ASSUME Reserve(FALSE)
    PROVE  queue' = queue
  BY DEF Reserve

LEMMA DonateStep ==
    ASSUME WorkInv, NEW w \in Warps, Donate(w)
    PROVE  WorkInv'
<1> DEFINE s == ValueAlignedSplit(warp[w].b, warp[w].e)
<1>a. WorkTyped /\ RunTyped /\ WarpsTyped
  BY DEF WorkInv, WorkTyped
<1>b. DonateDone(w)
  BY <1>a, DonateEffect
<1>c. /\ mode.work = "queue" /\ pass # "done" /\ warp[w].pc = "run" /\ s # 0
      /\ UNCHANGED <<column, board, mode, pass, visited>>
  BY <1>b DEF DonateDone, InHand, At, host
<1>d. /\ TicketFacts /\ QueueTyped /\ Shared /\ ~Static
      /\ \A t \in Nat : t < queue.tail => t \in Slots
  BY <1>c, Tickets
<1>e. /\ WarpTyped(warp[w]) /\ warp[w].b \in Nat /\ warp[w].e \in Nat
      /\ warp[w].count \in Nat /\ warp[w].n \in Nat
      /\ warp[w].slot \in Nat /\ TaskTyped(warp[w].give)
  BY <1>a DEF WarpsTyped, WarpTyped
<1>f. s \in warp[w].b + 1 .. warp[w].e - 1
  BY <1>c, <1>e, SplitBetween
<1>g. \/ /\ Reserve(TRUE)
         /\ Turns(w, "fill", warp[w].b, s, queue.tail, Task(s, warp[w].e, 0), warp[w].count,
                  warp[w].at, warp[w].n, warp[w].buf)
      \/ /\ Reserve(FALSE)
         /\ Turns(w, "run", warp[w].b, warp[w].e, warp[w].slot, warp[w].give, warp[w].count,
                  warp[w].at, warp[w].n, warp[w].buf)
  BY <1>b DEF DonateDone
<1> HIDE DEF s
<1>1. ASSUME Reserve(FALSE),
             Turns(w, "run", warp[w].b, warp[w].e, warp[w].slot, warp[w].give, warp[w].count,
                   warp[w].at, warp[w].n, warp[w].buf)
      PROVE  WorkInv'
  <2>1. WarpTyped(warp'[w])
    BY <1>1, <1>a, <1>e, TurnTyped DEF Pcs, Working
  <2>2. QuietTurn(w)
    BY <1>1, <1>c, <2>1, ReserveLost DEF QuietTurn, Turns, IsWarp, Working
  <2> QED
    BY <1>c, <2>2, QuietStep
<1>2. ASSUME Reserve(TRUE),
             Turns(w, "fill", warp[w].b, s, queue.tail, Task(s, warp[w].e, 0), warp[w].count,
                   warp[w].at, warp[w].n, warp[w].buf)
      PROVE  WorkInv'
  <2>1. /\ queue.tail < QueueCapacity
        /\ DOMAIN queue' = {"head", "tail", "tasks", "ready"}
        /\ queue'.head = queue.head /\ queue'.tail = queue.tail + 1
        /\ queue'.tasks = queue.tasks /\ queue'.ready = queue.ready
    BY <1>2, <1>d, ReserveWon
  <2>2. /\ Alone(w) /\ \A v \in Warps : v = w \/ warp'[v] = warp[v]
        /\ warp'[w].pc = "fill" /\ warp'[w].slot = queue.tail
        /\ warp'[w].b = warp[w].b /\ warp'[w].e = s
        /\ warp'[w].give.b = s /\ warp'[w].give.e = warp[w].e
    BY <1>2 DEF Turns, IsWarp, Task, Alone, Others
  <2>3. WarpTyped(warp'[w])
    <3>1. TaskTyped(Task(s, warp[w].e, 0)) /\ s \in Nat
      BY <1>e, <1>f DEF Task, TaskTyped
    <3>2. queue.tail \in Nat /\ "fill" \in Pcs
      BY <1>d DEF TicketFacts, Pcs, Giving
    <3> QED
      BY <1>2, <1>a, <1>e, <3>1, <3>2, TurnTyped
  <2>4. QueueTyped'
    BY <1>d, <2>1 DEF QueueTyped, TaskTyped
  <2>5. Ticketed'
    <3>1. \A v \in Warps : warp'[v].pc = "await" => warp'[v] = warp[v]
      BY <2>2
    <3>2. \A v \in Warps : warp[v].pc = "await" => warp'[v] = warp[v]
      BY <1>c, <2>2
    <3>3. \A v \in Warps : warp'[v].pc \in Giving /\ v # w => warp'[v] = warp[v] /\ warp[v].slot < queue.tail
      BY <1>d, <2>2 DEF TicketFacts
    <3>4. \A v \in Warps : warp'[v].pc = "ready" => warp'[v] = warp[v]
      BY <2>2
    <3>5. queue.tail \notin queue.ready
      BY <1>d DEF TicketFacts
    <3>6. /\ queue'.head <= queue'.tail /\ queue'.tail <= QueueCapacity
          /\ \A t \in queue'.ready : t < queue'.tail
      <4>1. queue.head \in Nat /\ queue.tail \in Nat /\ queue.head <= queue.tail
        BY <1>d DEF TicketFacts
      <4>2. \A t \in queue.ready : t \in Nat /\ t < queue.tail
        BY <1>d, SlotsAre DEF TicketFacts
      <4>3. QueueCapacity \in Nat
        BY Sizes
      <4> QED
        BY <2>1, <4>1, <4>2, <4>3
    <3>7. \A v \in Warps : warp'[v].pc \in Giving =>
              warp'[v].slot < queue'.tail /\ warp'[v].slot \notin queue'.ready
      BY <1>d, <2>1, <2>2, <3>3, <3>5 DEF TicketFacts
    <3>8. \A u, v \in Warps : warp'[u].pc \in Giving /\ warp'[v].pc \in Giving
              /\ warp'[u].slot = warp'[v].slot => u = v
      BY <1>d, <2>2, <3>3 DEF TicketFacts
    <3>9. \A v \in Warps : warp'[v].pc = "ready" => queue'.tasks[warp'[v].slot] = warp'[v].give
      BY <1>d, <2>1, <3>4 DEF TicketFacts
    <3>10. /\ \A v \in Warps : warp'[v].pc = "await" =>
                warp'[v].slot < queue'.head /\ warp'[v].b >= warp'[v].e
           /\ \A u, v \in Warps : warp'[u].pc = "await" /\ warp'[v].pc = "await"
                /\ warp'[u].slot = warp'[v].slot => u = v
      BY <1>d, <2>1, <3>1 DEF TicketFacts
    <3>11. \A t \in Slots : t < queue'.head /\ t \notin queue'.ready =>
              \E v \in Warps : warp'[v].pc = "await" /\ warp'[v].slot = t
      BY <1>d, <2>1, <3>2 DEF TicketFacts
    <3> QED
      BY <3>6, <3>7, <3>8, <3>9, <3>10, <3>11 DEF Ticketed
  <2>6. Shared'
    <3>0. Frame
      BY <1>c DEF Frame
    <3>1. \A v \in Warps : v = w \/ (Held(v)' = Held(v) /\ Offered(v)' = Offered(v))
      BY <2>2, <3>0, HeldKept
    <3>2. \A t \in Slots : Queued(t)' = Queued(t)
      <4> SUFFICES ASSUME NEW t \in Slots
                   PROVE  Queued(t)' = Queued(t)
        OBVIOUS
      <4>1. \A v \in Warps : warp'[v].pc = "await" /\ warp'[v].slot = t <=>
                             warp[v].pc = "await" /\ warp[v].slot = t
        BY <1>c, <2>2
      <4>2. Waiting(t)' <=> Waiting(t)
        BY <1>c, <2>1, <4>1, WaitingNow, WaitingNext
      <4> QED
        BY <2>1, <4>2 DEF Queued, Span
    <3>3. \A t \in 1 .. BoardCapacity : OnBoard(t)' = OnBoard(t)
      BY <1>c, PostedKept
    <3>4. AllRows' = AllRows
      BY <3>0, FrameSource
    <3>5. Held(w) = warp[w].b .. warp[w].e - 1 /\ Offered(w) = {}
      BY <1>c, <1>d, HeldIs DEF Span, Offered, Giving
    <3>6. Held(w)' = warp[w].b .. s - 1 /\ Offered(w)' = s .. warp[w].e - 1
      BY <1>d, <2>2, <3>0, HeldNow DEF Span, Offered, Giving
    <3>7. Held(w)' \cup Offered(w)' = Held(w) \cup Offered(w) /\ Held(w)' \cap Offered(w)' = {}
      BY <1>e, <1>f, <3>5, <3>6
    <3> QED
      BY <1>c, <1>d, <3>1, <3>2, <3>3, <3>4, <3>7, HeldToOffered
  <2>7. QueueStep(w)
    BY <1>c, <2>2, <2>3, <2>4, <2>5, <2>6 DEF QueueStep
  <2> QED
    BY <2>7, QueueStepKeeps
<1> QED
  BY <1>g, <1>1, <1>2

LEMMA Filled ==
    ASSUME QueueTyped, NEW s \in Slots, NEW task, Fill(s, task)
    PROVE  /\ DOMAIN queue' = {"head", "tail", "tasks", "ready"}
           /\ queue'.head = queue.head /\ queue'.tail = queue.tail /\ queue'.ready = queue.ready
           /\ DOMAIN queue'.tasks = Slots /\ queue'.tasks[s] = task
           /\ \A t \in Slots : t = s \/ queue'.tasks[t] = queue.tasks[t]
<1>1. queue' = [queue EXCEPT !.tasks[s] = task]
  BY DEF Fill
<1> QED
  BY <1>1 DEF QueueTyped

LEMMA MadeReady ==
    ASSUME QueueTyped, NEW s, MakeReady(s)
    PROVE  /\ DOMAIN queue' = {"head", "tail", "tasks", "ready"}
           /\ queue'.head = queue.head /\ queue'.tail = queue.tail
           /\ queue'.tasks = queue.tasks /\ queue'.ready = queue.ready \cup {s}
<1>1. queue' = [queue EXCEPT !.ready = @ \cup {s}]
  BY DEF MakeReady
<1> QED
  BY <1>1 DEF QueueTyped

LEMMA HeadMoved ==
    ASSUME QueueTyped, queue' = [queue EXCEPT !.head = @ + 1]
    PROVE  /\ DOMAIN queue' = {"head", "tail", "tasks", "ready"}
           /\ queue'.head = queue.head + 1 /\ queue'.tail = queue.tail
           /\ queue'.tasks = queue.tasks /\ queue'.ready = queue.ready
  BY DEF QueueTyped

LEMMA FillSlotStep ==
    ASSUME WorkInv, NEW w \in Warps, FillSlot(w)
    PROVE  WorkInv'
<1> DEFINE s == warp[w].slot
<1>a. WorkTyped /\ RunTyped /\ WarpsTyped /\ Phases
  BY DEF WorkInv, WorkTyped
<1>b. FillDone(w)
  BY <1>a, FillSlotEffect
<1>c. /\ mode.work = "queue" /\ pass # "done" /\ warp[w].pc = "fill"
      /\ UNCHANGED <<column, board, mode, pass, visited>>
  BY <1>a, <1>b DEF FillDone, At, host, Phases, Giving
<1>d. /\ TicketFacts /\ QueueTyped /\ Shared /\ ~Static
      /\ \A t \in Nat : t < queue.tail => t \in Slots
  BY <1>c, Tickets
<1>e. /\ WarpTyped(warp[w]) /\ warp[w].b \in Nat /\ warp[w].e \in Nat
      /\ warp[w].count \in Nat /\ warp[w].n \in Nat /\ s \in Nat /\ TaskTyped(warp[w].give)
  BY <1>a DEF WarpsTyped, WarpTyped
<1>f. s \in Slots /\ s \notin queue.ready
  BY <1>c, <1>d, <1>e DEF TicketFacts, Giving
<1>g. /\ Fill(s, warp[w].give)
      /\ Turns(w, "ready", warp[w].b, warp[w].e, s, warp[w].give, warp[w].count,
               warp[w].at, warp[w].n, warp[w].buf)
  BY <1>b DEF FillDone
<1> HIDE DEF s
<1>1. /\ DOMAIN queue' = {"head", "tail", "tasks", "ready"}
      /\ queue'.head = queue.head /\ queue'.tail = queue.tail /\ queue'.ready = queue.ready
      /\ DOMAIN queue'.tasks = Slots /\ queue'.tasks[s] = warp[w].give
      /\ \A t \in Slots : t = s \/ queue'.tasks[t] = queue.tasks[t]
  BY <1>d, <1>f, <1>g, Filled
<1>2. /\ Alone(w) /\ \A v \in Warps : v = w \/ warp'[v] = warp[v]
      /\ warp'[w].pc = "ready" /\ warp'[w].slot = s /\ warp[w].slot = s
      /\ warp'[w].b = warp[w].b /\ warp'[w].e = warp[w].e /\ warp'[w].give = warp[w].give
  BY <1>g DEF Turns, IsWarp, Alone, Others, s
<1>3. WarpTyped(warp'[w])
  BY <1>a, <1>e, <1>g, TurnTyped DEF Pcs, Giving
<1>4. QueueTyped'
  BY <1>d, <1>e, <1>1 DEF QueueTyped, TaskTyped
<1>5. Ticketed'
  <2>1. \A v \in Warps : warp'[v].pc \in Giving => warp[v].pc \in Giving /\ warp'[v].slot = warp[v].slot
    BY <1>c, <1>2 DEF Giving
  <2>2. \A v \in Warps : /\ warp'[v].pc = "await" <=> warp[v].pc = "await"
                         /\ warp'[v].slot = warp[v].slot
                         /\ warp'[v].b = warp[v].b /\ warp'[v].e = warp[v].e
    BY <1>c, <1>2
  <2>3. \A v \in Warps : warp'[v].pc = "ready" => queue'.tasks[warp'[v].slot] = warp'[v].give
    <3> SUFFICES ASSUME NEW v \in Warps, warp'[v].pc = "ready"
                 PROVE  queue'.tasks[warp'[v].slot] = warp'[v].give
      OBVIOUS
    <3>1. CASE v = w
      BY <1>1, <1>2, <3>1
    <3>2. CASE v # w
      <4>1. warp'[v] = warp[v] /\ warp[v].pc \in Giving /\ warp[w].pc \in Giving
        BY <1>c, <1>2, <3>2 DEF Giving
      <4>2. warp[v].slot # s /\ warp[v].slot \in Slots
        BY <1>d, <1>2, <3>2, <4>1 DEF TicketFacts
      <4>3. queue.tasks[warp[v].slot] = warp[v].give
        BY <1>d, <4>1 DEF TicketFacts
      <4> QED
        BY <1>1, <4>1, <4>2, <4>3
    <3> QED
      BY <3>1, <3>2
  <2>4. \A u, v \in Warps : warp'[u].pc \in Giving /\ warp'[v].pc \in Giving
              /\ warp'[u].slot = warp'[v].slot => u = v
    BY <1>d, <2>1 DEF TicketFacts
  <2>5. \A v \in Warps : warp'[v].pc \in Giving =>
              warp'[v].slot < queue'.tail /\ warp'[v].slot \notin queue'.ready
    BY <1>d, <1>1, <2>1 DEF TicketFacts
  <2>6. /\ queue'.head <= queue'.tail /\ queue'.tail <= QueueCapacity
        /\ \A t \in queue'.ready : t < queue'.tail
    BY <1>d, <1>1 DEF TicketFacts
  <2>7. /\ \A v \in Warps : warp'[v].pc = "await" =>
             warp'[v].slot < queue'.head /\ warp'[v].b >= warp'[v].e
        /\ \A u, v \in Warps : warp'[u].pc = "await" /\ warp'[v].pc = "await"
             /\ warp'[u].slot = warp'[v].slot => u = v
        /\ \A t \in Slots : t < queue'.head /\ t \notin queue'.ready =>
              \E v \in Warps : warp'[v].pc = "await" /\ warp'[v].slot = t
    BY <1>d, <1>1, <2>2 DEF TicketFacts
  <2> QED
    BY <2>3, <2>4, <2>5, <2>6, <2>7 DEF Ticketed
<1>6. Shared'
  <2>0. Frame
    BY <1>c DEF Frame
  <2>1. \A v \in Warps : v = w \/ (Held(v)' = Held(v) /\ Offered(v)' = Offered(v))
    BY <1>2, <2>0, HeldKept
  <2>2. Held(w)' = Held(w)
    BY <1>c, <1>d, <1>2, <2>0, HeldIs, HeldNow DEF Span
  <2>3. Offered(w)' = Offered(w)
    BY <1>c, <1>2 DEF Offered, Span, Giving
  <2>4. ASSUME NEW t \in Slots
        PROVE  Queued(t)' = Queued(t)
    <3>1. \A v \in Warps : warp'[v].pc = "await" /\ warp'[v].slot = t <=>
                           warp[v].pc = "await" /\ warp[v].slot = t
      BY <1>c, <1>2
    <3>2. Waiting(t)' <=> Waiting(t)
      BY <1>c, <1>1, <3>1, WaitingNow, WaitingNext
    <3>3. Waiting(t) => t # s
      BY <1>c, <1>f, WaitingNow
    <3> QED
      BY <1>1, <3>2, <3>3 DEF Queued, Span
  <2>5. \A t \in 1 .. BoardCapacity : OnBoard(t)' = OnBoard(t)
    BY <1>c, PostedKept
  <2>6. AllRows' = AllRows
    BY <2>0, FrameSource
  <2> QED
    BY <1>c, <1>d, <2>1, <2>2, <2>3, <2>4, <2>5, <2>6, SharesSame
<1>7. QueueStep(w)
  BY <1>c, <1>2, <1>3, <1>4, <1>5, <1>6 DEF QueueStep
<1> QED
  BY <1>7, QueueStepKeeps

LEMMA RaiseFlagStep ==
    ASSUME WorkInv, NEW w \in Warps, RaiseFlag(w)
    PROVE  WorkInv'
<1>s. PICK s : s = warp[w].slot
  OBVIOUS
<1>a. WorkTyped /\ RunTyped /\ WarpsTyped /\ Phases
  BY DEF WorkInv, WorkTyped
<1>b. RaiseDone(w)
  BY <1>a, RaiseFlagEffect
<1>c. /\ mode.work = "queue" /\ pass # "done" /\ warp[w].pc = "ready"
      /\ UNCHANGED <<column, board, mode, pass, visited>>
  BY <1>a, <1>b DEF RaiseDone, At, host, Phases, Giving
<1>d. /\ TicketFacts /\ QueueTyped /\ Shared /\ ~Static
      /\ \A t \in Nat : t < queue.tail => t \in Slots
  BY <1>c, Tickets
<1>e. /\ WarpTyped(warp[w]) /\ warp[w].b \in Nat /\ warp[w].e \in Nat
      /\ warp[w].count \in Nat /\ warp[w].n \in Nat /\ s \in Nat /\ TaskTyped(warp[w].give)
  BY <1>a, <1>s DEF WarpsTyped, WarpTyped
<1>f. s \in Slots /\ s \notin queue.ready /\ s < queue.tail /\ queue.tasks[s] = warp[w].give
  BY <1>c, <1>d, <1>e, <1>s DEF TicketFacts, Giving
<1>g. /\ MakeReady(s)
      /\ Turns(w, "run", warp[w].b, warp[w].e, s, NoTask, warp[w].count,
               warp[w].at, warp[w].n, warp[w].buf)
  BY <1>b, <1>s DEF RaiseDone
<1>1. /\ DOMAIN queue' = {"head", "tail", "tasks", "ready"}
      /\ queue'.head = queue.head /\ queue'.tail = queue.tail
      /\ queue'.tasks = queue.tasks /\ queue'.ready = queue.ready \cup {s}
  BY <1>d, <1>g, MadeReady
<1>2. /\ Alone(w) /\ \A v \in Warps : v = w \/ warp'[v] = warp[v]
      /\ warp'[w].pc = "run" /\ warp[w].slot = s
      /\ warp'[w].b = warp[w].b /\ warp'[w].e = warp[w].e
  BY <1>g, <1>s DEF Turns, IsWarp, Alone, Others
<1>3. WarpTyped(warp'[w])
  <2>1. TaskTyped(NoTask)
    BY DEF NoTask, TaskTyped
  <2> QED
    BY <1>a, <1>e, <1>g, <2>1, TurnTyped DEF Pcs, Working
<1>4. QueueTyped'
  BY <1>d, <1>f, <1>1 DEF QueueTyped, TaskTyped
<1>5. Ticketed'
  <2>1. \A v \in Warps : warp'[v].pc \in Giving =>
            v # w /\ warp'[v] = warp[v] /\ warp[v].slot # s
    BY <1>c, <1>d, <1>2 DEF Giving, TicketFacts
  <2>2. \A v \in Warps : warp'[v].pc = "await" => warp'[v] = warp[v]
    BY <1>2
  <2>3. \A v \in Warps : warp[v].pc = "await" => warp'[v] = warp[v]
    BY <1>c, <1>2
  <2>4. \A v \in Warps : warp'[v].pc = "ready" => queue'.tasks[warp'[v].slot] = warp'[v].give
    BY <1>d, <1>1, <2>1 DEF TicketFacts, Giving
  <2>5. \A u, v \in Warps : warp'[u].pc \in Giving /\ warp'[v].pc \in Giving
              /\ warp'[u].slot = warp'[v].slot => u = v
    BY <1>d, <2>1 DEF TicketFacts
  <2>6. \A v \in Warps : warp'[v].pc \in Giving =>
              warp'[v].slot < queue'.tail /\ warp'[v].slot \notin queue'.ready
    BY <1>d, <1>1, <2>1 DEF TicketFacts
  <2>7. /\ queue'.head <= queue'.tail /\ queue'.tail <= QueueCapacity
        /\ \A t \in queue'.ready : t < queue'.tail
    BY <1>d, <1>f, <1>1 DEF TicketFacts
  <2>8. /\ \A v \in Warps : warp'[v].pc = "await" =>
             warp'[v].slot < queue'.head /\ warp'[v].b >= warp'[v].e
        /\ \A u, v \in Warps : warp'[u].pc = "await" /\ warp'[v].pc = "await"
             /\ warp'[u].slot = warp'[v].slot => u = v
    BY <1>d, <1>1, <2>2 DEF TicketFacts
  <2>9. \A t \in Slots : t < queue'.head /\ t \notin queue'.ready =>
              \E v \in Warps : warp'[v].pc = "await" /\ warp'[v].slot = t
    BY <1>d, <1>1, <2>3 DEF TicketFacts
  <2> QED
    BY <2>4, <2>5, <2>6, <2>7, <2>8, <2>9 DEF Ticketed
<1>6. Shared'
  <2>0. Frame
    BY <1>c DEF Frame
  <2>1. \A v \in Warps : v = w \/ (Held(v)' = Held(v) /\ Offered(v)' = Offered(v))
    BY <1>2, <2>0, HeldKept
  <2>2. Held(w)' = Held(w)
    BY <1>c, <1>d, <1>2, <2>0, HeldIs, HeldNow DEF Span
  <2>3. Offered(w)' = {} /\ Offered(w) = Span(warp[w].give)
    BY <1>c, <1>2 DEF Offered, Span, Giving
  <2>4. \A v \in Warps : warp'[v].pc = "await" <=> warp[v].pc = "await"
    BY <1>c, <1>2
  <2>5. \A v \in Warps : warp'[v].pc = "await" => warp'[v].slot = warp[v].slot
    BY <1>2
  <2>6. ASSUME NEW t \in Slots, t # s
        PROVE  Queued(t)' = Queued(t)
    <3>1. Waiting(t)' <=> Waiting(t)
      BY <1>c, <1>1, <2>4, <2>5, <2>6, WaitingNow, WaitingNext
    <3> QED
      BY <1>1, <3>1 DEF Queued, Span
  <2>7. Queued(s) = {}
    BY <1>c, <1>f, WaitingNow DEF Queued
  <2>8. Queued(s)' = Span(warp[w].give)
    <3>1. s >= queue.head \/ \E v \in Warps : warp[v].pc = "await" /\ warp[v].slot = s
      BY <1>d, <1>e, <1>f DEF TicketFacts
    <3>2. s >= queue'.head \/ \E v \in Warps : warp'[v].pc = "await" /\ warp'[v].slot = s
      BY <1>1, <2>4, <2>5, <3>1
    <3>3. Waiting(s)'
      BY <1>c, <1>1, <3>2, WaitingNext
    <3> QED
      BY <1>f, <1>1, <3>3 DEF Queued, Span
  <2>9. \A t \in 1 .. BoardCapacity : OnBoard(t)' = OnBoard(t)
    BY <1>c, PostedKept
  <2>10. AllRows' = AllRows
    BY <2>0, FrameSource
  <2>11. /\ \A v \in Warps : Held(v)' = Held(v)
         /\ \A v \in Warps : v = w \/ Offered(v)' = Offered(v)
         /\ Queued(s)' = Offered(w)
    BY <2>1, <2>2, <2>3, <2>8
  <2> QED
    BY <1>c, <1>d, <1>f, <2>3, <2>6, <2>7, <2>9, <2>10, <2>11, OfferedToQueued
<1>7. QueueStep(w)
  BY <1>c, <1>2, <1>3, <1>4, <1>5, <1>6 DEF QueueStep
<1> QED
  BY <1>7, QueueStepKeeps

LEMMA StealStep ==
    ASSUME WorkInv, NEW w \in Warps, Steal(w)
    PROVE  WorkInv'
<1> DEFINE s == queue.head
<1>a. WorkTyped /\ RunTyped /\ WarpsTyped /\ Phases
  BY DEF WorkInv, WorkTyped
<1>b. StealDone(w)
  BY <1>a, StealEffect
<1>c. /\ mode.work = "queue" /\ pass # "done" /\ warp[w].pc = "run" /\ warp[w].b >= warp[w].e
      /\ UNCHANGED <<column, board, mode, pass, visited>>
  BY <1>b DEF StealDone, Drained, At, host
<1>d. /\ TicketFacts /\ QueueTyped /\ Shared /\ ~Static
      /\ \A t \in Nat : t < queue.tail => t \in Slots
  BY <1>c, Tickets
<1>e. /\ WarpTyped(warp[w]) /\ warp[w].b \in Nat /\ warp[w].e \in Nat
      /\ warp[w].count \in Nat /\ warp[w].n \in Nat /\ TaskTyped(warp[w].give)
  BY <1>a DEF WarpsTyped, WarpTyped
<1>f. s < queue.tail /\ s \in Nat /\ s \in Slots
  BY <1>b, <1>d DEF StealDone, TakeSlot, TicketFacts
<1>g. Turns(w, "await", warp[w].b, warp[w].e, s, warp[w].give, warp[w].count,
            warp[w].at, warp[w].n, warp[w].buf)
  BY <1>b DEF StealDone
<1>1. /\ DOMAIN queue' = {"head", "tail", "tasks", "ready"}
      /\ queue'.head = s + 1 /\ queue'.tail = queue.tail
      /\ queue'.tasks = queue.tasks /\ queue'.ready = queue.ready
  BY <1>b, <1>d, HeadMoved DEF StealDone, TakeSlot
<1>2. /\ Alone(w) /\ \A v \in Warps : v = w \/ warp'[v] = warp[v]
      /\ warp'[w].pc = "await" /\ warp'[w].slot = s
      /\ warp'[w].b = warp[w].b /\ warp'[w].e = warp[w].e
  BY <1>g DEF Turns, IsWarp, Alone, Others
<1>3. WarpTyped(warp'[w])
  BY <1>a, <1>e, <1>f, <1>g, TurnTyped DEF Pcs
<1>4. QueueTyped'
  BY <1>d, <1>f, <1>1 DEF QueueTyped, TaskTyped
<1>5. Ticketed'
  <2>1. \A v \in Warps : warp'[v].pc \in Giving => warp'[v] = warp[v]
    BY <1>2 DEF Giving
  <2>2. \A v \in Warps : warp'[v].pc = "await" =>
            v = w \/ (warp'[v] = warp[v] /\ warp[v].slot # s)
    BY <1>d, <1>2 DEF TicketFacts
  <2>3. \A v \in Warps : warp[v].pc = "await" => warp'[v] = warp[v]
    BY <1>c, <1>2
  <2>4. \A v \in Warps : warp'[v].pc = "ready" => queue'.tasks[warp'[v].slot] = warp'[v].give
    BY <1>d, <1>1, <2>1 DEF TicketFacts, Giving
  <2>5. \A u, v \in Warps : warp'[u].pc \in Giving /\ warp'[v].pc \in Giving
              /\ warp'[u].slot = warp'[v].slot => u = v
    BY <1>d, <2>1 DEF TicketFacts
  <2>6. \A v \in Warps : warp'[v].pc \in Giving =>
              warp'[v].slot < queue'.tail /\ warp'[v].slot \notin queue'.ready
    BY <1>d, <1>1, <2>1 DEF TicketFacts
  <2>7. /\ queue'.head <= queue'.tail /\ queue'.tail <= QueueCapacity
        /\ \A t \in queue'.ready : t < queue'.tail
    BY <1>d, <1>f, <1>1 DEF TicketFacts
  <2>8. \A v \in Warps : warp'[v].pc = "await" =>
             warp'[v].slot < queue'.head /\ warp'[v].b >= warp'[v].e
    <3> SUFFICES ASSUME NEW v \in Warps, warp'[v].pc = "await"
                 PROVE  warp'[v].slot < queue'.head /\ warp'[v].b >= warp'[v].e
      OBVIOUS
    <3>1. CASE v = w
      BY <1>c, <1>f, <1>1, <1>2, <3>1
    <3>2. CASE v # w
      BY <1>d, <1>f, <1>1, <1>2, <3>2 DEF TicketFacts
    <3> QED
      BY <3>1, <3>2
  <2>9. \A u, v \in Warps : warp'[u].pc = "await" /\ warp'[v].pc = "await"
             /\ warp'[u].slot = warp'[v].slot => u = v
    BY <1>d, <1>2, <2>2 DEF TicketFacts
  <2>10. \A t \in Slots : t < queue'.head /\ t \notin queue'.ready =>
              \E v \in Warps : warp'[v].pc = "await" /\ warp'[v].slot = t
    <3> SUFFICES ASSUME NEW t \in Slots, t < queue'.head, t \notin queue'.ready
                 PROVE  \E v \in Warps : warp'[v].pc = "await" /\ warp'[v].slot = t
      OBVIOUS
    <3>1. CASE t = s
      BY <1>2, <3>1
    <3>2. CASE t # s
      <4>1. t \in Nat /\ t < s /\ t \notin queue.ready
        BY <1>f, <1>1, <3>2, SlotsAre
      <4> QED
        BY <1>d, <2>3, <4>1 DEF TicketFacts
    <3> QED
      BY <3>1, <3>2
  <2> QED
    BY <2>4, <2>5, <2>6, <2>7, <2>8, <2>9, <2>10 DEF Ticketed
<1>6. Shared'
  <2>0. Frame
    BY <1>c DEF Frame
  <2>1. \A v \in Warps : v = w \/ (Held(v)' = Held(v) /\ Offered(v)' = Offered(v))
    BY <1>2, <2>0, HeldKept
  <2>2. Held(w)' = Held(w)
    BY <1>c, <1>d, <1>2, <2>0, HeldIs, HeldNow DEF Span
  <2>3. Offered(w)' = {} /\ Offered(w) = {}
    BY <1>c, <1>2 DEF Offered, Giving
  <2>6. ASSUME NEW t \in Slots
        PROVE  Queued(t)' = Queued(t)
    <3>1. Waiting(t)' <=> Waiting(t)
      <4>1. t = s => (t >= queue.head /\ \E v \in Warps : warp'[v].pc = "await" /\ warp'[v].slot = t)
        BY <1>2, <1>f
      <4>2. t # s => (t >= queue'.head <=> t >= queue.head)
        BY <1>1, <1>f, SlotsAre
      <4>3. t # s => ((\E v \in Warps : warp'[v].pc = "await" /\ warp'[v].slot = t) <=>
                      \E v \in Warps : warp[v].pc = "await" /\ warp[v].slot = t)
        BY <1>c, <1>2
      <4> HIDE DEF s
      <4> QED
        BY <1>c, <1>1, <4>1, <4>2, <4>3, WaitingNow, WaitingNext
    <3> QED
      BY <1>1, <3>1 DEF Queued, Span
  <2>9. \A t \in 1 .. BoardCapacity : OnBoard(t)' = OnBoard(t)
    BY <1>c, PostedKept
  <2>10. AllRows' = AllRows
    BY <2>0, FrameSource
  <2>11. \A v \in Warps : Held(v)' = Held(v) /\ Offered(v)' = Offered(v)
    BY <2>1, <2>2, <2>3
  <2> QED
    BY <1>c, <1>d, <2>6, <2>9, <2>10, <2>11, SharesSame
<1>7. QueueStep(w)
  BY <1>c, <1>2, <1>3, <1>4, <1>5, <1>6 DEF QueueStep
<1> QED
  BY <1>7, QueueStepKeeps

LEMMA TakeTaskStep ==
    ASSUME WorkInv, NEW w \in Warps, TakeTask(w)
    PROVE  WorkInv'
<1>s. PICK s : s = warp[w].slot
  OBVIOUS
<1>a. WorkTyped /\ RunTyped /\ WarpsTyped /\ Phases
  BY DEF WorkInv, WorkTyped
<1>b. TakeDone(w)
  BY <1>a, TakeTaskEffect
<1>c. /\ mode.work = "queue" /\ pass # "done" /\ warp[w].pc = "await" /\ s \in queue.ready
      /\ UNCHANGED <<column, queue, board, mode, pass, visited>>
  BY <1>a, <1>b, <1>s DEF TakeDone, At, host, sources, Phases, IsReady
<1>d. /\ TicketFacts /\ QueueTyped /\ Shared /\ ~Static
  BY <1>c, Tickets
<1>e. /\ WarpTyped(warp[w]) /\ warp[w].b \in Nat /\ warp[w].e \in Nat
      /\ warp[w].count \in Nat /\ warp[w].n \in Nat /\ s \in Nat /\ TaskTyped(warp[w].give)
  BY <1>a, <1>s DEF WarpsTyped, WarpTyped
<1>f. /\ s \in Slots /\ s < queue.head /\ warp[w].b >= warp[w].e
      /\ queue.tasks[s].b \in Nat /\ queue.tasks[s].e \in Nat
  BY <1>c, <1>d, <1>s DEF TicketFacts, QueueTyped, TaskTyped
<1>g. Turns(w, "run", queue.tasks[s].b, queue.tasks[s].e, s, warp[w].give, warp[w].count,
            warp[w].at, warp[w].n, warp[w].buf)
  BY <1>b, <1>s DEF TakeDone
<1>2. /\ Alone(w) /\ \A v \in Warps : v = w \/ warp'[v] = warp[v]
      /\ warp'[w].pc = "run" /\ warp[w].slot = s
      /\ warp'[w].b = queue.tasks[s].b /\ warp'[w].e = queue.tasks[s].e
  BY <1>g, <1>s DEF Turns, IsWarp, Alone, Others
<1>3. WarpTyped(warp'[w])
  BY <1>a, <1>e, <1>f, <1>g, TurnTyped DEF Pcs, Working
<1>4. QueueTyped'
  BY <1>c, <1>d, QueueTypeKept
<1>5. Ticketed'
  <2>1. \A v \in Warps : warp'[v].pc \in Giving \/ warp'[v].pc = "await" =>
            v # w /\ warp'[v] = warp[v]
    BY <1>2 DEF Giving
  <2>2. queue' = queue
    BY <1>c
  <2>4. \A v \in Warps : warp'[v].pc = "ready" => queue'.tasks[warp'[v].slot] = warp'[v].give
    BY <1>d, <2>1, <2>2 DEF TicketFacts, Giving
  <2>5. \A u, v \in Warps : warp'[u].pc \in Giving /\ warp'[v].pc \in Giving
              /\ warp'[u].slot = warp'[v].slot => u = v
    BY <1>d, <2>1 DEF TicketFacts
  <2>6. \A v \in Warps : warp'[v].pc \in Giving =>
              warp'[v].slot < queue'.tail /\ warp'[v].slot \notin queue'.ready
    BY <1>d, <2>1, <2>2 DEF TicketFacts
  <2>7. /\ queue'.head <= queue'.tail /\ queue'.tail <= QueueCapacity
        /\ \A t \in queue'.ready : t < queue'.tail
    BY <1>d, <2>2 DEF TicketFacts
  <2>8. /\ \A v \in Warps : warp'[v].pc = "await" =>
             warp'[v].slot < queue'.head /\ warp'[v].b >= warp'[v].e
        /\ \A u, v \in Warps : warp'[u].pc = "await" /\ warp'[v].pc = "await"
             /\ warp'[u].slot = warp'[v].slot => u = v
    BY <1>d, <2>1, <2>2 DEF TicketFacts
  <2>9. \A t \in Slots : t < queue'.head /\ t \notin queue'.ready =>
              \E v \in Warps : warp'[v].pc = "await" /\ warp'[v].slot = t
    <3> SUFFICES ASSUME NEW t \in Slots, t < queue'.head, t \notin queue'.ready
                 PROVE  \E v \in Warps : warp'[v].pc = "await" /\ warp'[v].slot = t
      OBVIOUS
    <3>1. PICK v \in Warps : warp[v].pc = "await" /\ warp[v].slot = t
      BY <1>d, <2>2 DEF TicketFacts
    <3>2. v # w
      BY <1>c, <1>2, <2>2, <3>1
    <3> QED
      BY <1>2, <3>1, <3>2
  <2> QED
    BY <2>4, <2>5, <2>6, <2>7, <2>8, <2>9 DEF Ticketed
<1>6. Shared'
  <2>0. Frame
    BY <1>c DEF Frame
  <2>1. \A v \in Warps : v = w \/ (Held(v)' = Held(v) /\ Offered(v)' = Offered(v))
    BY <1>2, <2>0, HeldKept
  <2>2. Held(w)' = Span(queue.tasks[s])
    BY <1>d, <1>2, <2>0, HeldNow DEF Span
  <2>3. Held(w) = {}
    BY <1>c, <1>d, <1>e, <1>f, HeldIs DEF Span
  <2>4. Offered(w)' = {} /\ Offered(w) = {}
    BY <1>c, <1>2 DEF Offered, Giving
  <2>6. ASSUME NEW t \in Slots, t # s
        PROVE  Queued(t)' = Queued(t)
    <3>1. \A v \in Warps : warp'[v].pc = "await" /\ warp'[v].slot = t <=>
                           warp[v].pc = "await" /\ warp[v].slot = t
      BY <1>c, <1>2, <2>6
    <3>2. Waiting(t)' <=> Waiting(t)
      BY <1>c, <3>1, WaitingNow, WaitingNext
    <3> QED
      BY <1>c, <3>2 DEF Queued, Span
  <2>7. Queued(s) = Span(queue.tasks[s])
    BY <1>c, <1>2, WaitingNow DEF Queued
  <2>8. Queued(s)' = {}
    <3>1. \A v \in Warps : ~(warp'[v].pc = "await" /\ warp'[v].slot = s)
      BY <1>c, <1>d, <1>2 DEF TicketFacts
    <3>2. ~(s >= queue'.head)
      BY <1>c, <1>d, <1>e, <1>f DEF TicketFacts
    <3>3. ~Waiting(s)'
      BY <1>c, <3>1, <3>2, WaitingNext
    <3> QED
      BY <3>3 DEF Queued
  <2>9. \A t \in 1 .. BoardCapacity : OnBoard(t)' = OnBoard(t)
    BY <1>c, PostedKept
  <2>10. AllRows' = AllRows
    BY <2>0, FrameSource
  <2>11. /\ \A v \in Warps : v = w \/ Held(v)' = Held(v)
         /\ \A v \in Warps : Offered(v)' = Offered(v)
         /\ Held(w)' = Queued(s)
    BY <2>1, <2>2, <2>4, <2>7
  <2> QED
    BY <1>c, <1>d, <1>f, <2>3, <2>6, <2>8, <2>9, <2>10, <2>11, QueuedToHeld
<1>7. QueueStep(w)
  BY <1>c, <1>2, <1>3, <1>4, <1>5, <1>6 DEF QueueStep
<1> QED
  BY <1>7, QueueStepKeeps

LEMMA TurnsQuiet ==
    ASSUME WorkInv, pass # "done", NEW w \in Warps, warp[w].pc \in Working,
           UNCHANGED <<column, queue, board, mode, pass, visited>>,
           NEW pc \in Working, NEW count \in Nat, NEW at, NEW n \in Nat, NEW buf,
           Turns(w, pc, warp[w].b, warp[w].e, warp[w].slot, warp[w].give, count, at, n, buf)
    PROVE  WorkInv'
<1>1. WarpsTyped
  BY DEF WorkInv, WorkTyped
<1>2. /\ warp[w].b \in Nat /\ warp[w].e \in Nat /\ warp[w].slot \in Nat
      /\ TaskTyped(warp[w].give) /\ pc \in Pcs
  BY <1>1 DEF WarpsTyped, WarpTyped, Pcs
<1>3. WarpTyped(warp'[w])
  BY <1>1, <1>2, TurnTyped
<1>4. /\ Alone(w) /\ warp'[w].pc = pc
      /\ warp'[w].b = warp[w].b /\ warp'[w].e = warp[w].e
  BY DEF Turns, IsWarp
<1>5. QuietTurn(w)
  BY <1>3, <1>4 DEF QuietTurn
<1> QED
  BY <1>5, QuietStep

LEMMA ProbeStep ==
    ASSUME WorkInv, NEW w \in Warps, Probe(w)
    PROVE  WorkInv'
<1>1. WarpsTyped
  BY DEF WorkInv, WorkTyped
<1>2. ProbeDone(w)
  BY <1>1, ProbeEffect
<1>3. /\ pass # "done" /\ warp[w].pc \in Working
      /\ UNCHANGED <<column, queue, board, mode, pass, visited>>
  BY <1>2 DEF ProbeDone, At, sources, host, Working
<1>4. /\ warp[w].count \in Nat /\ warp[w].count + 1 \in Nat
      /\ warp[w].n \in Nat /\ warp[w].n + 1 \in Nat
  BY <1>1 DEF WarpsTyped, WarpTyped
<1>5. "run" \in Working /\ "probe" \in Working /\ "flush" \in Working
  BY DEF Working
<1>6. \E pc \in Working, count \in Nat, n \in Nat : \E buf :
         Turns(w, pc, warp[w].b, warp[w].e, warp[w].slot, warp[w].give, count, warp[w].at, n, buf)
  BY <1>2, <1>4, <1>5 DEF ProbeDone
<1> QED
  BY <1>3, <1>6, TurnsQuiet

LEMMA FlushStep ==
    ASSUME WorkInv, NEW w \in Warps, Flush(w)
    PROVE  WorkInv'
<1>1. WarpsTyped
  BY DEF WorkInv, WorkTyped
<1>2. FlushDone(w)
  BY <1>1, FlushEffect
<1>3. /\ pass # "done" /\ warp[w].pc \in Working
      /\ UNCHANGED <<column, queue, board, mode, pass, visited>>
  BY <1>2 DEF FlushDone, At, sources, host, Working
<1>4. /\ warp[w].count \in Nat /\ warp[w].n \in Nat
      /\ "run" \in Working /\ "store" \in Working
  BY <1>1 DEF WarpsTyped, WarpTyped, Working
<1>5. \E pc \in Working : \E at, buf :
         Turns(w, pc, warp[w].b, warp[w].e, warp[w].slot, warp[w].give, warp[w].count, at,
               warp[w].n, buf)
  BY <1>2, <1>4 DEF FlushDone
<1> QED
  BY <1>3, <1>4, <1>5, TurnsQuiet

LEMMA StoreStep ==
    ASSUME WorkInv, NEW w \in Warps, Store(w)
    PROVE  WorkInv'
<1>1. WarpsTyped
  BY DEF WorkInv, WorkTyped
<1>2. StoreDone(w)
  BY <1>1, StoreEffect
<1>3. /\ pass # "done" /\ warp[w].pc \in Working
      /\ UNCHANGED <<column, queue, board, mode, pass, visited>>
  BY <1>2 DEF StoreDone, At, sources, host, Working
<1>4. warp[w].count \in Nat /\ warp[w].n \in Nat /\ "run" \in Working
  BY <1>1 DEF WarpsTyped, WarpTyped, Working
<1>5. Turns(w, "run", warp[w].b, warp[w].e, warp[w].slot, warp[w].give,
            warp[w].count, warp[w].at, warp[w].n, <<>>)
  BY <1>2 DEF StoreDone
<1> QED
  BY <1>3, <1>4, <1>5, TurnsQuiet

LEMMA FinishStep ==
    ASSUME WorkInv, NEW w \in Warps, Finish(w)
    PROVE  WorkInv'
<1>1. WarpsTyped
  BY DEF WorkInv, WorkTyped
<1>2. FinishDone(w)
  BY <1>1, FinishEffect
<1>3. /\ pass # "done" /\ warp[w].pc \in Working
      /\ UNCHANGED <<column, queue, board, mode, pass, visited>>
  BY <1>2 DEF FinishDone, Drained, At, sources, host, Working
<1>4. /\ warp[w].count \in Nat /\ warp[w].n \in Nat
      /\ "flush" \in Working /\ "stop" \in Working
  BY <1>1 DEF WarpsTyped, WarpTyped, Working
<1>5. \E pc \in Working :
         Turns(w, pc, warp[w].b, warp[w].e, warp[w].slot, warp[w].give, warp[w].count,
               warp[w].at, warp[w].n, warp[w].buf)
  BY <1>2, <1>4 DEF FinishDone
<1> QED
  BY <1>3, <1>4, <1>5, TurnsQuiet

(* What a warp takes when it begins.                                       *)
Part(w) ==
    CASE Static -> Task(w - 1, Len(column), 0)
      [] mode.work = "queue" -> IF w = 1 THEN Task(0, Len(column), 0) ELSE NoTask
      [] mode.work = "board" -> Task(((w - 1) * Len(column)) \div W, (w * Len(column)) \div W, 0)
      [] OTHER -> NoTask
Kept(w) == IF Posting(w) THEN NoTask ELSE Part(w)

LEMMA StaticIs == Static => mode.work \in {"static", "fanout"}
  BY DEF Static

LEMMA PartIs ==
    ASSUME NEW w
    PROVE  /\ Static => Part(w) = Task(w - 1, Len(column), 0)
           /\ ~Static /\ mode.work = "queue" =>
                 Part(w) = IF w = 1 THEN Task(0, Len(column), 0) ELSE NoTask
           /\ ~Static /\ mode.work = "board" =>
                 Part(w) = Task(((w - 1) * Len(column)) \div W, (w * Len(column)) \div W, 0)
           /\ ~Static /\ mode.work \notin {"queue", "board"} => Part(w) = NoTask
<1>1. CASE Static
  BY <1>1, StaticIs, Zenon DEF Part
<1>2. CASE ~Static /\ mode.work = "queue"
  BY <1>2 DEF Part
<1>3. CASE ~Static /\ mode.work = "board"
  BY <1>3 DEF Part
<1>4. CASE ~Static /\ mode.work \notin {"queue", "board"}
  BY <1>4 DEF Part
<1> QED
  BY <1>1, <1>2, <1>3, <1>4

LEMMA TaskIs ==
    ASSUME NEW b, NEW e, NEW at
    PROVE  Task(b, e, at).b = b /\ Task(b, e, at).e = e /\ NoTask.b = 0 /\ NoTask.e = 0
  BY DEF Task, NoTask

LEMMA PartTyped ==
    ASSUME RunTyped, NEW w \in Warps
    PROVE  Part(w).b \in Nat /\ Part(w).e \in Nat
<1> DEFINE L == Len(column)
<1>1. W \in Nat \ {0} /\ w \in 1 .. W /\ w - 1 \in Nat
  BY WarpCount
<1>2. L \in Nat
  BY DEF RunTyped, Iterable
<1>3. ((w - 1) * L) \div W \in Nat /\ (w * L) \div W \in Nat
  <2>1. w - 1 \in 0 .. W /\ w \in 0 .. W
    BY <1>1
  <2> QED
    BY <1>1, <1>2, <2>1, ShareBounds
<1> HIDE DEF L
<1>4. CASE Static
  BY <1>1, <1>2, <1>4, PartIs, TaskIs DEF L
<1>5. CASE ~Static /\ mode.work = "queue"
  <2>1. Part(w) = IF w = 1 THEN Task(0, L, 0) ELSE NoTask
    BY <1>5, PartIs DEF L
  <2>2. CASE w = 1
    BY <1>2, <2>1, <2>2, TaskIs
  <2>3. CASE w # 1
    BY <2>1, <2>3, TaskIs
  <2> QED
    BY <2>2, <2>3
<1>6. CASE ~Static /\ mode.work = "board"
  BY <1>3, <1>6, PartIs, TaskIs DEF L
<1>7. CASE ~Static /\ mode.work # "queue" /\ mode.work # "board"
  BY <1>7, PartIs, TaskIs
<1> QED
  BY <1>4, <1>5, <1>6, <1>7

(* The range that a warp takes is what it was going to take.               *)
LEMMA PartIsAllotment ==
    ASSUME RunTyped, NEW w \in Warps
    PROVE  /\ Static => Allotment(Source, Len(column), w) =
                          {r \in Part(w).b .. Part(w).e - 1 : r % W = w - 1}
           /\ ~Static => Allotment(Source, Len(column), w) = Part(w).b .. Part(w).e - 1
<1> DEFINE L == Len(column)
<1>1. W \in Nat \ {0} /\ w \in 1 .. W
  BY WarpCount
<1>2. L \in Nat
  BY DEF RunTyped, Iterable
<1> HIDE DEF L
<1>3. ASSUME Static
      PROVE  Allotment(Source, L, w) = {r \in Part(w).b .. Part(w).e - 1 : r % W = w - 1}
  <2>1. Part(w).b = w - 1 /\ Part(w).e = L
    BY <1>3, PartIs, TaskIs DEF L
  <2>2. Allotment(Source, L, w) = {r \in 0 .. L - 1 : r % W = w - 1}
    BY <1>3 DEF Source, Allotment
  <2>3. ASSUME NEW r \in 0 .. L - 1, r % W = w - 1
        PROVE  r \in w - 1 .. L - 1
    <3>1. r \in Nat /\ r <= L - 1
      BY <1>2
    <3>2. r >= r % W
      BY <1>1, <3>1, Remainder
    <3> QED
      BY <1>1, <1>2, <2>3, <3>1, <3>2
  <2>4. \A r \in w - 1 .. L - 1 : r \in 0 .. L - 1
    BY <1>1, <1>2
  <2>5. {r \in 0 .. L - 1 : r % W = w - 1} = {r \in w - 1 .. L - 1 : r % W = w - 1}
    BY <2>3, <2>4, Zenon
  <2> QED
    BY <2>1, <2>2, <2>5
<1>4. ASSUME ~Static /\ mode.work = "queue"
      PROVE  Allotment(Source, L, w) = Part(w).b .. Part(w).e - 1
  <2>1. Part(w) = IF w = 1 THEN Task(0, L, 0) ELSE NoTask
    BY <1>4, PartIs DEF L
  <2>2. Allotment(Source, L, w) = IF w = 1 THEN 0 .. L - 1 ELSE {}
    BY <1>4 DEF Source, Allotment
  <2>3. CASE w = 1
    BY <1>2, <2>1, <2>2, <2>3, <1>4, TaskIs
  <2>4. CASE w # 1
    BY <2>1, <2>2, <2>4, <1>4, TaskIs
  <2> QED
    BY <2>3, <2>4
<1>5. ASSUME ~Static /\ mode.work = "board"
      PROVE  Allotment(Source, L, w) = Part(w).b .. Part(w).e - 1
  <2>1. Part(w) = Task(((w - 1) * L) \div W, (w * L) \div W, 0)
    BY <1>5, PartIs DEF L
  <2>2. Allotment(Source, L, w) = ((w - 1) * L) \div W .. ((w * L) \div W) - 1
    BY <1>5 DEF Source, Allotment
  <2> QED
    BY <1>5, <2>1, <2>2, TaskIs
<1>6. ASSUME ~Static /\ mode.work # "queue" /\ mode.work # "board"
      PROVE  Allotment(Source, L, w) = Part(w).b .. Part(w).e - 1
  <2>1. Source \notin {"stride", "queue", "board"}
    BY <1>6, ModeCases DEF Source, RunTyped, Static
  <2>2. Part(w) = NoTask
    BY <1>6, PartIs
  <2> QED
    BY <1>6, <2>1, <2>2, TaskIs DEF Allotment
<1> QED
  BY <1>3, <1>4, <1>5, <1>6 DEF L

(* The board with one more slot, and with one slot set.                    *)
LEMMA RangeAdded ==
    ASSUME BoardTyped, AddRange
    PROVE  /\ BoardTyped'
           /\ board.count >= BoardCapacity => board'.ranges = board.ranges
           /\ board.count < BoardCapacity =>
                 /\ board.count + 1 \in 1 .. BoardCapacity
                 /\ Len(board.ranges) = board.count
                 /\ board'.ranges = Append(board.ranges, Unset)
<1> DEFINE R == board.ranges
           x == Unset
<1>1. board' = [count |-> board.count + 1,
                ranges |-> IF board.count < BoardCapacity THEN Append(R, x) ELSE R]
  BY DEF AddRange
<1>2. R \in Seq([cursor : Nat, end : Nat]) /\ x \in [cursor : Nat, end : Nat]
  BY DEF BoardTyped, Unset
<1>3. board.count \in Nat /\ Len(R) = IF board.count <= BoardCapacity THEN board.count ELSE BoardCapacity
  BY DEF BoardTyped
<1>4. BoardCapacity \in Nat
  BY Sizes
<1> HIDE DEF R, x
<1>5. Append(R, x) \in Seq([cursor : Nat, end : Nat]) /\ Len(Append(R, x)) = Len(R) + 1
  BY <1>2
<1>6. DOMAIN board' = {"count", "ranges"} /\ board'.count = board.count + 1
  BY <1>1
<1>7. CASE board.count < BoardCapacity
  <2>1. board'.ranges = Append(R, x)
    BY <1>1, <1>7
  <2> QED
    BY <1>3, <1>4, <1>5, <1>6, <1>7, <2>1 DEF BoardTyped, R, x
<1>8. CASE ~(board.count < BoardCapacity)
  <2>1. board'.ranges = R
    BY <1>1, <1>8
  <2>2. Len(R) = BoardCapacity
    BY <1>3, <1>4, <1>8
  <2> QED
    BY <1>2, <1>3, <1>4, <1>6, <1>8, <2>1, <2>2 DEF BoardTyped, R
<1> QED
  BY <1>7, <1>8

LEMMA RangeSet ==
    ASSUME BoardTyped, NEW s \in 1 .. Len(board.ranges), NEW b \in Nat, NEW e \in Nat,
           SetRange(s, b, e)
    PROVE  /\ BoardTyped'
           /\ Len(board'.ranges) = Len(board.ranges)
           /\ board'.ranges[s] = [cursor |-> b, end |-> e]
           /\ \A t \in 1 .. Len(board.ranges) : t = s \/ board'.ranges[t] = board.ranges[t]
<1> DEFINE R == board.ranges
           x == [cursor |-> b, end |-> e]
           Q == [R EXCEPT ![s] = x]
           Ranges == [cursor : Nat, end : Nat]
<1>1. board' = [board EXCEPT !.ranges[s] = x]
  BY DEF SetRange
<1>2. board'.ranges = Q /\ DOMAIN board' = DOMAIN board /\ board'.count = board.count
  BY <1>1 DEF BoardTyped
<1>3. R \in Seq(Ranges) /\ Len(R) \in Nat /\ s \in 1 .. Len(R) /\ x \in Ranges
  BY DEF BoardTyped
<1> HIDE DEF R, x, Ranges
<1>4. /\ Q \in Seq(Ranges) /\ Len(Q) = Len(R) /\ Q[s] = x
      /\ \A t \in 1 .. Len(R) : t = s \/ Q[t] = R[t]
  BY <1>3
<1>5. BoardTyped'
  <2> HIDE DEF Q
  <2> QED
    BY <1>2, <1>4 DEF BoardTyped, R, Ranges
<1> QED
  BY <1>2, <1>4, <1>5 DEF R, x

BeginDone(w) ==
    /\ Shown(w, "run", Kept(w).b, Kept(w).e, warp[w].slot)
    /\ warp'[w].give = warp[w].give /\ warp'[w].n = warp[w].n /\ warp'[w].count = warp[w].count
    /\ IF Posting(w) THEN SetRange(warp[w].n, Part(w).b, Part(w).e) ELSE UNCHANGED board
    /\ At(w, "start") /\ (mode.work = "board" => warp[w].n > 0)
    /\ UNCHANGED <<column, queue, mode, pass, visited>>

LEMMA BeginDoes ==
    ASSUME WarpsTyped, NEW w \in Warps, Begin(w)
    PROVE  BeginDone(w)
<1>1. /\ Shown(w, "run", Kept(w).b, Kept(w).e, warp[w].slot)
      /\ warp'[w].give = warp[w].give /\ warp'[w].n = warp[w].n
      /\ warp'[w].count = warp[w].count
      /\ IF Posting(w) THEN SetRange(warp[w].n, Part(w).b, Part(w).e) ELSE UNCHANGED board
      /\ At(w, "start") /\ (mode.work = "board" => warp[w].n > 0)
      /\ UNCHANGED <<column, queue, outputs, host, total, visited>>
  BY BeginEffect, Zenon DEF Kept, Part
<1> QED
  BY <1>1 DEF BeginDone, host

(* Which of the rows are still the warp's own when it has begun.           *)
LEMMA KeptRows ==
    ASSUME RunTyped, Frame, NEW w \in Warps, BeginDone(w),
           ~Posting(w)
    PROVE  Held(w)' = Held(w)
<1>1. /\ warp[w].pc = "start" /\ warp'[w].pc = "run"
      /\ warp'[w].b = Part(w).b /\ warp'[w].e = Part(w).e
  BY DEF BeginDone, At, Shown, Kept
<1>2. Held(w) = Allotment(Source, Len(column), w)
  BY <1>1 DEF Held
<1>3. CASE Static
  <2>1. Held(w)' = Strided(w)'
    BY <1>1, <1>3, HeldNow
  <2> QED
    BY <1>1, <1>2, <1>3, <2>1, PartIsAllotment DEF Strided, Span
<1>4. CASE ~Static
  <2>1. Held(w)' = Span(warp'[w])
    BY <1>1, <1>4, HeldNow
  <2> QED
    BY <1>1, <1>2, <1>4, <2>1, PartIsAllotment DEF Span
<1> QED
  BY <1>3, <1>4

(* A slot of the board that a warp has announced and not set yet is its    *)
(* own.                                                                    *)
Owns(w) == warp[w].pc = "start" /\ warp[w].n > 0 /\ warp[w].n <= BoardCapacity
Announced ==
    mode.work = "board" => \A w \in Warps : Owns(w) =>
        /\ warp[w].n \in 1 .. Len(board.ranges)
        /\ board.ranges[warp[w].n] = Unset
        /\ \A v \in Warps : v # w /\ warp[v].pc = "start" => warp[v].n # warp[w].n

LEMMA BeginStep ==
    ASSUME WorkInv, Announced, NEW w \in Warps, Begin(w)
    PROVE  WorkInv'
<1>a. /\ WorkTyped /\ Phases /\ Strides /\ Ticketed /\ Unused /\ Fanned /\ FanHeld /\ Shared
  BY DEF WorkInv
<1>b. RunTyped /\ WarpsTyped /\ QueueTyped /\ BoardTyped
  BY <1>a DEF WorkTyped
<1>0. BeginDone(w)
  BY <1>b, BeginDoes
<1>c. /\ Alone(w) /\ Frame /\ pass # "done" /\ warp[w].pc = "start" /\ warp'[w].pc = "run"
      /\ warp'[w].b = Kept(w).b /\ warp'[w].e = Kept(w).e /\ warp'[w].slot = warp[w].slot
      /\ DOMAIN warp'[w] = Fields
      /\ warp'[w].give = warp[w].give /\ warp'[w].n = warp[w].n /\ warp'[w].count = warp[w].count
      /\ queue' = queue /\ visited' = visited /\ mode' = mode /\ pass' = pass
  BY <1>0 DEF BeginDone, Shown, Frame, At
<1>d. ~Posting(w) => board' = board
  BY <1>0 DEF BeginDone
<1>e. Part(w).b \in Nat /\ Part(w).e \in Nat
  BY <1>b, PartTyped
<1>f. Kept(w).b \in Nat /\ Kept(w).e \in Nat
  BY <1>e, TaskIs DEF Kept
<1>g. Idle(warp[w]) /\ Idle(warp'[w])
  BY <1>c DEF Idle, Giving
<1>h. Posting(w) =>
        /\ warp[w].n \in 1 .. Len(board.ranges) /\ warp[w].n \in 1 .. BoardCapacity
        /\ board.ranges[warp[w].n] = Unset /\ mode.work = "board"
        /\ BoardTyped' /\ Len(board'.ranges) = Len(board.ranges)
        /\ board'.ranges[warp[w].n] = [cursor |-> Part(w).b, end |-> Part(w).e]
        /\ \A t \in 1 .. Len(board.ranges) : t = warp[w].n \/ board'.ranges[t] = board.ranges[t]
  <2> SUFFICES ASSUME Posting(w)
               PROVE  /\ warp[w].n \in 1 .. Len(board.ranges) /\ warp[w].n \in 1 .. BoardCapacity
                      /\ board.ranges[warp[w].n] = Unset /\ mode.work = "board"
                      /\ BoardTyped' /\ Len(board'.ranges) = Len(board.ranges)
                      /\ board'.ranges[warp[w].n] = [cursor |-> Part(w).b, end |-> Part(w).e]
                      /\ \A t \in 1 .. Len(board.ranges) :
                            t = warp[w].n \/ board'.ranges[t] = board.ranges[t]
    OBVIOUS
  <2>1. /\ mode.work = "board" /\ warp[w].n > 0 /\ warp[w].n <= BoardCapacity
        /\ SetRange(warp[w].n, Part(w).b, Part(w).e)
    BY <1>0 DEF BeginDone, Posting
  <2>2. Owns(w)
    BY <1>c, <2>1 DEF Owns
  <2>3. warp[w].n \in 1 .. Len(board.ranges) /\ board.ranges[warp[w].n] = Unset
    BY <2>1, <2>2 DEF Announced
  <2>4. warp[w].n \in 1 .. BoardCapacity
    BY <1>b, <2>1, Sizes DEF WarpsTyped, WarpTyped
  <2> QED
    BY <1>b, <1>e, <2>1, <2>3, <2>4, RangeSet
<1>1. WorkTyped'
  <2>1. WarpTyped(warp[w])
    BY <1>b DEF WarpsTyped
  <2>2. WarpTyped(warp'[w])
    BY <1>c, <1>f, <2>1 DEF WarpTyped, Pcs, Working
  <2>3. BoardTyped'
    BY <1>b, <1>d, <1>h, BoardTypeKept
  <2> QED
    BY <1>b, <1>c, <2>2, <2>3, RunKept, TypedTurn, QueueTypeKept DEF WorkTyped
<1>2. Phases'
  BY <1>a, <1>c, <1>g, PhasesKept DEF Idle
<1>3. Strides'
  <2>1. Static => warp'[w].b % W = w - 1 /\ warp'[w].e = Len(column)
    <3> SUFFICES ASSUME Static
                 PROVE  warp'[w].b % W = w - 1 /\ warp'[w].e = Len(column)
      OBVIOUS
    <3>1. Kept(w) = Task(w - 1, Len(column), 0)
      BY StaticIs, PartIs DEF Kept, Posting
    <3>2. warp'[w].b = w - 1 /\ warp'[w].e = Len(column)
      BY <1>c, <3>1, TaskIs
    <3>3. W \in Nat \ {0} /\ w - 1 \in 0 .. W - 1
      BY WarpCount
    <3> QED
      BY <3>2, <3>3, SmallRemainder
  <2> QED
    BY <1>a, <1>c, <2>1, StridesKept
<1>4. Ticketed'
  BY <1>a, <1>c, <1>g, TicketsKept
<1>5. Unused'
  BY <1>a, <1>c, <1>d, UnusedKept DEF Posting
<1>6. Fanned'
  BY <1>a, <1>c, FannedKept
<1>7. FanHeld'
  BY <1>a, <1>c DEF FanHeld
<1>8. Shared'
  <2>1. \A v \in Warps : v = w \/ (Held(v)' = Held(v) /\ Offered(v)' = Offered(v))
    BY <1>c, HeldKept DEF Alone, Others
  <2>2. Offered(w)' = {} /\ Offered(w) = {}
    BY <1>c DEF Offered, Giving
  <2>3. \A v \in Warps : Offered(v)' = Offered(v)
    BY <2>1, <2>2
  <2>4. \A s \in Slots : Queued(s)' = Queued(s)
    <3> SUFFICES ASSUME NEW s \in Slots
                 PROVE  Queued(s)' = Queued(s)
      OBVIOUS
    <3>1. Awaited(s)' <=> Awaited(s)
      BY <1>c, AwaitedKept
    <3> QED
      BY <1>c, <3>1, QueuedKept
  <2>5. AllRows' = AllRows
    BY <1>c, FrameSource
  <2>6. ASSUME ~Posting(w)
        PROVE  Shared'
    <3>1. Held(w)' = Held(w)
      BY <1>0, <1>b, <1>c, <2>6, KeptRows
    <3>2. \A s \in 1 .. BoardCapacity : OnBoard(s)' = OnBoard(s)
      BY <1>d, <2>6, PostedKept
    <3> QED
      BY <1>a, <1>c, <2>1, <2>3, <2>4, <2>5, <3>1, <3>2, SharesSame
  <2>7. ASSUME Posting(w)
        PROVE  Shared'
    <3>0. PICK s : s = warp[w].n
      OBVIOUS
    <3> DEFINE x == [cursor |-> Part(w).b, end |-> Part(w).e]
               R == board.ranges
    <3>1. /\ s \in 1 .. BoardCapacity /\ s \in 1 .. Len(R)
          /\ R \in Seq([cursor : Nat, end : Nat])
          /\ DOMAIN board'.ranges = DOMAIN R /\ DOMAIN R = 1 .. Len(R)
          /\ board'.ranges[s] = x /\ R[s] = Unset
          /\ \A t \in 1 .. Len(R) : t = s \/ board'.ranges[t] = R[t]
      BY <1>b, <1>h, <2>7, <3>0 DEF BoardTyped
    <3>2. ~Static /\ Kept(w) = NoTask
      BY <1>h, <2>7, StaticIs DEF Kept
    <3>3. Held(w) = Part(w).b .. Part(w).e - 1
      BY <1>b, <1>c, <3>2, PartIsAllotment DEF Held
    <3>4. Held(w)' = {}
      <4>1. Held(w)' = Span(warp'[w])
        BY <1>c, <3>2, HeldNow
      <4> QED
        BY <1>c, <3>2, <4>1, TaskIs DEF Span
    <3>5. OnBoard(s) = {}
      BY <3>1 DEF OnBoard, Posted, Unset
    <3>6. OnBoard(s)' = Part(w).b .. Part(w).e - 1
      BY <3>1 DEF OnBoard, Posted
    <3>7. \A t \in 1 .. BoardCapacity : t = s \/ OnBoard(t)' = OnBoard(t)
      BY <3>1 DEF OnBoard, Posted
    <3>8. /\ Held(w)' \cup OnBoard(s)' = Held(w) \cup OnBoard(s)
          /\ Held(w)' \cap OnBoard(s)' = {}
      BY <3>3, <3>4, <3>5, <3>6
    <3> QED
      BY <1>a, <1>c, <2>1, <2>3, <2>4, <2>5, <3>1, <3>7, <3>8, HeldAndPosted
  <2> QED
    BY <2>6, <2>7
<1> QED
  BY <1>1, <1>2, <1>3, <1>4, <1>5, <1>6, <1>7, <1>8 DEF WorkInv

(* A slot that is only announced holds no rows.                            *)
LEMMA AnnounceStep ==
    ASSUME WorkInv, NEW w \in Warps, Announce(w)
    PROVE  WorkInv'
<1>a. /\ WorkTyped /\ Phases /\ Strides /\ Ticketed /\ Unused /\ Fanned /\ FanHeld /\ Shared
  BY DEF WorkInv
<1>b. RunTyped /\ WarpsTyped /\ QueueTyped /\ BoardTyped
  BY <1>a DEF WorkTyped
<1>0. AnnounceDone(w)
  BY <1>b, AnnounceEffect
<1>c. /\ Frame /\ pass # "done" /\ mode.work = "board" /\ AddRange
      /\ warp[w].pc = "start" /\ warp'[w].pc = "start" /\ Alone(w)
      /\ queue' = queue /\ visited' = visited /\ mode' = mode /\ pass' = pass
  BY <1>0 DEF AnnounceDone, Turns, IsWarp, At, Frame, host
<1>d. WarpTyped(warp'[w])
  <2>1. WarpTyped(warp[w]) /\ board.count + 1 \in Nat
    BY <1>b DEF WarpsTyped, BoardTyped
  <2>2. "start" \in Pcs
    BY DEF Pcs
  <2> QED
    BY <1>0, <1>b, <2>1, <2>2, TurnTyped DEF AnnounceDone, WarpTyped
<1>g. Idle(warp[w]) /\ Idle(warp'[w])
  BY <1>c DEF Idle, Giving
<1>h. /\ BoardTyped'
      /\ board.count >= BoardCapacity => board'.ranges = board.ranges
      /\ board.count < BoardCapacity =>
            /\ Len(board.ranges) = board.count
            /\ board'.ranges = Append(board.ranges, Unset)
  BY <1>b, <1>c, RangeAdded
<1>1. WorkTyped'
  BY <1>b, <1>c, <1>d, <1>h, RunKept, TypedTurn, QueueTypeKept DEF WorkTyped
<1>2. Phases'
  BY <1>a, <1>c, <1>g, PhasesKept DEF Idle
<1>3. Strides'
  BY <1>a, <1>c, StridesKept
<1>4. Ticketed'
  BY <1>c, NoTickets
<1>5. Unused'
  BY <1>a, <1>c, UnusedKept
<1>6. Fanned'
  BY <1>c, FannedBeside DEF BesideFan
<1>7. FanHeld'
  BY <1>a, <1>c DEF FanHeld
<1>8. Shared'
  <2>1. \A v \in Warps : v = w \/ (Held(v)' = Held(v) /\ Offered(v)' = Offered(v))
    BY <1>c, HeldKept DEF Alone, Others
  <2>2. Held(w)' = Held(w)
    <3>1. Source' = Source /\ column' = column
      BY <1>c, FrameSource DEF Frame
    <3> QED
      BY <1>c, <3>1 DEF Held
  <2>3. Offered(w)' = Offered(w)
    BY <1>c DEF Offered, Giving
  <2>4. \A s \in Slots : Queued(s)' = Queued(s)
    <3> SUFFICES ASSUME NEW s \in Slots
                 PROVE  Queued(s)' = Queued(s)
      OBVIOUS
    <3>1. Awaited(s)' <=> Awaited(s)
      BY <1>c, AwaitedKept
    <3> QED
      BY <1>c, <3>1, QueuedKept
  <2>5. AllRows' = AllRows
    BY <1>c, FrameSource
  <2>6. \A t \in 1 .. BoardCapacity : OnBoard(t)' = OnBoard(t)
    <3>1. CASE board.count >= BoardCapacity
      BY <1>h, <3>1 DEF OnBoard, Posted
    <3>2. CASE ~(board.count >= BoardCapacity)
      <4> SUFFICES ASSUME NEW t \in 1 .. BoardCapacity
                   PROVE  OnBoard(t)' = OnBoard(t)
        OBVIOUS
      <4> DEFINE R == board.ranges
      <4>1. /\ R \in Seq([cursor : Nat, end : Nat]) /\ Len(R) \in Nat
            /\ board'.ranges = Append(R, Unset)
        BY <1>b, <1>h, <3>2, Sizes DEF BoardTyped
      <4>2. CASE t \in 1 .. Len(R)
        <5>1. t \in DOMAIN R /\ t \in DOMAIN board'.ranges /\ board'.ranges[t] = R[t]
          BY <4>1, <4>2
        <5> QED
          BY <5>1 DEF OnBoard, Posted
      <4>3. CASE t = Len(R) + 1
        <5>1. t \notin DOMAIN R /\ t \in DOMAIN board'.ranges /\ board'.ranges[t] = Unset
          BY <4>1, <4>3
        <5> QED
          BY <5>1 DEF OnBoard, Posted, Unset
      <4>4. CASE t \notin 1 .. Len(R) + 1
        <5>1. t \notin DOMAIN R /\ t \notin DOMAIN board'.ranges
          BY <4>1, <4>4
        <5> QED
          BY <5>1 DEF OnBoard
      <4> QED
        BY <4>1, <4>2, <4>3, <4>4
    <3> QED
      BY <3>1, <3>2
  <2> QED
    BY <1>a, <1>c, <2>1, <2>2, <2>3, <2>4, <2>5, <2>6, SharesSame
<1> QED
  BY <1>1, <1>2, <1>3, <1>4, <1>5, <1>6, <1>7, <1>8 DEF WorkInv

LEMMA MinOfTwo ==
    ASSUME NEW x \in Nat, NEW y \in Nat
    PROVE  Min({x, y}) = IF x <= y THEN x ELSE y
<1>1. Min({x, y}) \in {x, y} /\ \A z \in {x, y} : Min({x, y}) <= z
  <2>1. \E z \in {x, y} : \A t \in {x, y} : z <= t
    BY SMT
  <2> QED
    BY <2>1 DEF Min
<1> QED
  BY <1>1

LEMMA BoardGrabbed ==
    ASSUME BoardTyped, NEW s \in 1 .. Len(board.ranges), Grab(s)
    PROVE  /\ BoardTyped'
           /\ Len(board'.ranges) = Len(board.ranges)
           /\ board'.ranges[s].cursor = board.ranges[s].cursor + GrabSize
           /\ board'.ranges[s].end = board.ranges[s].end
           /\ \A t \in 1 .. Len(board.ranges) : t = s \/ board'.ranges[t] = board.ranges[t]
<1> DEFINE R == board.ranges
           Q == [R EXCEPT ![s].cursor = @ + GrabSize]
           Ranges == [cursor : Nat, end : Nat]
<1>1. board' = [board EXCEPT !.ranges[s].cursor = @ + GrabSize]
  BY DEF Grab
<1>2. board'.ranges = Q /\ DOMAIN board' = DOMAIN board /\ board'.count = board.count
  BY <1>1 DEF BoardTyped
<1>3. R \in Seq(Ranges) /\ Len(R) \in Nat /\ s \in 1 .. Len(R) /\ DOMAIN R = 1 .. Len(R)
  BY DEF BoardTyped
<1>4. GrabSize \in Nat
  BY Sizes
<1> HIDE DEF R
<1>5. R[s] \in Ranges
  <2> HIDE DEF Ranges
  <2> QED
    BY <1>3
<1> DEFINE r == [R[s] EXCEPT !.cursor = @ + GrabSize]
<1>6. /\ DOMAIN Q = DOMAIN R /\ Q[s] = r
      /\ r = [cursor |-> R[s].cursor + GrabSize, end |-> R[s].end]
  <2>1. Q = [R EXCEPT ![s] = r]
    OBVIOUS
  <2>2. r = [cursor |-> R[s].cursor + GrabSize, end |-> R[s].end]
    BY <1>5
  <2> HIDE DEF r, Q
  <2> QED
    BY <1>3, <2>1, <2>2
<1>7. Q[s] \in Ranges /\ Q[s].cursor = R[s].cursor + GrabSize /\ Q[s].end = R[s].end
  <2> HIDE DEF Q, r
  <2> QED
    BY <1>4, <1>5, <1>6
<1> HIDE DEF r
<1>8. \A t \in 1 .. Len(R) : t = s \/ Q[t] = R[t]
  <2>1. Q = [R EXCEPT ![s] = r]
    BY DEF r
  <2> HIDE DEF Q
  <2> QED
    BY <1>3, <2>1
<1>9. Q \in Seq(Ranges) /\ Len(Q) = Len(R)
  <2>1. \A t \in 1 .. Len(R) : Q[t] \in Ranges
    <3> HIDE DEF Q, Ranges
    <3> QED
      BY <1>3, <1>7, <1>8
  <2>2. Q \in [1 .. Len(R) -> Ranges]
    <3>1. Q = [t \in 1 .. Len(R) |-> Q[t]]
      <4>1. Q = [R EXCEPT ![s] = r]
        BY DEF r
      <4> HIDE DEF Q, r
      <4> QED
        BY <1>3, <4>1
    <3> HIDE DEF Q, Ranges
    <3> QED
      BY <2>1, <3>1
  <2> HIDE DEF Q, Ranges
  <2> QED
    BY <1>3, <2>2
<1>10. BoardTyped'
  <2> HIDE DEF Q
  <2> QED
    BY <1>2, <1>9 DEF BoardTyped, R
<1> QED
  BY <1>2, <1>7, <1>8, <1>9, <1>10 DEF R

LEMMA GrabStep ==
    ASSUME WorkInv, NEW w \in Warps, GrabRange(w)
    PROVE  WorkInv'
<1>a. /\ WorkTyped /\ Phases /\ Strides /\ Ticketed /\ Unused /\ Fanned /\ FanHeld /\ Shared
  BY DEF WorkInv
<1>b. RunTyped /\ WarpsTyped /\ QueueTyped /\ BoardTyped
  BY <1>a DEF WorkTyped
<1>0. GrabDone(w)
  BY <1>b, GrabEffect
<1>s. PICK s : s = warp[w].slot + 1
  OBVIOUS
<1>c. /\ Frame /\ pass # "done" /\ mode.work = "board" /\ ~Static /\ BesideFan
      /\ warp[w].pc = "run" /\ warp[w].b >= warp[w].e
      /\ queue' = queue /\ visited' = visited /\ mode' = mode /\ pass' = pass
      /\ Grab(s) /\ s <= Len(board.ranges)
  BY <1>0, <1>s DEF GrabDone, Drained, At, Frame, Static, BesideFan, host, outputs
<1>e. /\ warp[w].b \in Nat /\ warp[w].e \in Nat /\ warp[w].count \in Nat /\ warp[w].n \in Nat
      /\ warp[w].slot \in Nat /\ TaskTyped(warp[w].give)
  BY <1>b DEF WarpsTyped, WarpTyped
<1>f. /\ s \in 1 .. Len(board.ranges) /\ s \in 1 .. BoardCapacity /\ s \in Nat
      /\ board.ranges[s].cursor \in Nat /\ board.ranges[s].end \in Nat
  <2>1. board.count \in Nat /\ Len(board.ranges) <= BoardCapacity /\ Len(board.ranges) \in Nat
    BY <1>b, Sizes DEF BoardTyped
  <2>2. s \in 1 .. Len(board.ranges) /\ s \in 1 .. BoardCapacity /\ s \in Nat
    BY <1>c, <1>e, <1>s, <2>1, Sizes
  <2>3. board.ranges[s] \in [cursor : Nat, end : Nat]
    <3> DEFINE Ranges == [cursor : Nat, end : Nat]
    <3>1. board.ranges \in Seq(Ranges)
      BY <1>b DEF BoardTyped
    <3> HIDE DEF Ranges
    <3>2. board.ranges[s] \in Ranges
      BY <2>2, <3>1
    <3> QED
      BY <3>2 DEF Ranges
  <2> QED
    BY <2>2, <2>3
<1>g. \/ /\ Exhausted(s)
         /\ Turns(w, "run", warp[w].b, warp[w].e, s, warp[w].give, warp[w].count,
                  warp[w].at, warp[w].n, warp[w].buf)
      \/ /\ ~Exhausted(s)
         /\ Turns(w, "run", Grabbed(s).b, Grabbed(s).e, warp[w].slot, warp[w].give,
                  warp[w].count, warp[w].at, warp[w].n, warp[w].buf)
  BY <1>0, <1>s DEF GrabDone
<1> DEFINE c == board.ranges[s].cursor
           d == board.ranges[s].end
           m == IF c + GrabSize <= d THEN c + GrabSize ELSE d
<1>h. c \in Nat /\ d \in Nat /\ GrabSize \in Nat \ {0}
  BY <1>f, Sizes
<1>i. Grabbed(s).b = c /\ Grabbed(s).e = m
  BY <1>h, MinOfTwo DEF Grabbed, Task
<1>j. Exhausted(s) <=> c >= d
  BY DEF Exhausted
<1>k. /\ BoardTyped' /\ Len(board'.ranges) = Len(board.ranges)
      /\ board'.ranges[s].cursor = c + GrabSize /\ board'.ranges[s].end = d
      /\ \A t \in 1 .. Len(board.ranges) : t = s \/ board'.ranges[t] = board.ranges[t]
  BY <1>b, <1>c, <1>f, BoardGrabbed
<1> HIDE DEF c, d
<1>l. m \in Nat
  BY <1>h
<1> HIDE DEF m
<1>m. /\ Alone(w) /\ WarpTyped(warp'[w]) /\ warp'[w].pc = "run"
      /\ \/ c >= d /\ warp'[w].b = warp[w].b /\ warp'[w].e = warp[w].e
         \/ ~(c >= d) /\ warp'[w].b = c /\ warp'[w].e = m
  <2>1. ASSUME Exhausted(s),
               Turns(w, "run", warp[w].b, warp[w].e, s, warp[w].give, warp[w].count,
                     warp[w].at, warp[w].n, warp[w].buf)
        PROVE  /\ Alone(w) /\ WarpTyped(warp'[w]) /\ warp'[w].pc = "run"
               /\ c >= d /\ warp'[w].b = warp[w].b /\ warp'[w].e = warp[w].e
    <3>1. "run" \in Pcs
      BY DEF Pcs, Working
    <3>2. WarpTyped(warp'[w])
      BY <1>b, <1>e, <1>f, <2>1, <3>1, TurnTyped
    <3> QED
      BY <1>j, <2>1, <3>2 DEF Turns, IsWarp
  <2>2. ASSUME ~Exhausted(s),
               Turns(w, "run", Grabbed(s).b, Grabbed(s).e, warp[w].slot, warp[w].give,
                     warp[w].count, warp[w].at, warp[w].n, warp[w].buf)
        PROVE  /\ Alone(w) /\ WarpTyped(warp'[w]) /\ warp'[w].pc = "run"
               /\ ~(c >= d) /\ warp'[w].b = c /\ warp'[w].e = m
    <3>1. "run" \in Pcs
      BY DEF Pcs, Working
    <3>2. Turns(w, "run", c, m, warp[w].slot, warp[w].give,
                warp[w].count, warp[w].at, warp[w].n, warp[w].buf)
      BY <1>i, <2>2
    <3>3. WarpTyped(warp'[w])
      BY <1>b, <1>e, <1>h, <1>l, <3>1, <3>2, TurnTyped
    <3> QED
      BY <1>j, <2>2, <3>2, <3>3 DEF Turns, IsWarp
  <2> QED
    BY <1>g, <2>1, <2>2
<1>n. Idle(warp[w]) /\ Idle(warp'[w])
  BY <1>c, <1>m DEF Idle, Giving
<1>1. WorkTyped'
  BY <1>b, <1>c, <1>k, <1>m, RunKept, TypedTurn, QueueTypeKept DEF WorkTyped
<1>2. Phases'
  BY <1>a, <1>c, <1>m, <1>n, PhasesKept DEF Idle
<1>3. Strides'
  BY <1>a, <1>c, <1>m, StridesKept
<1>4. Ticketed'
  BY <1>c, NoTickets
<1>5. Unused'
  BY <1>a, <1>c, UnusedKept
<1>6. Fanned'
  BY <1>c, FannedBeside
<1>7. FanHeld'
  BY <1>a, <1>c DEF FanHeld
<1>8. Shared'
  <2>1. \A v \in Warps : v = w \/ (Held(v)' = Held(v) /\ Offered(v)' = Offered(v))
    BY <1>c, <1>m, HeldKept DEF Alone, Others
  <2>2. Offered(w)' = {} /\ Offered(w) = {}
    BY <1>c, <1>m DEF Offered, Giving
  <2>3. \A v \in Warps : Offered(v)' = Offered(v)
    BY <2>1, <2>2
  <2>4. \A t \in Slots : Queued(t)' = Queued(t)
    <3> SUFFICES ASSUME NEW t \in Slots
                 PROVE  Queued(t)' = Queued(t)
      OBVIOUS
    <3>1. Awaited(t)' <=> Awaited(t)
      BY <1>c, <1>m, AwaitedKept
    <3> QED
      BY <1>c, <3>1, QueuedKept
  <2>5. AllRows' = AllRows
    BY <1>c, FrameSource
  <2>6. Held(w) = {}
    BY <1>c, <1>e, HeldIs DEF Span
  <2>7. Held(w)' = IF c >= d THEN {} ELSE c .. m - 1
    BY <1>c, <1>e, <1>m, HeldNow DEF Span
  <2>8. OnBoard(s) = c .. d - 1
    BY <1>f DEF OnBoard, Posted, c, d
  <2>9. OnBoard(s)' = c + GrabSize .. d - 1
    BY <1>f, <1>k DEF OnBoard, Posted
  <2>10. \A t \in 1 .. BoardCapacity : t = s \/ OnBoard(t)' = OnBoard(t)
    <3> SUFFICES ASSUME NEW t \in 1 .. BoardCapacity, t # s
                 PROVE  OnBoard(t)' = OnBoard(t)
      OBVIOUS
    <3>1. DOMAIN board'.ranges = DOMAIN board.ranges /\ DOMAIN board.ranges = 1 .. Len(board.ranges)
      BY <1>b, <1>k DEF BoardTyped
    <3>2. t \in DOMAIN board.ranges => board'.ranges[t] = board.ranges[t]
      BY <1>k, <3>1
    <3> QED
      BY <3>1, <3>2 DEF OnBoard, Posted
  <2>11. /\ Held(w)' \cup OnBoard(s)' = Held(w) \cup OnBoard(s)
         /\ Held(w)' \cap OnBoard(s)' = {}
    <3> DEFINE H == Held(w)'
               B == OnBoard(s)'
    <3>1. H = (IF c >= d THEN {} ELSE c .. m - 1) /\ B = c + GrabSize .. d - 1
      BY <2>7, <2>9
    <3> HIDE DEF H, B
    <3>2. H \cup B = c .. d - 1 /\ H \cap B = {}
      BY <1>h, <3>1 DEF m
    <3> QED
      BY <2>6, <2>8, <3>2 DEF H, B
  <2> QED
    BY <1>a, <1>c, <1>f, <2>1, <2>3, <2>4, <2>5, <2>10, <2>11, HeldAndPosted
<1> QED
  BY <1>1, <1>2, <1>3, <1>4, <1>5, <1>6, <1>7, <1>8 DEF WorkInv

(* The chunks of a row cover its flat rows.                                *)
LEMMA ChunksCover ==
    /\ ChunksPerRow \in Nat \ {0}
    /\ FanDegree <= ChunksPerRow * FanChunk
    /\ \A k \in Nat : k * FanChunk < FanDegree => k < ChunksPerRow
<1> DEFINE C == FanChunk
           D == FanDegree
           q == (D + C - 1) \div C
           m == (D + C - 1) % C
<1>1. C \in Nat \ {0} /\ D \in Nat \ {0}
  BY Sizes
<1>2. D + C - 1 \in Nat
  BY <1>1
<1>3. q \in Nat /\ m \in 0 .. C - 1 /\ D + C - 1 = C * q + m
  BY <1>1, <1>2, DivMod
<1>4. ChunksPerRow = q
  BY DEF ChunksPerRow
<1> HIDE DEF q, m, C, D
<1>5. C * q \in Nat /\ D <= C * q /\ q * C = C * q
  BY <1>1, <1>3
<1>6. q # 0
  BY <1>1, <1>3
<1>7. ASSUME NEW k \in Nat, k * C < D
      PROVE  k < q
  <2> SUFFICES ASSUME q <= k
               PROVE  FALSE
    BY <1>3, <1>7
  <2>1. q * C <= k * C
    BY <1>1, <1>3
  <2> QED
    BY <1>1, <1>3, <1>5, <1>7, <2>1
<1> QED
  BY <1>3, <1>4, <1>5, <1>6, <1>7 DEF C, D

(* The chunks have different numbers, all below what the queue holds.      *)
LEMMA ChunkNumber ==
    ASSUME NEW l \in Nat, NEW q \in Nat \ {0}, NEW r \in 0 .. l - 1, NEW k \in 0 .. q - 1
    PROVE  r * q + k \in 0 .. l * q - 1
<1>1. r \in Nat /\ r + 1 <= l
  OBVIOUS
<1>2. (r + 1) * q <= l * q
  BY <1>1
<1>3. (r + 1) * q = r * q + q /\ r * q \in Nat /\ l * q \in Nat
  BY <1>1
<1> QED
  BY <1>2, <1>3

LEMMA FewChunks ==
    ASSUME NEW l \in Nat, NEW n \in Nat, NEW f,
           \A s \in 0 .. n :
               \E r \in 0 .. l - 1, k \in 0 .. ChunksPerRow - 1 : f[s] = Chunk(r, k),
           \A s, t \in 0 .. n : f[s] = f[t] => s = t
    PROVE  n < l * ChunksPerRow
<1> DEFINE q == ChunksPerRow
           Names(s, x) == \E r \in 0 .. l - 1, k \in 0 .. q - 1 :
                              f[s] = Chunk(r, k) /\ x = r * q + k
           g == [s \in 0 .. n |-> CHOOSE x \in 0 .. l * q - 1 : Names(s, x)]
<1>1. q \in Nat \ {0}
  BY ChunksCover
<1> HIDE DEF q
<1>2. l * q \in Nat
  BY <1>1
<1>3. \A s \in 0 .. n : \E x \in 0 .. l * q - 1 : Names(s, x)
  <2> SUFFICES ASSUME NEW s \in 0 .. n
               PROVE  \E x \in 0 .. l * q - 1 : Names(s, x)
    OBVIOUS
  <2>1. PICK r \in 0 .. l - 1, k \in 0 .. q - 1 : f[s] = Chunk(r, k)
    BY DEF q
  <2>2. r * q + k \in 0 .. l * q - 1
    BY <1>1, ChunkNumber
  <2> QED
    BY <2>1, <2>2
<1>4. ASSUME NEW s \in 0 .. n, NEW t \in 0 .. n, NEW x, Names(s, x), Names(t, x)
      PROVE  s = t
  <2>1. PICK r \in 0 .. l - 1, k \in 0 .. q - 1 : f[s] = Chunk(r, k) /\ x = r * q + k
    BY <1>4
  <2>2. PICK p \in 0 .. l - 1, j \in 0 .. q - 1 : f[t] = Chunk(p, j) /\ x = p * q + j
    BY <1>4
  <2>3. r \in Nat /\ p \in Nat /\ q * r = r * q /\ q * p = p * q
    BY <1>1
  <2>4. q * r + k = q * p + j
    BY <2>1, <2>2, <2>3
  <2>5. r = p /\ k = j
    BY <1>1, <2>3, <2>4, SameQuotient
  <2> QED
    BY <2>1, <2>2, <2>5
<1> HIDE DEF Names
<1>5. \A s \in 0 .. n : g[s] \in 0 .. l * q - 1 /\ Names(s, g[s])
  BY <1>3
<1> SUFFICES ASSUME ~(n < l * q)
             PROVE  FALSE
  BY DEF q
<1>6. g \in [0 .. n -> 0 .. l * q - 1]
  BY <1>5
<1> HIDE DEF g
<1>s. PICK S, T : S = 0 .. n /\ T = 0 .. l * q - 1
  OBVIOUS
<1>7. /\ IsFiniteSet(S) /\ Cardinality(S) = n + 1
      /\ IsFiniteSet(T) /\ Cardinality(T) = l * q
  <2>0. PICK m : m = l * q
    OBVIOUS
  <2>1. m - 1 \in Int /\ (IF 0 > m - 1 THEN 0 ELSE (m - 1) - 0 + 1) = m
    BY <1>2, <2>0
  <2>2. IsFiniteSet(0 .. m - 1) /\ Cardinality(0 .. m - 1) = m
    BY <2>1, FS_Interval
  <2>3. (IF 0 > n THEN 0 ELSE n - 0 + 1) = n + 1
    OBVIOUS
  <2>4. IsFiniteSet(0 .. n) /\ Cardinality(0 .. n) = n + 1
    BY <2>3, FS_Interval
  <2> QED
    BY <1>s, <2>0, <2>2, <2>4
<1>8. Cardinality(T) < Cardinality(S)
  <2>1. l * q < n + 1
    BY <1>2
  <2> QED
    BY <1>7, <2>1
<1>9. \E s, t \in S : s # t /\ g[s] = g[t]
  <2>1. g \in [S -> T]
    BY <1>6, <1>s
  <2> QED
    BY <1>7, <1>8, <2>1, FS_PigeonHole
<1> QED
  BY <1>4, <1>5, <1>9, <1>s

(* The rows of a stride, but for its first.                                *)
LEMMA StrideRest ==
    ASSUME NEW d \in Nat \ {0}, NEW b \in Nat, NEW e \in Nat
    PROVE  {r \in b + d .. e - 1 : r % d = b % d} = {r \in b .. e - 1 : r % d = b % d} \ {b}
<1>1. ASSUME NEW r \in b .. e - 1, r % d = b % d, r # b
      PROVE  r \in b + d .. e - 1
  <2>1. r \in Nat /\ b < r
    BY <1>1
  <2>2. ~(r < b + d)
    BY <1>1, <2>1, StrideGap
  <2> QED
    BY <1>1, <2>1, <2>2
<1>2. ASSUME NEW r \in b + d .. e - 1
      PROVE  r \in b .. e - 1 /\ r # b
  BY <1>2
<1> QED
  BY <1>1, <1>2, Zenon

(* The family of the flat rows, before and after a step.                   *)
FlatHas(F, n, B, H, Q) ==
    /\ \A r \in 0 .. n - 1 : F[<<"below", r>>] = B[r]
    /\ \A w \in Warps : F[<<"left", w>>] = H[w]
    /\ \A s \in Slots : F[<<"pushed", s>>] = Q[s]
FlatPlacesOf(K, n) ==
    /\ \A r \in 0 .. n - 1 : <<"below", r>> \in K
    /\ \A w \in Warps : <<"left", w>> \in K
    /\ \A s \in Slots : <<"pushed", s>> \in K
    /\ \A p \in K : \/ \E r \in 0 .. n - 1 : p = <<"below", r>>
                    \/ \E w \in Warps : p = <<"left", w>>
                    \/ \E s \in Slots : p = <<"pushed", s>>

LEMMA FlatPlacesAre ==
    ASSUME NEW n
    PROVE  FlatPlacesOf(FlatPlaces(n), n)
<1>1. \A r \in 0 .. n - 1 : <<"below", r>> \in FlatPlaces(n)
  BY DEF FlatPlaces
<1>2. \A w \in Warps : <<"left", w>> \in FlatPlaces(n)
  BY DEF FlatPlaces
<1>3. \A s \in Slots : <<"pushed", s>> \in FlatPlaces(n)
  BY DEF FlatPlaces
<1>4. ASSUME NEW p \in FlatPlaces(n)
      PROVE  \/ \E r \in 0 .. n - 1 : p = <<"below", r>>
             \/ \E w \in Warps : p = <<"left", w>>
             \/ \E s \in Slots : p = <<"pushed", s>>
  <2>1. CASE p \in {"below"} \X (0 .. n - 1)
    BY <2>1
  <2>2. CASE p \in {"left"} \X Warps
    BY <2>2
  <2>3. CASE p \in {"pushed"} \X Slots
    BY <2>3
  <2> QED
    BY <2>1, <2>2, <2>3 DEF FlatPlaces
<1> QED
  BY <1>1, <1>2, <1>3, <1>4 DEF FlatPlacesOf

LEMMA FlatFamilyAt ==
    ASSUME NEW n, NEW B, NEW H, NEW Q
    PROVE  FlatHas(FlatFamily(n, B, H, Q), n, B, H, Q)
<1> DEFINE F == FlatFamily(n, B, H, Q)
<1>0. FlatPlacesOf(FlatPlaces(n), n)
  BY FlatPlacesAre
<1>1. \A r \in 0 .. n - 1 : F[<<"below", r>>] = B[r]
  BY <1>0 DEF FlatFamily, FlatPlacesOf
<1>2. \A w \in Warps : F[<<"left", w>>] = H[w]
  BY <1>0 DEF FlatFamily, FlatPlacesOf
<1>3. \A s \in Slots : F[<<"pushed", s>>] = Q[s]
  BY <1>0 DEF FlatFamily, FlatPlacesOf
<1> HIDE DEF F
<1>4. FlatHas(F, n, B, H, Q)
  BY <1>1, <1>2, <1>3 DEF FlatHas
<1> QED
  BY <1>4 DEF F

LEMMA FlatNow ==
    /\ \A r \in 0 .. Len(column) - 1 : FlatShares[<<"below", r>>] = Below(r)
    /\ \A w \in Warps : FlatShares[<<"left", w>>] = Left(w)
    /\ \A s \in Slots : FlatShares[<<"pushed", s>>] = Pushed(s)
<1> DEFINE B == [r \in 0 .. Len(column) - 1 |-> Below(r)]
           H == [w \in Warps |-> Left(w)]
           Q == [s \in Slots |-> Pushed(s)]
<1>1. FlatHas(FlatShares, Len(column), B, H, Q)
  BY FlatFamilyAt DEF FlatShares
<1> QED
  BY <1>1 DEF FlatHas

LEMMA FlatNext ==
    ASSUME column' = column
    PROVE  /\ \A r \in 0 .. Len(column) - 1 : FlatShares'[<<"below", r>>] = Below(r)'
           /\ \A w \in Warps : FlatShares'[<<"left", w>>] = Left(w)'
           /\ \A s \in Slots : FlatShares'[<<"pushed", s>>] = Pushed(s)'
<1> DEFINE B == [r \in 0 .. Len(column) - 1 |-> Below(r)']
           H == [w \in Warps |-> Left(w)']
           Q == [s \in Slots |-> Pushed(s)']
<1>1. FlatHas(FlatShares', Len(column), B, H, Q)
  BY FlatFamilyAt DEF FlatShares
<1> QED
  BY <1>1 DEF FlatHas

FlatExact == Exact(FlatShares, FlatPlaces(Len(column)), FlatRows)
LEMMA FlatTransfer ==
    ASSUME FlatExact, column' = column,
           NEW j \in FlatPlaces(Len(column)), NEW k \in FlatPlaces(Len(column)), j # k,
           \A r \in 0 .. Len(column) - 1 : <<"below", r>> \in {j, k} \/ Below(r)' = Below(r),
           \A w \in Warps : <<"left", w>> \in {j, k} \/ Left(w)' = Left(w),
           \A s \in Slots : <<"pushed", s>> \in {j, k} \/ Pushed(s)' = Pushed(s),
           FlatShares'[j] \cup FlatShares'[k] = FlatShares[j] \cup FlatShares[k],
           FlatShares'[j] \cap FlatShares'[k] = {}
    PROVE  FlatExact'
<1> DEFINE F == FlatShares
           G == FlatShares'
           K == FlatPlaces(Len(column))
<1>1. Exact(F, K, FlatRows)
  BY DEF FlatExact
<1>2. ASSUME NEW i \in K
      PROVE  i = j \/ i = k \/ G[i] = F[i]
  <2>1. FlatPlacesOf(K, Len(column))
    BY FlatPlacesAre
  <2>2. ASSUME NEW r \in 0 .. Len(column) - 1, i = <<"below", r>>
        PROVE  i = j \/ i = k \/ G[i] = F[i]
    BY <2>2, FlatNow, FlatNext
  <2>3. ASSUME NEW w \in Warps, i = <<"left", w>>
        PROVE  i = j \/ i = k \/ G[i] = F[i]
    BY <2>3, FlatNow, FlatNext
  <2>4. ASSUME NEW s \in Slots, i = <<"pushed", s>>
        PROVE  i = j \/ i = k \/ G[i] = F[i]
    BY <2>4, FlatNow, FlatNext
  <2> HIDE DEF F, G, K
  <2> QED
    BY <2>1, <2>2, <2>3, <2>4 DEF FlatPlacesOf
<1>3. G[j] \cup G[k] = F[j] \cup F[k] /\ G[j] \cap G[k] = {}
  OBVIOUS
<1>4. j \in K /\ k \in K
  OBVIOUS
<1> HIDE DEF F, G, K
<1>5. Exact(G, K, FlatRows)
  BY <1>1, <1>2, <1>3, <1>4, Transfer
<1>6. FlatRows' = FlatRows
  BY DEF FlatRows
<1> QED
  BY <1>5, <1>6 DEF FlatExact, G, K

(* What the first kernel of a fan-out keeps of the queue.                  *)
FanFacts ==
    /\ queue.head = 0 /\ queue.tail \in Nat /\ queue.tail <= FanCapacity
    /\ FlatExact
    /\ \A w \in Warps : warp[w].pc = "donate" =>
          /\ warp[w].n < FanDegree
          /\ \E k \in 0 .. ChunksPerRow - 1 : warp[w].n = k * FanChunk
    /\ \A s \in Slots : s < queue.tail =>
          /\ queue.tasks[s].b < queue.tasks[s].e
          /\ \E r \in 0 .. Len(column) - 1, k \in 0 .. ChunksPerRow - 1 :
                queue.tasks[s].b = Chunk(r, k)

LEMMA Fanning ==
    ASSUME WorkInv, mode.work = "fanout", pass = "count"
    PROVE  /\ FanFacts /\ RunTyped /\ WarpsTyped /\ QueueTyped /\ BoardTyped /\ Shared /\ Static
           /\ Len(column) \in Nat /\ Len(column) * ChunksPerRow <= FanCapacity
           /\ \A w \in Warps :
                /\ warp[w].b \in Nat /\ warp[w].e \in Nat /\ warp[w].n \in Nat
                /\ warp[w].pc # "start" => warp[w].b % W = w - 1 /\ warp[w].e = Len(column)
                /\ warp[w].pc = "donate" => warp[w].b < Len(column)
<1>1. RunTyped /\ WarpsTyped /\ QueueTyped /\ BoardTyped /\ Shared /\ Fanned /\ Strides
  BY DEF WorkInv, WorkTyped
<1>2. FanFacts
  BY <1>1 DEF Fanned, FanFacts, FlatExact, QueueTyped
<1>3. Static
  BY DEF Static
<1>4. Len(column) \in Nat /\ Len(column) * ChunksPerRow <= FanCapacity
  BY <1>1 DEF RunTyped, Iterable
<1>5. \A w \in Warps : warp[w].b \in Nat /\ warp[w].e \in Nat /\ warp[w].n \in Nat
  BY <1>1 DEF WarpsTyped, WarpTyped
<1>6. \A w \in Warps :
         /\ warp[w].pc # "start" => warp[w].b % W = w - 1 /\ warp[w].e = Len(column)
         /\ warp[w].pc = "donate" => warp[w].b < Len(column)
  BY <1>1, <1>3 DEF Strides
<1> QED
  BY <1>1, <1>2, <1>3, <1>4, <1>5, <1>6

(* A step of the first kernel of a fan-out, while it fills the queue.      *)
FanStep(w) ==
    /\ mode.work = "fanout" /\ pass = "count"
    /\ Alone(w) /\ WarpTyped(warp'[w]) /\ warp[w].pc \in {"run", "donate"}
    /\ warp'[w].pc \in {"run", "donate"}
    /\ warp'[w].b % W = w - 1 /\ warp'[w].e = Len(column)
    /\ warp'[w].pc = "donate" => warp'[w].b < Len(column)
    /\ QueueTyped' /\ queue'.ready = queue.ready /\ FanFacts' /\ Shared'
    /\ UNCHANGED <<column, board, mode, pass>>

LEMMA FanStepKeeps ==
    ASSUME WorkInv, NEW w \in Warps, FanStep(w)
    PROVE  WorkInv'
<1>a. /\ WorkTyped /\ Phases /\ Strides /\ Ticketed /\ Unused /\ Fanned /\ FanHeld /\ Shared
  BY DEF WorkInv
<1>b. RunTyped /\ WarpsTyped /\ QueueTyped /\ BoardTyped
  BY <1>a DEF WorkTyped
<1>c. /\ mode.work = "fanout" /\ pass = "count" /\ Frame
      /\ Alone(w) /\ WarpTyped(warp'[w])
      /\ warp'[w].pc \in {"run", "donate"}
      /\ warp'[w].b % W = w - 1 /\ warp'[w].e = Len(column)
      /\ warp'[w].pc = "donate" => warp'[w].b < Len(column)
      /\ QueueTyped' /\ queue'.ready = queue.ready /\ FanFacts' /\ Shared'
      /\ board' = board /\ mode' = mode /\ pass' = pass /\ column' = column
  BY DEF FanStep, Frame
<1>1. WorkTyped'
  BY <1>b, <1>c, RunKept, TypedTurn, BoardTypeKept DEF WorkTyped
<1>2. Phases'
  BY <1>a, <1>c, PhasesKept DEF Giving
<1>3. Strides'
  BY <1>a, <1>c, StridesKept
<1>4. Ticketed'
  BY <1>c, NoTickets
<1>5. Unused'
  BY <1>a, <1>c, UnusedKept
<1>6. Fanned'
  BY <1>c DEF Fanned, FanFacts, FlatExact
<1>7. FanHeld'
  BY <1>c DEF FanHeld, FanFacts
<1> QED
  BY <1>1, <1>2, <1>3, <1>4, <1>5, <1>6, <1>7, <1>c DEF WorkInv

(* Nothing of it is queued or on the board for the first kernel itself.    *)
LEMMA FanBeside ==
    ASSUME WorkInv, mode.work = "fanout", pass = "count", Frame,
           queue'.ready = queue.ready, UNCHANGED board
    PROVE  /\ \A s \in Slots : Queued(s)' = Queued(s)
           /\ \A s \in 1 .. BoardCapacity : OnBoard(s)' = OnBoard(s)
           /\ AllRows' = AllRows
<1>1. queue.ready = {} /\ queue'.ready = {}
  BY DEF WorkInv, Unused
<1>2. \A s \in Slots : ~Waiting(s) /\ ~Waiting(s)'
  BY <1>1 DEF Waiting, Frame
<1>3. \A s \in Slots : Queued(s)' = Queued(s)
  BY <1>2 DEF Queued
<1> QED
  BY <1>3, PostedKept, FrameSource

LEMMA ExploreStep ==
    ASSUME WorkInv, NEW w \in Warps, Explore(w)
    PROVE  WorkInv'
<1>0. PICK b, e : b = warp[w].b /\ e = warp[w].e
  OBVIOUS
<1>b. RunTyped /\ WarpsTyped /\ QueueTyped
  BY DEF WorkInv, WorkTyped
<1>1. ExploreDone(w)
  BY <1>b, ExploreEffect
<1>c. /\ mode.work = "fanout" /\ pass = "count" /\ warp[w].pc = "run" /\ b < e
      /\ visited' = visited \cup {b}
      /\ UNCHANGED <<column, queue, board, mode, pass>> /\ Frame
      /\ Turns(w, "donate", b, e, warp[w].slot, warp[w].give, warp[w].count,
               total, 0, warp[w].buf)
  BY <1>0, <1>1 DEF ExploreDone, InHand, At, sources, host, Frame
<1>d. /\ FanFacts /\ Static /\ Shared /\ Len(column) \in Nat
      /\ b \in Nat /\ e \in Nat /\ b % W = w - 1 /\ e = Len(column)
  BY <1>0, <1>c, Fanning
<1>e. /\ warp[w].slot \in Nat /\ TaskTyped(warp[w].give) /\ warp[w].count \in Nat
  BY <1>b DEF WarpsTyped, WarpTyped
<1>f. WarpTyped(warp'[w])
  <2>1. "donate" \in Pcs /\ 0 \in Nat
    BY DEF Pcs
  <2> QED
    BY <1>b, <1>c, <1>d, <1>e, <2>1, TurnTyped
<1>g. /\ Alone(w) /\ warp'[w].pc = "donate" /\ warp'[w].b = b /\ warp'[w].e = e /\ warp'[w].n = 0
      /\ \A v \in Warps : v = w \/ warp'[v] = warp[v]
  BY <1>c DEF Turns, IsWarp, Alone, Others
<1>h. FanDegree \in Nat \ {0}
  BY Sizes
<1>2. \A v \in Warps : v = w \/ (Held(v)' = Held(v) /\ Offered(v)' = Offered(v) /\ Left(v)' = Left(v))
  BY <1>c, <1>g, HeldKept
<1>i. Held(w) = Strided(w) /\ Held(w)' = Strided(w)' \ {b} /\ Strided(w)' = Strided(w)
  <2>1. Held(w) = Strided(w)
    BY <1>c, <1>d, HeldIs
  <2>2. Held(w)' = Strided(w)' \ {b}
    BY <1>c, <1>g, HeldNow
  <2>3. Strided(w)' = Strided(w)
    BY <1>0, <1>g DEF Strided, Span
  <2> QED
    BY <2>1, <2>2, <2>3
<1>j. b \in Held(w)
  <2>1. b \in b .. e - 1
    BY <1>c, <1>d
  <2>2. Held(w) = {r \in b .. e - 1 : r % W = w - 1}
    BY <1>0, <1>i DEF Strided, Span
  <2> QED
    BY <1>d, <2>1, <2>2
<1>k. b \notin visited
  <2>1. Exact(Shares, AllPlaces, AllRows)
    BY <1>c, <1>d DEF Shared
  <2>2. <<"visited", 0>> \in AllPlaces /\ <<"held", w>> \in AllPlaces
    BY PlaceNames
  <2>3. Shares[<<"visited", 0>>] = visited /\ Shares[<<"held", w>>] = Held(w)
    BY SharesNow
  <2> QED
    BY <1>j, <2>1, <2>2, <2>3, OnePlace
<1>3. Shared'
  <2>1. \A v \in Warps : Offered(v)' = Offered(v)
    BY <1>2, <1>c, <1>g DEF Offered, Giving
  <2>2. {b} \subseteq Held(w) /\ Held(w)' = Held(w) \ {b}
    BY <1>i, <1>j
  <2>3. /\ \A s \in Slots : Queued(s)' = Queued(s)
        /\ \A s \in 1 .. BoardCapacity : OnBoard(s)' = OnBoard(s)
        /\ AllRows' = AllRows
    BY <1>c, FanBeside
  <2> QED
    BY <1>2, <1>c, <1>d, <2>1, <2>2, <2>3, HeldToVisited
<1>4. FlatExact'
  <2> DEFINE K == FlatPlaces(Len(column))
             j == <<"below", b>>
             k == <<"left", w>>
  <2>1. b \in 0 .. Len(column) - 1
    BY <1>c, <1>d
  <2>2. j \in K /\ k \in K /\ j # k
    BY <2>1, FlatPlacesAre DEF FlatPlacesOf
  <2>3. FlatShares[j] = Below(b) /\ FlatShares[k] = Left(w)
    BY <2>1, FlatNow
  <2>4. FlatShares'[j] = Below(b)' /\ FlatShares'[k] = Left(w)'
    BY <1>c, <2>1, FlatNext
  <2>5. Below(b) = b * FanDegree .. b * FanDegree + FanDegree - 1 /\ Below(b)' = {}
    BY <1>c, <1>k DEF Below
  <2>6. Left(w) = {} /\ Left(w)' = b * FanDegree .. b * FanDegree + FanDegree - 1
    <3>1. Left(w)' = b * FanDegree + 0 .. b * FanDegree + FanDegree - 1
      BY <1>g DEF Left
    <3>2. b * FanDegree + 0 = b * FanDegree
      BY <1>d, <1>h
    <3> QED
      BY <1>c, <3>1, <3>2 DEF Left
  <2>7. \A r \in 0 .. Len(column) - 1 : r = b \/ Below(r)' = Below(r)
    BY <1>c DEF Below
  <2>8. \A s \in Slots : Pushed(s)' = Pushed(s)
    BY <1>c DEF Pushed, Span
  <2>9. FlatExact /\ column' = column
    BY <1>c, <1>d DEF FanFacts
  <2>10. /\ FlatShares'[j] \cup FlatShares'[k] = FlatShares[j] \cup FlatShares[k]
         /\ FlatShares'[j] \cap FlatShares'[k] = {}
    BY <2>3, <2>4, <2>5, <2>6
  <2> HIDE DEF K
  <2>11. /\ \A r \in 0 .. Len(column) - 1 : <<"below", r>> \in {j, k} \/ Below(r)' = Below(r)
         /\ \A v \in Warps : <<"left", v>> \in {j, k} \/ Left(v)' = Left(v)
         /\ \A s \in Slots : <<"pushed", s>> \in {j, k} \/ Pushed(s)' = Pushed(s)
    BY <1>2, <2>7, <2>8
  <2> HIDE DEF j, k
  <2> QED
    BY <2>2, <2>9, <2>10, <2>11, FlatTransfer DEF K
<1>5. FanFacts'
  <2>1. ChunksPerRow \in Nat \ {0}
    BY ChunksCover
  <2>2. 0 \in 0 .. ChunksPerRow - 1 /\ 0 = 0 * FanChunk
    BY <2>1, Sizes
  <2>3. \A v \in Warps : warp'[v].pc = "donate" =>
            /\ warp'[v].n < FanDegree
            /\ \E k \in 0 .. ChunksPerRow - 1 : warp'[v].n = k * FanChunk
    <3> SUFFICES ASSUME NEW v \in Warps, warp'[v].pc = "donate"
                 PROVE  /\ warp'[v].n < FanDegree
                        /\ \E k \in 0 .. ChunksPerRow - 1 : warp'[v].n = k * FanChunk
      OBVIOUS
    <3>1. CASE v = w
      BY <1>g, <1>h, <2>2, <3>1
    <3>2. CASE v # w
      BY <1>d, <1>g, <3>2 DEF FanFacts
    <3> QED
      BY <3>1, <3>2
  <2>4. queue' = queue /\ column' = column
    BY <1>c
  <2> QED
    BY <1>4, <1>d, <2>3, <2>4 DEF FanFacts
<1>6. FanStep(w)
  <2>1. QueueTyped'
    BY <1>b, <1>c, QueueTypeKept
  <2> QED
    BY <1>3, <1>5, <1>c, <1>d, <1>f, <1>g, <2>1 DEF FanStep
<1> QED
  BY <1>6, FanStepKeeps

LEMMA PushedBlindly ==
    ASSUME QueueTyped, NEW task, BlindPush(task), queue.tail < FanCapacity, queue.tail \in Slots
    PROVE  /\ DOMAIN queue' = {"head", "tail", "tasks", "ready"}
           /\ queue'.head = queue.head /\ queue'.tail = queue.tail + 1
           /\ queue'.ready = queue.ready
           /\ DOMAIN queue'.tasks = Slots /\ queue'.tasks[queue.tail] = task
           /\ \A t \in Slots : t = queue.tail \/ queue'.tasks[t] = queue.tasks[t]
<1> DEFINE T == [queue.tasks EXCEPT ![queue.tail] = task]
<1>1. queue' = [queue EXCEPT !.tail = @ + 1, !.tasks = T]
  BY DEF BlindPush
<1>2. DOMAIN T = Slots /\ T[queue.tail] = task
      /\ \A t \in Slots : t = queue.tail \/ T[t] = queue.tasks[t]
  BY DEF QueueTyped
<1> HIDE DEF T
<1>3. DOMAIN queue = {"head", "tail", "tasks", "ready"}
  BY DEF QueueTyped
<1>4. /\ DOMAIN queue' = {"head", "tail", "tasks", "ready"}
      /\ queue'.head = queue.head /\ queue'.tail = queue.tail + 1
      /\ queue'.ready = queue.ready /\ queue'.tasks = T
  BY <1>1, <1>3
<1> QED
  BY <1>2, <1>4

(* The queue still has a slot for a chunk that a warp has left: the chunks *)
(* in the queue and this one start at different chunks of the column.      *)
LEMMA RoomForChunk ==
    ASSUME WorkInv, mode.work = "fanout", pass = "count", NEW w \in Warps, warp[w].pc = "donate"
    PROVE  queue.tail < FanCapacity
<1> DEFINE K == FlatPlaces(Len(column))
<1>0. PICK t, b, n, l : t = queue.tail /\ b = warp[w].b /\ n = warp[w].n /\ l = Len(column)
  OBVIOUS
<1>1. /\ FanFacts /\ l \in Nat /\ l * ChunksPerRow <= FanCapacity
      /\ b \in Nat /\ b < l /\ n \in Nat /\ t \in Nat /\ t <= FanCapacity
  BY <1>0, Fanning DEF FanFacts
<1>2. PICK k \in 0 .. ChunksPerRow - 1 : n = k * FanChunk
  BY <1>0, <1>1 DEF FanFacts
<1>3. n < FanDegree /\ FanDegree \in Nat \ {0} /\ FanCapacity \in Nat /\ FanChunk \in Nat \ {0}
  BY <1>0, <1>1, Sizes DEF FanFacts
<1>4. PICK x : x = b * FanDegree + n
  OBVIOUS
<1>5. x = Chunk(b, k)
  BY <1>2, <1>4 DEF Chunk
<1>6. x \in Left(w)
  <2>1. PICK p : p = b * FanDegree
    OBVIOUS
  <2>2. p \in Nat
    BY <1>1, <1>3, <2>1
  <2>3. Left(w) = p + n .. p + FanDegree - 1
    BY <1>0, <2>1 DEF Left
  <2>4. x = p + n
    BY <1>4, <2>1
  <2> QED
    BY <1>1, <1>3, <2>2, <2>3, <2>4
<1>7. ASSUME NEW s \in 0 .. t - 1
      PROVE  /\ s \in Slots /\ queue.tasks[s].b \in Pushed(s)
             /\ \E r \in 0 .. l - 1, j \in 0 .. ChunksPerRow - 1 : queue.tasks[s].b = Chunk(r, j)
  <2>1. s \in Nat /\ s < t /\ s < FanCapacity
    BY <1>1, <1>3
  <2>2. s \in Slots
    BY <2>1, SlotsAre
  <2>3. queue.tasks[s].b \in Nat /\ queue.tasks[s].e \in Nat
    BY <2>2 DEF WorkInv, WorkTyped, QueueTyped, TaskTyped
  <2>4. queue.tasks[s].b < queue.tasks[s].e
    BY <1>0, <1>1, <2>1, <2>2 DEF FanFacts
  <2>5. queue.tasks[s].b \in Pushed(s)
    BY <1>0, <2>1, <2>3, <2>4 DEF Pushed, Span
  <2> QED
    BY <1>0, <1>1, <2>1, <2>2, <2>5 DEF FanFacts
<1>8. Exact(FlatShares, K, FlatRows)
  BY <1>1 DEF FanFacts, FlatExact
<1>9. FlatPlacesOf(K, Len(column))
  BY FlatPlacesAre
<1> HIDE DEF K
<1>10. ASSUME NEW r \in 0 .. t - 1, NEW s \in 0 .. t - 1, queue.tasks[r].b = queue.tasks[s].b
       PROVE  r = s
  <2>1. <<"pushed", r>> \in K /\ <<"pushed", s>> \in K
    BY <1>7, <1>9 DEF FlatPlacesOf
  <2>2. FlatShares[<<"pushed", r>>] = Pushed(r) /\ FlatShares[<<"pushed", s>>] = Pushed(s)
    BY <1>7, FlatNow
  <2>3. queue.tasks[r].b \in Pushed(r) /\ queue.tasks[r].b \in Pushed(s)
    BY <1>7, <1>10
  <2>4. <<"pushed", r>> = <<"pushed", s>>
    BY <1>8, <2>1, <2>2, <2>3, OnePlace
  <2> QED
    BY <2>4
<1>11. ASSUME NEW s \in 0 .. t - 1, queue.tasks[s].b = x
       PROVE  FALSE
  <2>1. <<"pushed", s>> \in K /\ <<"left", w>> \in K
    BY <1>7, <1>9 DEF FlatPlacesOf
  <2>2. FlatShares[<<"pushed", s>>] = Pushed(s) /\ FlatShares[<<"left", w>>] = Left(w)
    BY <1>7, FlatNow
  <2>3. x \in Pushed(s)
    BY <1>7, <1>11
  <2>4. <<"pushed", s>> = <<"left", w>>
    BY <1>6, <1>8, <2>1, <2>2, <2>3, OnePlace
  <2> QED
    BY <2>4
<1> DEFINE f == [s \in 0 .. t |-> IF s = t THEN x ELSE queue.tasks[s].b]
<1>12. /\ \A s \in 0 .. t - 1 : f[s] = queue.tasks[s].b
       /\ f[t] = x
       /\ \A s \in 0 .. t : s = t \/ s \in 0 .. t - 1
  BY <1>1
<1> HIDE DEF f
<1>13. \A s \in 0 .. t :
          \E r \in 0 .. l - 1, j \in 0 .. ChunksPerRow - 1 : f[s] = Chunk(r, j)
  <2>1. b \in 0 .. l - 1
    BY <1>1
  <2> QED
    BY <1>5, <1>7, <1>12, <2>1
<1>14. \A r, s \in 0 .. t : f[r] = f[s] => r = s
  BY <1>10, <1>11, <1>12
<1>15. t < l * ChunksPerRow
  BY <1>1, <1>13, <1>14, FewChunks
<1>16. l * ChunksPerRow \in Nat
  BY <1>1, ChunksCover
<1> QED
  BY <1>0, <1>1, <1>3, <1>15, <1>16

LEMMA PushStep ==
    ASSUME WorkInv, NEW w \in Warps, PushChunk(w)
    PROVE  WorkInv'
<1>0. PICK b, e, n, t, m, at :
         /\ b = warp[w].b /\ e = warp[w].e /\ n = warp[w].n /\ t = queue.tail
         /\ m = Min({n + FanChunk, FanDegree}) /\ at = warp[w].at + n
  OBVIOUS
<1>b. RunTyped /\ WarpsTyped /\ QueueTyped /\ Phases
  BY DEF WorkInv, WorkTyped
<1>1. PushDone(w)
  BY <1>b, PushEffect
<1>c. /\ mode.work = "fanout" /\ pass = "count" /\ warp[w].pc = "donate"
      /\ UNCHANGED <<column, board, mode, pass, visited>> /\ Frame
      /\ BlindPush(Task(b * FanDegree + n, b * FanDegree + m, at))
      /\ \/ /\ m = FanDegree
            /\ Turns(w, "run", b + W, e, warp[w].slot, warp[w].give, warp[w].count,
                     warp[w].at, n, warp[w].buf)
         \/ /\ m # FanDegree
            /\ Turns(w, "donate", b, e, warp[w].slot, warp[w].give, warp[w].count,
                     warp[w].at, m, warp[w].buf)
  BY <1>0, <1>1, <1>b DEF PushDone, At, host, Frame, Phases
<1>d. /\ FanFacts /\ Static /\ Shared /\ Len(column) \in Nat
      /\ b \in Nat /\ e \in Nat /\ n \in Nat /\ b % W = w - 1 /\ e = Len(column)
      /\ b < Len(column)
  BY <1>0, <1>c, Fanning
<1>e. /\ warp[w].slot \in Nat /\ TaskTyped(warp[w].give) /\ warp[w].count \in Nat
  BY <1>b DEF WarpsTyped, WarpTyped
<1>f. FanChunk \in Nat \ {0} /\ FanDegree \in Nat \ {0} /\ FanCapacity \in Nat /\ W \in Nat \ {0}
  BY Sizes, WarpCount
<1>g. n < FanDegree /\ \E k \in 0 .. ChunksPerRow - 1 : n = k * FanChunk
  BY <1>0, <1>c, <1>d DEF FanFacts
<1>h. /\ m = IF n + FanChunk <= FanDegree THEN n + FanChunk ELSE FanDegree
      /\ m \in Nat /\ n < m /\ m <= FanDegree
  <2>1. n + FanChunk \in Nat /\ FanDegree \in Nat
    BY <1>d, <1>f
  <2>2. m = IF n + FanChunk <= FanDegree THEN n + FanChunk ELSE FanDegree
    BY <1>0, <2>1, MinOfTwo
  <2> QED
    BY <1>d, <1>f, <1>g, <2>2
<1>i. t \in Nat /\ t < FanCapacity /\ t \in Slots
  <2>1. t < FanCapacity
    BY <1>0, <1>c, RoomForChunk
  <2> QED
    BY <1>0, <1>d, <2>1, SlotsAre DEF FanFacts
<1>p. PICK p : p = b * FanDegree
  OBVIOUS
<1>j. p \in Nat
  BY <1>d, <1>f, <1>p
<1> DEFINE task == Task(p + n, p + m, at)
<1>k. /\ task.b = p + n /\ task.e = p + m
  BY DEF Task
<1>l. BlindPush(task)
  BY <1>c, <1>p
<1> HIDE DEF task
<1>m. /\ DOMAIN queue' = {"head", "tail", "tasks", "ready"}
      /\ queue'.head = queue.head /\ queue'.tail = t + 1
      /\ queue'.ready = queue.ready
      /\ DOMAIN queue'.tasks = Slots /\ queue'.tasks[t] = task
      /\ \A s \in Slots : s = t \/ queue'.tasks[s] = queue.tasks[s]
  BY <1>0, <1>b, <1>i, <1>l, PushedBlindly
<1>n. /\ Alone(w) /\ WarpTyped(warp'[w]) /\ warp'[w].e = e
      /\ \/ m = FanDegree /\ warp'[w].pc = "run" /\ warp'[w].b = b + W
         \/ m # FanDegree /\ warp'[w].pc = "donate" /\ warp'[w].b = b /\ warp'[w].n = m
  <2>0. "run" \in Pcs /\ "donate" \in Pcs /\ b + W \in Nat
    BY <1>d, <1>f DEF Pcs, Working
  <2>1. ASSUME m = FanDegree,
               Turns(w, "run", b + W, e, warp[w].slot, warp[w].give, warp[w].count,
                     warp[w].at, n, warp[w].buf)
        PROVE  /\ Alone(w) /\ WarpTyped(warp'[w]) /\ warp'[w].e = e
               /\ warp'[w].pc = "run" /\ warp'[w].b = b + W
    <3>1. WarpTyped(warp'[w])
      BY <1>b, <1>d, <1>e, <2>0, <2>1, TurnTyped
    <3> QED
      BY <2>1, <3>1 DEF Turns, IsWarp
  <2>2. ASSUME m # FanDegree,
               Turns(w, "donate", b, e, warp[w].slot, warp[w].give, warp[w].count,
                     warp[w].at, m, warp[w].buf)
        PROVE  /\ Alone(w) /\ WarpTyped(warp'[w]) /\ warp'[w].e = e
               /\ warp'[w].pc = "donate" /\ warp'[w].b = b /\ warp'[w].n = m
    <3>1. WarpTyped(warp'[w])
      BY <1>b, <1>d, <1>e, <1>h, <2>0, <2>2, TurnTyped
    <3> QED
      BY <2>2, <3>1 DEF Turns, IsWarp
  <2> QED
    BY <1>c, <2>1, <2>2
<1>o. \A v \in Warps : v = w \/ warp'[v] = warp[v]
  BY <1>n DEF Alone, Others
<1>2. \A v \in Warps : v = w \/ (Held(v)' = Held(v) /\ Offered(v)' = Offered(v) /\ Left(v)' = Left(v))
  BY <1>c, <1>o, HeldKept
<1>q. warp'[w].b % W = w - 1
  BY <1>d, <1>f, <1>n, StrideStep
<1>3. Shared'
  <2>1. \A v \in Warps : Offered(v)' = Offered(v)
    BY <1>2, <1>c, <1>n DEF Offered, Giving
  <2>2. Held(w) = {r \in b .. e - 1 : r % W = w - 1} \ {b}
    BY <1>0, <1>c, HeldIs DEF Strided, Span
  <2>3. ASSUME m = FanDegree
        PROVE  Held(w)' = Held(w)
    <3>1. Held(w)' = {r \in b + W .. e - 1 : r % W = w - 1}
      BY <1>c, <1>d, <1>n, <2>3, HeldNow DEF Strided, Span
    <3>2. {r \in b + W .. e - 1 : r % W = b % W} = {r \in b .. e - 1 : r % W = b % W} \ {b}
      BY <1>d, <1>f, StrideRest
    <3> QED
      BY <1>d, <2>2, <3>1, <3>2
  <2>4. ASSUME m # FanDegree
        PROVE  Held(w)' = Held(w)
    <3>1. Held(w)' = {r \in b .. e - 1 : r % W = w - 1} \ {b}
      BY <1>c, <1>n, <2>4, HeldNow DEF Strided, Span
    <3> QED
      BY <2>2, <3>1
  <2>5. \A v \in Warps : Held(v)' = Held(v) /\ Offered(v)' = Offered(v)
    BY <1>2, <2>1, <2>3, <2>4
  <2>6. /\ \A s \in Slots : Queued(s)' = Queued(s)
        /\ \A s \in 1 .. BoardCapacity : OnBoard(s)' = OnBoard(s)
        /\ AllRows' = AllRows
    BY <1>c, <1>m, FanBeside
  <2> QED
    BY <1>c, <1>d, <2>5, <2>6, SharesSame
<1>4. FlatExact'
  <2> DEFINE K == FlatPlaces(Len(column))
             j == <<"left", w>>
             k == <<"pushed", t>>
  <2>2. j \in K /\ k \in K /\ j # k
    BY <1>i, FlatPlacesAre DEF FlatPlacesOf
  <2>3. FlatShares[j] = Left(w) /\ FlatShares[k] = Pushed(t)
    BY <1>i, FlatNow
  <2>4. FlatShares'[j] = Left(w)' /\ FlatShares'[k] = Pushed(t)'
    BY <1>c, <1>i, FlatNext
  <2>5. Left(w) = p + n .. p + FanDegree - 1
    BY <1>0, <1>c, <1>p DEF Left
  <2>6. Left(w)' = IF m = FanDegree THEN {} ELSE p + m .. p + FanDegree - 1
    BY <1>n, <1>p DEF Left
  <2>7. Pushed(t) = {} /\ Pushed(t)' = p + n .. p + m - 1
    <3>1. ~(t < queue.tail)
      BY <1>0, <1>i
    <3>2. t < queue'.tail
      BY <1>i, <1>m
    <3>3. Pushed(t)' = Span(queue'.tasks[t])
      BY <3>2 DEF Pushed, Span
    <3>4. Pushed(t) = {}
      BY <3>1 DEF Pushed
    <3>5. Span(task) = p + n .. p + m - 1
      BY <1>d, <1>h, <1>j, <1>k DEF Span
    <3>6. Pushed(t)' = Span(task)
      BY <1>m, <3>3
    <3> QED
      BY <3>4, <3>5, <3>6
  <2>8. \A r \in 0 .. Len(column) - 1 : Below(r)' = Below(r)
    BY <1>c DEF Below
  <2>9. \A s \in Slots : s = t \/ Pushed(s)' = Pushed(s)
    <3> SUFFICES ASSUME NEW s \in Slots, s # t
                 PROVE  Pushed(s)' = Pushed(s)
      OBVIOUS
    <3>1. s < queue'.tail <=> s < queue.tail
      BY <1>0, <1>i, <1>m, SlotsAre
    <3> QED
      BY <1>m, <3>1 DEF Pushed, Span
  <2>10. /\ FlatShares'[j] \cup FlatShares'[k] = FlatShares[j] \cup FlatShares[k]
         /\ FlatShares'[j] \cap FlatShares'[k] = {}
    <3> DEFINE J == FlatShares[j]
               L == FlatShares[k]
               J1 == FlatShares'[j]
               L1 == FlatShares'[k]
    <3>1. /\ J = p + n .. p + FanDegree - 1 /\ L = {}
          /\ J1 = IF m = FanDegree THEN {} ELSE p + m .. p + FanDegree - 1
          /\ L1 = p + n .. p + m - 1
      BY <2>3, <2>4, <2>5, <2>6, <2>7
    <3> HIDE DEF J, L, J1, L1
    <3>2. J1 \cup L1 = J \cup L /\ J1 \cap L1 = {}
      BY <1>d, <1>f, <1>h, <1>j, <3>1
    <3> QED
      BY <3>2 DEF J, L, J1, L1
  <2>11. FlatExact /\ column' = column
    BY <1>c, <1>d DEF FanFacts
  <2> HIDE DEF K
  <2>12. /\ \A r \in 0 .. Len(column) - 1 : <<"below", r>> \in {j, k} \/ Below(r)' = Below(r)
         /\ \A v \in Warps : <<"left", v>> \in {j, k} \/ Left(v)' = Left(v)
         /\ \A s \in Slots : <<"pushed", s>> \in {j, k} \/ Pushed(s)' = Pushed(s)
    BY <1>2, <2>8, <2>9
  <2> HIDE DEF j, k
  <2> QED
    BY <2>2, <2>10, <2>11, <2>12, FlatTransfer DEF K
<1>5. FanFacts'
  <2>1. \A v \in Warps : warp'[v].pc = "donate" =>
            /\ warp'[v].n < FanDegree
            /\ \E k \in 0 .. ChunksPerRow - 1 : warp'[v].n = k * FanChunk
    <3> SUFFICES ASSUME NEW v \in Warps, warp'[v].pc = "donate"
                 PROVE  /\ warp'[v].n < FanDegree
                        /\ \E k \in 0 .. ChunksPerRow - 1 : warp'[v].n = k * FanChunk
      OBVIOUS
    <3>1. ASSUME v = w
          PROVE  /\ warp'[v].n < FanDegree
                 /\ \E k \in 0 .. ChunksPerRow - 1 : warp'[v].n = k * FanChunk
      <4>1. m < FanDegree /\ m = n + FanChunk /\ warp'[v].n = m
        BY <1>d, <1>f, <1>h, <1>n, <3>1
      <4>2. PICK k \in 0 .. ChunksPerRow - 1 : n = k * FanChunk
        BY <1>g
      <4>3. k \in Nat /\ m = (k + 1) * FanChunk
        BY <1>f, <4>1, <4>2
      <4>4. k + 1 < ChunksPerRow /\ ChunksPerRow \in Nat
        BY <4>1, <4>3, ChunksCover
      <4>5. k + 1 \in 0 .. ChunksPerRow - 1
        BY <4>3, <4>4
      <4> QED
        BY <4>1, <4>3, <4>5
    <3>2. CASE v # w
      BY <1>d, <1>o, <3>2 DEF FanFacts
    <3> QED
      BY <3>1, <3>2
  <2>2. \A s \in Slots : s < queue'.tail =>
            /\ queue'.tasks[s].b < queue'.tasks[s].e
            /\ \E r \in 0 .. Len(column) - 1, k \in 0 .. ChunksPerRow - 1 :
                  queue'.tasks[s].b = Chunk(r, k)
    <3> SUFFICES ASSUME NEW s \in Slots, s < queue'.tail
                 PROVE  /\ queue'.tasks[s].b < queue'.tasks[s].e
                        /\ \E r \in 0 .. Len(column) - 1, k \in 0 .. ChunksPerRow - 1 :
                              queue'.tasks[s].b = Chunk(r, k)
      OBVIOUS
    <3>1. CASE s = t
      <4>1. queue'.tasks[s].b = p + n /\ queue'.tasks[s].e = p + m
        BY <1>k, <1>m, <3>1
      <4>2. PICK k \in 0 .. ChunksPerRow - 1 : n = k * FanChunk
        BY <1>g
      <4>3. p + n = Chunk(b, k)
        BY <1>p, <4>2 DEF Chunk
      <4>4. b \in 0 .. Len(column) - 1
        BY <1>d
      <4>5. p + n < p + m
        BY <1>d, <1>h, <1>j
      <4> QED
        BY <4>1, <4>3, <4>4, <4>5
    <3>2. CASE s # t
      <4>1. s < queue.tail /\ queue'.tasks[s] = queue.tasks[s]
        BY <1>0, <1>i, <1>m, <3>2, SlotsAre
      <4> QED
        BY <1>d, <4>1 DEF FanFacts
    <3> QED
      BY <3>1, <3>2
  <2>3. queue'.head = 0 /\ queue'.tail \in Nat /\ queue'.tail <= FanCapacity
    BY <1>d, <1>f, <1>i, <1>m DEF FanFacts
  <2>4. column' = column
    BY <1>c
  <2> QED
    BY <1>4, <2>1, <2>2, <2>3, <2>4 DEF FanFacts
<1>6. QueueTyped'
  <2>1. TaskTyped(task)
    BY <1>d, <1>h, <1>j, <1>k DEF TaskTyped
  <2>2. \A s \in Slots : TaskTyped(queue'.tasks[s])
    BY <1>b, <1>m, <2>1 DEF QueueTyped
  <2> QED
    BY <1>b, <1>i, <1>m, <2>2 DEF QueueTyped
<1>7. FanStep(w)
  BY <1>3, <1>5, <1>6, <1>c, <1>d, <1>m, <1>n, <1>q DEF FanStep
<1> QED
  BY <1>7, FanStepKeeps

LEMMA PopStep ==
    ASSUME WorkInv, NEW w \in Warps, PopChunk(w)
    PROVE  WorkInv'
<1>0. PICK h, t : h = queue.head /\ t = queue.tasks[queue.head]
  OBVIOUS
<1>a. /\ WorkTyped /\ Phases /\ Strides /\ Ticketed /\ Unused /\ Fanned /\ FanHeld /\ Shared
  BY DEF WorkInv
<1>b. RunTyped /\ WarpsTyped /\ QueueTyped /\ BoardTyped
  BY <1>a DEF WorkTyped
<1>1. PopDone(w)
  BY <1>b, PopEffect
<1>c. /\ mode.work = "fanout" /\ pass = "write" /\ warp[w].pc = "run" /\ warp[w].b >= warp[w].e
      /\ column' = column /\ board' = board /\ mode' = mode /\ pass' = pass
      /\ visited' = visited /\ Frame /\ BesideFan /\ ~Static
      /\ BlindPop
  BY <1>1 DEF PopDone, Drained, At, host, Frame, BesideFan, Static
<1>d. /\ queue'.head = h + 1 /\ queue'.tail = queue.tail
      /\ queue'.tasks = queue.tasks /\ queue'.ready = queue.ready
      /\ DOMAIN queue' = {"head", "tail", "tasks", "ready"}
  BY <1>0, <1>b, <1>c, HeadMoved DEF BlindPop
<1>e. /\ warp[w].b \in Nat /\ warp[w].e \in Nat /\ warp[w].slot \in Nat
      /\ TaskTyped(warp[w].give) /\ warp[w].count \in Nat /\ warp[w].n \in Nat
      /\ h \in Nat /\ queue.tail \in Nat
  BY <1>0, <1>b DEF WarpsTyped, WarpTyped, QueueTyped
<1>f. h < queue.tail => h \in Slots /\ t.b \in Nat /\ t.e \in Nat
  <2> SUFFICES ASSUME h < queue.tail
               PROVE  h \in Slots /\ t.b \in Nat /\ t.e \in Nat
    OBVIOUS
  <2>1. h < FanCapacity
    BY <1>a, <1>c, <1>e, Sizes DEF FanHeld
  <2>2. h \in Slots
    BY <1>e, <2>1, SlotsAre
  <2> QED
    BY <1>0, <1>b, <2>2 DEF QueueTyped, TaskTyped
<1>g. \/ /\ h < queue.tail
         /\ Turns(w, "run", t.b, t.e, warp[w].slot, warp[w].give, warp[w].count,
                  t.at, warp[w].n, warp[w].buf)
      \/ /\ ~(h < queue.tail)
         /\ Turns(w, "stop", warp[w].b, warp[w].e, warp[w].slot, warp[w].give, warp[w].count,
                  warp[w].at, warp[w].n, warp[w].buf)
  BY <1>0, <1>1 DEF PopDone, PoppedBlindly
<1>h. /\ Alone(w) /\ WarpTyped(warp'[w]) /\ warp'[w].pc \in {"run", "stop"}
      /\ \/ h < queue.tail /\ warp'[w].b = t.b /\ warp'[w].e = t.e
         \/ ~(h < queue.tail) /\ warp'[w].b = warp[w].b /\ warp'[w].e = warp[w].e
  <2>0. "run" \in Pcs /\ "stop" \in Pcs
    BY DEF Pcs, Working
  <2>1. ASSUME h < queue.tail,
               Turns(w, "run", t.b, t.e, warp[w].slot, warp[w].give, warp[w].count,
                     t.at, warp[w].n, warp[w].buf)
        PROVE  /\ Alone(w) /\ WarpTyped(warp'[w]) /\ warp'[w].pc \in {"run", "stop"}
               /\ warp'[w].b = t.b /\ warp'[w].e = t.e
    <3>1. WarpTyped(warp'[w])
      BY <1>b, <1>e, <1>f, <2>0, <2>1, TurnTyped
    <3> QED
      BY <2>1, <3>1 DEF Turns, IsWarp
  <2>2. ASSUME ~(h < queue.tail),
               Turns(w, "stop", warp[w].b, warp[w].e, warp[w].slot, warp[w].give, warp[w].count,
                     warp[w].at, warp[w].n, warp[w].buf)
        PROVE  /\ Alone(w) /\ WarpTyped(warp'[w]) /\ warp'[w].pc \in {"run", "stop"}
               /\ warp'[w].b = warp[w].b /\ warp'[w].e = warp[w].e
    <3>1. WarpTyped(warp'[w])
      BY <1>b, <1>e, <2>0, <2>2, TurnTyped
    <3> QED
      BY <2>2, <3>1 DEF Turns, IsWarp
  <2> QED
    BY <1>g, <2>1, <2>2
<1>2. WorkTyped'
  <2>1. QueueTyped'
    BY <1>b, <1>d, <1>e DEF QueueTyped, TaskTyped
  <2> QED
    BY <1>b, <1>c, <1>h, <2>1, RunKept, TypedTurn, BoardTypeKept DEF WorkTyped
<1>3. Phases'
  BY <1>a, <1>c, <1>h, PhasesKept DEF Giving
<1>4. Strides'
  BY <1>a, <1>c, <1>h, StridesKept
<1>5. Ticketed'
  BY <1>c, NoTickets
<1>6. Unused'
  BY <1>a, <1>c, <1>d, UnusedKept
<1>7. Fanned'
  BY <1>c, FannedBeside
<1>8. FanHeld'
  BY <1>a, <1>c, <1>d DEF FanHeld
<1>9. Shared'
  <2>1. \A v \in Warps : v = w \/ (Held(v)' = Held(v) /\ Offered(v)' = Offered(v))
    BY <1>c, <1>h, HeldKept DEF Alone, Others
  <2>2. \A v \in Warps : Offered(v)' = Offered(v)
    BY <2>1, <1>c, <1>h DEF Offered, Giving
  <2>3. Held(w) = {}
    BY <1>c, <1>e, HeldIs DEF Span
  <2>4. Held(w)' = warp'[w].b .. warp'[w].e - 1
    BY <1>c, <1>h, HeldNow DEF Span
  <2>5. AllRows' = AllRows
    BY <1>c, FrameSource
  <2>6. \A s \in 1 .. BoardCapacity : OnBoard(s)' = OnBoard(s)
    BY <1>c, PostedKept
  <2>7. queue.ready = {}
    BY <1>a, <1>c DEF Unused
  <2>8. \A s \in Slots : /\ Waiting(s) <=> h <= s /\ s < queue.tail
                         /\ Waiting(s)' <=> h + 1 <= s /\ s < queue.tail
    BY <1>0, <1>c, <1>d, <2>7 DEF Waiting
  <2>9. \A s \in Slots : s = h \/ Queued(s)' = Queued(s)
    <3> SUFFICES ASSUME NEW s \in Slots, s # h
                 PROVE  Queued(s)' = Queued(s)
      OBVIOUS
    <3>1. Waiting(s)' <=> Waiting(s)
      BY <1>e, <2>8, SlotsAre
    <3> QED
      BY <1>d, <3>1 DEF Queued, Span
  <2>10. ASSUME h < queue.tail
         PROVE  Shared'
    <3>1. Queued(h) = t.b .. t.e - 1
      BY <1>0, <1>e, <1>f, <2>8, <2>10 DEF Queued, Span
    <3>2. Queued(h)' = {}
      BY <1>e, <1>f, <2>8, <2>10 DEF Queued
    <3>3. Held(w)' = Queued(h)
      BY <1>h, <2>4, <2>10, <3>1
    <3> QED
      BY <1>a, <1>c, <1>f, <2>1, <2>2, <2>3, <2>5, <2>6, <2>9, <2>10, <3>2, <3>3, QueuedToHeld
  <2>11. ASSUME ~(h < queue.tail)
         PROVE  Shared'
    <3>1. \A s \in Slots : Queued(s)' = Queued(s)
      <4> SUFFICES ASSUME NEW s \in Slots
                   PROVE  Queued(s)' = Queued(s)
        OBVIOUS
      <4>1. ~Waiting(s) /\ ~Waiting(s)'
        BY <1>e, <2>8, <2>11, SlotsAre
      <4> QED
        BY <4>1 DEF Queued
    <3>2. Held(w)' = Held(w)
      BY <1>c, <1>e, <1>h, <2>3, <2>4, <2>11
    <3> QED
      BY <1>a, <1>c, <2>1, <2>2, <2>5, <2>6, <3>1, <3>2, SharesSame
  <2> QED
    BY <2>10, <2>11
<1> QED
  BY <1>2, <1>3, <1>4, <1>5, <1>6, <1>7, <1>8, <1>9 DEF WorkInv

(* The allotments share out the rows.                                      *)
SharedOut(A, n) ==
    /\ \A w \in Warps : A[w] \subseteq 0 .. n - 1
    /\ \A x \in 0 .. n - 1 : \E w \in Warps : x \in A[w]
    /\ \A v, w \in Warps : \A x : x \in A[v] /\ x \in A[w] => v = w

LEMMA BoundsShare ==
    ASSUME NEW n \in Nat, NEW B, B[0] = 0, B[W] = n, \A w \in 0 .. W : B[w] \in Nat,
           \A w \in 0 .. W : \A v \in 0 .. w : B[v] <= B[w],
           NEW A, \A w \in Warps : A[w] = B[w - 1] .. B[w] - 1
    PROVE  SharedOut(A, n)
<1>1. W \in Nat \ {0} /\ Warps = 1 .. W
  BY WarpCount
<1>2. \A w \in 0 .. W : B[w] \in Nat
  OBVIOUS
<1>3. B[0] = 0 /\ B[W] = n
  OBVIOUS
<1>4. \A w \in 0 .. W : \A v \in 0 .. w : B[v] <= B[w]
  OBVIOUS
<1>5. \A w \in Warps : w \in Nat /\ w - 1 \in 0 .. W /\ w \in 0 .. W /\ W \in 0 .. W /\ 0 \in 0 .. w - 1
  BY <1>1
<1>6. ASSUME NEW w \in Warps, NEW x \in A[w]
      PROVE  x \in 0 .. n - 1
  <2>1. x \in B[w - 1] .. B[w] - 1
    OBVIOUS
  <2>2. B[w - 1] \in Nat /\ B[w] \in Nat /\ B[w] <= n
    BY <1>1, <1>2, <1>3, <1>4, <1>5
  <2> QED
    BY <2>1, <2>2
<1>7. ASSUME NEW x \in 0 .. n - 1
      PROVE  \E w \in Warps : x \in A[w]
  <2> DEFINE S == {w \in 0 .. W : x < B[w]}
  <2>0. W \in 0 .. W /\ 0 \in 0 .. W /\ 0 .. W \subseteq Nat
    BY <1>1
  <2>1. W \in S /\ S \in SUBSET Nat
    <3>1. x < B[W]
      BY <1>3
    <3>2. S \subseteq 0 .. W
      OBVIOUS
    <3> QED
      BY <2>0, <3>1, <3>2
  <2>2. 0 \notin S
    <3>1. ~(x < B[0])
      BY <1>3
    <3> QED
      BY <3>1
  <2> HIDE DEF S
  <2>3. PICK w \in S : \A v \in S : w <= v
    BY <2>1, MinOfNaturals
  <2>4. w \in 0 .. W /\ w # 0 /\ x < B[w] /\ w - 1 \in 0 .. W
    BY <2>2, <1>1 DEF S
  <2>5. w - 1 \notin S
    BY <2>1, <2>3, <2>4
  <2>6. ~(x < B[w - 1])
    BY <2>4, <2>5 DEF S
  <2>7. w \in Warps /\ B[w - 1] \in Nat /\ B[w] \in Nat
    BY <1>1, <1>2, <2>4
  <2>8. x \in B[w - 1] .. B[w] - 1
    BY <2>4, <2>6, <2>7
  <2> QED
    BY <2>7, <2>8
<1>8. ASSUME NEW v \in Warps, NEW w \in Warps, NEW x, x \in A[v], x \in A[w], v < w
      PROVE  FALSE
  <2>1. v \in 0 .. w - 1 /\ w - 1 \in 0 .. W /\ v \in 0 .. W
    <3>1. v \in 1 .. W /\ w \in 1 .. W
      BY <1>1
    <3> QED
      BY <1>1, <1>8, <3>1
  <2>2. B[v] <= B[w - 1] /\ B[v] \in Nat /\ B[w - 1] \in Nat
    BY <1>2, <1>4, <2>1
  <2>3. x \in B[v - 1] .. B[v] - 1 /\ x \in B[w - 1] .. B[w] - 1
    BY <1>8
  <2>4. B[v - 1] \in Nat /\ B[w] \in Nat
    BY <1>2, <1>5
  <2> QED
    BY <2>2, <2>3, <2>4
<1>9. \A v, w \in Warps : v = w \/ v < w \/ w < v
  BY <1>1
<1>10. \A v, w \in Warps : \A x : x \in A[v] /\ x \in A[w] => v = w
  BY <1>8, <1>9
<1> QED
  BY <1>6, <1>7, <1>10 DEF SharedOut

LEMMA BoardShares ==
    ASSUME NEW n \in Nat, NEW B, B = [w \in 0 .. W |-> (w * n) \div W],
           NEW A, \A w \in Warps : A[w] = B[w - 1] .. B[w] - 1
    PROVE  SharedOut(A, n)
<1>1. W \in Nat \ {0} /\ Warps = 1 .. W
  BY WarpCount
<1>2. \A w \in 0 .. W : B[w] \in Nat
  BY <1>1, ShareBounds
<1>3. B[0] = 0 /\ B[W] = n
  <2>1. 0 \in 0 .. W /\ W \in 0 .. W
    BY <1>1
  <2>2. (0 * n) \div W = 0 /\ (W * n) \div W = n
    BY <1>1, <2>1, ShareBounds
  <2> QED
    BY <2>1, <2>2
<1>4. \A w \in 0 .. W : \A v \in 0 .. w : B[v] <= B[w]
  <2> SUFFICES ASSUME NEW w \in 0 .. W, NEW v \in 0 .. w
               PROVE  B[v] <= B[w]
    OBVIOUS
  <2>1. (v * n) \div W <= (w * n) \div W
    BY <1>1, ShareBounds
  <2>2. v \in 0 .. W
    BY <1>1
  <2> QED
    BY <2>1, <2>2
<1> QED
  BY <1>2, <1>3, <1>4, BoundsShare, Zenon

LEMMA AllotmentShares ==
    ASSUME NEW source \in {"stride", "queue", "board"}, NEW n \in Nat,
           NEW A, \A w \in Warps : A[w] = Allotment(source, n, w)
    PROVE  SharedOut(A, n)
<1>1. W \in Nat \ {0} /\ Warps = 1 .. W
  BY WarpCount
<1>2. CASE source = "stride"
  <2>1. \A w \in Warps : A[w] = {r \in 0 .. n - 1 : r % W = w - 1}
    BY <1>2 DEF Allotment
  <2>2. \A w \in Warps : A[w] \subseteq 0 .. n - 1
    BY <2>1
  <2>3. ASSUME NEW x \in 0 .. n - 1
        PROVE  \E w \in Warps : x \in A[w]
    <3>0. PICK m : m = x % W
      OBVIOUS
    <3>1. x \in Nat /\ m \in 0 .. W - 1
      BY <1>1, <3>0, Remainder
    <3>2. m + 1 \in Warps /\ (m + 1) - 1 = m
      BY <1>1, <3>1
    <3> QED
      BY <2>1, <3>0, <3>2
  <2>4. ASSUME NEW v \in Warps, NEW w \in Warps, NEW x, x \in A[v], x \in A[w]
        PROVE  v = w
    <3>1. x % W = v - 1 /\ x % W = w - 1
      BY <2>1, <2>4
    <3> QED
      BY <1>1, <3>1
  <2> QED
    BY <2>2, <2>3, <2>4 DEF SharedOut
<1>3. CASE source = "queue"
  <2>1. \A w \in Warps : A[w] = IF w = 1 THEN 0 .. n - 1 ELSE {}
    BY <1>3 DEF Allotment
  <2>2. 1 \in Warps
    BY <1>1
  <2> QED
    BY <2>1, <2>2 DEF SharedOut
<1>4. CASE source = "board"
  <2> DEFINE B == [w \in 0 .. W |-> (w * n) \div W]
  <2>1. \A w \in Warps : w - 1 \in 0 .. W /\ w \in 0 .. W
    BY <1>1
  <2>2. \A w \in Warps : B[w - 1] = ((w - 1) * n) \div W /\ B[w] = (w * n) \div W
    BY <2>1
  <2>3. \A w \in Warps : A[w] = ((w - 1) * n) \div W .. ((w * n) \div W) - 1
    BY <1>4 DEF Allotment
  <2>4. \A w \in Warps : A[w] = B[w - 1] .. B[w] - 1
    BY <2>2, <2>3, Zenon
  <2> QED
    BY <2>4, BoardShares
<1> QED
  BY <1>2, <1>3, <1>4

(* Nothing but the allotments: an iteration at its start.                  *)
LEMMA FamilyAllotted ==
    ASSUME NEW F, NEW V, NEW H, NEW O, NEW Q, NEW P, FamilyHas(F, V, H, O, Q, P),
           NEW n, V = {}, \A w \in Warps : O[w] = {}, \A s \in Slots : Q[s] = {},
           \A s \in 1 .. BoardCapacity : P[s] = {}, SharedOut(H, n)
    PROVE  Exact(F, AllPlaces, 0 .. n - 1)
<1>1. PlacesOf(AllPlaces)
  BY PlacesAre
<1>2. \A p \in AllPlaces : \A x \in F[p] : \E w \in Warps : p = <<"held", w>> /\ x \in H[w]
  <2> SUFFICES ASSUME NEW p \in AllPlaces, NEW x \in F[p]
               PROVE  \E w \in Warps : p = <<"held", w>> /\ x \in H[w]
    OBVIOUS
  <2>1. p # <<"visited", 0>>
    BY DEF FamilyHas
  <2>2. \A w \in Warps : p # <<"offered", w>>
    BY DEF FamilyHas
  <2>3. \A s \in Slots : p # <<"queued", s>>
    BY DEF FamilyHas
  <2>4. \A s \in 1 .. BoardCapacity : p # <<"posted", s>>
    BY DEF FamilyHas
  <2>5. PICK w \in Warps : p = <<"held", w>>
    BY <1>1, <2>1, <2>2, <2>3, <2>4 DEF PlacesOf
  <2> QED
    BY <2>5 DEF FamilyHas
<1>3. \A w \in Warps : F[<<"held", w>>] = H[w] /\ <<"held", w>> \in AllPlaces
  BY <1>1 DEF FamilyHas, PlacesOf
<1>4. \A p \in AllPlaces : \A x \in F[p] : x \in 0 .. n - 1
  BY <1>2 DEF SharedOut
<1>5. \A x \in 0 .. n - 1 : \E p \in AllPlaces : x \in F[p]
  BY <1>3 DEF SharedOut
<1>6. \A p, q \in AllPlaces : \A x : x \in F[p] /\ x \in F[q] => p = q
  BY <1>2 DEF SharedOut
<1> QED
  BY <1>4, <1>5, <1>6, MakeExact

(* Nothing but the queue: the second kernel of a fan-out at its start.     *)
LEMMA FamilyQueued ==
    ASSUME NEW F, NEW V, NEW H, NEW O, NEW Q, NEW P, FamilyHas(F, V, H, O, Q, P),
           NEW X, V = {}, \A w \in Warps : H[w] = {} /\ O[w] = {},
           \A s \in 1 .. BoardCapacity : P[s] = {},
           \A s \in Slots : \A x \in Q[s] : x \in X,
           \A x \in X : \E s \in Slots : x \in Q[s],
           \A s, t \in Slots : \A x : x \in Q[s] /\ x \in Q[t] => s = t
    PROVE  Exact(F, AllPlaces, X)
<1>1. PlacesOf(AllPlaces)
  BY PlacesAre
<1>2. \A p \in AllPlaces : \A x \in F[p] : \E s \in Slots : p = <<"queued", s>> /\ x \in Q[s]
  <2> SUFFICES ASSUME NEW p \in AllPlaces, NEW x \in F[p]
               PROVE  \E s \in Slots : p = <<"queued", s>> /\ x \in Q[s]
    OBVIOUS
  <2>1. p # <<"visited", 0>>
    BY DEF FamilyHas
  <2>2. \A w \in Warps : p # <<"offered", w>> /\ p # <<"held", w>>
    BY DEF FamilyHas
  <2>4. \A s \in 1 .. BoardCapacity : p # <<"posted", s>>
    BY DEF FamilyHas
  <2>5. PICK s \in Slots : p = <<"queued", s>>
    BY <1>1, <2>1, <2>2, <2>4 DEF PlacesOf
  <2> QED
    BY <2>5 DEF FamilyHas
<1>3. \A s \in Slots : F[<<"queued", s>>] = Q[s] /\ <<"queued", s>> \in AllPlaces
  BY <1>1 DEF FamilyHas, PlacesOf
<1>4. \A p \in AllPlaces : \A x \in F[p] : x \in X
  BY <1>2
<1>5. \A x \in X : \E p \in AllPlaces : x \in F[p]
  BY <1>3
<1>6. \A p, q \in AllPlaces : \A x : x \in F[p] /\ x \in F[q] => p = q
  BY <1>2
<1> QED
  BY <1>4, <1>5, <1>6, MakeExact

(* A warp that has stopped has nothing left of its range.                  *)
Spent == \A w \in Warps : warp[w].pc = "stop" => warp[w].b >= warp[w].e
RunInv == WorkInv /\ Spent /\ Announced

LEMMA SpentStep ==
    ASSUME RunInv, NEW w \in Warps, WarpStep(w)
    PROVE  Spent' /\ Alone(w) /\ (Announce(w) \/ warp'[w].pc # "start")
<1>1. WarpsTyped /\ RunTyped /\ BoardTyped /\ Spent
  BY DEF RunInv, WorkInv, WorkTyped
<1> SUFFICES /\ Alone(w) /\ (warp'[w].pc = "stop" => warp'[w].b >= warp'[w].e)
             /\ Announce(w) \/ warp'[w].pc # "start"
  BY <1>1, Zenon DEF Spent, Alone, Others
<1>17. CASE Announce(w)
  <2>1. AnnounceDone(w)
    BY <1>1, <1>17, AnnounceEffect
  <2> QED
    BY <1>17, <2>1 DEF AnnounceDone, Turns, IsWarp
<1>2. CASE Begin(w)
  <2>1. BeginDone(w)
    BY <1>1, <1>2, BeginDoes
  <2> QED
    BY <2>1 DEF BeginDone, Shown
<1>3. CASE Visit(w)
  <2>1. VisitDone(w)
    BY <1>1, <1>3, VisitEffect
  <2>2. mode.out \in {"dedup", "counted", "preassigned", "speculative", "chunked", "coalesced"}
    BY <1>1 DEF RunTyped, Combinations, Generated, LibraryOnly
  <2>3. \E pc \in {"run", "probe", "flush"} : warp'[w].pc = pc
    BY <2>1, <2>2 DEF VisitDone, Emission, VisitAs
  <2> QED
    BY <2>1, <2>3 DEF VisitDone
<1>4. CASE Explore(w)
  <2>1. ExploreDone(w)
    BY <1>1, <1>4, ExploreEffect
  <2> QED
    BY <2>1 DEF ExploreDone, Turns, IsWarp
<1>5. CASE PushChunk(w)
  <2>1. PushDone(w)
    BY <1>1, <1>5, PushEffect
  <2>2. \E pc \in {"run", "donate"} : Alone(w) /\ warp'[w].pc = pc
    BY <2>1 DEF PushDone, Turns, IsWarp
  <2> QED
    BY <2>2
<1>6. CASE PopChunk(w)
  <2>1. PopDone(w)
    BY <1>1, <1>6, PopEffect
  <2>2. warp[w].b >= warp[w].e
    BY <2>1 DEF PopDone, Drained
  <2>3. /\ Alone(w) /\ warp'[w].pc # "start"
        /\ warp'[w].pc = "run" \/ (warp'[w].b = warp[w].b /\ warp'[w].e = warp[w].e)
    BY <2>1 DEF PopDone, Turns, IsWarp
  <2> QED
    BY <2>2, <2>3
<1>7. CASE Donate(w)
  <2>1. DonateDone(w)
    BY <1>1, <1>7, DonateEffect
  <2>2. \E pc \in {"run", "fill"} : Alone(w) /\ warp'[w].pc = pc
    BY <2>1 DEF DonateDone, Turns, IsWarp
  <2> QED
    BY <2>2
<1>8. CASE FillSlot(w)
  BY <1>1, <1>8, FillSlotEffect DEF FillDone, Turns, IsWarp
<1>9. CASE RaiseFlag(w)
  BY <1>1, <1>9, RaiseFlagEffect DEF RaiseDone, Turns, IsWarp
<1>10. CASE Steal(w)
  BY <1>1, <1>10, StealEffect DEF StealDone, Turns, IsWarp
<1>11. CASE TakeTask(w)
  BY <1>1, <1>11, TakeTaskEffect DEF TakeDone, Turns, IsWarp
<1>12. CASE GrabRange(w)
  <2>1. GrabDone(w)
    BY <1>1, <1>12, GrabEffect
  <2> QED
    BY <2>1 DEF GrabDone, Turns, IsWarp
<1>13. CASE Probe(w)
  <2>1. ProbeDone(w)
    BY <1>1, <1>13, ProbeEffect
  <2>2. \E pc \in {"run", "probe", "flush"} : Alone(w) /\ warp'[w].pc = pc
    BY <2>1 DEF ProbeDone, Turns, IsWarp
  <2> QED
    BY <2>2
<1>14. CASE Flush(w)
  <2>1. FlushDone(w)
    BY <1>1, <1>14, FlushEffect
  <2>2. \E pc \in {"run", "store"} : Alone(w) /\ warp'[w].pc = pc
    BY <2>1 DEF FlushDone, Turns, IsWarp
  <2> QED
    BY <2>2
<1>15. CASE Store(w)
  BY <1>1, <1>15, StoreEffect DEF StoreDone, Turns, IsWarp
<1>16. CASE Finish(w)
  <2>1. FinishDone(w)
    BY <1>1, <1>16, FinishEffect
  <2>2. warp[w].b >= warp[w].e
    BY <2>1 DEF FinishDone, Drained
  <2>3. Alone(w) /\ warp'[w].pc # "start" /\ warp'[w].b = warp[w].b /\ warp'[w].e = warp[w].e
    BY <2>1 DEF FinishDone, Turns, IsWarp
  <2> QED
    BY <2>2, <2>3
<1> QED
  BY <1>2, <1>3, <1>4, <1>5, <1>6, <1>7, <1>8, <1>9, <1>10, <1>11, <1>12, <1>13, <1>14,
     <1>15, <1>16, <1>17, Zenon DEF WarpStep

(* An announced slot stays with its warp until that warp sets it.          *)
LEMMA BoardLeft ==
    ASSUME NEW w \in Warps, WarpStep(w)
    PROVE  /\ mode' = mode
           /\ Announce(w) \/ Begin(w) \/ GrabRange(w) \/ board' = board
  BY DEF WarpStep, Announce, Begin, Visit, Explore, PushChunk, PopChunk, Donate, FillSlot,
         RaiseFlag, Steal, TakeTask, GrabRange, Probe, Flush, Store, Finish, host, sources

LEMMA AnnouncedStep ==
    ASSUME RunInv, NEW w \in Warps, WarpStep(w)
    PROVE  Announced'
<1>1. Alone(w) /\ (Announce(w) \/ warp'[w].pc # "start") /\ mode' = mode
  BY SpentStep, BoardLeft
<1>2. WarpsTyped /\ BoardTyped /\ RunTyped /\ Announced
  BY DEF RunInv, WorkInv, WorkTyped
<1>3. \A v \in Warps : warp[v].n \in Nat
  BY <1>2 DEF WarpsTyped, WarpTyped
<1>4. \A v \in Warps : v = w \/ warp'[v] = warp[v]
  BY <1>1 DEF Alone, Others
<1> SUFFICES ASSUME mode.work = "board"
             PROVE  Announced'
  BY <1>1 DEF Announced
<1>5. CASE Announce(w)
  <2>1. AnnounceDone(w)
    BY <1>2, <1>5, AnnounceEffect
  <2>2. AddRange /\ warp'[w].n = board.count + 1
    BY <2>1 DEF AnnounceDone, Turns, IsWarp
  <2>3. /\ board.count \in Nat /\ Len(board.ranges) \in Nat /\ Len(board.ranges) <= board.count
        /\ board.ranges \in Seq([cursor : Nat, end : Nat]) /\ BoardCapacity \in Nat
    BY <1>2, Sizes DEF BoardTyped
  <2>4. CASE board.count >= BoardCapacity
    <3>1. board'.ranges = board.ranges
      BY <1>2, <2>2, <2>4, RangeAdded
    <3>2. ~Owns(w)'
      BY <2>2, <2>3, <2>4 DEF Owns
    <3>3. \A v \in Warps : v # w => (Owns(v)' <=> Owns(v)) /\ warp'[v] = warp[v]
      BY <1>4 DEF Owns
    <3>4. \A v \in Warps : Owns(v)' => warp'[w].n # warp'[v].n
      BY <2>2, <2>3, <2>4, <3>2 DEF Owns
    <3> QED
      BY <1>1, <1>2, <3>1, <3>2, <3>3, <3>4 DEF Announced
  <2>5. CASE ~(board.count >= BoardCapacity)
    <3> DEFINE R == board.ranges
    <3>1. board'.ranges = Append(R, Unset) /\ Len(R) = board.count
      BY <1>2, <2>2, <2>3, <2>5, RangeAdded
    <3>2. /\ Len(board'.ranges) = board.count + 1 /\ board'.ranges[board.count + 1] = Unset
          /\ \A t \in 1 .. Len(R) : board'.ranges[t] = R[t]
      BY <2>3, <3>1
    <3>3. \A v \in Warps : v # w => (Owns(v)' <=> Owns(v)) /\ warp'[v] = warp[v]
      BY <1>4 DEF Owns
    <3>4. ASSUME NEW v \in Warps, Owns(v)', v # w
          PROVE  /\ warp'[v].n \in 1 .. Len(board'.ranges)
                 /\ board'.ranges[warp'[v].n] = Unset
                 /\ warp'[v].n # warp'[w].n
                 /\ \A u \in Warps : u # v /\ u # w /\ warp'[u].pc = "start" => warp'[u].n # warp'[v].n
      <4>1. Owns(v) /\ warp'[v] = warp[v]
        BY <3>3, <3>4
      <4>2. /\ warp[v].n \in 1 .. Len(R) /\ R[warp[v].n] = Unset
            /\ \A u \in Warps : u # v /\ warp[u].pc = "start" => warp[u].n # warp[v].n
        BY <1>2, <4>1 DEF Announced
      <4>3. \A u \in Warps : u # v /\ u # w /\ warp'[u].pc = "start" => warp'[u].n # warp'[v].n
        BY <1>4, <4>1, <4>2
      <4>4. warp[v].n \in 1 .. board.count
        BY <3>1, <4>2
      <4>5. /\ warp[v].n \in 1 .. Len(board'.ranges) /\ warp[v].n # warp'[w].n
            /\ board'.ranges[warp[v].n] = Unset
        BY <2>2, <2>3, <3>1, <3>2, <4>2, <4>4
      <4>6. warp'[v].n = warp[v].n
        BY <4>1
      <4> HIDE DEF R
      <4> QED
        BY <4>3, <4>5, <4>6
    <3>5. ASSUME NEW v \in Warps, v # w, warp'[v].pc = "start"
          PROVE  warp'[v].n # warp'[w].n
      <4>1. warp'[v] = warp[v] /\ warp[v].n \in Nat
        BY <1>3, <3>3, <3>5
      <4>2. CASE Owns(v)
        BY <3>3, <3>4, <3>5, <4>2
      <4>3. CASE ~Owns(v)
        BY <2>2, <2>3, <2>5, <3>5, <4>1, <4>3 DEF Owns
      <4> QED
        BY <4>2, <4>3
    <3>6. ASSUME NEW v \in Warps, Owns(v)'
          PROVE  /\ warp'[v].n \in 1 .. Len(board'.ranges)
                 /\ board'.ranges[warp'[v].n] = Unset
                 /\ \A u \in Warps : u # v /\ warp'[u].pc = "start" => warp'[u].n # warp'[v].n
      <4>1. CASE v = w
        BY <2>2, <2>3, <3>2, <3>5, <4>1
      <4>2. CASE v # w
        BY <3>4, <3>6, <4>2
      <4> QED
        BY <4>1, <4>2
    <3> QED
      BY <3>6 DEF Announced
  <2> QED
    BY <2>4, <2>5
<1>6. ASSUME warp'[w].pc # "start",
             Len(board'.ranges) = Len(board.ranges),
             \A v \in Warps : v # w /\ Owns(v) => board'.ranges[warp[v].n] = board.ranges[warp[v].n]
      PROVE  Announced'
  <2>1. \A v \in Warps : warp'[v].pc = "start" => v # w /\ warp'[v] = warp[v] /\ warp[v].pc = "start"
    BY <1>4, <1>6
  <2>2. \A v \in Warps : Owns(v)' => v # w /\ Owns(v) /\ warp'[v] = warp[v]
    BY <2>1 DEF Owns
  <2> QED
    BY <1>2, <1>6, <2>1, <2>2 DEF Announced
<1>7. CASE Begin(w)
  <2>1. BeginDone(w)
    BY <1>2, <1>7, BeginDoes
  <2>2. warp'[w].pc = "run" /\ warp[w].pc = "start"
    BY <2>1 DEF BeginDone, Shown, At
  <2>3. CASE ~Posting(w)
    BY <1>6, <2>1, <2>2, <2>3 DEF BeginDone
  <2>4. CASE Posting(w)
    <3>1. /\ SetRange(warp[w].n, Part(w).b, Part(w).e)
          /\ warp[w].n > 0 /\ warp[w].n <= BoardCapacity
      BY <2>1, <2>4 DEF BeginDone, Posting
    <3>2. Owns(w)
      BY <2>2, <3>1 DEF Owns
    <3>3. /\ warp[w].n \in 1 .. Len(board.ranges)
          /\ \A v \in Warps : v # w /\ warp[v].pc = "start" => warp[v].n # warp[w].n
      BY <1>2, <3>2 DEF Announced
    <3>4. /\ Len(board'.ranges) = Len(board.ranges)
          /\ \A t \in 1 .. Len(board.ranges) : t = warp[w].n \/ board'.ranges[t] = board.ranges[t]
      BY <1>2, <3>1, <3>3, PartTyped, RangeSet
    <3>5. \A v \in Warps : v # w /\ Owns(v) => board'.ranges[warp[v].n] = board.ranges[warp[v].n]
      BY <1>2, <3>3, <3>4 DEF Announced, Owns
    <3> QED
      BY <1>6, <2>2, <3>4, <3>5
  <2> QED
    BY <2>3, <2>4
<1>8. CASE GrabRange(w)
  <2>1. GrabDone(w)
    BY <1>2, <1>8, GrabEffect
  <2>2. PICK s : s = warp[w].slot + 1
    OBVIOUS
  <2>3. IsSet(s) /\ Grab(s) /\ s <= Len(board.ranges) /\ warp'[w].pc = "run" /\ pass # "done"
    BY <2>1, <2>2 DEF GrabDone, Turns, IsWarp, Drained, At
  <2>4. s \in 1 .. Len(board.ranges)
    BY <1>2, <2>2, <2>3 DEF BoardTyped, WarpsTyped, WarpTyped
  <2>5. /\ Len(board'.ranges) = Len(board.ranges)
        /\ \A t \in 1 .. Len(board.ranges) : t = s \/ board'.ranges[t] = board.ranges[t]
    BY <1>2, <2>3, <2>4, BoardGrabbed
  <2>6. \A v \in Warps : Owns(v) => warp[v].n # s
    BY <2>3 DEF IsSet, Owns, At
  <2>7. \A v \in Warps : v # w /\ Owns(v) => board'.ranges[warp[v].n] = board.ranges[warp[v].n]
    BY <1>2, <2>5, <2>6 DEF Announced
  <2> QED
    BY <1>6, <2>3, <2>5, <2>7
<1>9. CASE board' = board /\ ~Announce(w)
  BY <1>1, <1>6, <1>9
<1> QED
  BY <1>5, <1>7, <1>8, <1>9, BoardLeft

LEMMA WorkStep ==
    ASSUME WorkInv, Announced, NEW w \in Warps, WarpStep(w)
    PROVE  WorkInv'
  BY AnnounceStep, BeginStep, VisitStep, ExploreStep, PushStep, PopStep, DonateStep, FillSlotStep,
     RaiseFlagStep, StealStep, TakeTaskStep, GrabStep, ProbeStep, FlushStep, StoreStep,
     FinishStep, Zenon DEF WarpStep

(* What the host hands to a kernel that it starts.                         *)
LEMMA FreshTyped ==
    /\ WarpTyped(Fresh) /\ Fresh.pc = "start" /\ Fresh.n = 0
    /\ \A w \in Warps : Restarted[w] = Fresh
<1>1. Fresh.pc = "start" /\ \A w \in Warps : Restarted[w] = Fresh
  BY DEF Fresh, Restarted
<1>2. WarpTyped(Fresh)
  BY DEF Fresh, WarpTyped, Fields, Pcs, TaskTyped, NoTask
<1>3. Fresh.n = 0
  BY DEF Fresh
<1> QED
  BY <1>1, <1>2, <1>3

LEMMA EmptyTyped ==
    /\ DOMAIN EmptyQueue = {"head", "tail", "tasks", "ready"}
    /\ EmptyQueue.head = 0 /\ EmptyQueue.tail = 0 /\ EmptyQueue.ready = {}
    /\ DOMAIN EmptyQueue.tasks = Slots /\ \A s \in Slots : TaskTyped(EmptyQueue.tasks[s])
    /\ DOMAIN EmptyBoard = {"count", "ranges"} /\ EmptyBoard.count = 0 /\ EmptyBoard.ranges = <<>>
<1>1. \A s \in Slots : EmptyQueue.tasks[s] = NoTask
  BY DEF EmptyQueue
<1>2. TaskTyped(NoTask)
  BY DEF TaskTyped, NoTask
<1> QED
  BY <1>1, <1>2 DEF EmptyQueue, EmptyBoard

LEMMA EmptyBoardTyped ==
    ASSUME NEW B, B = EmptyBoard
    PROVE  /\ DOMAIN B = {"count", "ranges"} /\ B.count \in Nat
           /\ B.ranges \in Seq([cursor : Nat, end : Nat])
           /\ Len(B.ranges) = IF B.count <= BoardCapacity THEN B.count ELSE BoardCapacity
           /\ DOMAIN B.ranges = {}
<1> DEFINE R == [cursor : Nat, end : Nat]
<1>1. BoardCapacity \in Nat
  BY Sizes
<1>2. DOMAIN B = {"count", "ranges"} /\ B.count = 0 /\ B.ranges = <<>>
  BY EmptyTyped
<1> HIDE DEF R
<1>3. B.ranges \in Seq(R) /\ Len(B.ranges) = 0 /\ DOMAIN B.ranges = {}
  BY <1>2
<1> QED
  BY <1>1, <1>2, <1>3 DEF R

(* A kernel that starts.                                                   *)
Started == warp' = Restarted /\ visited' = {}

LEMMA StartedWarps ==
    ASSUME Started
    PROVE  /\ WarpsTyped' /\ \A w \in Warps : warp'[w].pc = "start"
           /\ \A w \in Warps : Held(w)' = Allotment(Source, Len(column), w)'
           /\ \A w \in Warps : Offered(w)' = {}
<1>1. DOMAIN warp' = Warps /\ \A w \in Warps : warp'[w] = Fresh
  BY FreshTyped DEF Started, Restarted
<1>2. \A w \in Warps : WarpTyped(warp'[w]) /\ warp'[w].pc = "start"
  BY <1>1, FreshTyped
<1>3. WarpsTyped'
  BY <1>1, <1>2 DEF WarpsTyped, WarpTyped, TaskTyped
<1>4. \A w \in Warps : Held(w)' = Allotment(Source, Len(column), w)'
  BY <1>2 DEF Held
<1>5. \A w \in Warps : Offered(w)' = {}
  BY <1>2 DEF Offered
<1> QED
  BY <1>2, <1>3, <1>4, <1>5

(* A kernel starts on what its warps were allotted: nothing is queued yet. *)
LEMMA StartedShares ==
    ASSUME Started, RunTyped', queue'.ready = {}, DOMAIN board'.ranges = {},
           ~(mode'.work = "fanout" /\ pass' = "write"), pass' # "done"
    PROVE  Shared'
<1>1. Len(column') \in Nat /\ mode' \in Combinations /\ pass' \in {"count", "write", "done"}
  BY DEF RunTyped, Iterable
<1>2. mode'.work \in {"static", "queue", "board", "fanout"}
  BY <1>1, ModeCases
<1>3. PICK source, n : source = Source' /\ n = Len(column')
  OBVIOUS
<1>4. source \in {"stride", "queue", "board"} /\ n \in Nat
  BY <1>1, <1>2, <1>3 DEF Source, Static
<1> DEFINE H == [w \in Warps |-> Held(w)']
           O == [w \in Warps |-> Offered(w)']
           Q == [s \in Slots |-> Queued(s)']
           P == [s \in 1 .. BoardCapacity |-> OnBoard(s)']
           F == Shares'
<1>5. FamilyHas(F, visited', H, O, Q, P)
  BY FamilyAt DEF Shares
<1>6. \A w \in Warps : H[w] = Allotment(source, n, w) /\ O[w] = {}
  BY <1>3, StartedWarps DEF Allotment
<1>7. \A s \in Slots : Q[s] = {}
  BY DEF Queued, Waiting
<1>8. \A s \in 1 .. BoardCapacity : P[s] = {}
  BY DEF OnBoard
<1>9. visited' = {}
  BY DEF Started
<1>10. AllRows' = 0 .. n - 1
  BY <1>3 DEF AllRows
<1> HIDE DEF H, O, Q, P, F
<1>11. SharedOut(H, n)
  BY <1>4, <1>6, AllotmentShares
<1>12. Exact(F, AllPlaces, 0 .. n - 1)
  BY <1>5, <1>6, <1>7, <1>8, <1>9, <1>11, FamilyAllotted
<1> QED
  BY <1>10, <1>12 DEF Shared, F

(* A kernel that starts: only the shares and the queue need an argument.   *)
LEMMA StartedInv ==
    ASSUME Started, RunTyped', QueueTyped', BoardTyped', Unused', FanHeld', Shared',
           ~(mode'.work = "fanout" /\ pass' = "count"),
           mode'.work = "queue" => queue' = EmptyQueue
    PROVE  RunInv'
<1>1. WarpsTyped' /\ \A w \in Warps : warp'[w].pc = "start"
  BY StartedWarps
<1>2. WorkTyped'
  BY <1>1 DEF WorkTyped
<1>3. Phases' /\ Strides' /\ Spent'
  BY <1>1 DEF Phases, Strides, Spent, Giving
<1>6. Announced'
  <2>1. \A w \in Warps : warp'[w].n = 0
    BY FreshTyped DEF Started
  <2> QED
    BY <2>1 DEF Announced, Owns
<1>4. Ticketed'
  <2> SUFFICES ASSUME mode'.work = "queue"
               PROVE  Ticketed'
    BY DEF Ticketed
  <2>1. queue'.head = 0 /\ queue'.tail = 0 /\ queue'.ready = {}
    BY EmptyTyped
  <2>2. QueueCapacity \in Nat /\ Slots \subseteq Nat
    BY Sizes, SlotsAre
  <2>3. \A s \in Slots : ~(s < queue'.head)
    BY <2>1, <2>2
  <2> QED
    BY <1>1, <2>1, <2>2, <2>3 DEF Ticketed, Giving
<1>5. Fanned'
  BY DEF Fanned
<1> QED
  BY <1>2, <1>3, <1>4, <1>5, <1>6 DEF RunInv, WorkInv

(* When the exploring kernel has returned, every row has been visited and  *)
(* every flat row is in a chunk of the queue.                              *)
LEMMA AllExplored ==
    ASSUME RunInv, mode.work = "fanout", pass = "count", Returned
    PROVE  /\ 0 .. Len(column) - 1 \subseteq visited
           /\ \A w \in Warps : Left(w) = {}
           /\ \A r \in 0 .. Len(column) - 1 : Below(r) = {}
<1>1. /\ WorkInv /\ Spent /\ WarpsTyped /\ Shared /\ Unused /\ Static
      /\ \A w \in Warps : warp[w].pc = "stop"
  BY Fanning DEF RunInv, WorkInv, WorkTyped, Returned
<1>2. Exact(Shares, AllPlaces, AllRows) /\ AllRows = 0 .. Len(column) - 1
  BY <1>1 DEF Shared, AllRows
<1>3. ASSUME NEW w \in Warps
      PROVE  Held(w) = {} /\ Offered(w) = {} /\ Left(w) = {}
  <2>1. warp[w].pc = "stop" /\ warp[w].b \in Nat /\ warp[w].e \in Nat /\ warp[w].b >= warp[w].e
    BY <1>1 DEF WarpsTyped, WarpTyped, Spent
  <2>2. Held(w) = Strided(w)
    BY <1>1, <2>1, HeldIs
  <2>3. Strided(w) = {}
    BY <2>1 DEF Strided, Span
  <2> QED
    BY <2>1, <2>2, <2>3 DEF Offered, Left
<1>4. \A s \in Slots : Queued(s) = {}
  BY <1>1 DEF Unused, Queued, Waiting
<1>5. \A s \in 1 .. BoardCapacity : OnBoard(s) = {}
  <2>1. board.ranges = <<>>
    BY <1>1 DEF Unused
  <2>2. DOMAIN board.ranges = {}
    BY <2>1
  <2> QED
    BY <2>2 DEF OnBoard
<1>6. ASSUME NEW r \in 0 .. Len(column) - 1
      PROVE  r \in visited
  <2>1. PICK p \in AllPlaces : r \in Shares[p]
    BY <1>2, SomePlace
  <2>2. \A w \in Warps : p # <<"held", w>> /\ p # <<"offered", w>>
    BY <1>3, <2>1, SharesNow
  <2>3. \A s \in Slots : p # <<"queued", s>>
    BY <1>4, <2>1, SharesNow
  <2>4. \A s \in 1 .. BoardCapacity : p # <<"posted", s>>
    BY <1>5, <2>1, SharesNow
  <2>5. p = <<"visited", 0>>
    BY <2>2, <2>3, <2>4, PlacesAre DEF PlacesOf
  <2> QED
    BY <2>1, <2>5, SharesNow
<1> QED
  BY <1>3, <1>6 DEF Below

LEMMA FanShares ==
    ASSUME RunInv, mode.work = "fanout", pass = "count", Returned, Started,
           UNCHANGED <<column, mode, queue>>, pass' = "write", DOMAIN board'.ranges = {}
    PROVE  Shared'
<1> DEFINE L == Len(column)
           G == FlatShares
<1>1. /\ Unused /\ FanFacts /\ L \in Nat
  BY Fanning DEF RunInv, WorkInv
<1>2. Exact(G, FlatPlaces(L), FlatRows) /\ queue.head = 0
  BY <1>1 DEF FanFacts, FlatExact
<1>3. /\ \A r \in 0 .. L - 1 : G[<<"below", r>>] = {}
      /\ \A w \in Warps : G[<<"left", w>>] = {}
      /\ \A s \in Slots : G[<<"pushed", s>>] = Pushed(s)
  BY AllExplored, FlatNow
<1> HIDE DEF G
<1>4. FlatPlacesOf(FlatPlaces(L), L)
  BY FlatPlacesAre
<1> DEFINE H == [w \in Warps |-> Held(w)']
           O == [w \in Warps |-> Offered(w)']
           Q == [s \in Slots |-> Queued(s)']
           P == [s \in 1 .. BoardCapacity |-> OnBoard(s)']
           F == Shares'
<1>5. FamilyHas(F, visited', H, O, Q, P)
  BY FamilyAt DEF Shares
<1>6. \A w \in Warps : H[w] = {} /\ O[w] = {}
  <2>1. Source' = "fanout"
    BY DEF Source, Static
  <2>2. \A w \in Warps : Allotment(Source, Len(column), w)' = {}
    BY <2>1 DEF Allotment
  <2> QED
    BY <2>2, StartedWarps
<1>7. \A s \in Slots : Q[s] = Pushed(s)
  <2> SUFFICES ASSUME NEW s \in Slots
               PROVE  Queued(s)' = Pushed(s)
    OBVIOUS
  <2>1. s \in Nat /\ queue.ready = {} /\ queue'.ready = {}
    BY <1>1, SlotsAre DEF Unused
  <2>2. Waiting(s)' <=> s < queue.tail
    BY <1>2, <2>1 DEF Waiting
  <2> QED
    BY <2>2 DEF Queued, Pushed, Span
<1>8. \A s \in 1 .. BoardCapacity : P[s] = {}
  BY DEF OnBoard
<1>9. visited' = {} /\ AllRows' = FlatRows
  BY DEF Started, AllRows, FlatRows
<1> HIDE DEF H, O, Q, P, F
<1>10. \A s \in Slots : <<"pushed", s>> \in FlatPlaces(L) /\ G[<<"pushed", s>>] = Q[s]
  BY <1>3, <1>4, <1>7 DEF FlatPlacesOf
<1>11. \A s \in Slots : \A x \in Q[s] : x \in FlatRows
  BY <1>2, <1>10 DEF Exact
<1>12. ASSUME NEW x \in FlatRows
       PROVE  \E s \in Slots : x \in Q[s]
  <2>1. PICK p \in FlatPlaces(L) : x \in G[p]
    BY <1>2, SomePlace
  <2>2. PICK s \in Slots : p = <<"pushed", s>>
    BY <1>3, <1>4, <2>1 DEF FlatPlacesOf
  <2> QED
    BY <1>10, <2>1, <2>2
<1>13. ASSUME NEW s \in Slots, NEW t \in Slots, NEW x, x \in Q[s], x \in Q[t]
       PROVE  s = t
  <2> DEFINE p == <<"pushed", s>>
             q == <<"pushed", t>>
  <2>1. p \in FlatPlaces(L) /\ q \in FlatPlaces(L) /\ x \in G[p] /\ x \in G[q]
    BY <1>10, <1>13
  <2>2. p = q => s = t
    OBVIOUS
  <2> HIDE DEF p, q
  <2>3. p = q
    BY <1>2, <2>1 DEF Exact
  <2> QED
    BY <2>2, <2>3
<1>14. Exact(F, AllPlaces, FlatRows)
  BY <1>5, <1>6, <1>8, <1>9, <1>11, <1>12, <1>13, FamilyQueued
<1> QED
  BY <1>9, <1>14 DEF Shared, F

LEMMA EndCountStep ==
    ASSUME RunInv, EndCount
    PROVE  RunInv'
<1>1. /\ pass = "count" /\ Returned /\ pass' \in {"done", "write"} /\ Started
      /\ board' = EmptyBoard /\ queue' = (IF mode.work = "fanout" THEN queue ELSE EmptyQueue)
      /\ UNCHANGED <<column, mode>>
  BY DEF EndCount, Started
<1>2. RunTyped /\ QueueTyped /\ Unused /\ FanHeld
  BY DEF RunInv, WorkInv, WorkTyped
<1>3. RunTyped'
  BY <1>1, <1>2 DEF RunTyped, Iterable
<1>4. QueueTyped'
  <2>1. CASE mode.work = "fanout"
    BY <1>1, <1>2, <2>1 DEF QueueTyped, TaskTyped
  <2>2. CASE mode.work # "fanout"
    BY <1>1, <2>2, EmptyTyped DEF QueueTyped, TaskTyped
  <2> QED
    BY <2>1, <2>2
<1>5. BoardTyped' /\ DOMAIN board'.ranges = {}
  BY <1>1, EmptyBoardTyped DEF BoardTyped
<1>6. queue'.ready = {}
  BY <1>1, <1>2, EmptyTyped DEF Unused
<1>7. Unused'
  BY <1>1, <1>6, EmptyTyped DEF Unused
<1>8. FanHeld'
  BY <1>1, <1>2 DEF FanHeld
<1>9. Shared'
  <2>1. ASSUME pass' = "write", mode.work = "fanout"
        PROVE  Shared'
    BY <1>1, <1>5, <2>1, FanShares
  <2>2. ASSUME pass' = "write", mode.work # "fanout"
        PROVE  Shared'
    BY <1>1, <1>3, <1>5, <1>6, <2>2, StartedShares
  <2>3. ASSUME pass' = "done"
        PROVE  Shared'
    BY <2>3 DEF Shared
  <2> QED
    BY <1>1, <2>1, <2>2, <2>3
<1>10. pass' # "count"
  BY <1>1
<1>11. mode'.work = "queue" => queue' = EmptyQueue
  BY <1>1
<1> QED
  BY <1>1, <1>3, <1>4, <1>5, <1>7, <1>8, <1>9, <1>10, <1>11, StartedInv

LEMMA EndWriteStep ==
    ASSUME RunInv, EndWrite
    PROVE  RunInv'
<1>1. /\ WorkInv /\ Spent /\ RunTyped /\ WarpsTyped /\ QueueTyped /\ BoardTyped
      /\ Phases /\ Ticketed /\ Unused /\ FanHeld
  BY DEF RunInv, WorkInv, WorkTyped
<1>2. /\ pass = "write" /\ UNCHANGED <<column, queue, board>>
      /\ \A w \in Warps : warp[w].pc = "stop"
  BY DEF EndWrite, Returned, sources
<1>3. QueueTyped' /\ BoardTyped'
  BY <1>1, <1>2 DEF QueueTyped, BoardTyped, TaskTyped
<1>4. CASE overflow /\ mode.out = "speculative"
  <2>1. mode' = Counted /\ pass' = "count" /\ Started
    BY <1>4 DEF EndWrite, Started
  <2>2. mode'.work = "static" /\ mode'.out = "counted" /\ mode' \in Combinations
    BY <2>1 DEF Counted, Combinations, Generated, LibraryOnly
  <2>3. mode.work = "static"
    BY <1>1, <1>4 DEF RunTyped, Combinations, Generated, LibraryOnly
  <2>4. RunTyped'
    BY <1>1, <1>2, <2>1, <2>2, <2>3 DEF RunTyped, Iterable
  <2>5. queue'.ready = {} /\ board'.ranges = <<>> /\ board'.count = 0
    BY <1>1, <1>2, <2>3 DEF Unused
  <2>6. DOMAIN board'.ranges = {}
    BY <2>5
  <2>7. Unused' /\ FanHeld'
    BY <2>2, <2>5 DEF Unused, FanHeld
  <2>8. Shared'
    BY <2>1, <2>2, <2>4, <2>5, <2>6, StartedShares
  <2> QED
    BY <1>3, <2>1, <2>2, <2>4, <2>7, <2>8, StartedInv
<1>5. CASE ~(overflow /\ mode.out = "speculative")
  <2>1. pass' = "done" /\ UNCHANGED <<mode, warp, visited>>
    BY <1>5 DEF EndWrite
  <2>2. RunTyped' /\ WarpsTyped'
    BY <1>1, <1>2, <2>1 DEF RunTyped, Iterable, WarpsTyped, WarpTyped, TaskTyped
  <2>3. Phases' /\ Strides' /\ Shared' /\ Fanned' /\ Spent' /\ Announced'
    BY <1>1, <1>2, <2>1 DEF Phases, Giving, Strides, Shared, Fanned, Spent, Announced, Owns
  <2>4. Ticketed'
    BY <1>1, <1>2, <2>1 DEF Ticketed
  <2>5. Unused' /\ FanHeld'
    BY <1>1, <1>2, <2>1 DEF Unused, FanHeld
  <2> QED
    BY <1>3, <2>2, <2>3, <2>4, <2>5 DEF RunInv, WorkInv, WorkTyped
<1> QED
  BY <1>4, <1>5

(* Before the first step.                                                  *)
LEMMA InitShares ==
    ASSUME warp = Restarted, visited = {}, RunTyped, queue.ready = {}, DOMAIN board.ranges = {},
           ~(mode.work = "fanout" /\ pass = "write"), pass # "done"
    PROVE  Shared
<1>1. Len(column) \in Nat /\ mode \in Combinations /\ pass \in {"count", "write", "done"}
  BY DEF RunTyped, Iterable
<1>2. mode.work \in {"static", "queue", "board", "fanout"}
  BY <1>1, ModeCases
<1>3. PICK source, n : source = Source /\ n = Len(column)
  OBVIOUS
<1>4. source \in {"stride", "queue", "board"} /\ n \in Nat
  BY <1>1, <1>2, <1>3 DEF Source, Static
<1> DEFINE H == [w \in Warps |-> Held(w)]
           O == [w \in Warps |-> Offered(w)]
           Q == [s \in Slots |-> Queued(s)]
           P == [s \in 1 .. BoardCapacity |-> OnBoard(s)]
           F == Shares
<1>5. FamilyHas(F, visited, H, O, Q, P)
  BY FamilyAt DEF Shares
<1>6. \A w \in Warps : H[w] = Allotment(source, n, w) /\ O[w] = {}
  <2>1. \A w \in Warps : warp[w].pc = "start"
    BY FreshTyped
  <2> QED
    BY <1>3, <2>1 DEF Held, Offered
<1>7. \A s \in Slots : Q[s] = {}
  BY DEF Queued, Waiting
<1>8. \A s \in 1 .. BoardCapacity : P[s] = {}
  BY DEF OnBoard
<1>9. AllRows = 0 .. n - 1
  BY <1>3 DEF AllRows
<1> HIDE DEF H, O, Q, P, F
<1>10. SharedOut(H, n)
  BY <1>4, <1>6, AllotmentShares
<1>11. Exact(F, AllPlaces, 0 .. n - 1)
  BY <1>5, <1>6, <1>7, <1>8, <1>10, FamilyAllotted
<1> QED
  BY <1>9, <1>11 DEF Shared, F

(* The flat rows below the rows of a column are the flat rows.             *)
LEMMA FlatBelow ==
    ASSUME NEW d \in Nat \ {0}, NEW l \in Nat
    PROVE  /\ \A r \in 0 .. l - 1 : \A x \in r * d .. r * d + d - 1 : x \in 0 .. l * d - 1
           /\ \A x \in 0 .. l * d - 1 : \E r \in 0 .. l - 1 : x \in r * d .. r * d + d - 1
           /\ \A r, q \in 0 .. l - 1 : \A x :
                 x \in r * d .. r * d + d - 1 /\ x \in q * d .. q * d + d - 1 => r = q
<1>1. ASSUME NEW r \in 0 .. l - 1, NEW x \in r * d .. r * d + d - 1
      PROVE  x \in 0 .. l * d - 1
  <2>1. r * d + d <= l * d /\ r * d \in Nat /\ l * d \in Nat
    BY FlatApart
  <2> QED
    BY <2>1
<1>2. ASSUME NEW x \in 0 .. l * d - 1
      PROVE  \E r \in 0 .. l - 1 : x \in r * d .. r * d + d - 1
  <2>0. PICK r, m : r = x \div d /\ m = x % d
    OBVIOUS
  <2>9. x \in Nat
    OBVIOUS
  <2>1. r \in Nat /\ m \in 0 .. d - 1 /\ x = d * r + m
    BY <2>0, <2>9, DivMod
  <2>2. d * r = r * d /\ r * d \in Nat
    BY <2>1
  <2>3. x \in r * d .. r * d + d - 1
    BY <2>1, <2>2
  <2>4. r < l
    <3> SUFFICES ASSUME l <= r
                 PROVE  FALSE
      BY <2>1
    <3>1. l * d <= r * d
      BY <2>1
    <3> QED
      BY <2>1, <2>2, <3>1
  <2>5. r \in 0 .. l - 1
    BY <2>1, <2>4
  <2> QED
    BY <2>3, <2>5
<1>3. ASSUME NEW r \in 0 .. l - 1, NEW q \in 0 .. l - 1, r < q, NEW x,
             x \in r * d .. r * d + d - 1, x \in q * d .. q * d + d - 1
      PROVE  FALSE
  <2>1. r * d + d <= q * d /\ r * d \in Nat /\ q * d \in Nat
    BY <1>3, FlatApart
  <2> QED
    BY <1>3, <2>1
<1>4. \A r, q \in 0 .. l - 1 : r = q \/ r < q \/ q < r
  OBVIOUS
<1>5. \A r, q \in 0 .. l - 1 : \A x :
         x \in r * d .. r * d + d - 1 /\ x \in q * d .. q * d + d - 1 => r = q
  BY <1>3, <1>4
<1> QED
  BY <1>1, <1>2, <1>5

LEMMA InitFlat ==
    ASSUME warp = Restarted, visited = {}, RunTyped, queue.tail = 0
    PROVE  Exact(FlatShares, FlatPlaces(Len(column)), FlatRows)
<1> DEFINE l == Len(column)
           d == FanDegree
           G == FlatShares
<1>1. l \in Nat /\ d \in Nat \ {0}
  BY Sizes DEF RunTyped, Iterable
<1>2. FlatPlacesOf(FlatPlaces(l), l)
  BY FlatPlacesAre
<1>3. /\ \A r \in 0 .. l - 1 : G[<<"below", r>>] = r * d .. r * d + d - 1
      /\ \A w \in Warps : G[<<"left", w>>] = {}
      /\ \A s \in Slots : G[<<"pushed", s>>] = {}
  <2>1. \A r \in 0 .. l - 1 : Below(r) = r * d .. r * d + d - 1
    BY DEF Below
  <2>2. \A w \in Warps : Left(w) = {}
    BY FreshTyped DEF Left
  <2>3. \A s \in Slots : Pushed(s) = {}
    BY SlotsAre DEF Pushed
  <2> QED
    BY <2>1, <2>2, <2>3, FlatNow
<1>4. FlatRows = 0 .. l * d - 1
  BY DEF FlatRows
<1> HIDE DEF l, d, G
<1>5. \A p \in FlatPlaces(l) : \A x \in G[p] :
         \E r \in 0 .. l - 1 : p = <<"below", r>> /\ x \in r * d .. r * d + d - 1
  BY <1>2, <1>3 DEF FlatPlacesOf
<1>6. \A r \in 0 .. l - 1 : <<"below", r>> \in FlatPlaces(l)
  BY <1>2 DEF FlatPlacesOf
<1>7. \A p \in FlatPlaces(l) : \A x \in G[p] : x \in FlatRows
  BY <1>1, <1>4, <1>5, FlatBelow
<1>8. \A x \in FlatRows : \E p \in FlatPlaces(l) : x \in G[p]
  <2> SUFFICES ASSUME NEW x \in FlatRows
               PROVE  \E p \in FlatPlaces(l) : x \in G[p]
    OBVIOUS
  <2>1. PICK r \in 0 .. l - 1 : x \in r * d .. r * d + d - 1
    BY <1>1, <1>4, FlatBelow
  <2> QED
    BY <1>3, <1>6, <2>1
<1>9. \A p, q \in FlatPlaces(l) : \A x : x \in G[p] /\ x \in G[q] => p = q
  <2> SUFFICES ASSUME NEW p \in FlatPlaces(l), NEW q \in FlatPlaces(l), NEW x,
                      x \in G[p], x \in G[q]
               PROVE  p = q
    OBVIOUS
  <2>1. PICK r \in 0 .. l - 1 : p = <<"below", r>> /\ x \in r * d .. r * d + d - 1
    BY <1>5
  <2>2. PICK s \in 0 .. l - 1 : q = <<"below", s>> /\ x \in s * d .. s * d + d - 1
    BY <1>5
  <2>3. r = s
    BY <1>1, <2>1, <2>2, FlatBelow
  <2> QED
    BY <2>1, <2>2, <2>3
<1>10. Exact(G, FlatPlaces(l), FlatRows)
  BY <1>7, <1>8, <1>9, MakeExact
<1> QED
  BY <1>10 DEF G, l

LEMMA InitInv == Init => RunInv
<1> SUFFICES ASSUME Init
             PROVE  RunInv
  OBVIOUS
<1>1. /\ mode \in Modes /\ column \in ColumnsFor(mode)
      /\ pass = (IF mode.out = "speculative" THEN "write" ELSE "count")
      /\ queue = EmptyQueue /\ board = EmptyBoard /\ warp = Restarted /\ visited = {}
  BY DEF Init
<1>2. RunTyped
  BY <1>1, ModesAssumption DEF RunTyped
<1>3. DOMAIN warp = Warps /\ \A w \in Warps : WarpTyped(warp[w]) /\ warp[w].pc = "start"
  BY <1>1, FreshTyped DEF Restarted
<1>4. WarpsTyped
  BY <1>3 DEF WarpsTyped
<1>5. /\ QueueTyped /\ queue.head = 0 /\ queue.tail = 0 /\ queue.ready = {}
      /\ board.count = 0 /\ board.ranges = <<>>
  BY <1>1, EmptyTyped DEF QueueTyped
<1>6. BoardTyped /\ DOMAIN board.ranges = {}
  BY <1>1, EmptyBoardTyped DEF BoardTyped
<1>7. WorkTyped
  BY <1>2, <1>4, <1>5, <1>6 DEF WorkTyped
<1>8. Phases /\ Strides /\ Unused /\ Spent
  BY <1>3, <1>5 DEF Phases, Strides, Unused, Spent, Giving
<1>15. Announced
  <2>1. \A w \in Warps : warp[w].n = 0
    BY <1>1, FreshTyped
  <2> QED
    BY <2>1 DEF Announced, Owns
<1>9. QueueCapacity \in Nat /\ FanCapacity \in Nat /\ \A s \in Slots : s \in Nat /\ ~(s < queue.head)
  BY <1>5, Sizes, SlotsAre
<1>10. Ticketed /\ FanHeld
  BY <1>3, <1>5, <1>9 DEF Ticketed, FanHeld, Giving
<1>11. mode.work = "fanout" => pass = "count"
  BY <1>1, <1>2, ModeCases DEF RunTyped
<1>12. Shared
  BY <1>1, <1>2, <1>5, <1>6, <1>11, InitShares
<1>13. Exact(FlatShares, FlatPlaces(Len(column)), FlatRows)
  BY <1>1, <1>2, <1>5, InitFlat
<1>14. Fanned
  <2>1. \A w \in Warps : warp[w].pc # "donate"
    BY <1>3
  <2>2. \A s \in Slots : ~(s < queue.tail)
    BY <1>5, <1>9
  <2> QED
    BY <1>5, <1>9, <1>13, <2>1, <2>2 DEF Fanned
<1> QED
  BY <1>7, <1>8, <1>10, <1>12, <1>14, <1>15 DEF RunInv, WorkInv

(* Every step keeps the invariant.                                         *)
LEMMA StutterKeeps ==
    ASSUME RunInv, UNCHANGED vars
    PROVE  RunInv'
<1>1. UNCHANGED <<column, queue, board, mode, pass, warp, visited>>
  BY DEF vars
<1>2. /\ WorkTyped /\ Phases /\ Strides /\ Ticketed /\ Unused /\ Fanned /\ FanHeld /\ Shared
      /\ Spent /\ Announced
  BY DEF RunInv, WorkInv
<1>3. WorkTyped'
  BY <1>1, <1>2 DEF WorkTyped, RunTyped, Iterable, WarpsTyped, WarpTyped, TaskTyped,
                    QueueTyped, BoardTyped
<1>4. Static' <=> Static
  BY <1>1 DEF Static
<1>5. Phases' /\ Strides' /\ Ticketed' /\ Unused' /\ FanHeld' /\ Spent' /\ Announced'
  BY <1>1, <1>2, <1>4 DEF Phases, Giving, Strides, Ticketed, Unused, FanHeld, Spent, Announced, Owns
<1>6. Frame
  BY <1>1 DEF Frame
<1>7. \A w \in Warps : Held(w)' = Held(w) /\ Offered(w)' = Offered(w) /\ Left(w)' = Left(w)
  BY <1>1, <1>6, HeldKept
<1>8. \A s \in Slots : Queued(s)' = Queued(s)
  BY <1>1, <1>6, QueuedKept DEF Awaited, At
<1>9. \A s \in 1 .. BoardCapacity : OnBoard(s)' = OnBoard(s)
  BY <1>1, PostedKept
<1>10. Shared'
  <2>1. AllRows' = AllRows
    BY <1>6, FrameSource
  <2>2. CASE pass = "done"
    BY <1>1, <2>2 DEF Shared
  <2>3. CASE pass # "done"
    BY <1>1, <1>2, <1>7, <1>8, <1>9, <2>1, <2>3, SharesSame
  <2> QED
    BY <2>2, <2>3
<1>11. Fanned'
  <2> SUFFICES ASSUME mode.work = "fanout", pass = "count"
               PROVE  Fanned'
    BY <1>1 DEF Fanned
  <2>1. /\ \A r \in 0 .. Len(column) - 1 : Below(r)' = Below(r)
        /\ \A s \in Slots : Pushed(s)' = Pushed(s)
    BY <1>1 DEF Below, Pushed, Span
  <2> DEFINE G == FlatShares'
  <2>2. \A p \in FlatPlaces(Len(column)) : G[p] = FlatShares[p]
    BY <1>1, <1>7, <2>1, FlatNow, FlatNext, FlatPlacesAre DEF FlatPlacesOf
  <2>3. Exact(FlatShares, FlatPlaces(Len(column)), FlatRows)
    BY <1>2 DEF Fanned
  <2> HIDE DEF G
  <2>4. Exact(G, FlatPlaces(Len(column)), FlatRows)
    BY <2>2, <2>3, NothingMoved
  <2>5. Exact(G, FlatPlaces(Len(column))', FlatRows')
    BY <1>1, <1>6, <2>4, FrameSource DEF FlatPlaces
  <2>6. Exact(FlatShares, FlatPlaces(Len(column)), FlatRows)'
    BY <2>5 DEF G, Exact
  <2> QED
    BY <1>1, <1>2, <2>6 DEF Fanned
<1> QED
  BY <1>3, <1>5, <1>10, <1>11 DEF RunInv, WorkInv

LEMMA NextInv == RunInv /\ [Next]_vars => RunInv'
<1> SUFFICES ASSUME RunInv, [Next]_vars
             PROVE  RunInv'
  OBVIOUS
<1>1. ASSUME NEW w \in Warps, WarpStep(w)
      PROVE  RunInv'
  BY <1>1, WorkStep, SpentStep, AnnouncedStep DEF RunInv
<1>2. CASE EndCount
  BY <1>2, EndCountStep
<1>3. CASE EndWrite
  BY <1>3, EndWriteStep
<1>4. CASE Terminated
  BY <1>4, StutterKeeps DEF Terminated
<1>5. CASE UNCHANGED vars
  BY <1>5, StutterKeeps
<1> QED
  BY <1>1, <1>2, <1>3, <1>4, <1>5 DEF Next

(* The state is well formed, the queue's tickets are sound and every row   *)
(* is in one place, for any number of warps, sizes, columns and modes.     *)
THEOREM RunInvariant == Spec => []RunInv
<1>1. Init => RunInv
  BY InitInv
<1>2. RunInv /\ [Next]_vars => RunInv'
  BY NextInv
<1> QED
  BY <1>1, <1>2, PTL DEF Spec

(* The rows at the property's places are the shares of the invariant.      *)
LEMMA RowsAtPlaces ==
    ASSUME RunInv, \A w \in Warps : warp[w].pc # "start"
    PROVE  /\ Whereabouts \subseteq AllPlaces
           /\ \A p \in Whereabouts : RowsAt(p) = Shares[p]
           /\ \A p \in AllPlaces : p \notin Whereabouts => Shares[p] = {}
<1>1. DOMAIN board.ranges \subseteq 1 .. BoardCapacity
  <2>1. BoardTyped /\ BoardCapacity \in Nat
    BY Sizes DEF RunInv, WorkInv, WorkTyped
  <2>2. DOMAIN board.ranges = 1 .. Len(board.ranges) /\ Len(board.ranges) <= BoardCapacity
        /\ Len(board.ranges) \in Nat
    BY <2>1 DEF BoardTyped
  <2> QED
    BY <2>1, <2>2
<1>2. /\ \A p \in Whereabouts : \/ p = <<"visited", 0>>
                                \/ \E w \in Warps : p = <<"held", w>> \/ p = <<"offered", w>>
                                \/ \E s \in Slots : p = <<"queued", s>>
                                \/ \E s \in DOMAIN board.ranges : p = <<"posted", s>>
      /\ <<"visited", 0>> \in Whereabouts
      /\ \A w \in Warps : <<"held", w>> \in Whereabouts /\ <<"offered", w>> \in Whereabouts
      /\ \A s \in Slots : <<"queued", s>> \in Whereabouts
      /\ \A s \in DOMAIN board.ranges : <<"posted", s>> \in Whereabouts
  <2>1. <<"visited", 0>> \in Whereabouts
    BY DEF Whereabouts
  <2>2. \A w \in Warps : <<"held", w>> \in Whereabouts /\ <<"offered", w>> \in Whereabouts
    BY DEF Whereabouts
  <2>3. \A s \in Slots : <<"queued", s>> \in Whereabouts
    BY DEF Whereabouts
  <2>4. \A s \in DOMAIN board.ranges : <<"posted", s>> \in Whereabouts
    BY DEF Whereabouts
  <2>5. ASSUME NEW p \in Whereabouts
        PROVE  \/ p = <<"visited", 0>>
               \/ \E w \in Warps : p = <<"held", w>> \/ p = <<"offered", w>>
               \/ \E s \in Slots : p = <<"queued", s>>
               \/ \E s \in DOMAIN board.ranges : p = <<"posted", s>>
    <3>1. CASE p = <<"visited", 0>>
      BY <3>1
    <3>2. CASE p \in {"held", "offered"} \X Warps
      BY <3>2
    <3>3. CASE p \in {"queued"} \X Slots
      BY <3>3
    <3>4. CASE p \in {"posted"} \X DOMAIN board.ranges
      BY <3>4
    <3> QED
      BY <2>5, <3>1, <3>2, <3>3, <3>4 DEF Whereabouts
  <2> QED
    BY <2>1, <2>2, <2>3, <2>4, <2>5
<1>3. /\ RowsAt(<<"visited", 0>>) = visited
      /\ \A w \in Warps : RowsAt(<<"held", w>>) = ToVisit(w) /\ RowsAt(<<"offered", w>>) = Offered(w)
      /\ \A s \in Slots : RowsAt(<<"queued", s>>) = Queued(s)
      /\ \A s \in DOMAIN board.ranges : RowsAt(<<"posted", s>>) = Posted(s)
  BY DEF RowsAt
<1>4. \A w \in Warps : Held(w) = ToVisit(w)
  BY DEF Held
<1>5. \A s \in DOMAIN board.ranges : OnBoard(s) = Posted(s)
  BY DEF OnBoard
<1>6. Whereabouts \subseteq AllPlaces
  BY <1>1, <1>2, PlaceNames
<1>7. \A p \in Whereabouts : RowsAt(p) = Shares[p]
  <2> SUFFICES ASSUME NEW p \in Whereabouts
               PROVE  RowsAt(p) = Shares[p]
    OBVIOUS
  <2>1. CASE p = <<"visited", 0>>
    BY <1>3, <2>1, SharesNow
  <2>2. ASSUME NEW w \in Warps, p = <<"held", w>>
        PROVE  RowsAt(p) = Shares[p]
    BY <1>3, <1>4, <2>2, SharesNow
  <2>3. ASSUME NEW w \in Warps, p = <<"offered", w>>
        PROVE  RowsAt(p) = Shares[p]
    BY <1>3, <2>3, SharesNow
  <2>4. ASSUME NEW s \in Slots, p = <<"queued", s>>
        PROVE  RowsAt(p) = Shares[p]
    BY <1>3, <2>4, SharesNow
  <2>5. ASSUME NEW s \in DOMAIN board.ranges, p = <<"posted", s>>
        PROVE  RowsAt(p) = Shares[p]
    <3>1. s \in 1 .. BoardCapacity
      BY <1>1
    <3> QED
      BY <1>3, <1>5, <2>5, <3>1, SharesNow
  <2> QED
    BY <1>2, <2>1, <2>2, <2>3, <2>4, <2>5
<1>8. \A p \in AllPlaces : p \notin Whereabouts => Shares[p] = {}
  <2> SUFFICES ASSUME NEW p \in AllPlaces, p \notin Whereabouts
               PROVE  Shares[p] = {}
    OBVIOUS
  <2>1. PICK s \in 1 .. BoardCapacity : p = <<"posted", s>>
    BY <1>2, PlacesAre DEF PlacesOf
  <2>2. s \notin DOMAIN board.ranges
    BY <1>2, <2>1
  <2> QED
    BY <2>1, <2>2, SharesNow DEF OnBoard
<1> QED
  BY <1>6, <1>7, <1>8

(* No row is lost or handed out twice: whatever the work source and the    *)
(* interleaving, each row of the iteration is in exactly one place.        *)
THEOREM WorkIsConserved == Spec => []WorkConserved
<1>1. RunInv => WorkConserved
  <2> SUFFICES ASSUME RunInv, pass # "done", \A w \in Warps : warp[w].pc # "start"
               PROVE  /\ UNION {RowsAt(p) : p \in Whereabouts} = AllRows
                      /\ \A p, q \in Whereabouts : p # q => RowsAt(p) \cap RowsAt(q) = {}
    BY DEF WorkConserved
  <2> DEFINE F == Shares
  <2>1. Exact(F, AllPlaces, AllRows)
    BY DEF RunInv, WorkInv, Shared
  <2>2. /\ Whereabouts \subseteq AllPlaces
        /\ \A p \in Whereabouts : RowsAt(p) = F[p]
        /\ \A p \in AllPlaces : p \notin Whereabouts => F[p] = {}
    BY RowsAtPlaces
  <2> HIDE DEF F
  <2>3. \A x : (\E p \in Whereabouts : x \in RowsAt(p)) <=> (\E p \in AllPlaces : x \in F[p])
    BY <2>2
  <2>4. \A x : (\E p \in AllPlaces : x \in F[p]) <=> x \in AllRows
    BY <2>1 DEF Exact
  <2>5. UNION {RowsAt(p) : p \in Whereabouts} = AllRows
    BY <2>3, <2>4
  <2>6. \A p, q \in Whereabouts : p # q => RowsAt(p) \cap RowsAt(q) = {}
    BY <2>1, <2>2 DEF Exact
  <2> QED
    BY <2>5, <2>6
<1> QED
  BY <1>1, RunInvariant, PTL

-----------------------------------------------------------------------------
(***************************************************************************)
(* Who may still write where.                                              *)
(***************************************************************************)

(* With output context counted a warp's rows are those of its stride; its  *)
(* counter is the number of them that it has passed.                       *)
Class(w) == {r \in 0 .. Len(column) - 1 : r % W = w - 1}
Passed(w) == IF warp[w].pc = "start" THEN {} ELSE {r \in Class(w) : r < warp[w].b}
Tally ==
    pass # "done" /\ mode.out = "counted" =>
        \A w \in Warps : warp[w].count = Cardinality(Passed(w))

(* Positions behind the old rows, counted from 0: those a warp is going to *)
(* write, those booked with a chunk of the queue, those nobody has yet.    *)
Blocks == mode.out \notin {"counted", "preassigned"} /\ pass = "write"
Aims(w) ==
    IF mode.out = "counted" /\ pass = "write"
    THEN base[w] + warp[w].count .. base[w] + Cardinality(Class(w)) - 1
    ELSE IF mode.out = "preassigned" /\ pass = "count" /\ warp[w].pc = "donate"
    THEN warp[w].at + warp[w].n .. warp[w].at + FanDegree - 1
    ELSE IF mode.out = "preassigned" /\ pass = "write" /\ warp[w].pc # "start"
    THEN warp[w].at .. warp[w].at + (warp[w].e - warp[w].b) - 1
    ELSE IF Blocks /\ warp[w].pc = "store"
    THEN warp[w].at .. warp[w].at + Len(warp[w].buf) - 1
    ELSE {}
Booked(s) ==
    IF mode.out = "preassigned" /\ queue.head <= s /\ s < queue.tail
    THEN queue.tasks[s].at .. queue.tasks[s].at + (queue.tasks[s].e - queue.tasks[s].b) - 1
    ELSE {}
Free ==
    IF mode.out = "preassigned" /\ pass = "count" THEN {q \in Nat : q >= total}
    ELSE IF Blocks THEN {q \in Nat : q >= writePos}
    ELSE {}

Apart ==
    /\ \A v, w \in Warps : v # w => Aims(v) \cap Aims(w) = {}
    /\ \A s, t \in Slots : s # t => Booked(s) \cap Booked(t) = {}
    /\ \A w \in Warps, s \in Slots : Aims(w) \cap Booked(s) = {}
    /\ \A w \in Warps : Aims(w) \cap Free = {}
    /\ \A s \in Slots : Booked(s) \cap Free = {}

(* What somebody is going to write is unwritten.                           *)
Unwritten(q) == oldSize + q + 1 \in DOMAIN rows => rows[oldSize + q + 1] = Junk
Blank ==
    pass = "write" =>
        /\ \A w \in Warps : \A q \in Aims(w) : Unwritten(q)
        /\ \A s \in Slots : \A q \in Booked(s) : Unwritten(q)
        /\ \A q \in Free : Unwritten(q)

IsSeq(s) == \E X : s \in Seq(X)
OutTyped ==
    /\ oldSize \in Nat /\ writePos \in Nat /\ total \in Nat /\ IsSeq(rows)
    /\ \A w \in Warps : warp[w].at \in Nat /\ IsSeq(warp[w].buf)
    /\ mode.work = "fanout" => \A s \in Slots : queue.tasks[s].at \in Nat
    /\ mode.out = "counted" /\ pass = "write" =>
          /\ \A w \in Warps : base[w] \in Nat
          /\ \A v, w \in Warps : v < w => base[v] + Cardinality(Class(v)) <= base[w]
    /\ pass = "count" => Len(rows) = oldSize

(* Only the contexts that claim blocks buffer rows.                        *)
Unbuffered ==
    mode.out \in {"counted", "preassigned"} =>
        \A w \in Warps : warp[w].buf = <<>> /\ warp[w].pc \notin {"probe", "flush", "store"}

OutInv == OutTyped /\ Unbuffered /\ Tally /\ Apart /\ Blank

(* Claims that shrink, and claims that change hands.                       *)
LEMMA ClaimsShrink ==
    ASSUME Apart, \A w \in Warps : Aims(w)' \subseteq Aims(w),
           \A s \in Slots : Booked(s)' \subseteq Booked(s), Free' \subseteq Free
    PROVE  Apart'
  BY DEF Apart

LEMMA ClaimsBooked ==
    ASSUME Apart, NEW w \in Warps, NEW t \in Slots,
           \A v \in Warps : v = w \/ Aims(v)' = Aims(v),
           \A s \in Slots : s = t \/ Booked(s)' = Booked(s), Free' = Free,
           Aims(w)' \cup Booked(t)' \subseteq Aims(w) \cup Booked(t),
           Aims(w)' \cap Booked(t)' = {}
    PROVE  Apart'
<1> DEFINE G == Aims(w) \cup Booked(t)
<1>1. /\ \A v \in Warps : v = w \/ Aims(v) \cap G = {}
      /\ \A s \in Slots : s = t \/ Booked(s) \cap G = {}
      /\ Free \cap G = {}
  BY DEF Apart
<1>2. Aims(w)' \subseteq G /\ Booked(t)' \subseteq G
  OBVIOUS
<1> HIDE DEF G
<1>3. \A u, v \in Warps : u # v => Aims(u)' \cap Aims(v)' = {}
  BY <1>1, <1>2 DEF Apart
<1>4. \A r, s \in Slots : r # s => Booked(r)' \cap Booked(s)' = {}
  BY <1>1, <1>2 DEF Apart
<1>5. \A v \in Warps, s \in Slots : Aims(v)' \cap Booked(s)' = {}
  BY <1>1, <1>2 DEF Apart
<1>6. \A v \in Warps : Aims(v)' \cap Free' = {}
  BY <1>1, <1>2 DEF Apart
<1>7. \A s \in Slots : Booked(s)' \cap Free' = {}
  BY <1>1, <1>2 DEF Apart
<1> QED
  BY <1>3, <1>4, <1>5, <1>6, <1>7 DEF Apart

LEMMA ClaimsFreed ==
    ASSUME Apart, NEW w \in Warps,
           \A v \in Warps : v = w \/ Aims(v)' = Aims(v),
           \A s \in Slots : Booked(s)' = Booked(s),
           Aims(w)' \cup Free' \subseteq Aims(w) \cup Free, Aims(w)' \cap Free' = {}
    PROVE  Apart'
<1> DEFINE G == Aims(w) \cup Free
<1>1. /\ \A v \in Warps : v = w \/ Aims(v) \cap G = {}
      /\ \A s \in Slots : Booked(s) \cap G = {}
  BY DEF Apart
<1>2. Aims(w)' \subseteq G /\ Free' \subseteq G
  OBVIOUS
<1> HIDE DEF G
<1>3. \A u, v \in Warps : u # v => Aims(u)' \cap Aims(v)' = {}
  BY <1>1, <1>2 DEF Apart
<1>4. \A r, s \in Slots : r # s => Booked(r)' \cap Booked(s)' = {}
  BY DEF Apart
<1>5. \A v \in Warps, s \in Slots : Aims(v)' \cap Booked(s)' = {}
  BY <1>1, <1>2 DEF Apart
<1>6. \A v \in Warps : Aims(v)' \cap Free' = {}
  BY <1>1, <1>2 DEF Apart
<1>7. \A s \in Slots : Booked(s)' \cap Free' = {}
  BY <1>1, <1>2 DEF Apart
<1> QED
  BY <1>3, <1>4, <1>5, <1>6, <1>7 DEF Apart

(* What is claimed after a step that writes nothing was claimed before.    *)
Claimed(q) ==
    \/ \E w \in Warps : q \in Aims(w)
    \/ \E s \in Slots : q \in Booked(s)
    \/ q \in Free
LEMMA ClaimedNow ==
    ASSUME NEW q
    PROVE  Claimed(q)' <=> \/ \E w \in Warps : q \in Aims(w)'
                           \/ \E s \in Slots : q \in Booked(s)'
                           \/ q \in Free'
  BY DEF Claimed

LEMMA BlankIs == Blank <=> (pass = "write" => \A q : Claimed(q) => Unwritten(q))
  BY DEF Blank, Claimed

LEMMA BlankNow == Blank' <=> (pass' = "write" => \A q : Claimed(q)' => Unwritten(q)')
<1>1. ASSUME NEW q
      PROVE  Claimed(q)' <=> \/ \E w \in Warps : q \in Aims(w)'
                             \/ \E s \in Slots : q \in Booked(s)'
                             \/ q \in Free'
  BY ClaimedNow
<1> QED
  BY <1>1 DEF Blank

LEMMA ClaimsAreInts ==
    /\ \A w \in Warps : Aims(w) \subseteq Int
    /\ \A s \in Slots : Booked(s) \subseteq Int
    /\ Free \subseteq Int
<1>0. \A a, b : a .. b \subseteq Int
  OBVIOUS
<1>1. \A w \in Warps : \E a, b : Aims(w) = a .. b \/ Aims(w) = {}
  BY DEF Aims
<1>2. \A s \in Slots : \E a, b : Booked(s) = a .. b \/ Booked(s) = {}
  BY DEF Booked
<1>3. Free \subseteq Int
  BY DEF Free
<1> QED
  BY <1>0, <1>1, <1>2, <1>3

LEMMA BlankKept ==
    ASSUME Blank, UNCHANGED <<rows, oldSize, pass>>, \A q : Claimed(q)' => Claimed(q)
    PROVE  Blank'
<1>1. ASSUME NEW q, pass' = "write", Claimed(q)'
      PROVE  Unwritten(q)'
  <2>1. Claimed(q)
    BY <1>1
  <2>2. Unwritten(q)
    BY <1>1, <2>1, BlankIs
  <2> QED
    BY <2>2 DEF Unwritten
<1> QED
  BY <1>1, BlankNow

(* A block of rows that is written.                                        *)
LEMMA StoredRows ==
    ASSUME IsSeq(rows), oldSize \in Nat, NEW at \in Nat, NEW block, IsSeq(block),
           rows' = Stored(at, block)
    PROVE  /\ IsSeq(rows') /\ Len(rows') = Len(rows) /\ DOMAIN rows' = DOMAIN rows
           /\ \A p \in DOMAIN rows : p \in Nat /\ (rows'[p] = rows[p] \/
                 \E q \in at .. at + Len(block) - 1 : p = oldSize + q + 1)
<1>1. PICK X : rows \in Seq(X)
  BY DEF IsSeq
<1>2. PICK Y : block \in Seq(Y)
  BY DEF IsSeq
<1>3. PICK n : n = Len(rows)
  OBVIOUS
<1>4. DOMAIN rows = 1 .. n /\ n \in Nat
  BY <1>1, <1>3
<1>5. DOMAIN block = 1 .. Len(block) /\ Len(block) \in Nat
  BY <1>2
<1>6. rows' = [p \in 1 .. n |-> IF p - oldSize - at \in 1 .. Len(block)
                                THEN block[p - oldSize - at] ELSE rows[p]]
  BY <1>4, <1>5 DEF Stored
<1>7. \A p \in 1 .. n : rows'[p] \in X \cup Y
  BY <1>1, <1>2, <1>4, <1>5, <1>6
<1>8. rows' \in [1 .. n -> X \cup Y]
  BY <1>6, <1>7
<1>9. rows' \in Seq(X \cup Y) /\ Len(rows') = n
  BY <1>4, <1>8
<1>10. ASSUME NEW p \in 1 .. n, rows'[p] # rows[p]
       PROVE  \E q \in at .. at + Len(block) - 1 : p = oldSize + q + 1
  <2>1. p - oldSize - at \in 1 .. Len(block)
    BY <1>6, <1>10
  <2>2. p - oldSize - 1 \in at .. at + Len(block) - 1 /\ p = oldSize + (p - oldSize - 1) + 1
    BY <1>4, <1>5, <2>1
  <2> QED
    BY <2>2
<1>11. IsSeq(rows')
  BY <1>9, Zenon DEF IsSeq
<1>12. DOMAIN rows' = 1 .. n
  BY <1>6
<1>13. \A p \in DOMAIN rows : p \in Nat
  BY <1>4
<1> QED
  BY <1>3, <1>4, <1>9, <1>10, <1>11, <1>12, <1>13, Zenon

Once == \A p \in DOMAIN rows : rows[p] # Junk => rows'[p] = rows[p]

(* A warp writes where it aimed, and aims there no more.                   *)
LEMMA BlankWritten ==
    ASSUME Blank, Apart, pass = "write", UNCHANGED <<oldSize, pass>>, IsSeq(rows), oldSize \in Nat,
           NEW w \in Warps, NEW at \in Nat, NEW block, IsSeq(block), rows' = Stored(at, block),
           at .. at + Len(block) - 1 \subseteq Aims(w),
           Aims(w)' \subseteq Aims(w), Aims(w)' \cap (at .. at + Len(block) - 1) = {},
           \A v \in Warps : v = w \/ Aims(v)' = Aims(v),
           \A s \in Slots : Booked(s)' = Booked(s), Free' = Free
    PROVE  /\ Once /\ Apart' /\ Blank'
           /\ IsSeq(rows') /\ Len(rows') = Len(rows)
<1> DEFINE B == at .. at + Len(block) - 1
<1>1. /\ IsSeq(rows') /\ Len(rows') = Len(rows) /\ DOMAIN rows' = DOMAIN rows
      /\ \A p \in DOMAIN rows : p \in Nat /\ (rows'[p] = rows[p] \/ \E q \in B : p = oldSize + q + 1)
  BY StoredRows
<1>2. B \subseteq Aims(w) /\ Aims(w)' \cap B = {}
  OBVIOUS
<1>0. \A q \in B : q \in Int
  OBVIOUS
<1> HIDE DEF B
<1>3. \A q \in B : Unwritten(q)
  BY <1>2, Zenon DEF Blank
<1>4. Once
  <2> SUFFICES ASSUME NEW p \in DOMAIN rows, rows'[p] # rows[p]
               PROVE  rows[p] = Junk
    BY DEF Once
  <2>1. PICK q \in B : p = oldSize + q + 1
    BY <1>1
  <2> QED
    BY <1>3, <2>1 DEF Unwritten
<1>5. \A v \in Warps : Aims(v)' \subseteq Aims(v)
  OBVIOUS
<1>6. Apart'
  BY <1>5, ClaimsShrink
<1>7. ASSUME NEW q, Claimed(q)'
      PROVE  Claimed(q) /\ q \notin B
  <2>1. \/ \E v \in Warps : q \in Aims(v)'
        \/ \E s \in Slots : q \in Booked(s)'
        \/ q \in Free'
    BY <1>7, ClaimedNow
  <2>2. Claimed(q)
    BY <1>5, <2>1 DEF Claimed
  <2>3. ASSUME q \in B
        PROVE  FALSE
    <3>1. q \in Aims(w) /\ q \notin Aims(w)'
      BY <1>2, <2>3
    <3>2. \A v \in Warps : q \notin Aims(v)'
      BY <3>1 DEF Apart
    <3>3. \A s \in Slots : q \notin Booked(s)'
      BY <3>1 DEF Apart
    <3>4. q \notin Free'
      BY <3>1 DEF Apart
    <3> QED
      BY <2>1, <3>2, <3>3, <3>4
  <2> QED
    BY <2>2, <2>3
<1>8. ASSUME NEW q, Claimed(q)'
      PROVE  Unwritten(q)'
  <2>1. Unwritten(q) /\ q \notin B /\ q \in Int
    <3>1. Claimed(q) /\ q \notin B
      BY <1>7, <1>8
    <3>2. q \in Int
      BY <3>1, ClaimsAreInts DEF Claimed
    <3> QED
      BY <3>1, <3>2, BlankIs
  <2>2. ASSUME oldSize + q + 1 \in DOMAIN rows
        PROVE  rows'[oldSize + q + 1] = rows[oldSize + q + 1]
    <3> SUFFICES ASSUME NEW r \in B, oldSize + q + 1 = oldSize + r + 1
                 PROVE  FALSE
      BY <1>1, <2>2
    <3>1. r = q
      BY <1>0, <2>1
    <3> QED
      BY <2>1, <3>1
  <2> QED
    BY <1>1, <2>1, <2>2 DEF Unwritten
<1>9. Blank'
  BY <1>8, BlankNow
<1> QED
  BY <1>1, <1>4, <1>6, <1>9

(* A step of warp w leaves alone what the others claim.                    *)
OutFrame == UNCHANGED <<column, mode, pass, base, oldSize>>

LEMMA OthersAims ==
    ASSUME OutFrame, NEW v, warp'[v] = warp[v]
    PROVE  Aims(v)' = Aims(v) /\ Passed(v)' = Passed(v)
<1>1. /\ column' = column /\ mode' = mode /\ pass' = pass /\ base' = base
      /\ warp'[v] = warp[v] /\ Class(v)' = Class(v)
  BY DEF OutFrame, Class
<1>2. Blocks' <=> Blocks
  BY <1>1 DEF Blocks
<1> QED
  BY <1>1, <1>2, Zenon DEF Aims, Passed

LEMMA BookedKept ==
    ASSUME OutFrame, mode.out # "preassigned" \/ UNCHANGED queue, NEW s
    PROVE  Booked(s)' = Booked(s)
  BY DEF OutFrame, Booked

LEMMA FreeKept ==
    ASSUME OutFrame, UNCHANGED <<total, writePos>>
    PROVE  Free' = Free
  BY DEF OutFrame, Free, Blocks

(* What a warp's own step must leave in order.                             *)
OwnOut(w) ==
    /\ Alone(w) /\ warp'[w].at \in Nat /\ IsSeq(warp'[w].buf)
    /\ mode.out \in {"counted", "preassigned"} =>
          warp'[w].buf = <<>> /\ warp'[w].pc \notin {"probe", "flush", "store"}
    /\ pass # "done" /\ mode.out = "counted" => warp'[w].count = Cardinality(Passed(w)')

LEMMA OutStep ==
    ASSUME OutInv, NEW w \in Warps, OwnOut(w), OutFrame, Apart', Blank',
           writePos' \in Nat, total' \in Nat, IsSeq(rows'), Len(rows') = Len(rows),
           mode.work = "fanout" => \A s \in Slots : queue'.tasks[s].at \in Nat
    PROVE  OutInv'
<1>1. /\ column' = column /\ mode' = mode /\ pass' = pass /\ base' = base /\ oldSize' = oldSize
      /\ \A v \in Warps : v = w \/ warp'[v] = warp[v]
      /\ \A v : Class(v)' = Class(v)
  BY DEF OutFrame, OwnOut, Alone, Others, Class
<1>2. OutTyped'
  <2>1. \A v \in Warps : warp'[v].at \in Nat /\ IsSeq(warp'[v].buf)
    BY <1>1 DEF OutInv, OutTyped, OwnOut
  <2>2. oldSize' \in Nat /\ (pass' = "count" => Len(rows') = oldSize')
    BY <1>1 DEF OutInv, OutTyped
  <2>3. mode'.out = "counted" /\ pass' = "write" =>
          /\ \A v \in Warps : base'[v] \in Nat
          /\ \A u, v \in Warps : u < v => base'[u] + Cardinality(Class(u)') <= base'[v]
    BY <1>1 DEF OutInv, OutTyped
  <2> QED
    BY <1>1, <2>1, <2>2, <2>3 DEF OutTyped, IsSeq
<1>3. Unbuffered'
  BY <1>1 DEF OutInv, Unbuffered, OwnOut
<1>4. Tally'
  <2>1. \A v \in Warps : v = w \/ Passed(v)' = Passed(v)
    BY <1>1, OthersAims
  <2> QED
    BY <1>1, <2>1 DEF OutInv, Tally, OwnOut
<1> QED
  BY <1>2, <1>3, <1>4 DEF OutInv

(* A step that puts nothing out and claims nothing.                        *)
LEMMA OutQuiet ==
    ASSUME OutInv, NEW w \in Warps, OwnOut(w), OutFrame,
           UNCHANGED <<rows, writePos, total>>,
           mode.work = "fanout" \/ mode.out = "preassigned" => UNCHANGED queue,
           Aims(w)' \subseteq Aims(w)
    PROVE  OutInv' /\ Once
<1>1. \A v \in Warps : Aims(v)' \subseteq Aims(v)
  <2>1. \A v \in Warps : v = w \/ warp'[v] = warp[v]
    BY DEF OwnOut, Alone, Others
  <2> QED
    BY <2>1, OthersAims
<1>2. \A s \in Slots : Booked(s)' = Booked(s)
  BY BookedKept
<1>3. Free' = Free
  BY FreeKept
<1>4. Apart'
  BY <1>1, <1>2, <1>3, ClaimsShrink DEF OutInv
<1>5. \A q : Claimed(q)' => Claimed(q)
  BY <1>1, <1>2, <1>3, ClaimedNow DEF Claimed
<1>6. Blank'
  BY <1>5, BlankKept DEF OutInv, OutFrame
<1>7. OutInv'
  BY <1>4, <1>6, OutStep DEF OutInv, OutTyped
<1> QED
  BY <1>7 DEF Once

(* A step of a warp that does not write, in a context that claims blocks.  *)
LEMMA OutBlocks ==
    ASSUME OutInv, NEW w \in Warps, mode.out \notin {"counted", "preassigned"},
           mode.work # "fanout", Alone(w), OutFrame, UNCHANGED <<rows, writePos, total>>,
           warp'[w].at \in Nat, IsSeq(warp'[w].buf), warp'[w].pc # "store"
    PROVE  OutInv' /\ Once
<1>1. OwnOut(w)
  BY DEF OwnOut
<1>2. Aims(w)' = {}
  BY DEF Aims, OutFrame
<1> QED
  BY <1>1, <1>2, OutQuiet

LEMMA OutModes ==
    ASSUME RunTyped
    PROVE  /\ mode.work \in {"queue", "board"} => mode.out \in {"chunked", "coalesced"}
           /\ mode.work = "fanout" <=> mode.out = "preassigned"
           /\ mode.out \in {"counted", "dedup", "speculative"} => mode.work = "static"
           /\ mode.out \in {"counted", "dedup", "speculative", "chunked", "coalesced",
                            "preassigned"}
           /\ mode.out \notin {"counted", "preassigned"} => mode.work # "fanout"
  BY DEF RunTyped, Combinations, Generated, LibraryOnly

LEMMA NoRows == IsSeq(<<>>) /\ Len(<<>>) = 0
<1>1. <<>> \in Seq({})
  OBVIOUS
<1> QED
  BY <1>1 DEF IsSeq

LEMMA ClassFinite ==
    ASSUME RunTyped, NEW w
    PROVE  IsFiniteSet(Class(w)) /\ Cardinality(Class(w)) \in Nat /\ Class(w) \subseteq Nat
<1>1. Len(column) \in Nat
  BY DEF RunTyped, Iterable
<1>2. IsFiniteSet(0 .. Len(column) - 1)
  BY <1>1, FS_Interval
<1>3. Class(w) \subseteq 0 .. Len(column) - 1
  BY DEF Class
<1>4. IsFiniteSet(Class(w))
  BY <1>2, <1>3, FS_Subset
<1> QED
  BY <1>1, <1>3, <1>4, FS_CardinalityType

LEMMA NothingPassed ==
    ASSUME RunTyped, NEW w \in Warps
    PROVE  {r \in Class(w) : r < w - 1} = {}
<1>1. W \in Nat \ {0} /\ w \in 1 .. W
  BY WarpCount
<1>2. ASSUME NEW r \in Class(w), r < w - 1
      PROVE  FALSE
  <2>1. r \in Nat /\ r % W = w - 1
    BY ClassFinite DEF Class
  <2>2. r >= r % W
    BY <1>1, <2>1, Remainder
  <2> QED
    BY <1>1, <1>2, <2>1, <2>2
<1> QED
  BY <1>2

LEMMA BeginOut ==
    ASSUME RunInv, OutInv, NEW w \in Warps, Begin(w)
    PROVE  OutInv' /\ Once
<1>1. RunTyped /\ WarpsTyped
  BY DEF RunInv, WorkInv, WorkTyped
<1>2. /\ Shown(w, "run", Kept(w).b, Kept(w).e, warp[w].slot)
      /\ warp'[w].at = warp[w].at /\ warp'[w].count = warp[w].count /\ warp'[w].buf = warp[w].buf
      /\ At(w, "start")
      /\ UNCHANGED <<column, queue, outputs, host, total, visited>>
  BY <1>1, BeginEffect, Zenon DEF Kept, Part
<1>3. /\ OutFrame /\ UNCHANGED <<rows, writePos, total, queue>> /\ Alone(w)
      /\ warp[w].pc = "start" /\ warp'[w].pc = "run" /\ warp'[w].b = Kept(w).b
      /\ warp'[w].e = Kept(w).e /\ pass # "done"
  BY <1>2 DEF OutFrame, host, outputs, Shown, At
<1>4. /\ warp[w].at \in Nat /\ IsSeq(warp[w].buf)
      /\ mode.out \in {"counted", "preassigned"} => warp[w].buf = <<>>
  BY DEF OutInv, OutTyped, Unbuffered
<1>5. ASSUME mode.out = "counted"
      PROVE  Passed(w)' = Passed(w)
  <2>1. Static /\ mode.work # "board"
    BY <1>1, <1>5, OutModes DEF Static
  <2>2. warp'[w].b = w - 1
    BY <1>3, <2>1, PartIs, TaskIs DEF Kept, Posting
  <2>3. Passed(w)' = {r \in Class(w) : r < w - 1}
    BY <1>3, <2>2 DEF Passed, OutFrame, Class
  <2> QED
    BY <1>1, <1>3, <2>3, NothingPassed DEF Passed
<1>6. OwnOut(w)
  BY <1>2, <1>3, <1>4, <1>5 DEF OwnOut, OutInv, Tally
<1>7. Aims(w)' \subseteq Aims(w)
  <2>1. ASSUME mode.out = "counted"
        PROVE  Aims(w)' \subseteq Aims(w)
    BY <1>2, <1>3, <2>1 DEF Aims, OutFrame, Class, Blocks
  <2>2. ASSUME mode.out = "preassigned", pass = "write"
        PROVE  Aims(w)' = {}
    <3>1. ~Static /\ mode.work = "fanout"
      BY <1>1, <2>2, OutModes DEF Static
    <3>2. Kept(w) = NoTask
      BY <3>1, PartIs DEF Kept, Posting
    <3>3. warp'[w].b = 0 /\ warp'[w].e = 0 /\ warp'[w].at \in Nat
      BY <1>2, <1>3, <1>4, <3>2, TaskIs
    <3>4. Aims(w)' = warp'[w].at .. warp'[w].at + (0 - 0) - 1
      BY <1>3, <2>2, <3>3 DEF Aims, OutFrame
    <3> QED
      BY <3>3, <3>4
  <2>3. ASSUME mode.out # "counted", ~(mode.out = "preassigned" /\ pass = "write")
        PROVE  Aims(w)' = {}
    BY <1>3, <2>3 DEF Aims, OutFrame
  <2> QED
    BY <2>1, <2>2, <2>3
<1> QED
  BY <1>3, <1>6, <1>7, OutQuiet

(* Turns of a warp in a context that claims blocks.                        *)
LEMMA OutTurns ==
    ASSUME RunTyped, OutInv, NEW w \in Warps, mode.out \notin {"counted", "preassigned"},
           UNCHANGED <<column, outputs, host, total>>,
           NEW pc, pc # "store", NEW b, NEW e, NEW slot, NEW give, NEW count, NEW n,
           NEW buf, IsSeq(buf),
           Turns(w, pc, b, e, slot, give, count, warp[w].at, n, buf)
    PROVE  OutInv' /\ Once
<1>1. OutFrame /\ UNCHANGED <<rows, writePos, total>>
  BY DEF OutFrame, outputs, host
<1>2. Alone(w) /\ warp'[w].at = warp[w].at /\ warp'[w].buf = buf /\ warp'[w].pc = pc
  BY DEF Turns, IsWarp
<1>3. warp[w].at \in Nat
  BY DEF OutInv, OutTyped
<1> QED
  BY <1>1, <1>2, <1>3, OutModes, OutBlocks

LEMMA DonateOut ==
    ASSUME RunInv, OutInv, NEW w \in Warps, Donate(w)
    PROVE  OutInv' /\ Once
<1>1. RunTyped /\ WarpsTyped /\ IsSeq(warp[w].buf)
  BY DEF RunInv, WorkInv, WorkTyped, OutInv, OutTyped
<1>2. DonateDone(w)
  BY <1>1, DonateEffect
<1>3. mode.out \notin {"counted", "preassigned"} /\ UNCHANGED <<column, outputs, host, total>>
  BY <1>1, <1>2, OutModes DEF DonateDone
<1>4. \E pc \in {"fill", "run"} : \E b, e, slot, give :
         Turns(w, pc, b, e, slot, give, warp[w].count, warp[w].at, warp[w].n, warp[w].buf)
  BY <1>2, Zenon DEF DonateDone
<1> QED
  BY <1>1, <1>3, <1>4, OutTurns

LEMMA FillSlotOut ==
    ASSUME RunInv, OutInv, NEW w \in Warps, FillSlot(w)
    PROVE  OutInv' /\ Once
<1>1. RunTyped /\ WarpsTyped /\ IsSeq(warp[w].buf) /\ Phases
  BY DEF RunInv, WorkInv, WorkTyped, OutInv, OutTyped
<1>2. FillDone(w)
  BY <1>1, FillSlotEffect
<1>3. mode.out \notin {"counted", "preassigned"} /\ UNCHANGED <<column, outputs, host, total>>
  BY <1>1, <1>2, OutModes DEF FillDone, At, Phases, Giving
<1> QED
  BY <1>1, <1>2, <1>3, OutTurns DEF FillDone

LEMMA RaiseFlagOut ==
    ASSUME RunInv, OutInv, NEW w \in Warps, RaiseFlag(w)
    PROVE  OutInv' /\ Once
<1>1. RunTyped /\ WarpsTyped /\ IsSeq(warp[w].buf) /\ Phases
  BY DEF RunInv, WorkInv, WorkTyped, OutInv, OutTyped
<1>2. RaiseDone(w)
  BY <1>1, RaiseFlagEffect
<1>3. mode.out \notin {"counted", "preassigned"} /\ UNCHANGED <<column, outputs, host, total>>
  BY <1>1, <1>2, OutModes DEF RaiseDone, At, Phases, Giving
<1> QED
  BY <1>1, <1>2, <1>3, OutTurns DEF RaiseDone

LEMMA StealOut ==
    ASSUME RunInv, OutInv, NEW w \in Warps, Steal(w)
    PROVE  OutInv' /\ Once
<1>1. RunTyped /\ WarpsTyped /\ IsSeq(warp[w].buf)
  BY DEF RunInv, WorkInv, WorkTyped, OutInv, OutTyped
<1>2. StealDone(w)
  BY <1>1, StealEffect
<1>3. mode.out \notin {"counted", "preassigned"} /\ UNCHANGED <<column, outputs, host, total>>
  BY <1>1, <1>2, OutModes DEF StealDone
<1> QED
  BY <1>1, <1>2, <1>3, OutTurns DEF StealDone

LEMMA TakeTaskOut ==
    ASSUME RunInv, OutInv, NEW w \in Warps, TakeTask(w)
    PROVE  OutInv' /\ Once
<1>1. RunTyped /\ WarpsTyped /\ IsSeq(warp[w].buf) /\ Phases
  BY DEF RunInv, WorkInv, WorkTyped, OutInv, OutTyped
<1>2. TakeDone(w)
  BY <1>1, TakeTaskEffect
<1>3. mode.out \notin {"counted", "preassigned"} /\ UNCHANGED <<column, outputs, host, total>>
  BY <1>1, <1>2, OutModes DEF TakeDone, At, Phases, sources
<1> QED
  BY <1>1, <1>2, <1>3, OutTurns DEF TakeDone

LEMMA GrabOut ==
    ASSUME RunInv, OutInv, NEW w \in Warps, GrabRange(w)
    PROVE  OutInv' /\ Once
<1>1. RunTyped /\ WarpsTyped /\ BoardTyped /\ IsSeq(warp[w].buf)
  BY DEF RunInv, WorkInv, WorkTyped, OutInv, OutTyped
<1>2. GrabDone(w)
  BY <1>1, GrabEffect
<1>3. mode.out \notin {"counted", "preassigned"} /\ UNCHANGED <<column, outputs, host, total>>
  BY <1>1, <1>2, OutModes DEF GrabDone
<1>4. \E b, e, slot : Turns(w, "run", b, e, slot, warp[w].give, warp[w].count, warp[w].at,
                            warp[w].n, warp[w].buf)
  BY <1>2, Zenon DEF GrabDone
<1> QED
  BY <1>1, <1>3, <1>4, OutTurns

LEMMA AnnounceOut ==
    ASSUME RunInv, OutInv, NEW w \in Warps, Announce(w)
    PROVE  OutInv' /\ Once
<1>1. RunTyped /\ WarpsTyped /\ IsSeq(warp[w].buf)
  BY DEF RunInv, WorkInv, WorkTyped, OutInv, OutTyped
<1>2. AnnounceDone(w)
  BY <1>1, AnnounceEffect
<1>3. mode.out \notin {"counted", "preassigned"} /\ UNCHANGED <<column, outputs, host, total>>
  BY <1>1, <1>2, OutModes DEF AnnounceDone
<1>4. Turns(w, "start", warp[w].b, warp[w].e, warp[w].slot, warp[w].give, warp[w].count,
            warp[w].at, board.count + 1, warp[w].buf)
  BY <1>2 DEF AnnounceDone
<1> QED
  BY <1>1, <1>3, <1>4, OutTurns

LEMMA ProbeOut ==
    ASSUME RunInv, OutInv, NEW w \in Warps, Probe(w)
    PROVE  OutInv' /\ Once
<1>1. RunTyped /\ WarpsTyped /\ IsSeq(warp[w].buf) /\ Unbuffered /\ warp[w].at \in Nat
  BY DEF RunInv, WorkInv, WorkTyped, OutInv, OutTyped
<1>2. ProbeDone(w)
  BY <1>1, ProbeEffect
<1>3. /\ mode.out \notin {"counted", "preassigned"} /\ OutFrame
      /\ UNCHANGED <<rows, writePos, total>>
  BY <1>1, <1>2 DEF ProbeDone, At, Unbuffered, sources, host, OutFrame
<1>4. \E pc \in {"run", "probe", "flush"}, buf \in {<<>>, warp[w].buf} : \E count, n :
         Turns(w, pc, warp[w].b, warp[w].e, warp[w].slot, warp[w].give, count, warp[w].at, n, buf)
  BY <1>2, Zenon DEF ProbeDone
<1>5. Alone(w) /\ warp'[w].at \in Nat /\ IsSeq(warp'[w].buf) /\ warp'[w].pc # "store"
  BY <1>1, <1>4, NoRows DEF Turns, IsWarp
<1> QED
  BY <1>1, <1>3, <1>5, OutModes, OutBlocks

LEMMA FinishOut ==
    ASSUME RunInv, OutInv, NEW w \in Warps, Finish(w)
    PROVE  OutInv' /\ Once
<1>1. /\ RunTyped /\ WarpsTyped /\ IsSeq(warp[w].buf) /\ Unbuffered /\ warp[w].at \in Nat /\ Tally
  BY DEF RunInv, WorkInv, WorkTyped, OutInv, OutTyped
<1>2. FinishDone(w)
  BY <1>1, FinishEffect
<1>3. /\ OutFrame /\ UNCHANGED <<rows, writePos, total, queue>> /\ Alone(w)
      /\ warp'[w].at = warp[w].at /\ warp'[w].buf = warp[w].buf /\ warp'[w].count = warp[w].count
      /\ warp'[w].b = warp[w].b /\ warp'[w].e = warp[w].e
      /\ warp[w].pc = "run" /\ pass # "done"
      /\ warp'[w].pc \in {"flush", "stop"} /\ (warp[w].buf = <<>> => warp'[w].pc = "stop")
  BY <1>2 DEF FinishDone, OutFrame, sources, outputs, host, Turns, IsWarp, Drained, At
<1>4. Passed(w)' = Passed(w)
  BY <1>3 DEF Passed, Class, OutFrame
<1>5. OwnOut(w)
  BY <1>1, <1>3, <1>4 DEF OwnOut, Tally, Unbuffered
<1>6. Aims(w)' \subseteq Aims(w)
  BY <1>3 DEF Aims, Class, Blocks, OutFrame
<1> QED
  BY <1>3, <1>5, <1>6, OutQuiet

LEMMA FlushOut ==
    ASSUME RunInv, OutInv, NEW w \in Warps, Flush(w)
    PROVE  OutInv' /\ Once
<1>1. /\ RunTyped /\ WarpsTyped /\ Unbuffered /\ Apart /\ Blank
      /\ IsSeq(warp[w].buf) /\ warp[w].at \in Nat /\ writePos \in Nat /\ total \in Nat /\ IsSeq(rows)
      /\ mode.work = "fanout" => \A s \in Slots : queue.tasks[s].at \in Nat
  BY DEF RunInv, WorkInv, WorkTyped, OutInv, OutTyped
<1>2. FlushDone(w)
  BY <1>1, FlushEffect
<1>3. /\ mode.out \notin {"counted", "preassigned"} /\ OutFrame
      /\ UNCHANGED <<rows, total, queue>>
      /\ writePos' = writePos + Len(warp[w].buf) /\ warp[w].pc = "flush"
  BY <1>1, <1>2 DEF FlushDone, At, Unbuffered, sources, host, OutFrame, Claim
<1>4. PICK l : l = Len(warp[w].buf)
  OBVIOUS
<1>5. l \in Nat
  <2>1. PICK X : warp[w].buf \in Seq(X)
    BY <1>1 DEF IsSeq
  <2> QED
    BY <1>4, <2>1
<1>6. /\ Alone(w)
      /\ \/ /\ warp'[w].pc = "store" /\ warp'[w].at = writePos /\ warp'[w].buf = warp[w].buf
         \/ /\ warp'[w].pc = "run" /\ warp'[w].at = warp[w].at /\ warp'[w].buf = <<>>
  BY <1>2 DEF FlushDone, Turns, IsWarp
<1>7. OwnOut(w)
  BY <1>1, <1>3, <1>6, NoRows DEF OwnOut
<1>8. Aims(w) = {}
  BY <1>3 DEF Aims
<1>9. \A v \in Warps : v = w \/ Aims(v)' = Aims(v)
  BY <1>3, <1>6, OthersAims DEF Alone, Others
<1>10. \A s \in Slots : Booked(s)' = Booked(s)
  BY <1>3, BookedKept
<1>11. /\ Free = IF pass = "write" THEN {q \in Nat : q >= writePos} ELSE {}
       /\ Free' = IF pass = "write" THEN {q \in Nat : q >= writePos + l} ELSE {}
       /\ Aims(w)' = {} \/ (pass = "write" /\ Aims(w)' = writePos .. writePos + l - 1)
  <2>1. mode' = mode /\ pass' = pass /\ writePos' = writePos + l
    BY <1>3, <1>4 DEF OutFrame
  <2>2. Free = IF pass = "write" THEN {q \in Nat : q >= writePos} ELSE {}
    BY <1>3 DEF Free, Blocks
  <2>3. Free' = IF pass = "write" THEN {q \in Nat : q >= writePos + l} ELSE {}
    BY <1>3, <2>1 DEF Free, Blocks
  <2>4. Aims(w)' = {} \/ (pass = "write" /\ Aims(w)' = writePos .. writePos + l - 1)
    BY <1>3, <1>4, <1>6, <2>1 DEF Aims, Blocks
  <2> QED
    BY <2>2, <2>3, <2>4
<1>12. PICK A, A1, F, F1 : A = Aims(w) /\ A1 = Aims(w)' /\ F = Free /\ F1 = Free'
  OBVIOUS
<1>13. A1 \cup F1 \subseteq A \cup F /\ A1 \cap F1 = {}
  BY <1>1, <1>5, <1>11, <1>12
<1>14. Apart'
  BY <1>1, <1>9, <1>10, <1>12, <1>13, ClaimsFreed
<1>15. \A q : Claimed(q)' => Claimed(q)
  <2> SUFFICES ASSUME NEW q, Claimed(q)'
               PROVE  Claimed(q)
    OBVIOUS
  <2>1. \/ \E v \in Warps : q \in Aims(v)'
        \/ \E s \in Slots : q \in Booked(s)'
        \/ q \in Free'
    BY ClaimedNow
  <2> QED
    BY <1>9, <1>10, <1>12, <1>13, <2>1 DEF Claimed
<1>16. Blank'
  BY <1>1, <1>3, <1>15, BlankKept DEF OutFrame
<1>17. writePos' \in Nat /\ total' \in Nat /\ IsSeq(rows') /\ Len(rows') = Len(rows)
       /\ (mode.work = "fanout" => \A s \in Slots : queue'.tasks[s].at \in Nat)
  BY <1>1, <1>3, <1>4, <1>5
<1>18. OutInv'
  BY <1>3, <1>7, <1>14, <1>16, <1>17, OutStep
<1> QED
  BY <1>3, <1>18 DEF Once

(* In the counting pass NEW has no room behind its old rows.               *)
LEMMA NoRoom ==
    ASSUME OutTyped, pass = "count", UNCHANGED oldSize,
           NEW at \in Nat, NEW block, IsSeq(block), rows' = Stored(at, block)
    PROVE  Once /\ IsSeq(rows') /\ Len(rows') = Len(rows)
<1>1. IsSeq(rows) /\ oldSize \in Nat /\ Len(rows) = oldSize
  BY DEF OutTyped
<1>2. /\ IsSeq(rows') /\ Len(rows') = Len(rows)
      /\ \A p \in DOMAIN rows : p \in Nat /\ (rows'[p] = rows[p] \/
           \E q \in at .. at + Len(block) - 1 : p = oldSize + q + 1)
  BY <1>1, StoredRows
<1>3. PICK X : rows \in Seq(X)
  BY <1>1 DEF IsSeq
<1>4. \A p \in DOMAIN rows : p <= oldSize
  BY <1>1, <1>3
<1>5. \A p \in DOMAIN rows : rows'[p] = rows[p]
  <2> SUFFICES ASSUME NEW p \in DOMAIN rows, NEW q \in at .. at + Len(block) - 1, p = oldSize + q + 1
               PROVE  FALSE
    BY <1>2
  <2> QED
    BY <1>1, <1>4
<1> QED
  BY <1>2, <1>5 DEF Once

LEMMA StoreOut ==
    ASSUME RunInv, OutInv, NEW w \in Warps, Store(w)
    PROVE  OutInv' /\ Once
<1>1. /\ RunTyped /\ WarpsTyped /\ Unbuffered /\ Apart /\ Blank /\ OutTyped
      /\ IsSeq(warp[w].buf) /\ warp[w].at \in Nat /\ writePos \in Nat /\ total \in Nat /\ IsSeq(rows)
      /\ oldSize \in Nat
      /\ mode.work = "fanout" => \A s \in Slots : queue.tasks[s].at \in Nat
  BY DEF RunInv, WorkInv, WorkTyped, OutInv, OutTyped
<1>2. StoreDone(w)
  BY <1>1, StoreEffect
<1>3. /\ mode.out \notin {"counted", "preassigned"} /\ OutFrame
      /\ UNCHANGED <<total, queue, writePos>> /\ warp[w].pc = "store" /\ pass # "done"
      /\ rows' = Stored(warp[w].at, warp[w].buf)
  BY <1>1, <1>2 DEF StoreDone, At, Unbuffered, sources, host, OutFrame
<1>4. Alone(w) /\ warp'[w].pc = "run" /\ warp'[w].at = warp[w].at /\ warp'[w].buf = <<>>
  BY <1>2 DEF StoreDone, Turns, IsWarp
<1>5. OwnOut(w)
  BY <1>1, <1>3, <1>4, NoRows DEF OwnOut
<1>6. Aims(w)' = {}
  BY <1>3, <1>4 DEF Aims, OutFrame
<1>7. \A v \in Warps : v = w \/ Aims(v)' = Aims(v)
  BY <1>3, <1>4, OthersAims DEF Alone, Others
<1>8. \A s \in Slots : Booked(s)' = Booked(s)
  BY <1>3, BookedKept
<1>9. Free' = Free
  BY <1>3, FreeKept
<1>10. Apart' /\ Blank' /\ Once /\ IsSeq(rows') /\ Len(rows') = Len(rows)
  <2>1. CASE pass = "write"
    <3>1. Aims(w) = warp[w].at .. warp[w].at + Len(warp[w].buf) - 1
      BY <1>3, <2>1 DEF Aims, Blocks
    <3> QED
      BY <1>1, <1>3, <1>6, <1>7, <1>8, <1>9, <2>1, <3>1, BlankWritten DEF OutFrame
  <2>2. CASE pass = "count"
    <3>1. Apart'
      BY <1>1, <1>6, <1>7, <1>8, <1>9, ClaimsShrink
    <3>2. Blank'
      BY <1>3, <2>2 DEF Blank, OutFrame
    <3> QED
      BY <1>1, <1>3, <2>2, <3>1, <3>2, NoRoom DEF OutFrame
  <2> QED
    BY <1>1, <1>3, <2>1, <2>2 DEF RunTyped
<1> QED
  BY <1>1, <1>3, <1>5, <1>10, OutStep

LEMMA ExploreOut ==
    ASSUME RunInv, OutInv, NEW w \in Warps, Explore(w)
    PROVE  OutInv' /\ Once
<1>1. /\ RunTyped /\ WarpsTyped /\ Unbuffered /\ Apart /\ Blank /\ OutTyped
      /\ IsSeq(warp[w].buf) /\ warp[w].at \in Nat /\ writePos \in Nat /\ total \in Nat /\ IsSeq(rows)
      /\ mode.work = "fanout" => \A s \in Slots : queue.tasks[s].at \in Nat
  BY DEF RunInv, WorkInv, WorkTyped, OutInv, OutTyped
<1>2. ExploreDone(w)
  BY <1>1, ExploreEffect
<1>3. /\ mode.work = "fanout" /\ mode.out = "preassigned" /\ pass = "count" /\ OutFrame
      /\ UNCHANGED <<rows, queue, writePos>> /\ warp[w].pc = "run"
      /\ total' = total + FanDegree
  BY <1>1, <1>2, OutModes DEF ExploreDone, InHand, At, outputs, sources, host, OutFrame
<1>4. /\ Alone(w) /\ warp'[w].pc = "donate" /\ warp'[w].at = total /\ warp'[w].n = 0
      /\ warp'[w].buf = warp[w].buf
  BY <1>2 DEF ExploreDone, Turns, IsWarp
<1>5. FanDegree \in Nat \ {0}
  BY Sizes
<1>6. OwnOut(w)
  BY <1>1, <1>3, <1>4 DEF OwnOut, Unbuffered
<1>7. \A v \in Warps : v = w \/ Aims(v)' = Aims(v)
  BY <1>3, <1>4, OthersAims DEF Alone, Others
<1>8. \A s \in Slots : Booked(s)' = Booked(s)
  BY <1>3, BookedKept
<1>9. /\ Aims(w) = {} /\ Aims(w)' = total + 0 .. total + FanDegree - 1
      /\ Free = {q \in Nat : q >= total} /\ Free' = {q \in Nat : q >= total + FanDegree}
  BY <1>3, <1>4 DEF Aims, Free, OutFrame, Blocks
<1>10. PICK A, A1, F, F1 : A = Aims(w) /\ A1 = Aims(w)' /\ F = Free /\ F1 = Free'
  OBVIOUS
<1>11. A1 \cup F1 \subseteq A \cup F /\ A1 \cap F1 = {}
  BY <1>1, <1>5, <1>9, <1>10
<1>12. Apart'
  BY <1>1, <1>7, <1>8, <1>10, <1>11, ClaimsFreed
<1>13. Blank'
  BY <1>3 DEF Blank, OutFrame
<1>14. writePos' \in Nat /\ total' \in Nat /\ IsSeq(rows') /\ Len(rows') = Len(rows)
       /\ (mode.work = "fanout" => \A s \in Slots : queue'.tasks[s].at \in Nat)
  BY <1>1, <1>3, <1>5
<1>15. OutInv'
  BY <1>3, <1>6, <1>12, <1>13, <1>14, OutStep
<1> QED
  BY <1>3, <1>15 DEF Once

LEMMA PushOut ==
    ASSUME RunInv, OutInv, NEW w \in Warps, PushChunk(w)
    PROVE  OutInv' /\ Once
<1>0. PICK n, t, m, at :
         /\ n = warp[w].n /\ t = queue.tail
         /\ m = Min({n + FanChunk, FanDegree}) /\ at = warp[w].at
  OBVIOUS
<1>1. /\ RunTyped /\ WarpsTyped /\ QueueTyped /\ WorkInv /\ Phases /\ Unbuffered /\ Apart
      /\ IsSeq(warp[w].buf) /\ at \in Nat /\ writePos \in Nat /\ total \in Nat /\ IsSeq(rows)
      /\ mode.work = "fanout" => \A s \in Slots : queue.tasks[s].at \in Nat
  BY <1>0 DEF RunInv, WorkInv, WorkTyped, OutInv, OutTyped
<1>2. PushDone(w)
  BY <1>1, PushEffect
<1>3. PICK p : p = warp[w].b * FanDegree
  OBVIOUS
<1>4. /\ mode.work = "fanout" /\ mode.out = "preassigned" /\ pass = "count" /\ OutFrame
      /\ UNCHANGED <<rows, total, writePos>> /\ warp[w].pc = "donate"
      /\ BlindPush(Task(p + n, p + m, at + n))
  BY <1>0, <1>1, <1>2, <1>3, OutModes DEF PushDone, At, outputs, host, OutFrame, Phases
<1>5. /\ Alone(w) /\ warp'[w].at = at /\ warp'[w].buf = warp[w].buf
      /\ \/ m = FanDegree /\ warp'[w].pc = "run"
         \/ m # FanDegree /\ warp'[w].pc = "donate" /\ warp'[w].n = m
  BY <1>0, <1>2 DEF PushDone, Turns, IsWarp
<1>6. FanChunk \in Nat \ {0} /\ FanDegree \in Nat \ {0}
  BY Sizes
<1>7. /\ FanFacts /\ n \in Nat /\ warp[w].b \in Nat
      /\ queue.tail < FanCapacity
  BY <1>0, <1>1, <1>4, Fanning, RoomForChunk
<1>8. p \in Nat
  BY <1>3, <1>6, <1>7
<1>9. n < FanDegree
  BY <1>0, <1>4, <1>7 DEF FanFacts
<1>10. m \in Nat /\ n < m /\ m <= FanDegree
  <2>1. n + FanChunk \in Nat /\ FanDegree \in Nat
    BY <1>6, <1>7
  <2>2. m = IF n + FanChunk <= FanDegree THEN n + FanChunk ELSE FanDegree
    BY <1>0, <2>1, MinOfTwo
  <2> QED
    BY <1>6, <1>7, <1>9, <2>2
<1>11. t \in Nat /\ t \in Slots /\ queue.head = 0
  BY <1>0, <1>7, SlotsAre DEF FanFacts
<1> DEFINE task == Task(p + n, p + m, at + n)
<1>12. task.b = p + n /\ task.e = p + m /\ task.at = at + n
  BY DEF Task
<1>13. BlindPush(task)
  BY <1>4
<1> HIDE DEF task
<1>14. /\ queue'.head = 0 /\ queue'.tail = t + 1 /\ queue'.tasks[t] = task
       /\ \A s \in Slots : s = t \/ queue'.tasks[s] = queue.tasks[s]
  BY <1>0, <1>1, <1>7, <1>11, <1>13, PushedBlindly
<1>15. OwnOut(w)
  BY <1>1, <1>4, <1>5 DEF OwnOut, Unbuffered
<1>16. \A v \in Warps : v = w \/ Aims(v)' = Aims(v)
  BY <1>4, <1>5, OthersAims DEF Alone, Others
<1>17. \A s \in Slots : s = t \/ Booked(s)' = Booked(s)
  <2> SUFFICES ASSUME NEW s \in Slots, s # t
               PROVE  Booked(s)' = Booked(s)
    OBVIOUS
  <2>1. s \in Nat /\ (s < queue'.tail <=> s < queue.tail)
    BY <1>0, <1>11, <1>14, SlotsAre
  <2>2. mode' = mode
    BY <1>4 DEF OutFrame
  <2> QED
    BY <1>11, <1>14, <2>1, <2>2 DEF Booked
<1>18. Free' = Free
  BY <1>4, FreeKept
<1>19. /\ Aims(w) = at + n .. at + FanDegree - 1
       /\ Aims(w)' = IF m = FanDegree THEN {} ELSE at + m .. at + FanDegree - 1
  BY <1>0, <1>4, <1>5 DEF Aims, OutFrame, Blocks
<1>20. Booked(t) = {} /\ Booked(t)' = at + n .. at + m - 1
  <2>1. Booked(t) = {}
    BY <1>0, <1>11 DEF Booked
  <2>2. mode'.out = "preassigned" /\ queue'.head <= t /\ t < queue'.tail
    BY <1>4, <1>11, <1>14 DEF OutFrame
  <2>3. Booked(t)' = task.at .. task.at + (task.e - task.b) - 1
    BY <1>14, <2>2 DEF Booked
  <2>4. task.at + (task.e - task.b) - 1 = at + m - 1
    BY <1>1, <1>7, <1>8, <1>10, <1>12
  <2> QED
    BY <1>12, <2>1, <2>3, <2>4
<1>21. PICK A, A1, B, B1 : A = Aims(w) /\ A1 = Aims(w)' /\ B = Booked(t) /\ B1 = Booked(t)'
  OBVIOUS
<1>22. A1 \cup B1 \subseteq A \cup B /\ A1 \cap B1 = {}
  BY <1>1, <1>6, <1>7, <1>10, <1>19, <1>20, <1>21
<1>23. Apart'
  BY <1>1, <1>11, <1>16, <1>17, <1>18, <1>21, <1>22, ClaimsBooked
<1>24. Blank'
  BY <1>4 DEF Blank, OutFrame
<1>25. \A s \in Slots : queue'.tasks[s].at \in Nat
  <2>1. task.at \in Nat
    BY <1>1, <1>7, <1>12
  <2> QED
    BY <1>1, <1>4, <1>14, <2>1
<1>26. OutInv'
  BY <1>1, <1>4, <1>15, <1>23, <1>24, <1>25, OutStep
<1> QED
  BY <1>4, <1>26 DEF Once

LEMMA PopOut ==
    ASSUME RunInv, OutInv, NEW w \in Warps, PopChunk(w)
    PROVE  OutInv' /\ Once
<1>0. PICK h, t : h = queue.head /\ t = queue.tasks[queue.head]
  OBVIOUS
<1>1. /\ RunTyped /\ WarpsTyped /\ QueueTyped /\ FanHeld /\ Unbuffered /\ Apart /\ Blank
      /\ IsSeq(warp[w].buf) /\ warp[w].at \in Nat /\ writePos \in Nat /\ total \in Nat
      /\ IsSeq(rows) /\ WarpTyped(warp[w])
      /\ mode.work = "fanout" => \A s \in Slots : queue.tasks[s].at \in Nat
  BY DEF RunInv, WorkInv, WorkTyped, OutInv, OutTyped, WarpsTyped
<1>2. PopDone(w)
  BY <1>1, PopEffect
<1>3. /\ mode.work = "fanout" /\ mode.out = "preassigned" /\ pass = "write" /\ OutFrame
      /\ UNCHANGED <<rows, total, writePos>> /\ warp[w].pc = "run" /\ warp[w].b >= warp[w].e
      /\ BlindPop
  BY <1>1, <1>2, OutModes DEF PopDone, Drained, At, outputs, host, OutFrame
<1>4. /\ queue'.head = h + 1 /\ queue'.tail = queue.tail /\ queue'.tasks = queue.tasks
      /\ h \in Nat /\ queue.tail \in Nat
  BY <1>0, <1>1, <1>3, HeadMoved DEF BlindPop, QueueTyped
<1>5. h < queue.tail => h \in Slots /\ t.b \in Nat /\ t.e \in Nat /\ t.at \in Nat
  <2> SUFFICES ASSUME h < queue.tail
               PROVE  h \in Slots /\ t.b \in Nat /\ t.e \in Nat /\ t.at \in Nat
    OBVIOUS
  <2>1. h < FanCapacity
    BY <1>1, <1>3, <1>4, Sizes DEF FanHeld
  <2>2. h \in Slots
    BY <1>4, <2>1, SlotsAre
  <2> QED
    BY <1>0, <1>1, <1>3, <2>2 DEF QueueTyped, TaskTyped
<1>6. \/ /\ h < queue.tail /\ Alone(w) /\ warp'[w].pc = "run"
         /\ warp'[w].b = t.b /\ warp'[w].e = t.e /\ warp'[w].at = t.at
         /\ warp'[w].buf = warp[w].buf
      \/ /\ ~(h < queue.tail) /\ Alone(w) /\ warp'[w].pc = "stop"
         /\ warp'[w].b = warp[w].b /\ warp'[w].e = warp[w].e /\ warp'[w].at = warp[w].at
         /\ warp'[w].buf = warp[w].buf
  BY <1>0, <1>2 DEF PopDone, PoppedBlindly, Turns, IsWarp
<1>7. OwnOut(w)
  BY <1>1, <1>3, <1>5, <1>6 DEF OwnOut, Unbuffered
<1>8. \A v \in Warps : v = w \/ Aims(v)' = Aims(v)
  BY <1>3, <1>6, OthersAims DEF Alone, Others
<1>9. Free' = Free
  BY <1>3, FreeKept
<1>10. Aims(w)' = warp'[w].at .. warp'[w].at + (warp'[w].e - warp'[w].b) - 1
  BY <1>3, <1>6 DEF Aims, OutFrame, Blocks
<1>11. \A s \in Slots : s = h \/ Booked(s)' = Booked(s)
  <2> SUFFICES ASSUME NEW s \in Slots, s # h
               PROVE  Booked(s)' = Booked(s)
    OBVIOUS
  <2>1. s \in Nat /\ (queue'.head <= s <=> queue.head <= s)
    BY <1>0, <1>4, SlotsAre
  <2>2. mode' = mode
    BY <1>3 DEF OutFrame
  <2> QED
    BY <1>4, <2>1, <2>2 DEF Booked
<1>12. ASSUME h < queue.tail
       PROVE  Apart' /\ \A q : Claimed(q)' => Claimed(q)
  <2>1. Aims(w)' = t.at .. t.at + (t.e - t.b) - 1
    BY <1>6, <1>10, <1>12
  <2>2. Booked(h) = t.at .. t.at + (t.e - t.b) - 1
    BY <1>0, <1>3, <1>4, <1>12 DEF Booked
  <2>3. Booked(h)' = {}
    BY <1>4 DEF Booked
  <2>4. Aims(w)' = Booked(h)
    BY <2>1, <2>2
  <2>5. Apart'
    BY <1>1, <1>5, <1>8, <1>9, <1>11, <1>12, <2>3, <2>4, ClaimsBooked
  <2> SUFFICES ASSUME NEW q, Claimed(q)'
               PROVE  Claimed(q)
    BY <2>5
  <2>6. \/ \E v \in Warps : q \in Aims(v)'
        \/ \E s \in Slots : q \in Booked(s)'
        \/ q \in Free'
    BY ClaimedNow
  <2> QED
    BY <1>5, <1>8, <1>9, <1>11, <1>12, <2>3, <2>4, <2>6 DEF Claimed
<1>13. ASSUME ~(h < queue.tail)
       PROVE  Apart' /\ \A q : Claimed(q)' => Claimed(q)
  <2>1. Aims(w)' = {}
    <3>1. Aims(w)' = warp[w].at .. warp[w].at + (warp[w].e - warp[w].b) - 1
      BY <1>6, <1>10, <1>13
    <3>2. warp[w].b \in Nat /\ warp[w].e \in Nat
      BY <1>1 DEF WarpTyped
    <3> QED
      BY <1>1, <1>3, <3>1, <3>2
  <2>2. \A s \in Slots : Booked(s) = {} /\ Booked(s)' = {}
    BY <1>0, <1>4, <1>13, SlotsAre DEF Booked
  <2>3. Apart'
    <3>1. \A v \in Warps : Aims(v)' \subseteq Aims(v)
      BY <1>8, <2>1
    <3> QED
      BY <1>1, <1>9, <2>2, <3>1, ClaimsShrink
  <2> SUFFICES ASSUME NEW q, Claimed(q)'
               PROVE  Claimed(q)
    BY <2>3
  <2>6. \/ \E v \in Warps : q \in Aims(v)'
        \/ \E s \in Slots : q \in Booked(s)'
        \/ q \in Free'
    BY ClaimedNow
  <2> QED
    BY <1>8, <1>9, <2>1, <2>2, <2>6 DEF Claimed
<1>14. Apart' /\ \A q : Claimed(q)' => Claimed(q)
  BY <1>12, <1>13
<1>15. Blank'
  BY <1>1, <1>3, <1>14, BlankKept DEF OutFrame
<1>16. \A s \in Slots : queue'.tasks[s].at \in Nat
  BY <1>1, <1>3, <1>4
<1>17. OutInv'
  BY <1>1, <1>3, <1>7, <1>14, <1>15, <1>16, OutStep
<1> QED
  BY <1>3, <1>17 DEF Once

LEMMA OneRow ==
    ASSUME NEW t
    PROVE  IsSeq(<<t>>) /\ Len(<<t>>) = 1
<1>1. <<t>> \in Seq({t})
  OBVIOUS
<1> QED
  BY <1>1 DEF IsSeq

LEMMA OneMore ==
    ASSUME NEW s, IsSeq(s), NEW t
    PROVE  IsSeq(Append(s, t))
<1>1. PICK X : s \in Seq(X)
  BY DEF IsSeq
<1>2. s \in Seq(X \cup {t})
  BY <1>1
<1>3. Append(s, t) \in Seq(X \cup {t})
  BY <1>2
<1> QED
  BY <1>3 DEF IsSeq

(* The next row of a warp's stride is one more that it has passed.         *)
LEMMA PassedOne ==
    ASSUME RunInv, OutInv, NEW w \in Warps, mode.out = "counted", VisitDone(w)
    PROVE  /\ Cardinality(Passed(w)') = warp[w].count + 1
           /\ warp[w].count + 1 <= Cardinality(Class(w))
<1>0. PICK b, C : b = warp[w].b /\ C = Class(w)
  OBVIOUS
<1>1. /\ RunTyped /\ WarpsTyped /\ Strides /\ Tally
  BY DEF RunInv, WorkInv, WorkTyped, OutInv
<1>2. Static /\ pass # "done" /\ warp[w].pc = "run" /\ b < warp[w].e
  BY <1>0, <1>1, OutModes DEF VisitDone, InHand, At, Static
<1>3. b \in Nat /\ warp[w].e \in Nat /\ W \in Nat \ {0} /\ warp[w].count \in Nat
  BY <1>0, <1>1, WarpCount DEF WarpsTyped, WarpTyped
<1>4. b % W = w - 1 /\ warp[w].e = Len(column)
  BY <1>0, <1>1, <1>2 DEF Strides
<1>5. warp'[w].b = b + W /\ warp'[w].pc \in {"run", "probe", "flush"} /\ column' = column
  BY <1>0, <1>1, <1>2, <1>3, NextRowAfter, VisitTyped DEF VisitDone
<1>6. IsFiniteSet(C) /\ C \subseteq Nat /\ Cardinality(C) \in Nat /\ b \in C
      /\ \A r \in C : r % W = w - 1
  <2>1. b \in 0 .. Len(column) - 1
    BY <1>2, <1>3, <1>4
  <2> QED
    BY <1>0, <1>1, <1>4, <2>1, ClassFinite DEF Class
<1> DEFINE P == {r \in C : r < b}
           Q == {r \in C : r < b + W}
<1>7. Passed(w) = P
  BY <1>0, <1>2 DEF Passed
<1>8. Passed(w)' = Q
  BY <1>0, <1>5 DEF Passed, Class
<1>9. Q = P \cup {b} /\ b \notin P
  <2>1. ASSUME NEW r \in C, r < b + W
        PROVE  r < b \/ r = b
    <3>1. r \in Nat /\ r % W = b % W
      BY <1>4, <1>6
    <3>2. ~(b < r)
      BY <1>3, <2>1, <3>1, StrideGap
    <3> QED
      BY <1>3, <3>1, <3>2
  <2>2. \A r \in C : r < b => r < b + W /\ r # b
    BY <1>3, <1>6
  <2>3. b \in Q
    BY <1>3, <1>6
  <2> QED
    BY <2>1, <2>2, <2>3
<1>10. IsFiniteSet(P) /\ IsFiniteSet(Q) /\ Cardinality(Q) <= Cardinality(C)
  <2>1. P \subseteq C /\ Q \subseteq C
    OBVIOUS
  <2> QED
    BY <1>6, <2>1, FS_Subset
<1> HIDE DEF P, Q
<1>11. Cardinality(Q) = Cardinality(P) + 1
  BY <1>9, <1>10, FS_AddElement
<1>12. warp[w].count = Cardinality(P)
  BY <1>1, <1>2, <1>7 DEF Tally
<1> QED
  BY <1>0, <1>8, <1>10, <1>11, <1>12

LEMMA VisitOut ==
    ASSUME RunInv, OutInv, NEW w \in Warps, Visit(w)
    PROVE  OutInv' /\ Once
<1>1. /\ RunTyped /\ WarpsTyped /\ WarpTyped(warp[w]) /\ Unbuffered /\ Apart /\ Blank /\ OutTyped
      /\ IsSeq(warp[w].buf) /\ warp[w].at \in Nat /\ writePos \in Nat /\ total \in Nat
      /\ IsSeq(rows) /\ oldSize \in Nat
      /\ mode.work = "fanout" => \A s \in Slots : queue.tasks[s].at \in Nat
  BY DEF RunInv, WorkInv, WorkTyped, OutInv, OutTyped, WarpsTyped
<1>2. VisitDone(w)
  BY <1>1, VisitEffect
<1>3. /\ OutFrame /\ UNCHANGED <<writePos, total, queue>> /\ warp[w].pc = "run" /\ pass # "done"
      /\ Alone(w) /\ Emission(w) /\ warp[w].b < warp[w].e
      /\ warp'[w].b = NextRow(w) /\ warp'[w].e = warp[w].e
      /\ ~(mode.work = "fanout" /\ pass = "count")
  BY <1>2 DEF VisitDone, InHand, At, OutFrame
<1>4. pass \in {"count", "write"}
  BY <1>1, <1>3 DEF RunTyped
<1>5. /\ warp[w].b \in Nat /\ warp[w].e \in Nat /\ warp[w].count \in Nat
  BY <1>1 DEF WarpTyped
<1>6. PICK t : t = Tuple(w)
  OBVIOUS
<1>7. IsSeq(<<t>>) /\ Len(<<t>>) = 1 /\ IsSeq(Append(warp[w].buf, t))
  BY <1>1, OneRow, OneMore
<1>8. \A v \in Warps : v = w \/ Aims(v)' = Aims(v)
  BY <1>3, OthersAims DEF Alone, Others
<1>9. \A s \in Slots : Booked(s)' = Booked(s)
  BY <1>3, BookedKept
<1>10. Free' = Free
  BY <1>3, FreeKept
<1>11. ASSUME mode.out \notin {"counted", "preassigned"}
       PROVE  OutInv' /\ Once
  <2>1. /\ rows' = rows /\ warp'[w].at = warp[w].at
        /\ warp'[w].buf \in {warp[w].buf, <<t>>, Append(warp[w].buf, t)}
    <3>1. CASE pass = "count" /\ mode.out # "dedup"
      BY <1>3, <3>1 DEF Emission, VisitAs
    <3>2. CASE mode.out = "dedup"
      BY <1>3, <1>6, <3>2 DEF Emission, VisitAs
    <3>3. CASE pass # "count" /\ mode.out = "speculative" /\ overflow
      BY <1>3, <3>3 DEF Emission, VisitAs
    <3>4. CASE pass # "count" /\ (mode.out \in {"chunked", "coalesced"}
                                   \/ (mode.out = "speculative" /\ ~overflow))
      BY <1>3, <1>6, <3>4 DEF Emission, VisitAs
    <3> QED
      BY <1>1, <1>4, <1>11, OutModes, <3>1, <3>2, <3>3, <3>4
  <2>2. warp'[w].pc # "store"
    BY <1>1, <1>2, VisitTyped
  <2>3. IsSeq(warp'[w].buf) /\ warp'[w].at \in Nat
    BY <1>1, <1>7, <2>1
  <2>4. mode.work # "fanout"
    BY <1>1, <1>11, OutModes
  <2> QED
    BY <1>3, <1>11, <2>1, <2>2, <2>3, <2>4, OutBlocks
<1>12. ASSUME mode.out = "counted"
       PROVE  OutInv' /\ Once
  <2>1. /\ warp'[w].pc = "run" /\ warp'[w].count = warp[w].count + 1
        /\ warp'[w].at = warp[w].at /\ warp'[w].buf = warp[w].buf
        /\ pass = "count" => rows' = rows
        /\ pass = "write" => rows' = Stored(base[w] + warp[w].count, <<t>>)
    BY <1>3, <1>4, <1>6, <1>12 DEF Emission, VisitAs
  <2>2. /\ Cardinality(Passed(w)') = warp[w].count + 1
        /\ warp[w].count + 1 <= Cardinality(Class(w))
    BY <1>2, <1>12, PassedOne
  <2>3. OwnOut(w)
    BY <1>1, <1>3, <2>1, <2>2 DEF OwnOut, Unbuffered
  <2>4. CASE pass = "count"
    <3>1. Aims(w)' = {}
      BY <1>3, <1>12, <2>4 DEF Aims, OutFrame, Blocks
    <3> QED
      BY <1>3, <2>1, <2>3, <2>4, <3>1, OutQuiet
  <2>5. CASE pass = "write"
    <3>0. PICK at, c : at = base[w] + warp[w].count /\ c = base[w] + Cardinality(Class(w))
      OBVIOUS
    <3>1. base[w] \in Nat /\ Cardinality(Class(w)) \in Nat
      BY <1>1, <1>12, <2>5, ClassFinite DEF OutTyped
    <3>2. at \in Nat /\ c \in Nat /\ at + 1 <= c
      BY <1>5, <2>2, <3>0, <3>1
    <3>3. Aims(w) = at .. c - 1
      <4>1. base[w] + Cardinality(Class(w)) - 1 = c - 1
        BY <3>0, <3>1
      <4> QED
        BY <1>12, <2>5, <3>0, <4>1 DEF Aims
    <3>4. Aims(w)' = base[w] + (warp[w].count + 1) .. base[w] + Cardinality(Class(w)) - 1
      BY <1>3, <1>12, <2>1, <2>5 DEF Aims, OutFrame, Class
    <3>5. base[w] + (warp[w].count + 1) = at + 1
      BY <1>5, <3>0, <3>1
    <3>6. Aims(w)' = at + 1 .. c - 1
      <4>1. base[w] + Cardinality(Class(w)) - 1 = c - 1
        BY <3>0, <3>1
      <4> QED
        BY <3>4, <3>5, <4>1
    <3>7. at .. at + Len(<<t>>) - 1 = {at}
      BY <1>7, <3>2
    <3>8. /\ at .. at + Len(<<t>>) - 1 \subseteq Aims(w)
          /\ Aims(w)' \subseteq Aims(w)
          /\ Aims(w)' \cap (at .. at + Len(<<t>>) - 1) = {}
      <4>1. {at} \subseteq at .. c - 1 /\ at + 1 .. c - 1 \subseteq at .. c - 1
            /\ (at + 1 .. c - 1) \cap {at} = {}
        BY <3>2
      <4> QED
        BY <3>3, <3>6, <3>7, <4>1
    <3>9. rows' = Stored(at, <<t>>) /\ UNCHANGED <<oldSize, pass>>
      BY <1>3, <2>1, <2>5, <3>0 DEF OutFrame
    <3>10. Once /\ Apart' /\ Blank' /\ IsSeq(rows') /\ Len(rows') = Len(rows)
      BY <1>1, <1>7, <1>8, <1>9, <1>10, <2>5, <3>2, <3>8, <3>9, BlankWritten
    <3> QED
      BY <1>1, <1>3, <2>3, <3>10, OutStep
  <2> QED
    BY <1>4, <2>4, <2>5
<1>13. ASSUME mode.out = "preassigned"
       PROVE  OutInv' /\ Once
  <2>0. mode.work = "fanout" /\ pass = "write"
    BY <1>1, <1>3, <1>4, <1>13, OutModes
  <2>1. /\ warp'[w].pc = "run" /\ warp'[w].at = warp[w].at + 1 /\ warp'[w].buf = warp[w].buf
        /\ rows' = Stored(warp[w].at, <<t>>)
    BY <1>3, <1>6, <1>13, <2>0 DEF Emission, VisitAs
  <2>2. OwnOut(w)
    BY <1>1, <1>3, <1>13, <2>1 DEF OwnOut, Unbuffered
  <2>3. warp'[w].b = warp[w].b + 1
    BY <1>3, <2>0 DEF NextRow, Static
  <2>4. PICK at, b, e : at = warp[w].at /\ b = warp[w].b /\ e = warp[w].e
    OBVIOUS
  <2>5. at \in Nat /\ b \in Nat /\ e \in Nat /\ b < e
    BY <1>1, <1>3, <1>5, <2>4
  <2>6. Aims(w) = at .. at + (e - b) - 1
    BY <1>3, <1>13, <2>0, <2>4 DEF Aims
  <2>7. Aims(w)' = at + 1 .. at + 1 + (e - (b + 1)) - 1
    BY <1>3, <1>13, <2>0, <2>1, <2>3, <2>4 DEF Aims, OutFrame
  <2>8. at .. at + Len(<<t>>) - 1 = {at}
    BY <1>7, <2>5
  <2>9. /\ at .. at + Len(<<t>>) - 1 \subseteq Aims(w)
        /\ Aims(w)' \subseteq Aims(w)
        /\ Aims(w)' \cap (at .. at + Len(<<t>>) - 1) = {}
    BY <2>5, <2>6, <2>7, <2>8
  <2>10. Once /\ Apart' /\ Blank' /\ IsSeq(rows') /\ Len(rows') = Len(rows)
    BY <1>1, <1>3, <1>7, <1>8, <1>9, <1>10, <2>0, <2>1, <2>4, <2>5, <2>9, BlankWritten DEF OutFrame
  <2> QED
    BY <1>1, <1>3, <2>2, <2>10, OutStep
<1> QED
  BY <1>11, <1>12, <1>13

(* Sums over the warps.                                                    *)
Units(f, S) == UNION {{w} \X (1 .. f[w]) : w \in S}
LEMMA UnitsCount ==
    ASSUME NEW f, \A w \in Warps : f[w] \in Nat, NEW S \in SUBSET Warps
    PROVE  IsFiniteSet(Units(f, S)) /\ Cardinality(Units(f, S)) \in Nat
           /\ SumOf(f, S) = Cardinality(Units(f, S))
<1> DEFINE F == [w \in S |-> {w} \X (1 .. f[w])]
<1>1. IsFiniteSet(S)
  BY WarpsAssumption, FS_Subset
<1>2. ASSUME NEW w \in S
      PROVE  IsFiniteSet(F[w])
  <2>1. f[w] \in Nat /\ F[w] = {w} \X (1 .. f[w])
    OBVIOUS
  <2>2. IsFiniteSet(1 .. f[w])
    BY <2>1, FS_Interval
  <2> QED
    BY <2>1, <2>2, CountNamed
<1>3. Units(f, S) = Pile(F, S)
  BY DEF Units, Pile
<1>4. SumOf(f, S) = Cardinality(Units(f, S))
  BY DEF SumOf, Units
<1> HIDE DEF F
<1> QED
  BY <1>1, <1>2, <1>3, <1>4, PileIsFinite

LEMMA SumWithout ==
    ASSUME NEW f, \A w \in Warps : f[w] \in Nat, NEW w \in Warps,
           NEW S \in SUBSET Warps, w \notin S
    PROVE  SumOf(f, S \cup {w}) = SumOf(f, S) + f[w] /\ SumOf(f, S) \in Nat
<1>1. Units(f, S \cup {w}) = Units(f, S) \cup ({w} \X (1 .. f[w]))
  BY DEF Units
<1>2. Units(f, S) \cap ({w} \X (1 .. f[w])) = {}
  BY DEF Units
<1>3. IsFiniteSet({w} \X (1 .. f[w])) /\ Cardinality({w} \X (1 .. f[w])) = f[w]
  <2>1. f[w] \in Nat
    OBVIOUS
  <2>2. IsFiniteSet(1 .. f[w]) /\ Cardinality(1 .. f[w]) = f[w]
    BY <2>1, FS_Interval
  <2> QED
    BY <2>2, CountNamed
<1>4. S \cup {w} \in SUBSET Warps
  OBVIOUS
<1>5. /\ IsFiniteSet(Units(f, S)) /\ SumOf(f, S) = Cardinality(Units(f, S))
      /\ SumOf(f, S \cup {w}) = Cardinality(Units(f, S \cup {w}))
      /\ Cardinality(Units(f, S)) \in Nat
  BY <1>4, UnitsCount
<1>6. PICK A, B : A = Units(f, S) /\ B = {w} \X (1 .. f[w])
  OBVIOUS
<1>7. /\ IsFiniteSet(A) /\ IsFiniteSet(B) /\ A \cap B = {} /\ Cardinality(B) = f[w]
      /\ SumOf(f, S \cup {w}) = Cardinality(A \cup B) /\ SumOf(f, S) = Cardinality(A)
  BY <1>1, <1>2, <1>3, <1>5, <1>6
<1>8. Cardinality(A \cup B) = Cardinality(A) + Cardinality(B)
  BY <1>7, CountApart
<1> QED
  BY <1>5, <1>6, <1>7, <1>8

LEMMA SumLarger ==
    ASSUME NEW f, \A w \in Warps : f[w] \in Nat, NEW S \in SUBSET Warps, NEW T \in SUBSET S
    PROVE  SumOf(f, T) <= SumOf(f, S) /\ SumOf(f, S) \in Nat /\ SumOf(f, T) \in Nat
<1>1. Units(f, T) \in SUBSET Units(f, S) /\ T \in SUBSET Warps
  BY DEF Units
<1>2. /\ IsFiniteSet(Units(f, S)) /\ Cardinality(Units(f, S)) \in Nat
      /\ Cardinality(Units(f, T)) \in Nat
      /\ SumOf(f, S) = Cardinality(Units(f, S)) /\ SumOf(f, T) = Cardinality(Units(f, T))
  BY <1>1, UnitsCount
<1>3. Cardinality(Units(f, T)) <= Cardinality(Units(f, S))
  BY <1>1, <1>2, FS_Subset
<1> QED
  BY <1>2, <1>3

(* One summand changes.                                                    *)
LEMMA SumMoves ==
    ASSUME NEW f, NEW g, \A v \in Warps : f[v] \in Nat /\ g[v] \in Nat,
           NEW w \in Warps, \A v \in Warps : v = w \/ g[v] = f[v]
    PROVE  /\ SumOf(g, Warps) + f[w] = SumOf(f, Warps) + g[w]
           /\ SumOf(g, Warps) \in Nat /\ SumOf(f, Warps) \in Nat
<1> DEFINE S == Warps \ {w}
<1>1. S \cup {w} = Warps /\ S \in SUBSET Warps /\ w \notin S
  OBVIOUS
<1>2. \A v \in S : g[v] = f[v]
  OBVIOUS
<1>3. Units(g, S) = Units(f, S)
  BY <1>2, Zenon DEF Units
<1>4. SumOf(f, Warps) = SumOf(f, S) + f[w] /\ SumOf(g, Warps) = SumOf(g, S) + g[w]
  <2> HIDE DEF S
  <2>1. SumOf(f, S \cup {w}) = SumOf(f, S) + f[w] /\ SumOf(g, S \cup {w}) = SumOf(g, S) + g[w]
    BY <1>1, SumWithout
  <2> QED
    BY <1>1, <2>1
<1> HIDE DEF S
<1>5. SumOf(g, S) = SumOf(f, S)
  BY <1>1, <1>3, UnitsCount
<1>6. SumOf(f, S) \in Nat /\ f[w] \in Nat /\ g[w] \in Nat
  BY <1>1, UnitsCount
<1> QED
  BY <1>4, <1>5, <1>6

LEMMA SumIsZero ==
    ASSUME NEW f, \A w \in Warps : f[w] = 0
    PROVE  SumOf(f, Warps) = 0
<1>1. Units(f, Warps) = {}
  <2>1. \A w \in Warps : {w} \X (1 .. f[w]) = {}
    <3>1. 1 .. 0 = {}
      OBVIOUS
    <3> QED
      BY <3>1
  <2> QED
    BY <2>1 DEF Units
<1> QED
  BY <1>1, FS_EmptySet DEF Units, SumOf

(* A summand, and the sum of those before it with it.                      *)
LEMMA SumParts ==
    ASSUME NEW f, \A v \in Warps : f[v] \in Nat, NEW w \in Warps
    PROVE  /\ SumOf(f, {v \in Warps : v < w}) + f[w] <= SumOf(f, Warps)
           /\ SumOf(f, {v \in Warps : v < w}) \in Nat /\ SumOf(f, Warps) \in Nat
           /\ f[w] <= SumOf(f, Warps)
<1> DEFINE S == {v \in Warps : v < w}
<1>1. S \in SUBSET Warps /\ w \notin S
  BY WarpCount
<1>2. SumOf(f, S \cup {w}) = SumOf(f, S) + f[w] /\ SumOf(f, S) \in Nat
  BY <1>1, SumWithout
<1>3. S \cup {w} \in SUBSET Warps
  OBVIOUS
<1>4. SumOf(f, S \cup {w}) <= SumOf(f, Warps) /\ SumOf(f, Warps) \in Nat
  BY <1>3, SumLarger
<1> QED
  BY <1>2, <1>4

(* The sums of the counts before each warp leave room for its own.         *)
LEMMA SumsSpaced ==
    ASSUME NEW f, \A w \in Warps : f[w] \in Nat
    PROVE  /\ SumOf(f, Warps) \in Nat
           /\ \A w \in Warps : SumOf(f, {u \in Warps : u < w}) \in Nat
           /\ \A v, w \in Warps : v < w =>
                 SumOf(f, {u \in Warps : u < v}) + f[v] <= SumOf(f, {u \in Warps : u < w})
<1>1. SumOf(f, Warps) \in Nat /\ \A w \in Warps : SumOf(f, {u \in Warps : u < w}) \in Nat
  BY UnitsCount
<1>2. ASSUME NEW v \in Warps, NEW w \in Warps, v < w
      PROVE  SumOf(f, {u \in Warps : u < v}) + f[v] <= SumOf(f, {u \in Warps : u < w})
  <2>1. PICK S, T : S = {u \in Warps : u < v} /\ T = {u \in Warps : u < w}
    OBVIOUS
  <2>2. S \in SUBSET Warps /\ T \in SUBSET Warps /\ v \notin S /\ S \cup {v} \in SUBSET T
    BY <1>2, <2>1, WarpCount
  <2>3. SumOf(f, S \cup {v}) = SumOf(f, S) + f[v]
    BY <2>2, SumWithout
  <2>4. SumOf(f, S \cup {v}) <= SumOf(f, T)
    BY <2>2, SumLarger
  <2> QED
    BY <2>1, <2>3, <2>4
<1> QED
  BY <1>1, <1>2

(* Rows that are resized: junk behind what there was.                      *)
LEMMA ResizedRows ==
    ASSUME IsSeq(rows), NEW n \in Nat, rows' = Resized(n)
    PROVE  /\ IsSeq(rows') /\ Len(rows') = n
           /\ \A p \in DOMAIN rows' : p > Len(rows) => rows'[p] = Junk
<1>1. PICK X : rows \in Seq(X)
  BY DEF IsSeq
<1>2. PICK l : l = Len(rows)
  OBVIOUS
<1>3. l \in Nat /\ \A p \in 1 .. l : rows[p] \in X
  BY <1>1, <1>2
<1>4. rows' = [p \in 1 .. n |-> IF p <= l THEN rows[p] ELSE Junk]
  BY <1>2 DEF Resized
<1>5. rows' \in [1 .. n -> X \cup {Junk}]
  BY <1>3, <1>4
<1>6. rows' \in Seq(X \cup {Junk}) /\ Len(rows') = n
  BY <1>5
<1>7. IsSeq(rows')
  BY <1>6, Zenon DEF IsSeq
<1>8. \A p \in 1 .. n : p > l => rows'[p] = Junk
  BY <1>3, <1>4
<1>9. DOMAIN rows' = 1 .. n
  BY <1>4
<1> QED
  BY <1>2, <1>6, <1>7, <1>8, <1>9

LEMMA FreshOut ==
    /\ Fresh.pc = "start" /\ Fresh.at = 0 /\ Fresh.buf = <<>> /\ Fresh.count = 0 /\ Fresh.b = 0
    /\ \A w \in Warps : Restarted[w] = Fresh
  BY DEF Fresh, Restarted

(* When a kernel starts no warp has put out anything.                      *)
LEMMA StartedOut ==
    ASSUME Started, oldSize' \in Nat, writePos' \in Nat, total' \in Nat, IsSeq(rows'),
           mode'.work = "fanout" => \A s \in Slots : queue'.tasks[s].at \in Nat,
           mode'.out = "counted" /\ pass' = "write" =>
              /\ \A w \in Warps : base'[w] \in Nat
              /\ \A v, w \in Warps : v < w => base'[v] + Cardinality(Class(v)') <= base'[w],
           pass' = "count" => Len(rows') = oldSize'
    PROVE  OutTyped' /\ Unbuffered' /\ Tally'
<1>1. \A w \in Warps : warp'[w] = Fresh
  BY FreshOut DEF Started
<1>2. \A w \in Warps : /\ warp'[w].pc = "start" /\ warp'[w].at = 0 /\ warp'[w].buf = <<>>
                       /\ warp'[w].count = 0 /\ IsSeq(warp'[w].buf)
  BY <1>1, FreshOut, NoRows
<1>3. OutTyped'
  BY <1>2 DEF OutTyped, IsSeq
<1>4. Unbuffered'
  BY <1>2 DEF Unbuffered
<1>5. Tally'
  <2>1. \A w \in Warps : Passed(w)' = {}
    BY <1>2 DEF Passed
  <2>2. Cardinality({}) = 0
    BY FS_EmptySet
  <2> QED
    BY <1>2, <2>1, <2>2 DEF Tally
<1> QED
  BY <1>3, <1>4, <1>5

(* A static run that has returned has counted every row of its stride.     *)
LEMMA AllCounted ==
    ASSUME RunInv, OutInv, mode.out = "counted", pass = "count", Returned, NEW w \in Warps
    PROVE  warp[w].count = Cardinality(Class(w))
<1>1. RunTyped /\ WarpsTyped /\ Strides /\ Spent /\ Tally
  BY DEF RunInv, WorkInv, WorkTyped, OutInv
<1>2. Static /\ warp[w].pc = "stop"
  BY <1>1, OutModes DEF Static, Returned
<1>3. /\ warp[w].e = Len(column) /\ warp[w].b >= warp[w].e
      /\ warp[w].b \in Nat /\ warp[w].e \in Nat
  BY <1>1, <1>2 DEF Strides, Spent, WarpsTyped, WarpTyped
<1>4. \A r \in Class(w) : r < warp[w].b
  BY <1>3 DEF Class
<1>5. Passed(w) = Class(w)
  BY <1>2, <1>4 DEF Passed
<1> QED
  BY <1>1, <1>5 DEF Tally

LEMMA EndCountOut ==
    ASSUME RunInv, OutInv, EndCount
    PROVE  OutInv'
<1>1. /\ RunTyped /\ WarpsTyped /\ OutTyped
      /\ oldSize \in Nat /\ writePos \in Nat /\ total \in Nat /\ IsSeq(rows) /\ Apart
      /\ mode.work = "fanout" => \A s \in Slots : queue.tasks[s].at \in Nat
  BY DEF RunInv, WorkInv, WorkTyped, OutInv, OutTyped
<1>2. /\ pass = "count" /\ Returned /\ pass' \in {"done", "write"} /\ Started
      /\ rows' = Resized(oldSize + Found)
      /\ queue' = (IF mode.work = "fanout" THEN queue ELSE EmptyQueue)
      /\ base' = [w \in Warps |-> SumOf(Counts, {v \in Warps : v < w})]
      /\ UNCHANGED <<column, mode, oldSize, writePos, total>>
  BY DEF EndCount, Started
<1>3. Len(rows) = oldSize
  BY <1>1, <1>2 DEF OutTyped
<1>4. \A w \in Warps : Counts[w] = warp[w].count /\ Counts[w] \in Nat
  BY <1>1 DEF Counts, WarpsTyped, WarpTyped
<1>5. /\ SumOf(Counts, Warps) \in Nat
      /\ \A w \in Warps : SumOf(Counts, {u \in Warps : u < w}) \in Nat
      /\ \A v, w \in Warps : v < w =>
            SumOf(Counts, {u \in Warps : u < v}) + Counts[v] <= SumOf(Counts, {u \in Warps : u < w})
  BY <1>4, SumsSpaced
<1>6. PICK n : n = oldSize + Found
  OBVIOUS
<1>7. n \in Nat
  BY <1>1, <1>5, <1>6 DEF Found
<1>8. /\ IsSeq(rows') /\ Len(rows') = n
      /\ \A p \in DOMAIN rows' : p > oldSize => rows'[p] = Junk
  BY <1>1, <1>2, <1>3, <1>6, <1>7, ResizedRows
<1>9. /\ \A w \in Warps : base'[w] \in Nat
      /\ \A v, w \in Warps : v < w => base'[v] + Counts[v] <= base'[w]
  BY <1>2, <1>5
<1>10. mode'.out = "counted" =>
          \A v, w \in Warps : v < w => base'[v] + Cardinality(Class(v)') <= base'[w]
  <2> SUFFICES ASSUME mode.out = "counted", NEW v \in Warps, NEW w \in Warps, v < w
               PROVE  base'[v] + Cardinality(Class(v)') <= base'[w]
    BY <1>2
  <2>1. Class(v)' = Class(v)
    BY <1>2 DEF Class
  <2>2. Counts[v] = Cardinality(Class(v))
    BY <1>2, <1>4, AllCounted
  <2> QED
    BY <1>9, <2>1, <2>2
<1>11. mode'.work = "fanout" => \A s \in Slots : queue'.tasks[s].at \in Nat
  BY <1>1, <1>2
<1>12. OutTyped' /\ Unbuffered' /\ Tally'
  BY <1>1, <1>2, <1>8, <1>9, <1>10, <1>11, StartedOut
<1>13. \A w \in Warps : warp'[w].pc = "start" /\ warp'[w].count = 0
  BY <1>2, FreshOut DEF Started
<1>14. \A s \in Slots : Booked(s)' = Booked(s) \/ Booked(s)' = {}
  <2>1. mode' = mode
    BY <1>2
  <2>2. mode.out = "preassigned" => queue' = queue
    BY <1>1, <1>2, OutModes
  <2> QED
    BY <2>1, <2>2 DEF Booked
<1>15. \A s \in Slots : Booked(s)' \subseteq Nat /\ (Booked(s)' # {} => mode.out = "preassigned")
  <2> SUFFICES ASSUME NEW s \in Slots, Booked(s) # {}
               PROVE  Booked(s) \subseteq Nat /\ mode.out = "preassigned"
    BY <1>14
  <2>1. mode.out = "preassigned"
    BY DEF Booked
  <2>2. queue.tasks[s].at \in Nat
    BY <1>1, <2>1, OutModes
  <2>3. PICK b : Booked(s) = queue.tasks[s].at .. b
    BY DEF Booked
  <2>4. \A a \in Nat : a .. b \subseteq Nat
    OBVIOUS
  <2> QED
    BY <2>1, <2>2, <2>3, <2>4
<1>16. /\ Free' \subseteq Nat
       /\ Free' # {} => mode.out \notin {"counted", "preassigned"}
  BY <1>2 DEF Free, Blocks
<1>17. ASSUME NEW w \in Warps
       PROVE  \/ Aims(w)' = {}
              \/ /\ mode.out = "counted" /\ pass' = "write"
                 /\ Aims(w)' = base'[w] .. base'[w] + Cardinality(Class(w)') - 1
  <2>1. pass' = "write" /\ mode.out = "counted" =>
           Aims(w)' = base'[w] + 0 .. base'[w] + Cardinality(Class(w)') - 1
    BY <1>2, <1>13 DEF Aims
  <2>2. base'[w] + 0 = base'[w]
    BY <1>9
  <2>3. ~(pass' = "write" /\ mode.out = "counted") => Aims(w)' = {}
    BY <1>2, <1>13 DEF Aims
  <2> QED
    BY <2>1, <2>2, <2>3
<1>18. \A v, w \in Warps : v # w => Aims(v)' \cap Aims(w)' = {}
  <2> SUFFICES ASSUME NEW v \in Warps, NEW w \in Warps, v < w
               PROVE  Aims(v)' \cap Aims(w)' = {}
    <3>1. \A v, w \in Warps : v # w => v < w \/ w < v
      BY WarpCount
    <3> QED
      BY <3>1
  <2> SUFFICES ASSUME Aims(v)' # {}, Aims(w)' # {}
               PROVE  Aims(v)' \cap Aims(w)' = {}
    OBVIOUS
  <2>0. PICK a, c, b, d : a = base'[v] /\ c = Cardinality(Class(v)') /\ b = base'[w]
                          /\ d = Cardinality(Class(w)')
    OBVIOUS
  <2>1. mode.out = "counted" /\ Aims(v)' = a .. a + c - 1 /\ Aims(w)' = b .. b + d - 1
    BY <1>17, <2>0
  <2>2. a + c <= b /\ a \in Nat /\ b \in Nat
    BY <1>2, <1>9, <1>10, <2>0, <2>1
  <2>3. c \in Nat /\ d \in Nat
    <3>1. Class(v)' = Class(v) /\ Class(w)' = Class(w)
      BY <1>2 DEF Class
    <3> QED
      BY <1>1, <2>0, <3>1, ClassFinite
  <2>4. (a .. a + c - 1) \cap (b .. b + d - 1) = {}
    BY <2>2, <2>3
  <2> QED
    BY <2>1, <2>4
<1>19. Apart'
  <2>1. \A s, t \in Slots : s # t => Booked(s)' \cap Booked(t)' = {}
    BY <1>1, <1>14 DEF Apart
  <2>2. \A w \in Warps, s \in Slots : Aims(w)' \cap Booked(s)' = {}
    BY <1>15, <1>17
  <2>3. \A w \in Warps : Aims(w)' \cap Free' = {}
    BY <1>16, <1>17
  <2>4. \A s \in Slots : Booked(s)' \cap Free' = {}
    BY <1>15, <1>16
  <2> QED
    BY <1>18, <2>1, <2>2, <2>3, <2>4 DEF Apart
<1>20. \A w \in Warps : Aims(w)' \subseteq Nat
  <2> SUFFICES ASSUME NEW w \in Warps
               PROVE  Aims(w)' \subseteq Nat
    OBVIOUS
  <2>1. PICK b : Aims(w)' = {} \/ Aims(w)' = base'[w] .. b
    BY <1>17
  <2>2. \A a \in Nat : a .. b \subseteq Nat
    OBVIOUS
  <2> QED
    BY <1>9, <2>1, <2>2
<1>21. ASSUME NEW q, Claimed(q)'
       PROVE  Unwritten(q)'
  <2>1. q \in Nat
    BY <1>15, <1>16, <1>20, <1>21, ClaimedNow
  <2>2. oldSize + q + 1 > oldSize
    BY <1>1, <2>1
  <2> QED
    BY <1>2, <1>8, <2>2 DEF Unwritten
<1>22. Blank'
  BY <1>21, BlankNow
<1> QED
  BY <1>12, <1>19, <1>22 DEF OutInv

LEMMA EndWriteOut ==
    ASSUME RunInv, OutInv, EndWrite
    PROVE  OutInv'
<1>1. /\ RunTyped /\ WarpsTyped /\ OutTyped /\ Unbuffered /\ Apart
      /\ oldSize \in Nat /\ writePos \in Nat /\ total \in Nat /\ IsSeq(rows)
      /\ \A w \in Warps : warp[w].at \in Nat /\ IsSeq(warp[w].buf)
      /\ mode.work = "fanout" => \A s \in Slots : queue.tasks[s].at \in Nat
  BY DEF RunInv, WorkInv, WorkTyped, OutInv, OutTyped
<1>2. /\ pass = "write" /\ UNCHANGED <<column, queue, oldSize, writePos, base, total>>
  BY DEF EndWrite, sources
<1>3. /\ \A n \in Nat : rows' = Resized(n) => IsSeq(rows') /\ Len(rows') = n
  BY <1>1, ResizedRows
<1>4. CASE overflow /\ mode.out = "speculative"
  <2>1. /\ mode' = Counted /\ pass' = "count" /\ Started /\ rows' = Resized(oldSize)
    BY <1>4 DEF EndWrite, Started
  <2>2. mode'.work = "static" /\ mode'.out = "counted"
    BY <2>1 DEF Counted
  <2>3. IsSeq(rows') /\ Len(rows') = oldSize
    BY <1>1, <1>3, <2>1
  <2>4. OutTyped' /\ Unbuffered' /\ Tally'
    BY <1>1, <1>2, <2>1, <2>2, <2>3, StartedOut
  <2>5. /\ \A w \in Warps : Aims(w)' = {}
        /\ \A s \in Slots : Booked(s)' = {}
        /\ Free' = {}
    BY <2>1, <2>2 DEF Aims, Booked, Free, Blocks
  <2>6. Apart'
    BY <2>5 DEF Apart
  <2>7. Blank'
    BY <2>1 DEF Blank
  <2> QED
    BY <2>4, <2>6, <2>7 DEF OutInv
<1>5. CASE ~(overflow /\ mode.out = "speculative")
  <2>1. /\ pass' = "done" /\ UNCHANGED <<mode, warp>>
        /\ rows' = rows \/ rows' = Resized(oldSize + writePos)
    BY <1>5 DEF EndWrite
  <2>2. oldSize + writePos \in Nat
    BY <1>1
  <2>3. IsSeq(rows')
    BY <1>1, <1>3, <2>1, <2>2
  <2>4. OutTyped'
    BY <1>1, <1>2, <2>1, <2>3 DEF OutTyped, IsSeq
  <2>5. Unbuffered' /\ Tally' /\ Blank'
    BY <1>1, <2>1 DEF Unbuffered, Tally, Blank
  <2>6. /\ \A w \in Warps : Aims(w)' = {}
        /\ \A s \in Slots : Booked(s)' = Booked(s)
        /\ Free' = {}
    BY <1>2, <2>1 DEF Aims, Booked, Free, Blocks
  <2>7. Apart'
    BY <1>1, <2>6 DEF Apart
  <2> QED
    BY <2>4, <2>5, <2>7 DEF OutInv
<1> QED
  BY <1>4, <1>5

LEMMA InitOut == Init => OutInv
<1> SUFFICES ASSUME Init
             PROVE  OutInv
  OBVIOUS
<1>1. /\ mode \in Combinations /\ warp = Restarted /\ queue = EmptyQueue
      /\ writePos = 0 /\ total = 0 /\ oldSize \in {0, 1}
      /\ pass = (IF mode.out = "speculative" THEN "write" ELSE "count")
      /\ capacity \in IF mode.out = "speculative" THEN Capacities ELSE {0}
  BY ModesAssumption DEF Init
<1>2. oldSize \in Nat /\ writePos \in Nat /\ total \in Nat
  BY <1>1
<1>3. PICK n, f : /\ n = (IF mode.out = "speculative" THEN oldSize + capacity ELSE oldSize)
                  /\ f = [p \in 1 .. n |-> IF p <= oldSize THEN 0 ELSE Junk]
  OBVIOUS
<1>4. n \in Nat
  BY <1>1, <1>3, SizesAssumption
<1>5. rows = f
  <2>1. CASE mode.out = "speculative"
    BY <1>3, <2>1 DEF Init
  <2>2. CASE mode.out # "speculative"
    <3>1. rows = [p \in 1 .. oldSize |-> 0] /\ f = [p \in 1 .. oldSize |-> IF p <= oldSize THEN 0 ELSE Junk]
      BY <1>3, <2>2 DEF Init
    <3>2. \A p \in 1 .. oldSize : p <= oldSize
      BY <1>2
    <3> QED
      BY <3>1, <3>2
  <2> QED
    BY <2>1, <2>2
<1>6. rows \in Seq({0, Junk}) /\ Len(rows) = n
      /\ \A p \in DOMAIN rows : p > oldSize => rows[p] = Junk
  BY <1>2, <1>3, <1>4, <1>5
<1>7. IsSeq(rows)
  BY <1>6 DEF IsSeq
<1>8. \A w \in Warps : /\ warp[w].pc = "start" /\ warp[w].at = 0 /\ warp[w].buf = <<>>
                       /\ warp[w].count = 0 /\ IsSeq(warp[w].buf)
  BY <1>1, FreshOut, NoRows
<1>9. OutTyped
  <2>1. \A s \in Slots : queue.tasks[s].at \in Nat
    BY <1>1 DEF EmptyQueue, NoTask
  <2>2. ~(mode.out = "counted" /\ pass = "write")
    BY <1>1
  <2>3. pass = "count" => Len(rows) = oldSize
    BY <1>1, <1>3, <1>6
  <2> QED
    BY <1>2, <1>7, <1>8, <2>1, <2>2, <2>3 DEF OutTyped
<1>10. Unbuffered
  BY <1>8 DEF Unbuffered
<1>11. Tally
  <2>1. \A w \in Warps : Passed(w) = {}
    BY <1>8 DEF Passed
  <2> QED
    BY <1>8, <2>1, FS_EmptySet DEF Tally
<1>12. /\ \A w \in Warps : Aims(w) = {}
       /\ \A s \in Slots : Booked(s) = {}
       /\ Free \subseteq Nat
  <2>1. \A w \in Warps : Aims(w) = {}
    BY <1>1, <1>8 DEF Aims
  <2>2. \A s \in Slots : Booked(s) = {}
    <3>1. queue.head = 0 /\ queue.tail = 0
      BY <1>1, EmptyTyped
    <3> QED
      BY <3>1, SlotsAre DEF Booked
  <2>3. Free \subseteq Nat
    BY DEF Free
  <2> QED
    BY <2>1, <2>2, <2>3
<1>13. Apart
  BY <1>12 DEF Apart
<1>14. Blank
  <2> SUFFICES ASSUME NEW q \in Free
               PROVE  Unwritten(q)
    BY <1>12 DEF Blank
  <2>1. oldSize + q + 1 > oldSize
    BY <1>2, <1>12
  <2> QED
    BY <1>6, <2>1 DEF Unwritten
<1> QED
  BY <1>9, <1>10, <1>11, <1>13, <1>14 DEF OutInv

LEMMA StutterOut ==
    ASSUME OutInv, UNCHANGED vars
    PROVE  OutInv' /\ Once
<1>1. /\ UNCHANGED <<column, queue, rows, oldSize, writePos, mode, pass, warp, base, total>>
      /\ OutFrame /\ OutTyped /\ Unbuffered /\ Tally /\ Apart /\ Blank
  BY DEF vars, OutFrame, OutInv
<1>2. /\ \A w \in Warps : Aims(w)' = Aims(w) /\ Passed(w)' = Passed(w)
      /\ \A s \in Slots : Booked(s)' = Booked(s)
      /\ Free' = Free
  BY <1>1, OthersAims, BookedKept, FreeKept
<1>3. Apart'
  BY <1>1, <1>2, ClaimsShrink
<1>4. \A q : Claimed(q)' => Claimed(q)
  BY <1>2, ClaimedNow DEF Claimed
<1>5. Blank'
  BY <1>1, <1>4, BlankKept
<1>6. OutTyped' /\ Unbuffered' /\ Tally'
  BY <1>1, <1>2 DEF OutTyped, IsSeq, Class, Unbuffered, Tally
<1> QED
  BY <1>1, <1>3, <1>5, <1>6 DEF OutInv, Once

LEMMA WarpOut ==
    ASSUME RunInv, OutInv, NEW w \in Warps, WarpStep(w)
    PROVE  OutInv' /\ Once
<1>16. CASE Announce(w)
  BY <1>16, AnnounceOut
<1>1. CASE Begin(w)
  BY <1>1, BeginOut
<1>2. CASE Visit(w)
  BY <1>2, VisitOut
<1>3. CASE Explore(w)
  BY <1>3, ExploreOut
<1>4. CASE PushChunk(w)
  BY <1>4, PushOut
<1>5. CASE PopChunk(w)
  BY <1>5, PopOut
<1>6. CASE Donate(w)
  BY <1>6, DonateOut
<1>7. CASE FillSlot(w)
  BY <1>7, FillSlotOut
<1>8. CASE RaiseFlag(w)
  BY <1>8, RaiseFlagOut
<1>9. CASE Steal(w)
  BY <1>9, StealOut
<1>10. CASE TakeTask(w)
  BY <1>10, TakeTaskOut
<1>11. CASE GrabRange(w)
  BY <1>11, GrabOut
<1>12. CASE Probe(w)
  BY <1>12, ProbeOut
<1>13. CASE Flush(w)
  BY <1>13, FlushOut
<1>14. CASE Store(w)
  BY <1>14, StoreOut
<1>15. CASE Finish(w)
  BY <1>15, FinishOut
<1> QED
  BY <1>1, <1>2, <1>3, <1>4, <1>5, <1>6, <1>7, <1>8, <1>9, <1>10, <1>11, <1>12, <1>13,
     <1>14, <1>15, <1>16, Zenon DEF WarpStep

LEMMA NextOut ==
    ASSUME RunInv, OutInv, [Next]_vars
    PROVE  OutInv' /\ (pass' = pass => Once)
<1>1. ASSUME NEW w \in Warps, WarpStep(w)
      PROVE  OutInv' /\ Once
  BY <1>1, WarpOut
<1>2. ASSUME EndCount
      PROVE  OutInv' /\ pass' # pass
  BY <1>2, EndCountOut DEF EndCount
<1>3. ASSUME EndWrite
      PROVE  OutInv' /\ pass' # pass
  BY <1>3, EndWriteOut DEF EndWrite
<1>4. ASSUME UNCHANGED vars
      PROVE  OutInv' /\ Once
  BY <1>4, StutterOut
<1> QED
  BY <1>1, <1>2, <1>3, <1>4 DEF Next, Terminated

(* What is going to be written is claimed by one warp, one chunk of the    *)
(* queue or nobody, and is still unwritten.                                *)
THEOREM OutInvariant == Spec => [](RunInv /\ OutInv)
<1>1. Init => RunInv /\ OutInv
  BY InitInv, InitOut
<1>2. RunInv /\ OutInv /\ [Next]_vars => (RunInv /\ OutInv)'
  BY NextInv, NextOut
<1> QED
  BY <1>1, <1>2, PTL DEF Spec

(* A row of NEW that has been written keeps its value for the rest of the  *)
(* pass, whatever the output context and however the warps interleave.     *)
THEOREM RowsAreWrittenOnce == Spec => WrittenOnce
<1> DEFINE A == pass' = pass => \A p \in DOMAIN rows : rows[p] # Junk => rows'[p] = rows[p]
<1>1. RunInv /\ OutInv /\ [Next]_vars => [A]_vars
  BY NextOut DEF Once
<1>2. Spec => [](RunInv /\ OutInv)
  BY OutInvariant
<1>3. Spec => [][Next]_vars
  BY PTL DEF Spec
<1>4. Spec => [][A]_vars
  BY <1>1, <1>2, <1>3, PTL
<1> QED
  BY <1>4 DEF WrittenOnce
=============================================================================
