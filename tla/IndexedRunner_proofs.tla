------------------------ MODULE IndexedRunner_proofs ------------------------
(***************************************************************************)
(* The runner with its indexes reads what it should, implements the runner *)
(* on tuple sets, and ends with the perfect model in its columns.          *)
(***************************************************************************)
EXTENDS IndexedRunner, FiniteSetTheorems, WellFoundedInduction, TLAPS

-----------------------------------------------------------------------------
(***************************************************************************)
(* Counting and least elements                                             *)
(***************************************************************************)

(* There are m numbers from one to m.                                      *)
LEMMA CountUpTo ==
    ASSUME NEW m \in Nat
    PROVE  IsFiniteSet(1 .. m) /\ Cardinality(1 .. m) = m
<1>1. IsFiniteSet(1 .. m) /\ Cardinality(1 .. m) = IF 1 > m THEN 0 ELSE m - 1 + 1
  BY FS_Interval
<1> QED
  BY <1>1

(* A set of natural numbers that is not empty has a least element.         *)
LEMMA MinOfNaturals ==
    ASSUME NEW S \in SUBSET Nat, S # {}
    PROVE  Min(S) \in S /\ \A k \in S : Min(S) <= k
<1> DEFINE R == {ss \in Nat \X Nat : ss[1] < ss[2]}
<1>1. IsWellFoundedOn(R, Nat)
  BY NatLessThanWellFounded DEF OpToRel
<1>2. PICK m \in S : \A k \in S : <<k, m>> \notin R
  <2> HIDE DEF R
  <2> QED
    BY <1>1, WFMin
<1>3. ASSUME NEW k \in S
      PROVE  m <= k
  <2>1. <<k, m>> \notin R /\ k \in Nat /\ m \in Nat
    BY <1>2
  <2>2. ~(k < m)
    BY <2>1
  <2> QED
    BY <2>1, <2>2
<1> QED
  BY <1>3 DEF Min

(* Two finite sets apart count together.                                   *)
LEMMA CountApart ==
    ASSUME NEW S, IsFiniteSet(S), NEW T, IsFiniteSet(T), S \cap T = {}
    PROVE  /\ IsFiniteSet(S \cup T)
           /\ Cardinality(S \cup T) = Cardinality(S) + Cardinality(T)
           /\ Cardinality(S) \in Nat /\ Cardinality(T) \in Nat
<1>1. Cardinality({}) = 0
  BY FS_EmptySet
<1>2. Cardinality(S) \in Nat /\ Cardinality(T) \in Nat
  BY FS_CardinalityType
<1>3. /\ IsFiniteSet(S \cup T)
      /\ Cardinality(S \cup T) = Cardinality(S) + Cardinality(T) - Cardinality(S \cap T)
  BY FS_Union
<1>4. Cardinality(S \cap T) = 0
  BY <1>1
<1> QED
  BY <1>2, <1>3, <1>4

(* The pile of the sets F[w], one for each w in W.                         *)
Pile(F, W) == UNION {F[w] : w \in W}

(* Finitely many finite sets make a finite pile.                           *)
LEMMA PileIsFinite ==
    ASSUME NEW W, NEW F, IsFiniteSet(W), \A w \in W : IsFiniteSet(F[w])
    PROVE  IsFiniteSet(Pile(F, W)) /\ Cardinality(Pile(F, W)) \in Nat
<1> DEFINE T == {F[w] : w \in W}
           f == [w \in W |-> F[w]]
<1>1. f \in Surjection(W, T)
  BY DEF Surjection
<1> HIDE DEF f
<1>2. IsFiniteSet(T)
  <2> HIDE DEF T
  <2> QED
    BY <1>1, FS_Surjection
<1>3. \A S \in T : IsFiniteSet(S)
  OBVIOUS
<1> HIDE DEF T
<1>4. IsFiniteSet(UNION T)
  BY <1>2, <1>3, FS_UNION
<1> QED
  BY <1>4, FS_CardinalityType DEF Pile, T

(***************************************************************************)
(* The invariant                                                           *)
(***************************************************************************)
Valid == status \in {"running", "ok"}

Idb == UNION {Members(s) : s \in Level}

(* All indexes that are kept for a relation outside fixpoints.             *)
Specs(q) ==
    LET reads == UNION {Reads(s, q) : s \in Level}
    IN  IF reads # {} THEN reads ELSE {0}

Needed(s, q) == ToSet(Required[s][q])
Kept(s, q) == {spec \in Needed(s, q) : Merges(s, q, spec)}

(* A version of q: its columns, its row count and its indexes.             *)
IsVersion(r, q) ==
    /\ r = [cols |-> r.cols, n |-> r.n, idx |-> r.idx]
    /\ r.cols \subseteq Facts(q) /\ r.n \in Nat
    /\ \A spec \in DOMAIN r.idx : r.idx[spec] \in [rows : SUBSET Facts(q), seen : Nat]

IsRelation(d, q) ==
    /\ d = [full |-> d.full, delta |-> d.delta, new |-> d.new]
    /\ IsVersion(d.full, q) /\ IsVersion(d.delta, q) /\ IsVersion(d.new, q)

(* What the code that is left, C, says: NEW of q is being compared, block  *)
(* b has been compared, and the indexes of q an instruction is due for.    *)
ComparingIn(C, q) ==
    \E i \in C : /\ i.op = "ComputeDelta" /\ i.rel = q
                 /\ \A j \in C : ~(j.op = "RebuildNew" /\ j.block = i.block)

ComparedIn(C, b) == \A i \in C : ~(i.op = "ComputeDelta" /\ i.block = b)

DueIn(C, op, q) ==
    {i.spec : i \in {j \in C : j.op = op /\ j.rel = q /\ ComparedIn(C, j.block)}}

(* Block b of relation q has been compared, and NEW is still to be cleared. *)
MovedIn(C, q) == \E i \in C : i.op = "ClearNew" /\ i.rel = q /\ ComparedIn(C, i.block)

(* Where the run is as far as relation q is concerned: whether the stratum *)
(* computes q, has done so, is comparing, has just compared, will do so or *)
(* has later strata that will; whether indexes are prepared, columns       *)
(* rewritten; and the indexes DELTA is still to be merged into or copied   *)
(* to.                                                                     *)
StageOf(q, ph, s, k, C) ==
    [member    |-> ph # "idle" /\ q \in Members(s),
     touched   |-> /\ ph # "idle" /\ q \in Maintained[s]
                   /\ \/ k > 0
                      \/ ph = "maintain" /\ \E b \in Blocks(s) : b.rel = q /\ ComparedIn(C, b),
     comparing |-> ComparingIn(C, q),
     moved     |-> MovedIn(C, q),
     pending   |-> ph # "idle" /\ \E t \in Level : t >= s /\ q \in Members(t),
     prepared  |-> ph \notin {"idle", "prepare"},
     rewritten |-> ph = "epilogue" /\ \E i \in Epilogue[s] \ C : i.rel = q,
     merge     |-> DueIn(C, "MergeIndex", q),
     copy      |-> DueIn(C, "IndexFromIndex", q)]

Stage(q) == StageOf(q, phase, stratum, iter, code)

FullOf(q, d, s, g) == IF g.member THEN Rows(d.full, Canonical[s][q]) ELSE d.full.cols

IndexedRows(r) == UNION {r.idx[spec].rows : spec \in DOMAIN r.idx}

DeltaOf(q, d, s, g) ==
    IF g.comparing THEN Rows(d.new, Canonical[s][q]) \ FullOf(q, d, s, g) ELSE IndexedRows(d.delta)

(* An index has no rows but those of the columns, and all of them if its   *)
(* count says so.                                                          *)
Clean(r) ==
    \A spec \in DOMAIN r.idx :
        /\ r.idx[spec].rows \subseteq r.cols
        /\ r.idx[spec].seen = r.n => r.idx[spec].rows = r.cols

(* No index claims more rows than it has.                                  *)
Counted(r) == \A spec \in DOMAIN r.idx : r.idx[spec].seen <= Cardinality(r.idx[spec].rows)

(* The columns: of a relation that is loaded they are the rows loaded; of  *)
(* one that is computed they repeat no row, so that rows can be counted.   *)
ColumnsRel(q, d, facts) ==
    IF q \in Idb
    THEN d.full.n = Cardinality(d.full.cols) /\ Counted(d.full) /\ In(facts, q) = {}
    ELSE d.full.cols = In(facts, q) /\ Cardinality(d.full.cols) <= d.full.n

(* Between the strata that compute it, a relation's columns are FULL.      *)
SettledRel(q, d, s, g) ==
    /\ Clean(d.full)
    /\ ~g.comparing => IndexedRows(d.delta) \subseteq d.full.cols
    /\ g.pending /\ q \in Idb => \A spec \in Specs(q) : Rows(d.full, spec) = d.full.cols
    /\ g.prepared /\ ~g.member => \A spec \in Prebuilt(s, q) : Rows(d.full, spec) = d.full.cols

(* Once its stratum has maintained it, its kept indexes are FULL, but for  *)
(* the merges that are due, and the maintained indexes of DELTA are DELTA. *)
TouchedRel(q, d, s, g) ==
    LET F == FullOf(q, d, s, g)
        D == DeltaOf(q, d, s, g)
    IN  /\ IndexedRows(d.full) \subseteq F \cup D
        /\ Counted(d.delta)
        /\ \A spec \in Kept(s, q) :
              IF spec \in g.merge
              THEN Rows(d.full, spec) \cup D = F \cup D /\ Rows(d.full, spec) \cap D = {}
              ELSE Rows(d.full, spec) = IF g.comparing THEN F ELSE F \cup D
        /\ ~g.comparing => \A spec \in Needed(s, q) \ g.copy : Rows(d.delta, spec) = D
        /\ g.rewritten => d.full.cols = F

(* While NEW is compared, its canonical index alone has its rows.          *)
ComparingRel(q, d, s) ==
    /\ HasIndex(d.new, Canonical[s][q]) /\ d.new.idx[Canonical[s][q]].seen = 0
    /\ d.new.cols = {} /\ d.new.n = 0

RelInv(q, d, s, g, facts) ==
    /\ ColumnsRel(q, d, facts)
    /\ IF g.member /\ g.touched THEN TouchedRel(q, d, s, g) ELSE SettledRel(q, d, s, g)
    /\ g.comparing => ComparingRel(q, d, s)
    /\ g.moved => d.new.cols = {}

TypeInv ==
    /\ open \in BOOLEAN /\ live \in BOOLEAN /\ exact \in BOOLEAN
    /\ input \subseteq Fact /\ iter \in Nat /\ maxIter \in Nat
    /\ phase \in {"idle", "prepare", "check", "run", "maintain", "epilogue"}
    /\ status \in {"none", "running", "ok", "failed"}
    /\ phase # "idle" => status = "running"
    /\ DOMAIN host = Relation /\ DOMAIN db = Relation
    /\ \A q \in Relation :
          /\ IsVersion(host[q], q) /\ host[q].idx = NoColumns.idx
          /\ Cardinality(host[q].cols) <= host[q].n
          /\ q \in Idb => host[q] = NoColumns
          /\ IsRelation(db[q], q)

PhaseInv ==
    /\ status = "running" => phase # "idle"
    /\ phase # "idle" => stratum \in Level /\ live
    /\ status = "ok" => stratum = 0 /\ live
    /\ phase \in {"prepare", "check", "run"} \/ status = "ok" => code = {}
    /\ phase = "prepare" => iter = 0
    /\ phase \in {"run", "maintain"} /\ ~Recursive(stratum) => iter = 0
    /\ phase \in {"check", "epilogue"} /\ ~Recursive(stratum) => iter \in {0, 1}
    /\ phase = "run" => pipelines \subseteq Variants(stratum)
    /\ phase = "maintain" =>
          /\ code \subseteq MaintenanceCode[stratum]
          /\ \A i \in code : \A j \in MaintenanceCode[stratum] : Earlier(i.at, j.at) => j \in code
    /\ phase = "epilogue" =>
          /\ code \subseteq Epilogue[stratum]
          /\ iter > 0 /\ (Recursive(stratum) => iter >= maxIter \/ DeltaEmpty)

IInv ==
    /\ TypeInv
    /\ Valid => PhaseInv /\ \A q \in Relation : RelInv(q, db[q], stratum, Stage(q), input)

-----------------------------------------------------------------------------
(***************************************************************************)
(* Index selection                                                         *)
(***************************************************************************)

Ahead(P, p) == {o \in P : Earlier(o, p)}

(* The pairs that are put in order before a pair are fewer than all, and   *)
(* fewer than those before a later pair.                                   *)
LEMMA RanksGrow ==
    ASSUME NEW P \in SUBSET (Nat \X Nat), IsFiniteSet(P), NEW p \in P
    PROVE  /\ Cardinality(Ahead(P, p)) \in Nat /\ Cardinality(Ahead(P, p)) < Cardinality(P)
           /\ Cardinality(P) \in Nat
           /\ \A o \in P : Earlier(p, o) => Cardinality(Ahead(P, p)) < Cardinality(Ahead(P, o))
<1>1. ASSUME NEW S \in SUBSET P, Ahead(P, p) \subseteq S, p \in S
      PROVE  Cardinality(Ahead(P, p)) < Cardinality(S)
  <2>1. IsFiniteSet(S) /\ Cardinality(S) \in Nat
    BY FS_Subset, FS_CardinalityType
  <2>2. Ahead(P, p) \in SUBSET S /\ p \notin Ahead(P, p)
    BY <1>1 DEF Ahead, Earlier
  <2>3. /\ IsFiniteSet(Ahead(P, p)) /\ Cardinality(Ahead(P, p)) \in Nat
        /\ Cardinality(Ahead(P, p)) <= Cardinality(S)
        /\ Cardinality(S) = Cardinality(Ahead(P, p)) => S = Ahead(P, p)
    BY <2>1, <2>2, FS_Subset, FS_CardinalityType
  <2> QED
    BY <1>1, <2>1, <2>2, <2>3
<1>2. Cardinality(Ahead(P, p)) \in Nat /\ Cardinality(P) \in Nat
  <2>1. Ahead(P, p) \in SUBSET P
    BY DEF Ahead
  <2> QED
    BY <2>1, FS_Subset, FS_CardinalityType
<1>3. Cardinality(Ahead(P, p)) < Cardinality(P)
  <2>1. Ahead(P, p) \subseteq P
    BY DEF Ahead
  <2> QED
    BY <1>1, <2>1
<1>4. ASSUME NEW o \in P, Earlier(p, o)
      PROVE  Cardinality(Ahead(P, p)) < Cardinality(Ahead(P, o))
  <2>1. /\ Ahead(P, o) \in SUBSET P
        /\ Ahead(P, p) \subseteq Ahead(P, o)
        /\ p \in Ahead(P, o)
    BY <1>4 DEF Ahead, Earlier
  <2> QED
    BY <1>1, <2>1
<1> QED
  BY <1>2, <1>3, <1>4

(* Putting a set of pairs in order loses no pair and repeats none.         *)
LEMMA OrderedIsOnto ==
    ASSUME NEW P \in SUBSET (Nat \X Nat), IsFiniteSet(P)
    PROVE  /\ Ordered(P) \in Seq(Nat) /\ Len(Ordered(P)) = Cardinality(P)
           /\ \E f \in Bijection(1 .. Cardinality(P), P) :
                 \A k \in 1 .. Cardinality(P) : Ordered(P)[k] = f[k][2]
<1> DEFINE n == Cardinality(P)
           r == [p \in P |-> Cardinality(Ahead(P, p)) + 1]
           f == [k \in 1 .. n |-> CHOOSE p \in P : Cardinality(Ahead(P, p)) = k - 1]
<1>1. n \in Nat
  BY FS_CardinalityType
<1>2. IsFiniteSet(1 .. n) /\ Cardinality(1 .. n) = n
  BY <1>1, CountUpTo
<1>3. ASSUME NEW p \in P, NEW o \in P, p # o
      PROVE  Cardinality(Ahead(P, p)) # Cardinality(Ahead(P, o))
  <2>1. Earlier(p, o) \/ Earlier(o, p)
    <3>1. p = <<p[1], p[2]>> /\ o = <<o[1], o[2]>> /\ p[1] \in Nat /\ p[2] \in Nat
          /\ o[1] \in Nat /\ o[2] \in Nat
      OBVIOUS
    <3>2. p[1] # o[1] \/ p[2] # o[2]
      BY <1>3, <3>1
    <3> QED
      BY <3>1, <3>2 DEF Earlier
  <2>2. /\ Cardinality(Ahead(P, p)) \in Nat /\ Cardinality(Ahead(P, o)) \in Nat
        /\ Earlier(p, o) => Cardinality(Ahead(P, p)) < Cardinality(Ahead(P, o))
        /\ Earlier(o, p) => Cardinality(Ahead(P, o)) < Cardinality(Ahead(P, p))
    BY RanksGrow
  <2> QED
    BY <2>1, <2>2
<1>4. r \in Injection(P, 1 .. n)
  <2>1. ASSUME NEW p \in P
        PROVE  Cardinality(Ahead(P, p)) + 1 \in 1 .. n
    BY <1>1, RanksGrow
  <2>2. \A p \in P : r[p] = Cardinality(Ahead(P, p)) + 1
    OBVIOUS
  <2>3. ASSUME NEW p \in P, NEW o \in P, r[p] = r[o]
        PROVE  p = o
    <3>1. Cardinality(Ahead(P, p)) \in Nat /\ Cardinality(Ahead(P, o)) \in Nat
      BY RanksGrow
    <3>2. Cardinality(Ahead(P, p)) = Cardinality(Ahead(P, o))
      BY <2>3, <2>2, <3>1
    <3> QED
      BY <1>3, <3>2
  <2>4. r \in [P -> 1 .. n]
    BY <2>1
  <2> QED
    BY <2>3, <2>4 DEF Injection, IsInjective
<1>5. r \in Surjection(P, 1 .. n)
  <2> HIDE DEF r
  <2> QED
    BY <1>2, <1>4, FS_Injection
<1>6. ASSUME NEW k \in 1 .. n
      PROVE  \E p \in P : Cardinality(Ahead(P, p)) = k - 1
  <2>1. PICK p \in P : r[p] = k
    BY <1>5 DEF Surjection
  <2>2. Cardinality(Ahead(P, p)) \in Nat /\ r[p] = Cardinality(Ahead(P, p)) + 1
    BY RanksGrow
  <2> QED
    BY <2>1, <2>2
<1>7. ASSUME NEW k \in 1 .. n
      PROVE  f[k] \in P /\ Cardinality(Ahead(P, f[k])) = k - 1
  BY <1>6
<1>8. f \in Bijection(1 .. n, P)
  <2>1. f \in [1 .. n -> P]
    BY <1>7
  <2>2. ASSUME NEW k \in 1 .. n, NEW j \in 1 .. n, f[k] = f[j]
        PROVE  k = j
    <3>1. k - 1 = j - 1
      BY <1>7, <2>2
    <3> QED
      BY <3>1
  <2>3. ASSUME NEW p \in P
        PROVE  \E k \in 1 .. n : f[k] = p
    <3>1. Cardinality(Ahead(P, p)) \in Nat /\ Cardinality(Ahead(P, p)) < n
      BY RanksGrow
    <3>2. PICK k \in 1 .. n : k - 1 = Cardinality(Ahead(P, p))
      BY <1>1, <3>1
    <3>3. f[k] \in P /\ Cardinality(Ahead(P, f[k])) = Cardinality(Ahead(P, p))
      BY <1>7, <3>2
    <3> QED
      BY <1>3, <3>3
  <2> HIDE DEF f
  <2> QED
    BY <2>1, <2>2, <2>3 DEF Bijection, Injection, IsInjective, Surjection
<1>9. \A k \in 1 .. n : Ordered(P)[k] = f[k][2]
  BY DEF Ordered, Ahead
<1>10. Ordered(P) = [k \in 1 .. n |-> f[k][2]]
  BY DEF Ordered, Ahead
<1>11. Ordered(P) \in Seq(Nat) /\ Len(Ordered(P)) = n
  <2>1. \A k \in 1 .. n : f[k][2] \in Nat
    BY <1>7
  <2> HIDE DEF f
  <2> QED
    BY <1>1, <1>10, <2>1
<1> HIDE DEF f, n
<1> QED
  BY <1>8, <1>9, <1>11 DEF n

(* The parts of a stratum and of its pipelines.                            *)
LEMMA StratumParts ==
    ASSUME NEW s \in Level
    PROVE  /\ RulesOf(s) \subseteq Rule /\ Members(s) \subseteq Relation
           /\ Recursive(s) \in BOOLEAN
<1> DEFINE Record == [recursive : BOOLEAN, members : SUBSET Relation, rules : SUBSET Rule]
<1>1. Strata \in Seq(Record)
  BY ProgramOK
<1>2. Strata[s] \in Record
  <2> HIDE DEF Record
  <2> QED
    BY <1>1 DEF Level
<1> QED
  BY <1>2 DEF RulesOf, Members, Recursive

LEMMA BodyParts ==
    ASSUME NEW r \in Rule
    PROVE  /\ DOMAIN Body[r] = 1 .. Len(Body[r]) /\ Len(Body[r]) \in Nat
           /\ \A i \in DOMAIN Body[r] : Body[r][i] \in Relation
           /\ Negated[r] \subseteq Relation /\ Heads[r] \subseteq Relation
<1>1. Body[r] \in Seq(Relation)
  BY ProgramOK
<1>2. Negated[r] \subseteq Relation /\ Heads[r] \subseteq Relation
  BY ProgramOK
<1> QED
  BY <1>1, <1>2

LEMMA VariantParts ==
    ASSUME NEW s \in Level, NEW v \in Variants(s)
    PROVE  /\ v.rule \in RulesOf(s) /\ v.rule \in Rule
           /\ IF Recursive(s) THEN v.clause \in SccClauses(s, v.rule) ELSE v.clause = 0
           /\ v.clause \in 0 .. Len(Body[v.rule])
           /\ v = [rule |-> v.rule, clause |-> v.clause]
<1>1. CASE Recursive(s)
  <2>1. Variants(s) = UNION {{[rule |-> r, clause |-> i] : i \in SccClauses(s, r)} : r \in RulesOf(s)}
    BY <1>1 DEF Variants
  <2>2. PICK r \in RulesOf(s) : v \in {[rule |-> r, clause |-> i] : i \in SccClauses(s, r)}
    BY <2>1
  <2>3. v.rule = r /\ v.clause \in SccClauses(s, r) /\ v = [rule |-> v.rule, clause |-> v.clause]
    BY <2>2
  <2>4. r \in Rule
    BY StratumParts
  <2>5. v.clause \in DOMAIN Body[r]
    BY <2>3, <1>1 DEF SccClauses
  <2> QED
    BY <1>1, <2>3, <2>4, <2>5, BodyParts
<1>2. CASE ~Recursive(s)
  <2>1. Variants(s) = {[rule |-> r, clause |-> 0] : r \in RulesOf(s)}
    BY <1>2 DEF Variants
  <2>2. v.rule \in RulesOf(s) /\ v.clause = 0 /\ v = [rule |-> v.rule, clause |-> v.clause]
    BY <2>1
  <2>3. v.rule \in Rule /\ 0 \in 0 .. Len(Body[v.rule])
    BY <2>2, StratumParts, BodyParts
  <2> QED
    BY <1>2, <2>2, <2>3
<1> QED
  BY <1>1, <1>2

(* A stratum has finitely many pipelines.                                  *)
LEMMA VariantsAreFinite ==
    ASSUME IndexedSupported, NEW s \in Level
    PROVE  IsFiniteSet(Variants(s))
<1> DEFINE F == [r \in Rule |-> {[rule |-> r, clause |-> i] : i \in 0 .. Len(Body[r])}]
<1>1. IsFiniteSet(Rule)
  BY DEF IndexedSupported
<1>2. ASSUME NEW r \in Rule
      PROVE  IsFiniteSet(F[r])
  <2> DEFINE g == [i \in 0 .. Len(Body[r]) |-> [rule |-> r, clause |-> i]]
  <2>1. IsFiniteSet(0 .. Len(Body[r]))
    <3>1. 0 \in Int /\ Len(Body[r]) \in Int
      BY BodyParts
    <3> QED
      BY <3>1, FS_Interval
  <2>2. g \in Surjection(0 .. Len(Body[r]), F[r])
    BY DEF Surjection
  <2> HIDE DEF g, F
  <2> QED
    BY <2>1, <2>2, FS_Surjection
<1>3. IsFiniteSet(Pile(F, Rule))
  <2> HIDE DEF F
  <2> QED
    BY <1>1, <1>2, PileIsFinite
<1>4. \A v \in Variants(s) : v \in Pile(F, Rule)
  <2> SUFFICES ASSUME NEW v \in Variants(s)
               PROVE  \E r \in Rule : v \in F[r]
    BY DEF Pile
  <2>1. /\ v.rule \in Rule /\ v.clause \in 0 .. Len(Body[v.rule])
        /\ v = [rule |-> v.rule, clause |-> v.clause]
    BY VariantParts
  <2>2. v \in F[v.rule]
    BY <2>1
  <2> QED
    BY <2>1, <2>2
<1> HIDE DEF F
<1> QED
  BY <1>3, <1>4, FS_Subset

(* What a pipeline reads is among what its stratum reads.                  *)
LEMMA ReadsOfVariant ==
    ASSUME NEW s \in Level, NEW v \in Variants(s)
    PROVE  /\ \A i \in DOMAIN Body[v.rule] :
                 IF i = v.clause THEN Access[v][i] \in ReadAsDelta(s, Body[v.rule][i])
                                 ELSE Access[v][i] \in ReadPositively(s, Body[v.rule][i])
           /\ \A q \in Negated[v.rule] : NegAccess[v][q] \in ReadNegated(s, q)
<1>1. ASSUME NEW i \in DOMAIN Body[v.rule], i = v.clause
      PROVE  Access[v][i] \in ReadAsDelta(s, Body[v.rule][i])
  <2>1. v.clause # 0
    <3>1. v.rule \in Rule
      BY VariantParts
    <3>2. DOMAIN Body[v.rule] = 1 .. Len(Body[v.rule])
      BY <3>1, BodyParts
    <3> QED
      BY <1>1, <3>2
  <2>2. v \in {w \in Variants(s) : w.clause # 0 /\ Body[w.rule][w.clause] = Body[v.rule][i]}
    BY <1>1, <2>1
  <2>3. Access[v][v.clause] \in ReadAsDelta(s, Body[v.rule][i])
    BY <2>2 DEF ReadAsDelta
  <2> QED
    BY <1>1, <2>3
<1>2. ASSUME NEW i \in DOMAIN Body[v.rule], i # v.clause
      PROVE  Access[v][i] \in ReadPositively(s, Body[v.rule][i])
  <2>1. Access[v][i] \in {Access[v][j] :
            j \in {k \in DOMAIN Body[v.rule] : k # v.clause /\ Body[v.rule][k] = Body[v.rule][i]}}
    BY <1>2
  <2> QED
    BY <2>1 DEF ReadPositively
<1>3. ASSUME NEW q \in Negated[v.rule]
      PROVE  NegAccess[v][q] \in ReadNegated(s, q)
  BY DEF ReadNegated
<1> QED
  BY <1>1, <1>2, <1>3

(* Every read of a stratum is the read of a pipeline.                      *)
LEMMA ReadsComeFromVariants ==
    ASSUME NEW s \in Level, NEW q, NEW spec \in Reads(s, q)
    PROVE  \/ \E v \in Variants(s) : \E i \in DOMAIN Body[v.rule] :
                 Body[v.rule][i] = q /\ spec = Access[v][i]
           \/ \E v \in Variants(s) : q \in Negated[v.rule] /\ spec = NegAccess[v][q]
<1>1. CASE spec \in ReadAsDelta(s, q)
  <2>1. PICK v \in Variants(s) :
            v.clause # 0 /\ Body[v.rule][v.clause] = q /\ spec = Access[v][v.clause]
    BY <1>1 DEF ReadAsDelta
  <2>2. v.clause \in DOMAIN Body[v.rule]
    <3>1. v.rule \in Rule /\ v.clause \in 0 .. Len(Body[v.rule])
      BY VariantParts
    <3>2. DOMAIN Body[v.rule] = 1 .. Len(Body[v.rule]) /\ Len(Body[v.rule]) \in Nat
      BY <3>1, BodyParts
    <3> QED
      BY <2>1, <3>1, <3>2
  <2> QED
    BY <2>1, <2>2
<1>2. CASE spec \in ReadPositively(s, q)
  <2>1. PICK v \in Variants(s) : spec \in {Access[v][i] :
            i \in {k \in DOMAIN Body[v.rule] : k # v.clause /\ Body[v.rule][k] = q}}
    BY <1>2 DEF ReadPositively
  <2> QED
    BY <2>1
<1>3. CASE spec \in ReadNegated(s, q)
  BY <1>3 DEF ReadNegated
<1> QED
  BY <1>1, <1>2, <1>3 DEF Reads, ReadAsFull

LEMMA ReadsAreNumbers ==
    ASSUME IndexedSupported, NEW s \in Level, NEW q
    PROVE  Reads(s, q) \subseteq Nat
<1> SUFFICES ASSUME NEW spec \in Reads(s, q)
             PROVE  spec \in Nat
  OBVIOUS
<1> QED
  BY ReadsComeFromVariants DEF IndexedSupported

LEMMA ReadsAreFinite ==
    ASSUME IndexedSupported, NEW s \in Level, NEW q
    PROVE  IsFiniteSet(Reads(s, q))
<1> DEFINE F == [v \in Variants(s) |-> {Access[v][i] : i \in DOMAIN Body[v.rule]}]
           g == [v \in Variants(s) |-> NegAccess[v][q]]
           N == {g[v] : v \in Variants(s)}
<1>1. IsFiniteSet(Variants(s))
  BY VariantsAreFinite
<1>2. ASSUME NEW v \in Variants(s)
      PROVE  IsFiniteSet(F[v])
  <2> DEFINE h == [i \in DOMAIN Body[v.rule] |-> Access[v][i]]
  <2>1. v.rule \in Rule
    BY VariantParts
  <2>2. DOMAIN Body[v.rule] = 1 .. Len(Body[v.rule]) /\ Len(Body[v.rule]) \in Nat
    BY <2>1, BodyParts
  <2>3. IsFiniteSet(DOMAIN Body[v.rule])
    BY <2>2, CountUpTo
  <2>4. h \in Surjection(DOMAIN Body[v.rule], F[v])
    BY DEF Surjection
  <2> HIDE DEF h, F
  <2> QED
    BY <2>3, <2>4, FS_Surjection
<1>3. IsFiniteSet(Pile(F, Variants(s)))
  <2> HIDE DEF F
  <2> QED
    BY <1>1, <1>2, PileIsFinite
<1>4. IsFiniteSet(N)
  <2>1. g \in Surjection(Variants(s), N)
    BY DEF Surjection
  <2> HIDE DEF g, N
  <2> QED
    BY <1>1, <2>1, FS_Surjection
<1>5. IsFiniteSet(Pile(F, Variants(s)) \cup N)
  <2> HIDE DEF F, N
  <2> QED
    BY <1>3, <1>4, FS_Union
<1>6. ASSUME NEW spec \in Reads(s, q)
      PROVE  spec \in Pile(F, Variants(s)) \cup N
  <2>1. CASE \E v \in Variants(s) : \E i \in DOMAIN Body[v.rule] :
                 Body[v.rule][i] = q /\ spec = Access[v][i]
    <3>1. PICK v \in Variants(s) : \E i \in DOMAIN Body[v.rule] : spec = Access[v][i]
      BY <2>1
    <3>2. spec \in F[v]
      BY <3>1
    <3> HIDE DEF F
    <3> QED
      BY <3>2 DEF Pile
  <2>2. CASE \E v \in Variants(s) : q \in Negated[v.rule] /\ spec = NegAccess[v][q]
    <3>1. PICK v \in Variants(s) : spec = NegAccess[v][q]
      BY <2>2
    <3>2. spec = g[v]
      BY <3>1
    <3> HIDE DEF F, g
    <3> QED
      BY <3>2
  <2> QED
    BY <2>1, <2>2, ReadsComeFromVariants
<1> HIDE DEF F, N
<1> QED
  BY <1>5, <1>6, FS_Subset

LEMMA LevelFacts ==
    /\ Level = 1 .. Len(Strata) /\ Len(Strata) \in Nat /\ Len(Strata) > 0
    /\ IsFiniteSet(Level) /\ Level \subseteq Nat
<1>1. Len(Strata) \in Nat /\ Len(Strata) > 0
  <2> DEFINE Record == [recursive : BOOLEAN, members : SUBSET Relation, rules : SUBSET Rule]
  <2>1. Strata \in Seq(Record) /\ Len(Strata) > 0
    BY ProgramOK
  <2> HIDE DEF Record
  <2> QED
    BY <2>1
<1> QED
  BY <1>1, CountUpTo DEF Level

AllReads(q) == UNION {Reads(s, q) : s \in Level}

LEMMA AllReadsAreFinite ==
    ASSUME IndexedSupported, NEW q
    PROVE  IsFiniteSet(AllReads(q)) /\ AllReads(q) \subseteq Nat
<1> DEFINE F == [s \in Level |-> Reads(s, q)]
<1>1. \A s \in Level : IsFiniteSet(F[s]) /\ F[s] \subseteq Nat
  BY ReadsAreFinite, ReadsAreNumbers
<1>2. AllReads(q) = Pile(F, Level)
  BY DEF AllReads, Pile
<1> HIDE DEF F
<1>3. IsFiniteSet(Pile(F, Level))
  BY <1>1, LevelFacts, PileIsFinite
<1>4. Pile(F, Level) \subseteq Nat
  BY <1>1 DEF Pile
<1> QED
  BY <1>2, <1>3, <1>4

(* The pairs of the indexes any stratum reads, and those one stratum reads *)
(* in order: each index once.                                              *)
LEMMA FirstReadsParts ==
    ASSUME IndexedSupported, NEW q
    PROVE  /\ FirstReads(q) \in SUBSET (Nat \X Nat) /\ IsFiniteSet(FirstReads(q))
           /\ \A p \in FirstReads(q) : p[2] \in AllReads(q)
           /\ \A spec \in AllReads(q) : \E p \in FirstReads(q) : p[2] = spec
           /\ \A p, o \in FirstReads(q) : p[2] = o[2] => p = o
<1>1. FirstReads(q) \in SUBSET (Level \X AllReads(q))
  BY DEF FirstReads, AllReads
<1>2. IsFiniteSet(Level \X AllReads(q))
  BY LevelFacts, AllReadsAreFinite, FS_Product
<1>3. FirstReads(q) \in SUBSET (Nat \X Nat) /\ IsFiniteSet(FirstReads(q))
  <2>1. IsFiniteSet(FirstReads(q))
    BY <1>1, <1>2, FS_Subset
  <2>2. Level \subseteq Nat /\ AllReads(q) \subseteq Nat
    BY LevelFacts, AllReadsAreFinite
  <2> QED
    BY <1>1, <2>1, <2>2
<1>4. ASSUME NEW spec \in AllReads(q)
      PROVE  \E p \in FirstReads(q) : p[2] = spec
  <2> DEFINE T == {t \in Level : spec \in Reads(t, q)}
  <2>1. T # {} /\ T \in SUBSET Nat
    BY LevelFacts DEF AllReads
  <2>2. PICK t \in T : \A k \in T : t <= k
    <3> HIDE DEF T
    <3> QED
      BY <2>1, MinOfNaturals
  <2>3. t \in Level /\ spec \in Reads(t, q)
    BY <2>2
  <2>4. ASSUME NEW k \in 1 .. t - 1
        PROVE  spec \notin Reads(k, q)
    <3>1. k \in Level /\ ~(t <= k)
      BY <2>3, LevelFacts
    <3> QED
      BY <2>2, <3>1
  <2>5. <<t, spec>> \in FirstReads(q)
    BY <2>3, <2>4 DEF FirstReads, AllReads
  <2> QED
    BY <2>5
<1>5. ASSUME NEW p \in FirstReads(q), NEW o \in FirstReads(q), p[2] = o[2]
      PROVE  p = o
  <2>1. /\ p = <<p[1], p[2]>> /\ o = <<o[1], o[2]>> /\ p[1] \in Level /\ o[1] \in Level
        /\ p[2] \in Reads(p[1], q) /\ o[2] \in Reads(o[1], q)
        /\ \A t \in 1 .. p[1] - 1 : p[2] \notin Reads(t, q)
        /\ \A t \in 1 .. o[1] - 1 : o[2] \notin Reads(t, q)
    BY DEF FirstReads
  <2>2. p[1] = o[1]
    <3>1. p[1] \in Nat /\ o[1] \in Nat /\ p[1] >= 1 /\ o[1] >= 1
      BY <2>1, LevelFacts
    <3>2. p[1] \notin 1 .. o[1] - 1 /\ o[1] \notin 1 .. p[1] - 1
      BY <1>5, <2>1
    <3> QED
      BY <3>1, <3>2
  <2> QED
    BY <1>5, <2>1, <2>2
<1>6. \A p \in FirstReads(q) : p[2] \in AllReads(q)
  BY <1>1
<1> QED
  BY <1>3, <1>4, <1>5, <1>6

LEMMA LocalReadsParts ==
    ASSUME IndexedSupported, NEW s \in Level, NEW q
    PROVE  /\ LocalReads(s, q) \in SUBSET (Nat \X Nat) /\ IsFiniteSet(LocalReads(s, q))
           /\ \A p \in LocalReads(s, q) : p[2] \in Reads(s, q)
           /\ \A spec \in Reads(s, q) : \E p \in LocalReads(s, q) : p[2] = spec
           /\ \A p, o \in LocalReads(s, q) : p[2] = o[2] => p = o
<1>1. LocalReads(s, q) \in SUBSET ({1, 2} \X Reads(s, q))
  BY DEF LocalReads, Reads
<1>2. IsFiniteSet({1, 2} \X Reads(s, q))
  <2>1. (1 .. 2) = {1, 2}
    OBVIOUS
  <2>2. IsFiniteSet({1, 2})
    <3>1. IsFiniteSet(1 .. 2)
      BY CountUpTo
    <3> QED
      BY <2>1, <3>1
  <2> QED
    BY <2>2, ReadsAreFinite, FS_Product
<1>3. IsFiniteSet(LocalReads(s, q))
  BY <1>1, <1>2, FS_Subset
<1>4. LocalReads(s, q) \in SUBSET (Nat \X Nat)
  BY <1>1, ReadsAreNumbers
<1>5. \A p \in LocalReads(s, q) : p[2] \in Reads(s, q)
  BY <1>1
<1>6. ASSUME NEW spec \in Reads(s, q)
      PROVE  \E p \in LocalReads(s, q) : p[2] = spec
  <2>1. <<1, spec>> \in LocalReads(s, q) \/ <<2, spec>> \in LocalReads(s, q)
    BY DEF LocalReads, Reads
  <2> QED
    BY <2>1
<1>7. ASSUME NEW p \in LocalReads(s, q), NEW o \in LocalReads(s, q), p[2] = o[2]
      PROVE  p = o
  BY <1>7 DEF LocalReads
<1> QED
  BY <1>3, <1>4, <1>5, <1>6, <1>7

(* Pairs with different second parts give a sequence that repeats nothing. *)
LEMMA OrderedElements ==
    ASSUME NEW P \in SUBSET (Nat \X Nat), IsFiniteSet(P),
           \A p, o \in P : p[2] = o[2] => p = o
    PROVE  /\ Ordered(P) \in Seq(Nat) /\ (Ordered(P) = <<>> <=> P = {})
           /\ ToSet(Ordered(P)) = {p[2] : p \in P}
           /\ \A j, k \in DOMAIN Ordered(P) : Ordered(P)[j] = Ordered(P)[k] => j = k
<1> DEFINE n == Cardinality(P)
<1>1. PICK f \in Bijection(1 .. n, P) : \A k \in 1 .. n : Ordered(P)[k] = f[k][2]
  BY OrderedIsOnto
<1>2. Ordered(P) \in Seq(Nat) /\ Len(Ordered(P)) = n
  BY OrderedIsOnto
<1>3. n \in Nat /\ (n = 0 <=> P = {})
  BY FS_CardinalityType, FS_EmptySet
<1> HIDE DEF n
<1>4. DOMAIN Ordered(P) = 1 .. n
  BY <1>2
<1>5. /\ f \in [1 .. n -> P]
      /\ \A p \in P : \E k \in 1 .. n : f[k] = p
      /\ \A j, k \in 1 .. n : f[j] = f[k] => j = k
  BY <1>1 DEF Bijection, Injection, Surjection, IsInjective
<1>6. Ordered(P) = <<>> <=> P = {}
  BY <1>2, <1>3
<1>7. \A j, k \in 1 .. n : Ordered(P)[j] = Ordered(P)[k] => j = k
  BY <1>1, <1>5
<1>8. ToSet(Ordered(P)) = {Ordered(P)[k] : k \in 1 .. n}
  BY <1>4 DEF ToSet
<1>9. {Ordered(P)[k] : k \in 1 .. n} = {p[2] : p \in P}
  BY <1>1, <1>5
<1> QED
  BY <1>2, <1>4, <1>6, <1>7, <1>8, <1>9

(* The indexes a stratum maintains: all it reads, or else all that any     *)
(* stratum reads, each once, the canonical one among them.                 *)
LEMMA RequiredParts ==
    ASSUME IndexedSupported, NEW s \in Level, NEW q \in Relation
    PROVE  /\ Required[s][q] \in Seq(Nat)
           /\ ToSet(Required[s][q]) = IF Reads(s, q) # {} THEN Reads(s, q) ELSE Specs(q)
           /\ \A j, k \in DOMAIN Required[s][q] : Required[s][q][j] = Required[s][q][k] => j = k
           /\ Canonical[s][q] \in ToSet(Required[s][q])
<1> DEFINE R == Required[s][q]
<1>1. R = IF Reads(s, q) # {} THEN Ordered(LocalReads(s, q))
          ELSE IF Ordered(FirstReads(q)) # <<>> THEN Ordered(FirstReads(q)) ELSE <<0>>
  BY DEF Required, GlobalIndices
<1>2. /\ R \in Seq(Nat)
      /\ ToSet(R) = IF Reads(s, q) # {} THEN Reads(s, q) ELSE Specs(q)
      /\ \A j, k \in DOMAIN R : R[j] = R[k] => j = k
      /\ ToSet(R) # {}
  <2>1. CASE Reads(s, q) # {}
    <3>1. R = Ordered(LocalReads(s, q))
      BY <1>1, <2>1
    <3>2. {p[2] : p \in LocalReads(s, q)} = Reads(s, q)
      BY LocalReadsParts
    <3>3. /\ LocalReads(s, q) \in SUBSET (Nat \X Nat) /\ IsFiniteSet(LocalReads(s, q))
          /\ \A p, o \in LocalReads(s, q) : p[2] = o[2] => p = o
      BY LocalReadsParts
    <3> HIDE DEF R
    <3>4. /\ R \in Seq(Nat) /\ ToSet(R) = {p[2] : p \in LocalReads(s, q)}
          /\ \A j, k \in DOMAIN R : R[j] = R[k] => j = k
      BY <3>1, <3>3, OrderedElements
    <3> QED
      BY <2>1, <3>2, <3>4
  <2>2. CASE Reads(s, q) = {} /\ Ordered(FirstReads(q)) # <<>>
    <3>1. R = Ordered(FirstReads(q))
      BY <1>1, <2>2
    <3>2. {p[2] : p \in FirstReads(q)} = AllReads(q)
      BY FirstReadsParts
    <3>3. /\ FirstReads(q) \in SUBSET (Nat \X Nat) /\ IsFiniteSet(FirstReads(q))
          /\ \A p, o \in FirstReads(q) : p[2] = o[2] => p = o
      BY FirstReadsParts
    <3> HIDE DEF R
    <3>4. /\ R \in Seq(Nat) /\ ToSet(R) = {p[2] : p \in FirstReads(q)}
          /\ \A j, k \in DOMAIN R : R[j] = R[k] => j = k
          /\ FirstReads(q) # {}
      BY <2>2, <3>1, <3>3, OrderedElements
    <3>5. AllReads(q) # {} /\ ToSet(R) = AllReads(q)
      BY <3>2, <3>4
    <3>6. Specs(q) = AllReads(q)
      BY <3>5 DEF Specs, AllReads
    <3> QED
      BY <2>2, <3>4, <3>5, <3>6
  <2>3. CASE Reads(s, q) = {} /\ Ordered(FirstReads(q)) = <<>>
    <3>1. R = <<0>>
      BY <1>1, <2>3
    <3>2. FirstReads(q) = {}
      BY <2>3, FirstReadsParts, OrderedElements
    <3>3. AllReads(q) = {}
      BY <3>2, FirstReadsParts
    <3>4. Specs(q) = {0}
      BY <3>3 DEF Specs, AllReads
    <3>5. ToSet(<<0>>) = {0}
      BY DEF ToSet
    <3> HIDE DEF R
    <3> QED
      BY <2>3, <3>1, <3>4, <3>5
  <2> QED
    BY <2>1, <2>2, <2>3
<1>3. Canonical[s][q] \in ToSet(R)
  <2> DEFINE I == {k \in DOMAIN R : R[k] \in ReadAsFull(s, q)}
  <2>1. Canonical[s][q] = R[IF Recursive(s) /\ I # {} THEN Min(I) ELSE 1]
    BY DEF Canonical
  <2> HIDE DEF R
  <2>2. DOMAIN R = 1 .. Len(R) /\ Len(R) \in Nat /\ ToSet(R) = {R[k] : k \in DOMAIN R}
    BY <1>2 DEF ToSet
  <2>3. 1 \in DOMAIN R
    BY <1>2, <2>2
  <2>4. I # {} => Min(I) \in DOMAIN R
    <3>1. I \in SUBSET Nat
      BY <2>2
    <3> HIDE DEF I
    <3>2. I # {} => Min(I) \in I
      BY <3>1, MinOfNaturals
    <3> QED
      BY <3>2 DEF I
  <2>5. (IF Recursive(s) /\ I # {} THEN Min(I) ELSE 1) \in DOMAIN R
    BY <2>3, <2>4
  <2> QED
    BY <2>1, <2>2, <2>5
<1> QED
  BY <1>2, <1>3

(* The maintained indexes are among those kept outside of fixpoints.       *)
LEMMA RequiredAreSpecs ==
    ASSUME IndexedSupported, NEW s \in Level, NEW q \in Relation
    PROVE  /\ ToSet(Required[s][q]) \subseteq Specs(q) /\ Reads(s, q) \subseteq ToSet(Required[s][q])
           /\ Canonical[s][q] \in Specs(q)
           /\ ReadAsDelta(s, q) \subseteq ToSet(Required[s][q])
           /\ ReadAsFull(s, q) \subseteq ToSet(Required[s][q])
<1>1. Reads(s, q) \subseteq AllReads(q)
  BY DEF AllReads
<1>2. Reads(s, q) \subseteq Specs(q)
  BY <1>1 DEF AllReads, Specs
<1>3. /\ ToSet(Required[s][q]) = IF Reads(s, q) # {} THEN Reads(s, q) ELSE Specs(q)
      /\ Canonical[s][q] \in ToSet(Required[s][q])
  BY RequiredParts
<1>4. ReadAsDelta(s, q) \subseteq Reads(s, q) /\ ReadAsFull(s, q) \subseteq Reads(s, q)
  BY DEF Reads
<1>5. ToSet(Required[s][q]) \subseteq Specs(q) /\ Reads(s, q) \subseteq ToSet(Required[s][q])
  BY <1>2, <1>3
<1> QED
  BY <1>3, <1>4, <1>5

(* A stratum without a loop does not read what it computes, and maintains  *)
(* every index of it; no stratum negates what it computes.                 *)
LEMMA MembersAreNotRead ==
    ASSUME NEW s \in Level, NEW q \in Members(s)
    PROVE  /\ ~Recursive(s) => Reads(s, q) = {}
           /\ \A v \in Variants(s) : q \notin Negated[v.rule]
<1>1. ASSUME NEW v \in Variants(s)
      PROVE  q \notin Negated[v.rule]
  <2>1. v.rule \in RulesOf(s) /\ s \in Nat
    BY VariantParts, LevelFacts
  <2>2. \A t \in Level : t >= s => Negated[v.rule] \cap Members(t) = {}
    BY <2>1, Stratified DEF Layered
  <2>3. s >= s
    BY <2>1
  <2> QED
    BY <2>2, <2>3
<1>2. ASSUME ~Recursive(s), NEW v \in Variants(s), NEW i \in DOMAIN Body[v.rule]
      PROVE  Body[v.rule][i] # q
  <2>1. v.rule \in RulesOf(s)
    BY VariantParts
  <2> QED
    BY <1>2, <2>1, Stratified DEF Layered
<1>3. ASSUME ~Recursive(s), NEW spec \in Reads(s, q)
      PROVE  FALSE
  BY <1>1, <1>2, <1>3, ReadsComeFromVariants
<1> QED
  BY <1>1, <1>3

-----------------------------------------------------------------------------
(***************************************************************************)
(* The instructions of a stratum                                           *)
(***************************************************************************)

FirstSteps(k, op) ==
    \/ k = 1 /\ op = "RebuildNew"
    \/ k = 2 /\ op = "ClearDelta"
    \/ k = 3 /\ op = "CheckSize"
    \/ k = 4 /\ op = "ComputeDelta"
    \/ k = 5 /\ op = "ClearNew"

(* The instruction at step k of the n-th block of stratum s.               *)
IsStep(s, n, k, i) ==
    /\ i.at = <<n, k>> /\ i.block = BlockOrder[s][n] /\ i.rel = BlockOrder[s][n].rel
    /\ \/ FirstSteps(k, i.op) /\ i.spec = Canonical[s][i.rel]
       \/ /\ \E j \in DOMAIN Required[s][i.rel] : k = 4 + 2 * j /\ i.spec = Required[s][i.rel][j]
          /\ i.op = "IndexFromIndex" /\ i.spec # Canonical[s][i.rel]
       \/ /\ \E j \in DOMAIN Required[s][i.rel] : k = 5 + 2 * j /\ i.spec = Required[s][i.rel][j]
          /\ i.op = "MergeIndex" /\ Merges(s, i.rel, i.spec)

LEMMA BlocksAreOfMembers ==
    ASSUME NEW s \in Level
    PROVE  /\ \A b \in Blocks(s) : b.rel \in Members(s)
           /\ \A r \in RulesOf(s) : \A q \in Heads[r] : \E b \in Blocks(s) : b.rel = q
           /\ Recursive(s) => \A q \in Members(s) : \E b \in Blocks(s) : b.rel = q
<1>1. \A r \in RulesOf(s) : Heads[r] \subseteq Members(s)
  BY Stratified DEF Layered
<1>2. CASE Recursive(s)
  <2>1. Blocks(s) = {[by |-> "loop", rel |-> q] : q \in Members(s)}
    BY <1>2 DEF Blocks
  <2>2. \A b \in Blocks(s) : b.rel \in Members(s)
    BY <2>1
  <2>3. ASSUME NEW q \in Members(s)
        PROVE  \E b \in Blocks(s) : b.rel = q
    <3>1. [by |-> "loop", rel |-> q] \in Blocks(s) /\ [by |-> "loop", rel |-> q].rel = q
      BY <2>1
    <3> QED
      BY <3>1
  <2> QED
    BY <1>1, <2>2, <2>3
<1>3. CASE ~Recursive(s)
  <2>1. Blocks(s) = UNION {{[by |-> r, rel |-> q] : q \in Heads[r]} : r \in RulesOf(s)}
    BY <1>3 DEF Blocks
  <2>2. ASSUME NEW r \in RulesOf(s), NEW q \in Heads[r]
        PROVE  \E b \in Blocks(s) : b.rel = q
    <3>1. [by |-> r, rel |-> q] \in Blocks(s) /\ [by |-> r, rel |-> q].rel = q
      BY <2>1
    <3> QED
      BY <3>1
  <2>3. ASSUME NEW b \in Blocks(s)
        PROVE  b.rel \in Members(s)
    <3>1. PICK r \in RulesOf(s) : b \in {[by |-> r, rel |-> q] : q \in Heads[r]}
      BY <2>1
    <3> QED
      BY <1>1, <3>1
  <2> QED
    BY <1>3, <2>2, <2>3
<1> QED
  BY <1>2, <1>3

(* The blocks in order are the blocks, each once.                          *)
LEMMA OrderOfBlocks ==
    ASSUME IndexedSupported, NEW s \in Level
    PROVE  /\ DOMAIN BlockOrder[s] = 1 .. Len(BlockOrder[s]) /\ Len(BlockOrder[s]) \in Nat
           /\ \A n \in DOMAIN BlockOrder[s] :
                 /\ BlockOrder[s][n] \in Blocks(s) /\ n \in Nat /\ n > 0
                 /\ BlockOrder[s][n].rel \in Members(s) /\ BlockOrder[s][n].rel \in Relation
           /\ \A b \in Blocks(s) : \E n \in DOMAIN BlockOrder[s] : BlockOrder[s][n] = b
           /\ \A m, n \in DOMAIN BlockOrder[s] : BlockOrder[s][m] = BlockOrder[s][n] => m = n
           /\ Maintained[s] = {b.rel : b \in Blocks(s)} /\ Maintained[s] \subseteq Members(s)
<1>1. BlockOrder[s] \in Seq(Blocks(s))
  BY DEF IndexedSupported
<1>2. DOMAIN BlockOrder[s] = 1 .. Len(BlockOrder[s]) /\ Len(BlockOrder[s]) \in Nat
  BY <1>1
<1>3. ToSet(BlockOrder[s]) = Blocks(s) /\ IsInjective(BlockOrder[s])
  BY BlockOrderOK
<1>4. Members(s) \subseteq Relation
  BY StratumParts
<1>5. \A n \in DOMAIN BlockOrder[s] :
                 /\ BlockOrder[s][n] \in Blocks(s) /\ n \in Nat /\ n > 0
                 /\ BlockOrder[s][n].rel \in Members(s) /\ BlockOrder[s][n].rel \in Relation
  <2> SUFFICES ASSUME NEW n \in DOMAIN BlockOrder[s]
               PROVE  BlockOrder[s][n] \in Blocks(s) /\ n \in Nat /\ n > 0
    BY <1>4, BlocksAreOfMembers
  <2> QED
    BY <1>2, <1>3 DEF ToSet
<1>6. \A b \in Blocks(s) : \E n \in DOMAIN BlockOrder[s] : BlockOrder[s][n] = b
  BY <1>3 DEF ToSet
<1>7. \A m, n \in DOMAIN BlockOrder[s] : BlockOrder[s][m] = BlockOrder[s][n] => m = n
  BY <1>3 DEF IsInjective
<1>8. Maintained[s] = {b.rel : b \in Blocks(s)}
  BY <1>3 DEF Maintained
<1>9. Maintained[s] \subseteq Members(s)
  BY <1>8, BlocksAreOfMembers
<1> QED
  BY <1>2, <1>5, <1>6, <1>7, <1>8, <1>9

LEMMA InstrParts ==
    ASSUME NEW at, NEW op, NEW b, NEW spec
    PROVE  /\ Instr(at, op, b, spec).at = at /\ Instr(at, op, b, spec).op = op
           /\ Instr(at, op, b, spec).block = b /\ Instr(at, op, b, spec).rel = b.rel
           /\ Instr(at, op, b, spec).spec = spec
BY DEF Instr

LEMMA CodeIsSteps ==
    ASSUME IndexedSupported, NEW s \in Level, NEW i \in MaintenanceCode[s]
    PROVE  /\ \E n \in DOMAIN BlockOrder[s] : \E k \in Nat \ {0} : IsStep(s, n, k, i)
           /\ i = Instr(i.at, i.op, i.block, i.spec)
<1>1. PICK n \in DOMAIN BlockOrder[s] : i \in Maintenance(s, n)
  BY DEF MaintenanceCode
<1> DEFINE b == BlockOrder[s][n]
           q == b.rel
           c == Canonical[s][q]
           R == Required[s][q]
<1>2. \/ i = Instr(<<n, 1>>, "RebuildNew", b, c)
      \/ i = Instr(<<n, 2>>, "ClearDelta", b, c)
      \/ i = Instr(<<n, 3>>, "CheckSize", b, c)
      \/ i = Instr(<<n, 4>>, "ComputeDelta", b, c)
      \/ i = Instr(<<n, 5>>, "ClearNew", b, c)
      \/ \E k \in DOMAIN R : i \in MaintainIndex(s, n, k)
  BY <1>1 DEF Maintenance
<1>7. ASSUME NEW k \in DOMAIN R, i \in MaintainIndex(s, n, k)
      PROVE  \/ i = Instr(<<n, 4 + 2 * k>>, "IndexFromIndex", b, R[k]) /\ R[k] # c
             \/ i = Instr(<<n, 5 + 2 * k>>, "MergeIndex", b, R[k]) /\ Merges(s, q, R[k])
  BY <1>7 DEF MaintainIndex
<1> HIDE DEF c, R
<1>6. i = Instr(i.at, i.op, i.block, i.spec)
  <2>1. \E at, op, spec : i = Instr(at, op, b, spec)
    BY <1>2, <1>7, Zenon
  <2>2. PICK at, op, spec : i = Instr(at, op, b, spec)
    BY <2>1
  <2> QED
    BY <2>2, InstrParts
<1>3. ASSUME NEW k \in 1 .. 5, NEW op, i = Instr(<<n, k>>, op, b, c), FirstSteps(k, op)
      PROVE  k \in Nat \ {0} /\ IsStep(s, n, k, i)
  <2>5. i = Instr(<<n, k>>, op, b, c)
    BY <1>3
  <2>1. i.at = <<n, k>> /\ i.block = b /\ i.rel = q /\ i.spec = c /\ i.op = op
    BY <2>5, InstrParts
  <2>2. FirstSteps(k, i.op) /\ i.spec = Canonical[s][i.rel] /\ i.block = BlockOrder[s][n]
        /\ i.rel = BlockOrder[s][n].rel
    BY <1>3, <2>1, Zenon DEF c
  <2>3. IsStep(s, n, k, i)
    BY <2>1, <2>2 DEF IsStep
  <2>4. k \in Nat \ {0}
    OBVIOUS
  <2> QED
    BY <2>3, <2>4
<1>4. ASSUME NEW k \in DOMAIN R, i \in MaintainIndex(s, n, k)
      PROVE  \E m \in Nat \ {0} : IsStep(s, n, m, i)
  <2>1. \/ i = Instr(<<n, 4 + 2 * k>>, "IndexFromIndex", b, R[k]) /\ R[k] # c
        \/ i = Instr(<<n, 5 + 2 * k>>, "MergeIndex", b, R[k]) /\ Merges(s, q, R[k])
    BY <1>4, <1>7
  <2>2. k \in Nat
    <3>1. q \in Relation
      BY OrderOfBlocks
    <3>2. R \in Seq(Nat)
      BY <3>1, RequiredParts DEF R
    <3> QED
      BY <3>2
  <2>3. CASE i = Instr(<<n, 4 + 2 * k>>, "IndexFromIndex", b, R[k]) /\ R[k] # c
    <3>1. i.at = <<n, 4 + 2 * k>> /\ i.block = b /\ i.rel = q /\ i.spec = R[k] /\ i.op = "IndexFromIndex"
      BY <2>3, InstrParts
    <3>2. IsStep(s, n, 4 + 2 * k, i)
      BY ZenonT(30), <2>3, <3>1 DEF IsStep, R, c
    <3> QED
      BY <2>2, <3>2
  <2>4. CASE i = Instr(<<n, 5 + 2 * k>>, "MergeIndex", b, R[k]) /\ Merges(s, q, R[k])
    <3>1. i.at = <<n, 5 + 2 * k>> /\ i.block = b /\ i.rel = q /\ i.spec = R[k] /\ i.op = "MergeIndex"
      BY <2>4, InstrParts
    <3>2. IsStep(s, n, 5 + 2 * k, i)
      BY ZenonT(30), <2>4, <3>1 DEF IsStep, R, c
    <3> QED
      BY <2>2, <3>2
  <2> QED
    BY <2>1, <2>3, <2>4
<1>5. \E k \in Nat \ {0} : IsStep(s, n, k, i)
  <2>1. CASE i = Instr(<<n, 1>>, "RebuildNew", b, c)
    BY <1>3, <2>1 DEF FirstSteps
  <2>2. CASE i = Instr(<<n, 2>>, "ClearDelta", b, c)
    BY <1>3, <2>2 DEF FirstSteps
  <2>3. CASE i = Instr(<<n, 3>>, "CheckSize", b, c)
    BY <1>3, <2>3 DEF FirstSteps
  <2>4. CASE i = Instr(<<n, 4>>, "ComputeDelta", b, c)
    BY <1>3, <2>4 DEF FirstSteps
  <2>5. CASE i = Instr(<<n, 5>>, "ClearNew", b, c)
    BY <1>3, <2>5, SMTT(60) DEF FirstSteps
  <2> QED
    BY <1>2, <1>4, <2>1, <2>2, <2>3, <2>4, <2>5
<1> QED
  BY <1>5, <1>6

(* Steps that the proofs look for in the code.                             *)
LEMMA CodeHasSteps ==
    ASSUME NEW s \in Level, NEW n \in DOMAIN BlockOrder[s]
    PROVE  LET b == BlockOrder[s][n]
               c == Canonical[s][b.rel]
           IN  /\ Instr(<<n, 1>>, "RebuildNew", b, c) \in MaintenanceCode[s]
               /\ Instr(<<n, 4>>, "ComputeDelta", b, c) \in MaintenanceCode[s]
               /\ \A k \in DOMAIN Required[s][b.rel] :
                     /\ Required[s][b.rel][k] # c =>
                           Instr(<<n, 4 + 2 * k>>, "IndexFromIndex", b, Required[s][b.rel][k])
                               \in MaintenanceCode[s]
                     /\ Merges(s, b.rel, Required[s][b.rel][k]) =>
                           Instr(<<n, 5 + 2 * k>>, "MergeIndex", b, Required[s][b.rel][k])
                               \in MaintenanceCode[s]
<1> DEFINE b == BlockOrder[s][n]
           c == Canonical[s][b.rel]
<1>1. Maintenance(s, n) \subseteq MaintenanceCode[s]
  BY DEF MaintenanceCode
<1>2. /\ Instr(<<n, 1>>, "RebuildNew", b, c) \in Maintenance(s, n)
      /\ Instr(<<n, 4>>, "ComputeDelta", b, c) \in Maintenance(s, n)
  BY DEF Maintenance
<1>3. ASSUME NEW k \in DOMAIN Required[s][b.rel]
      PROVE  MaintainIndex(s, n, k) \subseteq Maintenance(s, n)
  BY DEF Maintenance
<1>4. ASSUME NEW k \in DOMAIN Required[s][b.rel]
      PROVE  /\ Required[s][b.rel][k] # c =>
                   Instr(<<n, 4 + 2 * k>>, "IndexFromIndex", b, Required[s][b.rel][k])
                       \in MaintainIndex(s, n, k)
             /\ Merges(s, b.rel, Required[s][b.rel][k]) =>
                   Instr(<<n, 5 + 2 * k>>, "MergeIndex", b, Required[s][b.rel][k])
                       \in MaintainIndex(s, n, k)
  BY DEF MaintainIndex
<1> QED
  BY <1>1, <1>2, <1>3, <1>4

(* The instructions from step k of the n-th block on.                      *)
StepsFrom(s, n, k) == {j \in MaintenanceCode[s] : ~Earlier(j.at, <<n, k>>)}

(* No two instructions have the same place.                                *)
LEMMA OnePlaceEach ==
    ASSUME IndexedSupported, NEW s \in Level,
           NEW i \in MaintenanceCode[s], NEW j \in MaintenanceCode[s], i.at = j.at
    PROVE  i = j
<1>1. PICK n \in DOMAIN BlockOrder[s], k \in Nat \ {0} : IsStep(s, n, k, i)
  BY CodeIsSteps
<1>2. PICK m \in DOMAIN BlockOrder[s], l \in Nat \ {0} : IsStep(s, m, l, j)
  BY CodeIsSteps
<1>3. m = n /\ l = k
  <2>1. i.at = <<n, k>> /\ j.at = <<m, l>>
    BY <1>1, <1>2 DEF IsStep
  <2>2. <<n, k>> = <<m, l>>
    BY <2>1
  <2>3. <<n, k>>[1] = <<m, l>>[1] /\ <<n, k>>[2] = <<m, l>>[2]
    BY <2>2
  <2> QED
    BY <2>3, Zenon
<1>4. i.block = j.block /\ i.rel = j.rel /\ i.rel \in Relation
  BY <1>1, <1>2, <1>3, OrderOfBlocks, Zenon DEF IsStep
<1> DEFINE R == Required[s][i.rel]
<1>5. \A x \in DOMAIN R : x \in Nat /\ x > 0
  <2>1. R \in Seq(Nat)
    BY <1>4, RequiredParts, Zenon
  <2> HIDE DEF R
  <2> QED
    BY <2>1
<1>6. /\ \/ FirstSteps(k, i.op) /\ i.spec = Canonical[s][i.rel]
         \/ (\E x \in DOMAIN R : k = 4 + 2 * x /\ i.spec = R[x]) /\ i.op = "IndexFromIndex"
         \/ (\E x \in DOMAIN R : k = 5 + 2 * x /\ i.spec = R[x]) /\ i.op = "MergeIndex"
      /\ \/ FirstSteps(k, j.op) /\ j.spec = Canonical[s][i.rel]
         \/ (\E x \in DOMAIN R : k = 4 + 2 * x /\ j.spec = R[x]) /\ j.op = "IndexFromIndex"
         \/ (\E x \in DOMAIN R : k = 5 + 2 * x /\ j.spec = R[x]) /\ j.op = "MergeIndex"
  BY <1>1, <1>2, <1>3, <1>4, Zenon DEF IsStep
<1>7. i.op = j.op /\ i.spec = j.spec
  <2> HIDE DEF R
  <2>1. CASE k <= 5
    BY <1>5, <1>6, <2>1 DEF FirstSteps
  <2>2. CASE k > 5
    <3>1. /\ \/ \E x \in DOMAIN R : k = 4 + 2 * x /\ i.spec = R[x] /\ i.op = "IndexFromIndex"
             \/ \E x \in DOMAIN R : k = 5 + 2 * x /\ i.spec = R[x] /\ i.op = "MergeIndex"
          /\ \/ \E x \in DOMAIN R : k = 4 + 2 * x /\ j.spec = R[x] /\ j.op = "IndexFromIndex"
             \/ \E x \in DOMAIN R : k = 5 + 2 * x /\ j.spec = R[x] /\ j.op = "MergeIndex"
      BY <1>6, <2>2 DEF FirstSteps
    <3>2. \A x, y \in DOMAIN R : /\ 4 + 2 * x # 5 + 2 * y
                                 /\ 4 + 2 * x = 4 + 2 * y => x = y
                                 /\ 5 + 2 * x = 5 + 2 * y => x = y
      BY <1>5
    <3> QED
      BY <3>1, <3>2
  <2> QED
    BY <2>1, <2>2
<1>8. i = Instr(i.at, i.op, i.block, i.spec) /\ j = Instr(j.at, j.op, j.block, j.spec)
  BY CodeIsSteps
<1> QED
  BY <1>4, <1>7, <1>8

(* What is left of the code starts with its first instruction; when that   *)
(* has run, what is left starts with the next step.                        *)
LEMMA CodeFromFirst ==
    ASSUME IndexedSupported, NEW s \in Level, NEW C \in SUBSET MaintenanceCode[s],
           \A x \in C : \A y \in MaintenanceCode[s] : Earlier(x.at, y.at) => y \in C,
           NEW i \in C, \A j \in C : ~Earlier(j.at, i.at)
    PROVE  \E n \in DOMAIN BlockOrder[s] : \E k \in Nat \ {0} :
               IsStep(s, n, k, i) /\ C = StepsFrom(s, n, k) /\ C \ {i} = StepsFrom(s, n, k + 1)
<1>1. PICK n \in DOMAIN BlockOrder[s], k \in Nat \ {0} : IsStep(s, n, k, i)
  BY CodeIsSteps, Zenon
<1>2. i.at = <<n, k>> /\ n \in Nat
  BY <1>1, OrderOfBlocks DEF IsStep
<1>3. ASSUME NEW j \in MaintenanceCode[s]
      PROVE  /\ Earlier(j.at, i.at) \/ Earlier(i.at, j.at) \/ j = i
             /\ ~(Earlier(j.at, i.at) /\ Earlier(i.at, j.at)) /\ ~Earlier(i.at, i.at)
             /\ (~Earlier(j.at, <<n, k + 1>>) <=> Earlier(i.at, j.at))
  <2>1. PICK m \in DOMAIN BlockOrder[s], l \in Nat \ {0} : IsStep(s, m, l, j)
    BY CodeIsSteps
  <2>2. j.at = <<m, l>> /\ m \in Nat
    BY <2>1, OrderOfBlocks DEF IsStep
  <2>3. m = n /\ l = k => j = i
    BY <1>2, <2>2, OnePlaceEach
  <2> QED
    BY <1>2, <2>2, <2>3 DEF Earlier
<1>4. ASSUME NEW j \in MaintenanceCode[s]
      PROVE  /\ (j \in C <=> ~Earlier(j.at, <<n, k>>))
             /\ (j \in C \ {i} <=> ~Earlier(j.at, <<n, k + 1>>))
  BY <1>2, <1>3
<1>5. C = StepsFrom(s, n, k)
  BY <1>4 DEF StepsFrom
<1>6. C \ {i} = StepsFrom(s, n, k + 1)
  BY <1>4 DEF StepsFrom
<1> QED
  BY <1>1, <1>5, <1>6

(* What is under way when the code starts with step k of the n-th block.   *)
LEMMA PlaceInCode ==
    ASSUME IndexedSupported, NEW s \in Level, NEW n \in DOMAIN BlockOrder[s], NEW k \in Nat \ {0}
    PROVE  LET C == StepsFrom(s, n, k)
               p == BlockOrder[s][n].rel
               R == Required[s][p]
           IN  /\ \A q : ComparingIn(C, q) <=> q = p /\ k \in 2 .. 4
               /\ \A q : MovedIn(C, q) => q = p /\ k = 5
               /\ \A m \in DOMAIN BlockOrder[s] :
                     ComparedIn(C, BlockOrder[s][m]) <=> m < n \/ (m = n /\ k > 4)
               /\ \A q, spec :
                     spec \in DueIn(C, "MergeIndex", q) <=>
                         /\ q = p /\ k > 4
                         /\ \E j \in DOMAIN R : R[j] = spec /\ Merges(s, p, spec) /\ 5 + 2 * j >= k
               /\ \A q, spec :
                     spec \in DueIn(C, "IndexFromIndex", q) <=>
                         /\ q = p /\ k > 4
                         /\ \E j \in DOMAIN R :
                               R[j] = spec /\ spec # Canonical[s][p] /\ 4 + 2 * j >= k
<1> DEFINE C == StepsFrom(s, n, k)
           p == BlockOrder[s][n].rel
           R == Required[s][p]
           BO == BlockOrder[s]
<1>1. ASSUME NEW m \in DOMAIN BO
      PROVE  m \in Nat /\ m > 0 /\ BO[m].rel \in Relation
  BY OrderOfBlocks
<1>2. ASSUME NEW i \in MaintenanceCode[s], NEW m \in DOMAIN BO, NEW l \in Nat \ {0}, IsStep(s, m, l, i)
      PROVE  i \in C <=> m > n \/ (m = n /\ l >= k)
  <2>1. i.at = <<m, l>>
    BY <1>2 DEF IsStep
  <2>2. i \in C <=> ~Earlier(<<m, l>>, <<n, k>>)
    BY <2>1 DEF StepsFrom
  <2> QED
    BY <1>1, <2>2 DEF Earlier
<1>3. ASSUME NEW m \in DOMAIN BO, NEW l \in Nat \ {0}, NEW op, NEW spec,
             Instr(<<m, l>>, op, BO[m], spec) \in MaintenanceCode[s]
      PROVE  Instr(<<m, l>>, op, BO[m], spec) \in C <=> m > n \/ (m = n /\ l >= k)
  <2>1. Instr(<<m, l>>, op, BO[m], spec) \in C <=> ~Earlier(<<m, l>>, <<n, k>>)
    BY <1>3 DEF StepsFrom, Instr
  <2> QED
    BY <1>1, <2>1 DEF Earlier
<1>4. \A m, l \in DOMAIN BO : BO[m] = BO[l] => m = l
  BY OrderOfBlocks, Zenon
<1>5. ASSUME NEW i \in C
      PROVE  \E m \in DOMAIN BO : \E l \in Nat \ {0} :
                 /\ IsStep(s, m, l, i) /\ (m > n \/ (m = n /\ l >= k))
                 /\ i \in MaintenanceCode[s] /\ i.block = BO[m] /\ i.rel = BO[m].rel
                 /\ i.op = "RebuildNew" => l = 1
                 /\ i.op = "ComputeDelta" => l = 4
                 /\ i.op = "ClearNew" => l = 5
  <2>1. i \in MaintenanceCode[s]
    BY DEF StepsFrom
  <2>2. PICK m \in DOMAIN BO, l \in Nat \ {0} : IsStep(s, m, l, i)
    BY <2>1, CodeIsSteps
  <2>3. /\ i.block = BO[m] /\ i.rel = BO[m].rel /\ i.op = "RebuildNew" => l = 1
        /\ i.op = "ComputeDelta" => l = 4
        /\ i.op = "ClearNew" => l = 5
    BY <2>2 DEF IsStep, FirstSteps
  <2> QED
    BY <1>2, <2>1, <2>2, <2>3 DEF IsStep
<1> HIDE DEF C
<1>6. ASSUME NEW m \in DOMAIN BO
      PROVE  /\ ComparedIn(C, BO[m]) <=> m < n \/ (m = n /\ k > 4)
             /\ (\A j \in C : ~(j.op = "RebuildNew" /\ j.block = BO[m])) <=> m < n \/ (m = n /\ k > 1)
  <2> DEFINE i == Instr(<<m, 4>>, "ComputeDelta", BO[m], Canonical[s][BO[m].rel])
             h == Instr(<<m, 1>>, "RebuildNew", BO[m], Canonical[s][BO[m].rel])
  <2>1. i \in MaintenanceCode[s] /\ h \in MaintenanceCode[s]
    BY CodeHasSteps
  <2>2. i \in C <=> m > n \/ (m = n /\ 4 >= k)
    BY <1>3, <2>1
  <2>3. h \in C <=> m > n \/ (m = n /\ 1 >= k)
    BY <1>3, <2>1
  <2>4. i.op = "ComputeDelta" /\ i.block = BO[m] /\ h.op = "RebuildNew" /\ h.block = BO[m]
    BY DEF Instr
  <2> HIDE DEF i, h
  <2>5. ASSUME NEW j \in C, j.op = "ComputeDelta", j.block = BO[m]
        PROVE  m > n \/ (m = n /\ 4 >= k)
    BY <1>4, <1>5, <2>5
  <2>6. ASSUME NEW j \in C, j.op = "RebuildNew", j.block = BO[m]
        PROVE  m > n \/ (m = n /\ 1 >= k)
    BY <1>4, <1>5, <2>6
  <2>7. m \in Nat /\ n \in Nat
    BY <1>1
  <2>8. ComparedIn(C, BO[m]) <=> ~(m > n \/ (m = n /\ 4 >= k))
    BY <2>2, <2>4, <2>5 DEF ComparedIn
  <2>9. (\A j \in C : ~(j.op = "RebuildNew" /\ j.block = BO[m])) <=> ~(m > n \/ (m = n /\ 1 >= k))
    BY <2>3, <2>4, <2>6
  <2> QED
    BY <2>7, <2>8, <2>9
<1>7. ASSUME NEW q
      PROVE  ComparingIn(C, q) <=> q = p /\ k \in 2 .. 4
  <2>1. ASSUME ComparingIn(C, q)
        PROVE  q = p /\ k \in 2 .. 4
    <3>1. PICK i \in C : /\ i.op = "ComputeDelta" /\ i.rel = q
                         /\ \A j \in C : ~(j.op = "RebuildNew" /\ j.block = i.block)
      BY <2>1 DEF ComparingIn
    <3>2. PICK m \in DOMAIN BO : /\ m > n \/ (m = n /\ 4 >= k)
                                 /\ i.block = BO[m] /\ i.rel = BO[m].rel
      BY <1>5, <3>1
    <3>3. m < n \/ (m = n /\ k > 1)
      BY <1>6, <3>1, <3>2
    <3>4. m \in Nat /\ n \in Nat
      BY <1>1
    <3> QED
      BY <3>1, <3>2, <3>3, <3>4
  <2>2. ASSUME q = p, k \in 2 .. 4
        PROVE  ComparingIn(C, q)
    <3> DEFINE i == Instr(<<n, 4>>, "ComputeDelta", BO[n], Canonical[s][BO[n].rel])
    <3>1. i \in MaintenanceCode[s]
      BY CodeHasSteps
    <3>2. i \in C
      BY <1>3, <2>2, <3>1
    <3>3. i.op = "ComputeDelta" /\ i.block = BO[n] /\ i.rel = q
      BY <2>2 DEF Instr
    <3> HIDE DEF i
    <3>4. \A j \in C : ~(j.op = "RebuildNew" /\ j.block = i.block)
      BY <1>1, <1>6, <2>2, <3>3
    <3> QED
      BY <3>2, <3>3, <3>4 DEF ComparingIn
  <2> QED
    BY <2>1, <2>2
<1>8. ASSUME NEW q, NEW spec, NEW op, NEW d \in {4, 5}, NEW P, P \in BOOLEAN,
             \A i \in C : \A m \in DOMAIN BO : \A l \in Nat \ {0} :
                 IsStep(s, m, l, i) /\ i.op = op /\ m = n /\ i.spec = spec =>
                     P /\ \E j \in DOMAIN R : R[j] = spec /\ l = d + 2 * j,
             \A j \in DOMAIN R : R[j] = spec /\ P =>
                 Instr(<<n, d + 2 * j>>, op, BO[n], spec) \in MaintenanceCode[s]
      PROVE  spec \in DueIn(C, op, q) <=>
                 q = p /\ k > 4 /\ \E j \in DOMAIN R : R[j] = spec /\ P /\ d + 2 * j >= k
  <2>0. \A j \in DOMAIN R : j \in Nat
    <3>1. R \in Seq(Nat)
      BY <1>1, RequiredParts
    <3> HIDE DEF R
    <3> QED
      BY <3>1
  <2>1. ASSUME spec \in DueIn(C, op, q)
        PROVE  q = p /\ k > 4 /\ \E j \in DOMAIN R : R[j] = spec /\ P /\ d + 2 * j >= k
    <3>1. PICK i \in C : i.op = op /\ i.rel = q /\ i.spec = spec /\ ComparedIn(C, i.block)
      BY <2>1 DEF DueIn
    <3>2. PICK m \in DOMAIN BO, l \in Nat \ {0} :
              /\ IsStep(s, m, l, i) /\ (m > n \/ (m = n /\ l >= k))
              /\ i.block = BO[m] /\ i.rel = BO[m].rel
      BY <1>5
    <3>3. m = n /\ k > 4 /\ l >= k
      <4>1. m < n \/ (m = n /\ k > 4)
        BY <1>6, <3>1, <3>2
      <4> QED
        BY <1>1, <3>2, <4>1
    <3>4. P /\ \E j \in DOMAIN R : R[j] = spec /\ l = d + 2 * j
      BY <1>8, <3>1, <3>2, <3>3
    <3> QED
      BY <3>1, <3>2, <3>3, <3>4
  <2>2. ASSUME q = p, k > 4, NEW j \in DOMAIN R, R[j] = spec, P, d + 2 * j >= k
        PROVE  spec \in DueIn(C, op, q)
    <3> DEFINE i == Instr(<<n, d + 2 * j>>, op, BO[n], spec)
    <3>1. i \in MaintenanceCode[s]
      BY <1>8, <2>2
    <3>2. d + 2 * j \in Nat \ {0}
      BY <2>0
    <3>3. i \in C
      BY <1>1, <1>3, <2>2, <3>1, <3>2
    <3>4. i.op = op /\ i.block = BO[n] /\ i.rel = q /\ i.spec = spec
      BY <2>2 DEF Instr
    <3> HIDE DEF i
    <3>5. ComparedIn(C, i.block)
      BY <1>6, <2>2, <3>4
    <3> QED
      BY <3>3, <3>4, <3>5 DEF DueIn
  <2> QED
    BY <2>1, <2>2
<1>9. ASSUME NEW q, NEW spec
      PROVE  spec \in DueIn(C, "MergeIndex", q) <=>
                 /\ q = p /\ k > 4
                 /\ \E j \in DOMAIN R : R[j] = spec /\ Merges(s, p, spec) /\ 5 + 2 * j >= k
  <2>1. ASSUME NEW i \in C, NEW m \in DOMAIN BO, NEW l \in Nat \ {0},
               IsStep(s, m, l, i), i.op = "MergeIndex", m = n, i.spec = spec
        PROVE  Merges(s, p, spec) /\ \E j \in DOMAIN R : R[j] = spec /\ l = 5 + 2 * j
    BY <2>1 DEF IsStep, FirstSteps
  <2>2. \A j \in DOMAIN R : R[j] = spec /\ Merges(s, p, spec) =>
            Instr(<<n, 5 + 2 * j>>, "MergeIndex", BO[n], spec) \in MaintenanceCode[s]
    BY CodeHasSteps
  <2>3. Merges(s, p, spec) \in BOOLEAN
    BY DEF Merges
  <2> HIDE DEF R, p, BO
  <2> QED
    BY <1>8, <2>1, <2>2, <2>3
<1>10. ASSUME NEW q, NEW spec
       PROVE  spec \in DueIn(C, "IndexFromIndex", q) <=>
                 /\ q = p /\ k > 4
                 /\ \E j \in DOMAIN R : R[j] = spec /\ spec # Canonical[s][p] /\ 4 + 2 * j >= k
  <2>1. ASSUME NEW i \in C, NEW m \in DOMAIN BO, NEW l \in Nat \ {0},
               IsStep(s, m, l, i), i.op = "IndexFromIndex", m = n, i.spec = spec
        PROVE  spec # Canonical[s][p] /\ \E j \in DOMAIN R : R[j] = spec /\ l = 4 + 2 * j
    BY <2>1 DEF IsStep, FirstSteps
  <2>2. \A j \in DOMAIN R : R[j] = spec /\ spec # Canonical[s][p] =>
            Instr(<<n, 4 + 2 * j>>, "IndexFromIndex", BO[n], spec) \in MaintenanceCode[s]
    BY CodeHasSteps
  <2> DEFINE Other == spec # Canonical[s][p]
  <2>3. Other \in BOOLEAN
    OBVIOUS
  <2>4. ASSUME NEW i \in C, NEW m \in DOMAIN BO, NEW l \in Nat \ {0},
               IsStep(s, m, l, i), i.op = "IndexFromIndex", m = n, i.spec = spec
        PROVE  Other /\ \E j \in DOMAIN R : R[j] = spec /\ l = 4 + 2 * j
    BY <2>1, <2>4
  <2>5. \A j \in DOMAIN R : R[j] = spec /\ Other =>
            Instr(<<n, 4 + 2 * j>>, "IndexFromIndex", BO[n], spec) \in MaintenanceCode[s]
    BY <2>2
  <2> HIDE DEF R, p, BO, Other
  <2>6. spec \in DueIn(C, "IndexFromIndex", q) <=>
            q = p /\ k > 4 /\ \E j \in DOMAIN R : R[j] = spec /\ Other /\ 4 + 2 * j >= k
    BY <1>8, <2>3, <2>4, <2>5
  <2> QED
    BY <2>6 DEF Other
<1>11. ASSUME NEW q, MovedIn(C, q)
       PROVE  q = p /\ k = 5
  <2>1. PICK i \in C : i.op = "ClearNew" /\ i.rel = q /\ ComparedIn(C, i.block)
    BY <1>11 DEF MovedIn
  <2>2. PICK m \in DOMAIN BO : /\ m > n \/ (m = n /\ 5 >= k)
                               /\ i.block = BO[m] /\ i.rel = BO[m].rel
    BY <1>5, <2>1
  <2>3. m < n \/ (m = n /\ k > 4)
    BY <1>6, <2>1, <2>2
  <2>4. m \in Nat /\ n \in Nat
    BY <1>1
  <2> QED
    BY <2>1, <2>2, <2>3, <2>4
<1> QED
  BY <1>6, <1>7, <1>9, <1>10, <1>11 DEF C

-----------------------------------------------------------------------------
(***************************************************************************)
(* Operations of a version                                                 *)
(***************************************************************************)

LEMMA FactsAreFinite ==
    ASSUME IndexedSupported, NEW q, NEW S \in SUBSET Facts(q)
    PROVE  IsFiniteSet(S) /\ Cardinality(S) \in Nat /\ (Cardinality(S) = 0 <=> S = {})
<1>1. S \in SUBSET Fact /\ IsFiniteSet(Fact)
  BY DEF Facts, IndexedSupported
<1>2. IsFiniteSet(S)
  BY <1>1, FS_Subset
<1> QED
  BY <1>2, FS_CardinalityType, FS_EmptySet

LEMMA PutParts ==
    ASSUME NEW q, NEW r, IsVersion(r, q), NEW spec,
           NEW index \in [rows : SUBSET Facts(q), seen : Nat]
    PROVE  LET p == Put(r, spec, index)
           IN  /\ IsVersion(p, q) /\ p.cols = r.cols /\ p.n = r.n
               /\ DOMAIN p.idx = DOMAIN r.idx \cup {spec}
               /\ \A x \in DOMAIN p.idx : p.idx[x] = IF x = spec THEN index ELSE r.idx[x]
<1> DEFINE p == Put(r, spec, index)
           f == [s \in DOMAIN r.idx \cup {spec} |-> IF s = spec THEN index ELSE r.idx[s]]
<1>1. r = [cols |-> r.cols, n |-> r.n, idx |-> r.idx]
  BY DEF IsVersion
<1>2. p = [cols |-> r.cols, n |-> r.n, idx |-> f]
  <2>1. p = [r EXCEPT !.idx = f]
    BY DEF Put
  <2> HIDE DEF p, f
  <2> QED
    BY <1>1, <2>1
<1>3. p.cols = r.cols /\ p.n = r.n /\ p.idx = f
  BY <1>2
<1>4. /\ DOMAIN f = DOMAIN r.idx \cup {spec}
      /\ \A x \in DOMAIN f : f[x] = IF x = spec THEN index ELSE r.idx[x]
  OBVIOUS
<1> HIDE DEF f, p
<1>5. IsVersion(p, q)
  BY <1>2, <1>3, <1>4 DEF IsVersion
<1> QED
  BY <1>3, <1>4, <1>5 DEF p

LEMMA NoRowsIsIndex ==
    ASSUME NEW q
    PROVE  /\ NoRows \in [rows : SUBSET Facts(q), seen : Nat]
           /\ NoRows.rows = {} /\ NoRows.seen = 0
BY DEF NoRows, Index

LEMMA IndexParts ==
    ASSUME NEW rows, NEW seen
    PROVE  Index(rows, seen).rows = rows /\ Index(rows, seen).seen = seen
BY DEF Index

(* Registering an index adds no row.                                       *)
LEMMA RegisteredParts ==
    ASSUME NEW q, NEW r, IsVersion(r, q), NEW spec
    PROVE  LET p == Registered(r, spec)
           IN  /\ IsVersion(p, q) /\ p.cols = r.cols /\ p.n = r.n
               /\ DOMAIN p.idx = DOMAIN r.idx \cup {spec}
               /\ \A x \in DOMAIN p.idx : p.idx[x] = IF x \in DOMAIN r.idx THEN r.idx[x] ELSE NoRows
               /\ p.idx[spec].rows = Rows(r, spec)
<1>1. CASE spec \in DOMAIN r.idx
  <2>1. Registered(r, spec) = r /\ Rows(r, spec) = r.idx[spec].rows
    BY <1>1 DEF Registered, HasIndex, Rows
  <2>2. DOMAIN r.idx = DOMAIN r.idx \cup {spec}
    BY <1>1
  <2> QED
    BY <2>1, <2>2
<1>2. CASE spec \notin DOMAIN r.idx
  <2>1. Registered(r, spec) = Put(r, spec, NoRows) /\ Rows(r, spec) = {}
    BY <1>2 DEF Registered, HasIndex, Rows
  <2>2. NoRows \in [rows : SUBSET Facts(q), seen : Nat] /\ NoRows.rows = {}
    BY NoRowsIsIndex
  <2> DEFINE p == Put(r, spec, NoRows)
  <2>3. /\ IsVersion(p, q) /\ p.cols = r.cols /\ p.n = r.n
        /\ DOMAIN p.idx = DOMAIN r.idx \cup {spec}
        /\ \A x \in DOMAIN p.idx : p.idx[x] = IF x = spec THEN NoRows ELSE r.idx[x]
    BY <2>2, PutParts
  <2> HIDE DEF p
  <2> QED
    BY <1>2, <2>1, <2>2, <2>3 DEF p
<1> QED
  BY <1>1, <1>2

LEMMA ClearParts ==
    ASSUME NEW q, NEW r, IsVersion(r, q)
    PROVE  LET p == Clear(r)
           IN  /\ IsVersion(p, q) /\ p.cols = {} /\ p.n = 0 /\ DOMAIN p.idx = DOMAIN r.idx
               /\ \A x \in DOMAIN p.idx : p.idx[x] = NoRows
<1>1. NoRows \in [rows : SUBSET Facts(q), seen : Nat]
  BY NoRowsIsIndex
<1> DEFINE p == Clear(r)
           f == [spec \in DOMAIN r.idx |-> NoRows]
<1>2. p = [cols |-> {}, n |-> 0, idx |-> f]
  BY DEF Clear
<1>3. p.cols = {} /\ p.n = 0 /\ p.idx = f /\ p = [cols |-> p.cols, n |-> p.n, idx |-> p.idx]
  BY <1>2
<1>4. DOMAIN f = DOMAIN r.idx /\ \A x \in DOMAIN f : f[x] = NoRows
  OBVIOUS
<1> HIDE DEF f, p
<1> QED
  BY <1>1, <1>3, <1>4 DEF p, IsVersion

IsCleared(p, r, q) ==
    /\ IsVersion(p, q) /\ p.cols = {} /\ p.n = 0 /\ DOMAIN p.idx = DOMAIN r.idx
    /\ \A x \in DOMAIN p.idx : p.idx[x] = NoRows

LEMMA ClearIsCleared ==
    ASSUME NEW q, NEW r, IsVersion(r, q)
    PROVE  IsCleared(Clear(r), r, q)
BY ClearParts DEF IsCleared

(* The index a relation has after it was asked for.                        *)
EnsuredIndex(r, spec, build) ==
    IF /\ build
       /\ ~(spec \in DOMAIN r.idx /\ r.idx[spec].seen = r.n)
       /\ ~(spec \notin DOMAIN r.idx /\ r.n = 0)
    THEN Index(r.cols, r.n)
    ELSE IF spec \in DOMAIN r.idx THEN r.idx[spec] ELSE NoRows

LEMMA EnsureIndexParts ==
    ASSUME NEW q, NEW r, IsVersion(r, q), NEW spec, NEW build \in BOOLEAN
    PROVE  LET e == EnsureIndex(r, spec, build)
           IN  /\ IsVersion(e, q) /\ e.cols = r.cols /\ e.n = r.n
               /\ DOMAIN e.idx = DOMAIN r.idx \cup {spec}
               /\ e.idx[spec] = EnsuredIndex(r, spec, build)
               /\ e.idx[spec] \in [rows : SUBSET Facts(q), seen : Nat]
<1> DEFINE p == Registered(r, spec)
           e == EnsureIndex(r, spec, build)
<1>1. /\ IsVersion(p, q) /\ p.cols = r.cols /\ p.n = r.n
      /\ DOMAIN p.idx = DOMAIN r.idx \cup {spec}
      /\ p.idx[spec] = IF spec \in DOMAIN r.idx THEN r.idx[spec] ELSE NoRows
  BY RegisteredParts
<1>2. IsDirty(p, spec) <=> p.idx[spec].seen # r.n
  BY <1>1 DEF IsDirty, HasIndex
<1>3. IsDirty(p, spec) <=> /\ ~(spec \in DOMAIN r.idx /\ r.idx[spec].seen = r.n)
                           /\ ~(spec \notin DOMAIN r.idx /\ r.n = 0)
  BY <1>1, <1>2, NoRowsIsIndex
<1>4. e = IF build /\ IsDirty(p, spec) THEN Put(r, spec, Index(r.cols, r.n)) ELSE p
  BY DEF EnsureIndex
<1> HIDE DEF p, e
<1>5. CASE build /\ IsDirty(p, spec)
  <2>1. Index(r.cols, r.n) \in [rows : SUBSET Facts(q), seen : Nat]
    BY DEF IsVersion, Index
  <2> DEFINE w == Put(r, spec, Index(r.cols, r.n))
  <2>2. /\ IsVersion(w, q) /\ w.cols = r.cols /\ w.n = r.n
        /\ DOMAIN w.idx = DOMAIN r.idx \cup {spec}
        /\ \A x \in DOMAIN w.idx : w.idx[x] = IF x = spec THEN Index(r.cols, r.n) ELSE r.idx[x]
    BY <2>1, PutParts
  <2>3. e = w
    BY <1>4, <1>5
  <2>4. EnsuredIndex(r, spec, build) = Index(r.cols, r.n)
    BY <1>3, <1>5 DEF EnsuredIndex
  <2> HIDE DEF w
  <2> QED
    BY <2>1, <2>2, <2>3, <2>4 DEF e
<1>6. CASE ~(build /\ IsDirty(p, spec))
  <2>1. e = p
    BY <1>4, <1>6
  <2>2. EnsuredIndex(r, spec, build) = p.idx[spec]
    BY <1>1, <1>3, <1>6 DEF EnsuredIndex
  <2>3. p.idx[spec] \in [rows : SUBSET Facts(q), seen : Nat]
    BY <1>1 DEF IsVersion
  <2> QED
    BY <1>1, <2>1, <2>2, <2>3 DEF e
<1> QED
  BY <1>5, <1>6

IsEnsured(e, q, r, S, build) ==
    /\ IsVersion(e, q) /\ e.cols = r.cols /\ e.n = r.n
    /\ DOMAIN e.idx = DOMAIN r.idx \cup S
    /\ \A x \in DOMAIN e.idx : e.idx[x] =
          IF x \in S THEN EnsuredIndex(r, x, build) ELSE r.idx[x]

LEMMA EnsureAllParts ==
    ASSUME NEW q, NEW r, IsVersion(r, q), NEW S, NEW build \in BOOLEAN
    PROVE  IsEnsured(EnsureAll(r, S, build), q, r, S, build)
<1> DEFINE e == EnsureAll(r, S, build)
           f == [x \in DOMAIN r.idx \cup S |->
                    IF x \in S THEN EnsureIndex(r, x, build).idx[x] ELSE r.idx[x]]
<1>1. r = [cols |-> r.cols, n |-> r.n, idx |-> r.idx]
  BY DEF IsVersion
<1>2. e = [cols |-> r.cols, n |-> r.n, idx |-> f]
  <2>1. e = [r EXCEPT !.idx = f]
    BY DEF EnsureAll
  <2> HIDE DEF e, f
  <2> QED
    BY <1>1, <2>1
<1>3. e.cols = r.cols /\ e.n = r.n /\ e.idx = f /\ e = [cols |-> e.cols, n |-> e.n, idx |-> e.idx]
  BY <1>2
<1>4. DOMAIN f = DOMAIN r.idx \cup S
  OBVIOUS
<1>5. ASSUME NEW x \in DOMAIN f
      PROVE  /\ f[x] = IF x \in S THEN EnsuredIndex(r, x, build) ELSE r.idx[x]
             /\ f[x] \in [rows : SUBSET Facts(q), seen : Nat]
  <2>1. CASE x \in S
    <3>1. f[x] = EnsureIndex(r, x, build).idx[x]
      BY <1>5, <2>1
    <3> HIDE DEF f
    <3> QED
      BY <2>1, <3>1, EnsureIndexParts
  <2>2. CASE x \notin S
    BY <1>5, <2>2 DEF IsVersion
  <2> QED
    BY <2>1, <2>2
<1> HIDE DEF f, e
<1>6. IsVersion(e, q)
  BY <1>1, <1>3, <1>4, <1>5 DEF IsVersion
<1> QED
  BY <1>3, <1>4, <1>5, <1>6 DEF e, IsEnsured

(* Indexes that are only registered add no rows.                           *)
LEMMA RegisteringKeeps ==
    ASSUME IndexedSupported, NEW q, NEW r, IsVersion(r, q), NEW S
    PROVE  LET e == EnsureAll(r, S, FALSE)
           IN  /\ IsVersion(e, q) /\ e.cols = r.cols /\ e.n = r.n
               /\ \A x : Rows(e, x) = Rows(r, x)
               /\ IndexedRows(e) = IndexedRows(r)
               /\ Counted(r) => Counted(e)
               /\ Clean(r) /\ (r.n = 0 => r.cols = {}) => Clean(e)
<1> DEFINE e == EnsureAll(r, S, FALSE)
<1>1. /\ IsVersion(e, q) /\ e.cols = r.cols /\ e.n = r.n
      /\ DOMAIN e.idx = DOMAIN r.idx \cup S
      /\ \A x \in DOMAIN e.idx : e.idx[x] = IF x \in DOMAIN r.idx THEN r.idx[x] ELSE NoRows
  <2>1. FALSE \in BOOLEAN
    OBVIOUS
  <2>2. IsEnsured(e, q, r, S, FALSE)
    BY <2>1, EnsureAllParts, Zenon
  <2> HIDE DEF e
  <2> QED
    BY <2>2 DEF IsEnsured, EnsuredIndex
<1> HIDE DEF e
<1>2. NoRows.rows = {} /\ NoRows.seen = 0 /\ Cardinality({}) = 0
  BY NoRowsIsIndex, FS_EmptySet
<1>3. \A x : Rows(e, x) = Rows(r, x)
  BY <1>1, <1>2 DEF Rows, HasIndex
<1>4. IndexedRows(e) = IndexedRows(r)
  <2>1. ASSUME NEW f \in IndexedRows(e)
        PROVE  f \in IndexedRows(r)
    <3>1. PICK x \in DOMAIN e.idx : f \in e.idx[x].rows
      BY <2>1 DEF IndexedRows
    <3>2. x \in DOMAIN r.idx /\ f \in r.idx[x].rows
      BY <1>1, <1>2, <3>1
    <3> QED
      BY <3>2 DEF IndexedRows
  <2>2. ASSUME NEW f \in IndexedRows(r)
        PROVE  f \in IndexedRows(e)
    <3>1. PICK x \in DOMAIN r.idx : f \in r.idx[x].rows
      BY <2>2 DEF IndexedRows
    <3>2. x \in DOMAIN e.idx /\ f \in e.idx[x].rows
      BY <1>1, <3>1
    <3> QED
      BY <3>2 DEF IndexedRows
  <2> QED
    BY <2>1, <2>2
<1>5. Counted(r) => Counted(e)
  <2> SUFFICES ASSUME Counted(r), NEW x \in DOMAIN e.idx
               PROVE  e.idx[x].seen <= Cardinality(e.idx[x].rows)
    BY DEF Counted
  <2>1. CASE x \in DOMAIN r.idx
    BY <1>1, <2>1 DEF Counted
  <2>2. CASE x \notin DOMAIN r.idx
    <3>1. e.idx[x] = NoRows
      BY <1>1, <2>2
    <3> QED
      BY <1>2, <3>1
  <2> QED
    BY <2>1, <2>2
<1>6. Clean(r) /\ (r.n = 0 => r.cols = {}) => Clean(e)
  BY <1>1, <1>2 DEF Clean
<1> QED
  BY <1>1, <1>3, <1>4, <1>5, <1>6 DEF e

(* Indexes that are built have the columns' rows.                          *)
LEMMA BuildingMakesCurrent ==
    ASSUME IndexedSupported, NEW q, NEW r, IsVersion(r, q), NEW S,
           Clean(r), r.n = 0 => r.cols = {}
    PROVE  LET e == EnsureAll(r, S, TRUE)
           IN  /\ IsVersion(e, q) /\ e.cols = r.cols /\ e.n = r.n /\ Clean(e)
               /\ \A x : Rows(e, x) = IF x \in S THEN r.cols ELSE Rows(r, x)
               /\ Counted(r) /\ r.n = Cardinality(r.cols) => Counted(e)
<1> DEFINE e == EnsureAll(r, S, TRUE)
<1>1. /\ IsVersion(e, q) /\ e.cols = r.cols /\ e.n = r.n
      /\ DOMAIN e.idx = DOMAIN r.idx \cup S
      /\ \A x \in DOMAIN e.idx : e.idx[x] = IF x \in S THEN EnsuredIndex(r, x, TRUE) ELSE r.idx[x]
  <2>1. TRUE \in BOOLEAN
    OBVIOUS
  <2>2. IsEnsured(e, q, r, S, TRUE)
    BY <2>1, EnsureAllParts, Zenon
  <2> HIDE DEF e
  <2> QED
    BY <2>2 DEF IsEnsured
<1>2. NoRows.rows = {} /\ NoRows.seen = 0 /\ Cardinality({}) = 0
  BY NoRowsIsIndex, FS_EmptySet
<1>3. Index(r.cols, r.n).rows = r.cols /\ Index(r.cols, r.n).seen = r.n
  BY IndexParts
<1>4. ASSUME NEW x \in S
      PROVE  /\ EnsuredIndex(r, x, TRUE).rows = r.cols
             /\ EnsuredIndex(r, x, TRUE).seen = r.n
  BY <1>2, <1>3 DEF EnsuredIndex, Clean
<1> HIDE DEF e
<1>5. Clean(e)
  BY <1>1, <1>4 DEF Clean
<1>6. \A x : Rows(e, x) = IF x \in S THEN r.cols ELSE Rows(r, x)
  BY <1>1, <1>4 DEF Rows, HasIndex
<1>7. Counted(r) /\ r.n = Cardinality(r.cols) => Counted(e)
  <2> SUFFICES ASSUME Counted(r), r.n = Cardinality(r.cols), NEW x \in DOMAIN e.idx
               PROVE  e.idx[x].seen <= Cardinality(e.idx[x].rows)
    BY DEF Counted
  <2>1. CASE x \in S
    <3>1. e.idx[x].rows = r.cols /\ e.idx[x].seen = r.n
      BY <1>1, <1>4, <2>1
    <3>2. r.n \in Nat
      BY DEF IsVersion
    <3> QED
      BY <3>1, <3>2
  <2>2. CASE x \notin S
    <3>1. x \in DOMAIN r.idx /\ e.idx[x] = r.idx[x]
      BY <1>1, <2>2
    <3> QED
      BY <3>1 DEF Counted
  <2> QED
    BY <2>1, <2>2
<1> QED
  BY <1>1, <1>5, <1>6, <1>7 DEF e

-----------------------------------------------------------------------------
(***************************************************************************)
(* What the steps do to one relation                                       *)
(***************************************************************************)

LEMMA NeededParts ==
    ASSUME IndexedSupported, NEW s \in Level, NEW q \in Relation
    PROVE  /\ Needed(s, q) \subseteq Specs(q) /\ Kept(s, q) \subseteq Needed(s, q)
           /\ Canonical[s][q] \in Kept(s, q)
           /\ ReadAsDelta(s, q) \subseteq Needed(s, q)
           /\ Recursive(s) => ReadPositively(s, q) \subseteq Kept(s, q)
           /\ ReadAsDelta(s, q) \subseteq Specs(q) /\ ReadAsFull(s, q) \subseteq Specs(q)
           /\ ~Recursive(s) => Kept(s, q) = Needed(s, q)
           /\ ~Recursive(s) /\ q \in Members(s) => Needed(s, q) = Specs(q)
<1>1. /\ Needed(s, q) \subseteq Specs(q) /\ Reads(s, q) \subseteq Needed(s, q)
      /\ ReadAsDelta(s, q) \subseteq Needed(s, q) /\ ReadAsFull(s, q) \subseteq Needed(s, q)
  BY RequiredAreSpecs DEF Needed
<1>2. /\ Canonical[s][q] \in Needed(s, q)
      /\ Needed(s, q) = IF Reads(s, q) # {} THEN Reads(s, q) ELSE Specs(q)
  BY RequiredParts DEF Needed
<1>3. Merges(s, q, Canonical[s][q])
  BY DEF Merges
<1>4. ReadPositively(s, q) \subseteq Needed(s, q)
  BY <1>1 DEF ReadAsFull
<1>5. ~Recursive(s) /\ q \in Members(s) => Reads(s, q) = {}
  BY MembersAreNotRead
<1> QED
  BY <1>1, <1>2, <1>3, <1>4, <1>5 DEF Kept, Merges

LEMMA NoRowNoFact ==
    ASSUME IndexedSupported, NEW q, NEW d, NEW facts, IsRelation(d, q), ColumnsRel(q, d, facts)
    PROVE  d.full.n = 0 => d.full.cols = {}
<1>1. d.full.cols \in SUBSET Facts(q) /\ d.full.n \in Nat
  BY DEF IsRelation, IsVersion
<1>2. Cardinality(d.full.cols) \in Nat /\ (Cardinality(d.full.cols) = 0 <=> d.full.cols = {})
  BY <1>1, FactsAreFinite
<1> QED
  BY <1>1, <1>2 DEF ColumnsRel

(* Rows of an index are rows of some index.                                *)
LEMMA RowsAreIndexed ==
    ASSUME NEW r
    PROVE  /\ \A x : Rows(r, x) \subseteq IndexedRows(r)
           /\ Clean(r) => IndexedRows(r) \subseteq r.cols
<1>1. ASSUME NEW x
      PROVE  Rows(r, x) \subseteq IndexedRows(r)
  BY DEF Rows, HasIndex, IndexedRows
<1>2. ASSUME Clean(r), NEW f \in IndexedRows(r)
      PROVE  f \in r.cols
  <2>1. PICK x \in DOMAIN r.idx : f \in r.idx[x].rows
    BY <1>2 DEF IndexedRows
  <2> QED
    BY <1>2, <2>1 DEF Clean
<1> QED
  BY <1>1, <1>2

(* Indexes that are built, or only registered.                             *)
Built(r, specs) == EnsureAll(r, specs, TRUE)
Unbuilt(r, specs) == EnsureAll(r, specs, FALSE)

(* Prepare builds indexes of columns that hold FULL.                       *)
LEMMA PrepareKeeps ==
    ASSUME IndexedSupported, NEW s \in Level, NEW q \in Relation, NEW facts,
           NEW d, IsRelation(d, q), NEW g, RelInv(q, d, s, g, facts),
           ~g.touched, ~g.comparing,
           NEW d2, d2.full = Built(d.full, Prebuilt(s, q)), d2.delta = d.delta,
           d2 = [full |-> d2.full, delta |-> d2.delta, new |-> d2.new], IsVersion(d2.new, q),
           NEW h, h.member <=> g.member, ~h.touched, ~h.comparing, ~h.moved,
           h.pending <=> g.pending
    PROVE  /\ IsRelation(d2, q) /\ RelInv(q, d2, s, h, facts)
           /\ d2.full.cols = d.full.cols
<1>1. SettledRel(q, d, s, g) /\ ColumnsRel(q, d, facts)
  BY DEF RelInv
<1>2. IsVersion(d.full, q) /\ IsVersion(d.delta, q)
  BY DEF IsRelation
<1>3. Clean(d.full) /\ (d.full.n = 0 => d.full.cols = {})
  BY <1>1, NoRowNoFact DEF SettledRel
<1> DEFINE e == EnsureAll(d.full, Prebuilt(s, q), TRUE)
<1>4. /\ IsVersion(e, q) /\ e.cols = d.full.cols /\ e.n = d.full.n /\ Clean(e)
      /\ \A x : Rows(e, x) = IF x \in Prebuilt(s, q) THEN d.full.cols ELSE Rows(d.full, x)
      /\ Counted(d.full) /\ d.full.n = Cardinality(d.full.cols) => Counted(e)
  BY <1>2, <1>3, BuildingMakesCurrent
<1>5. d2.full = e /\ d2.delta = d.delta /\ d2 = [full |-> d2.full, delta |-> d2.delta, new |-> d2.new]
  BY Zenon DEF Built
<1> HIDE DEF e
<1>6. IsRelation(d2, q)
  BY <1>2, <1>4, <1>5 DEF IsRelation
<1>7. ColumnsRel(q, d2, facts)
  BY <1>1, <1>4, <1>5 DEF ColumnsRel
<1>8. SettledRel(q, d2, s, h)
  BY <1>1, <1>4, <1>5 DEF SettledRel
<1> QED
  BY <1>4, <1>5, <1>6, <1>7, <1>8 DEF RelInv

(* The versions d2 have the rows of d, but for the indexes N that are      *)
(* built from the columns.                                                 *)
OpenedOver(d, d2, N) ==
    /\ d2.full.cols = d.full.cols
    /\ \A x : Rows(d2.full, x) = IF x \in N THEN d.full.cols ELSE Rows(d.full, x)
    /\ \A x : Rows(d2.delta, x) = Rows(d.delta, x)
    /\ IndexedRows(d2.delta) = IndexedRows(d.delta)

(* The views a pipeline opens change what no index holds.                  *)
LEMMA OpenKeeps ==
    ASSUME IndexedSupported, NEW s \in Level, NEW q \in Relation, NEW facts,
           NEW d, IsRelation(d, q), NEW g, RelInv(q, d, s, g, facts), ~g.comparing, ~g.moved,
           NEW R, NEW N, NEW D, g.member => N = {},
           NEW d2, d2.full = Built(Unbuilt(d.full, R), N), d2.delta = Unbuilt(d.delta, D),
           d2 = [full |-> d2.full, delta |-> d2.delta, new |-> d2.new], IsVersion(d2.new, q)
    PROVE  /\ IsRelation(d2, q) /\ RelInv(q, d2, s, g, facts) /\ OpenedOver(d, d2, N)
<1>1. ColumnsRel(q, d, facts) /\ (d.full.n = 0 => d.full.cols = {})
  BY NoRowNoFact DEF RelInv
<1>2. IsVersion(d.full, q) /\ IsVersion(d.delta, q)
  BY DEF IsRelation
<1> DEFINE c == EnsureAll(d.delta, D, FALSE)
           a == EnsureAll(d.full, R, FALSE)
           b == EnsureAll(a, N, TRUE)
<1>3. /\ IsVersion(c, q) /\ c.cols = d.delta.cols /\ c.n = d.delta.n
      /\ \A x : Rows(c, x) = Rows(d.delta, x)
      /\ IndexedRows(c) = IndexedRows(d.delta)
      /\ Counted(d.delta) => Counted(c)
      /\ Clean(d.delta) /\ (d.delta.n = 0 => d.delta.cols = {}) => Clean(c)
  BY <1>2, RegisteringKeeps
<1>4. /\ IsVersion(a, q) /\ a.cols = d.full.cols /\ a.n = d.full.n
      /\ \A x : Rows(a, x) = Rows(d.full, x)
      /\ IndexedRows(a) = IndexedRows(d.full)
      /\ Counted(d.full) => Counted(a)
      /\ Clean(d.full) /\ (d.full.n = 0 => d.full.cols = {}) => Clean(a)
  BY <1>2, RegisteringKeeps
<1>5. d2.full = b /\ d2.delta = c /\ d2 = [full |-> d2.full, delta |-> d2.delta, new |-> d2.new]
  BY Zenon DEF Built, Unbuilt
<1> HIDE DEF a, c
<1>6. CASE g.member /\ g.touched
  <2>1. N = {} /\ TouchedRel(q, d, s, g)
    BY <1>6 DEF RelInv
  <2>2. IsEnsured(b, q, a, N, TRUE)
    BY <1>4, EnsureAllParts, Zenon
  <2> HIDE DEF b
  <2>3. /\ IsVersion(b, q) /\ b.cols = a.cols /\ b.n = a.n /\ DOMAIN b.idx = DOMAIN a.idx
        /\ \A x \in DOMAIN b.idx : b.idx[x] = a.idx[x]
    BY <2>1, <2>2 DEF IsEnsured
  <2>4. /\ \A x : Rows(b, x) = Rows(a, x)
        /\ IndexedRows(b) = IndexedRows(a)
        /\ Counted(a) => Counted(b)
    BY <2>3 DEF Rows, HasIndex, IndexedRows, Counted
  <2>5. FullOf(q, d2, s, g) = FullOf(q, d, s, g) /\ DeltaOf(q, d2, s, g) = DeltaOf(q, d, s, g)
    BY <1>3, <1>4, <1>5, <1>6, <2>4 DEF FullOf, DeltaOf
  <2>6. TouchedRel(q, d2, s, g)
    BY <1>3, <1>4, <1>5, <2>1, <2>3, <2>4, <2>5 DEF TouchedRel
  <2>7. IsRelation(d2, q) /\ ColumnsRel(q, d2, facts)
    BY <1>1, <1>3, <1>4, <1>5, <2>3, <2>4 DEF IsRelation, ColumnsRel
  <2>8. RelInv(q, d2, s, g, facts)
    BY <1>6, <2>6, <2>7 DEF RelInv
  <2>9. OpenedOver(d, d2, N)
    BY <1>3, <1>4, <1>5, <2>1, <2>3, <2>4 DEF OpenedOver
  <2> QED
    BY <2>7, <2>8, <2>9
<1>7. CASE ~(g.member /\ g.touched)
  <2>1. SettledRel(q, d, s, g)
    BY <1>7 DEF RelInv
  <2>2. Clean(a) /\ (a.n = 0 => a.cols = {})
    BY <1>1, <1>4, <2>1 DEF SettledRel
  <2>3. /\ IsVersion(b, q) /\ b.cols = a.cols /\ b.n = a.n /\ Clean(b)
        /\ \A x : Rows(b, x) = IF x \in N THEN a.cols ELSE Rows(a, x)
        /\ Counted(a) /\ a.n = Cardinality(a.cols) => Counted(b)
    BY <1>4, <2>2, BuildingMakesCurrent
  <2> HIDE DEF b
  <2>4. SettledRel(q, d2, s, g)
    BY <1>3, <1>4, <1>5, <2>1, <2>3 DEF SettledRel
  <2>5. IsRelation(d2, q) /\ ColumnsRel(q, d2, facts)
    BY <1>1, <1>3, <1>4, <1>5, <2>3 DEF IsRelation, ColumnsRel
  <2>6. RelInv(q, d2, s, g, facts)
    BY <1>7, <2>4, <2>5 DEF RelInv
  <2>7. OpenedOver(d, d2, N)
    BY <1>3, <1>4, <1>5, <2>3 DEF OpenedOver
  <2> QED
    BY <2>5, <2>6, <2>7
<1> QED
  BY <1>6, <1>7

(* A step leaves what the versions of q stand for as it is.                *)
SameTuples(q, s, d, g, d2, h) ==
    /\ FullOf(q, d2, s, h) \cup DeltaOf(q, d2, s, h) = FullOf(q, d, s, g) \cup DeltaOf(q, d, s, g)
    /\ DeltaOf(q, d2, s, h) = DeltaOf(q, d, s, g)
    /\ d2.new.cols = d.new.cols

(* Between the comparisons of a stratum DELTA is part of FULL.             *)
LEMMA DeltaInFull ==
    ASSUME IndexedSupported, NEW s \in Level, NEW q \in Relation, NEW facts,
           NEW d, IsRelation(d, q), NEW g, RelInv(q, d, s, g, facts),
           ~g.comparing, g.merge = {}, g.member => g.pending /\ q \in Idb
    PROVE  DeltaOf(q, d, s, g) \subseteq FullOf(q, d, s, g)
<1>1. CASE g.member /\ g.touched
  <2>1. TouchedRel(q, d, s, g)
    BY <1>1 DEF RelInv
  <2>2. Canonical[s][q] \in Kept(s, q)
    BY NeededParts
  <2>3. Rows(d.full, Canonical[s][q]) = FullOf(q, d, s, g) \cup DeltaOf(q, d, s, g)
    BY <2>1, <2>2 DEF TouchedRel
  <2>4. FullOf(q, d, s, g) = Rows(d.full, Canonical[s][q])
    BY <1>1 DEF FullOf
  <2> QED
    BY <2>3, <2>4
<1>2. CASE ~(g.member /\ g.touched)
  <2>1. SettledRel(q, d, s, g)
    BY <1>2 DEF RelInv
  <2>2. DeltaOf(q, d, s, g) \subseteq d.full.cols
    BY <2>1 DEF SettledRel, DeltaOf
  <2>4. CASE ~g.member
    BY <2>2, <2>4 DEF FullOf
  <2>5. CASE g.member /\ q \in Idb
    <3>1. Canonical[s][q] \in Specs(q)
      BY RequiredAreSpecs
    <3> QED
      BY <2>1, <2>2, <2>5, <3>1 DEF SettledRel, FullOf
  <2> QED
    BY <2>4, <2>5
<1> QED
  BY <1>1, <1>2

(* The rows of NEW are what DELTA is computed from.                        *)
NewMoved(q, s, d, g, d2, h) ==
    LET F == FullOf(q, d, s, g)
    IN  /\ FullOf(q, d2, s, h) = F
        /\ DeltaOf(q, d, s, g) \subseteq F
        /\ DeltaOf(q, d2, s, h) = d.new.cols \ F
        /\ d2.new.cols = {}

(* RebuildNew moves the rows of NEW into its canonical index.              *)
LEMMA RebuildKeeps ==
    ASSUME IndexedSupported, NEW s \in Level, NEW q \in Relation, NEW facts,
           NEW d, IsRelation(d, q), NEW g, RelInv(q, d, s, g, facts),
           ~g.comparing, g.merge = {}, g.copy = {}, g.member, g.pending, q \in Idb, ~g.rewritten,
           NEW d2, d2 = [d EXCEPT !.new = TakeOwnership(@, Canonical[s][q])],
           NEW h, h.member, h.touched <=> g.touched, h.comparing, ~h.moved, h.pending,
           h.prepared <=> g.prepared, ~h.rewritten, h.merge = {}, h.copy = {}
    PROVE  /\ IsRelation(d2, q) /\ RelInv(q, d2, s, h, facts)
           /\ NewMoved(q, s, d, g, d2, h)
<1> DEFINE c == Canonical[s][q]
           w == Put(d.new, c, Index(d.new.cols, 0))
           n == TakeOwnership(d.new, c)
<1>1. ColumnsRel(q, d, facts) /\ IsVersion(d.full, q) /\ IsVersion(d.delta, q) /\ IsVersion(d.new, q)
  BY DEF RelInv, IsRelation
<1>2. d = [full |-> d.full, delta |-> d.delta, new |-> d.new]
  BY DEF IsRelation
<1>3. /\ IsVersion(w, q) /\ DOMAIN w.idx = DOMAIN d.new.idx \cup {c}
      /\ \A x \in DOMAIN w.idx : w.idx[x] = IF x = c THEN Index(d.new.cols, 0) ELSE d.new.idx[x]
  <2>1. Index(d.new.cols, 0) \in [rows : SUBSET Facts(q), seen : Nat]
    BY <1>1 DEF Index, IsVersion
  <2> QED
    BY <1>1, <2>1, PutParts
<1>4. n = [w EXCEPT !.cols = {}, !.n = 0]
  BY DEF TakeOwnership
<1> HIDE DEF w, n
<1>5. n = [cols |-> {}, n |-> 0, idx |-> w.idx]
  BY <1>3, <1>4 DEF IsVersion
<1>6. n.cols = {} /\ n.n = 0 /\ n.idx = w.idx /\ IsVersion(n, q)
  BY <1>3, <1>5 DEF IsVersion
<1>7. HasIndex(n, c) /\ n.idx[c].seen = 0 /\ Rows(n, c) = d.new.cols
  BY <1>3, <1>6, IndexParts DEF HasIndex, Rows
<1>8. /\ d2.full = d.full /\ d2.delta = d.delta /\ d2.new = n
      /\ d2 = [full |-> d2.full, delta |-> d2.delta, new |-> d2.new]
  BY <1>2 DEF n
<1> DEFINE F == FullOf(q, d, s, g)
<1>9. FullOf(q, d2, s, h) = F
  BY <1>8 DEF FullOf
<1>10. DeltaOf(q, d2, s, h) = d.new.cols \ F
  BY <1>7, <1>8, <1>9 DEF DeltaOf
<1>11. DeltaOf(q, d, s, g) \subseteq F
  BY DeltaInFull
<1>12. IsRelation(d2, q) /\ ColumnsRel(q, d2, facts) /\ ComparingRel(q, d2, s) /\ d2.new.cols = {}
  BY <1>1, <1>6, <1>7, <1>8 DEF IsRelation, ColumnsRel, ComparingRel
<1>13. ASSUME g.touched
      PROVE  RelInv(q, d2, s, h, facts)
  <2>1. TouchedRel(q, d, s, g)
    BY <1>13 DEF RelInv
  <2> HIDE DEF F
  <2>2. TouchedRel(q, d2, s, h)
    BY <1>8, <1>9, <1>11, <2>1 DEF TouchedRel, F
  <2> QED
    BY <1>12, <1>13, <2>2 DEF RelInv
<1>14. ASSUME ~g.touched
      PROVE  RelInv(q, d2, s, h, facts)
  <2>1. SettledRel(q, d, s, g)
    BY <1>14 DEF RelInv
  <2>2. SettledRel(q, d2, s, h)
    BY <1>8, <2>1 DEF SettledRel
  <2> QED
    BY <1>12, <1>14, <2>2 DEF RelInv
<1>15. NewMoved(q, s, d, g, d2, h)
  BY <1>9, <1>10, <1>11, <1>12 DEF NewMoved
<1> QED
  BY <1>12, <1>13, <1>14, <1>15

(* ClearDelta empties a DELTA that is about to be replaced.                *)
LEMMA ClearDeltaKeeps ==
    ASSUME IndexedSupported, NEW s \in Level, NEW q \in Relation, NEW facts,
           NEW d, IsRelation(d, q), NEW g, RelInv(q, d, s, g, facts), g.comparing, g.member,
           NEW d2, d2 = [d EXCEPT !.delta = Clear(@)]
    PROVE  IsRelation(d2, q) /\ RelInv(q, d2, s, g, facts) /\ SameTuples(q, s, d, g, d2, g)
<1> DEFINE c == Clear(d.delta)
<1>1. IsVersion(d.full, q) /\ IsVersion(d.delta, q) /\ IsVersion(d.new, q)
  BY DEF IsRelation
<1>2. /\ IsVersion(c, q) /\ c.cols = {} /\ c.n = 0 /\ DOMAIN c.idx = DOMAIN d.delta.idx
      /\ \A x \in DOMAIN c.idx : c.idx[x] = NoRows
  <2>1. IsCleared(c, d.delta, q)
    BY <1>1, ClearIsCleared, Zenon
  <2> QED
    BY <2>1, Zenon DEF IsCleared
<1>3. d = [full |-> d.full, delta |-> d.delta, new |-> d.new]
  BY DEF IsRelation
<1> HIDE DEF c
<1>4. /\ d2.full = d.full /\ d2.delta = c /\ d2.new = d.new
      /\ d2 = [full |-> d2.full, delta |-> d2.delta, new |-> d2.new]
  BY <1>3 DEF c
<1>5. Counted(c)
  BY <1>2, NoRowsIsIndex, FS_EmptySet DEF Counted
<1>6. FullOf(q, d2, s, g) = FullOf(q, d, s, g) /\ DeltaOf(q, d2, s, g) = DeltaOf(q, d, s, g)
  BY <1>4 DEF FullOf, DeltaOf
<1>7. IsRelation(d2, q)
  BY <1>1, <1>2, <1>4 DEF IsRelation
<1>8. ColumnsRel(q, d2, facts) /\ ComparingRel(q, d2, s) /\ (g.moved => d2.new.cols = {})
  BY <1>4 DEF RelInv, ColumnsRel, ComparingRel
<1>9. TouchedRel(q, d, s, g) => TouchedRel(q, d2, s, g)
  BY <1>4, <1>5, <1>6 DEF TouchedRel
<1>10. SettledRel(q, d, s, g) => SettledRel(q, d2, s, g)
  BY <1>4 DEF SettledRel
<1>11. RelInv(q, d2, s, g, facts)
  BY <1>8, <1>9, <1>10 DEF RelInv
<1> QED
  BY <1>4, <1>6, <1>7, <1>11 DEF SameTuples

(* The size check asks for an index that is there and empty columns.       *)
LEMMA CheckSizeKeeps ==
    ASSUME IndexedSupported, NEW s \in Level, NEW q \in Relation, NEW facts,
           NEW d, IsRelation(d, q), NEW g, RelInv(q, d, s, g, facts), g.comparing,
           NEW d2, d2.full = d.full, d2.delta = d.delta,
           d2.new = EnsureIndex(d.new, Canonical[s][q], TRUE),
           d2 = [full |-> d2.full, delta |-> d2.delta, new |-> d2.new]
    PROVE  d2 = d
<1>1. ComparingRel(q, d, s)
  BY DEF RelInv
<1>2. Registered(d.new, Canonical[s][q]) = d.new /\ ~IsDirty(d.new, Canonical[s][q])
  BY <1>1 DEF ComparingRel, Registered, IsDirty
<1>3. EnsureIndex(d.new, Canonical[s][q], TRUE) = d.new
  BY <1>2, Zenon DEF EnsureIndex
<1>4. d = [full |-> d.full, delta |-> d.delta, new |-> d.new]
  BY DEF IsRelation
<1>5. d2.new = d.new
  BY <1>3, Zenon
<1> QED
  BY <1>4, <1>5, Zenon

(* The difference of two indexes: the rows of one that the other lacks.    *)
LEMMA DifferenceParts ==
    ASSUME IndexedSupported, NEW q, NEW a \in [rows : SUBSET Facts(q), seen : Nat],
           NEW b \in [rows : SUBSET Facts(q), seen : Nat], a.seen = 0
    PROVE  LET e == SetDifference(a, b)
           IN  /\ e \in [rows : SUBSET Facts(q), seen : Nat]
               /\ e.rows = a.rows \ b.rows /\ e.seen <= Cardinality(e.rows)
<1> DEFINE e == SetDifference(a, b)
<1>1. a.rows \in SUBSET Facts(q) /\ (a.rows \ b.rows) \in SUBSET Facts(q)
  OBVIOUS
<1>2. Cardinality(a.rows) \in Nat /\ Cardinality(a.rows \ b.rows) \in Nat
  BY <1>1, FactsAreFinite
<1>3. CASE a.rows = {}
  <2>1. e = NoRows /\ Cardinality({}) = 0
    BY <1>3, FS_EmptySet DEF SetDifference
  <2> HIDE DEF e
  <2> QED
    BY <1>3, <2>1, NoRowsIsIndex DEF e
<1>4. CASE a.rows # {} /\ b.rows = {}
  <2>1. e = a
    BY <1>4 DEF SetDifference
  <2>2. a.rows = a.rows \ b.rows
    BY <1>4
  <2> HIDE DEF e
  <2> QED
    BY <1>2, <2>1, <2>2 DEF e
<1>5. CASE a.rows # {} /\ b.rows # {}
  <2> DEFINE R == a.rows \ b.rows
             m == Cardinality(R)
  <2>1. e = Index(R, m)
    BY <1>5 DEF SetDifference
  <2>2. R \in SUBSET Facts(q) /\ m \in Nat /\ m = Cardinality(R)
    BY <1>1, <1>2
  <2> HIDE DEF e, R, m
  <2>3. e.rows = R /\ e.seen = m /\ e \in [rows : SUBSET Facts(q), seen : Nat]
    BY <2>1, <2>2 DEF Index
  <2> QED
    BY <2>2, <2>3 DEF e, R
<1> QED
  BY <1>3, <1>4, <1>5

(* One index of a version that was cleared.                                *)
LEMMA PutIntoCleared ==
    ASSUME IndexedSupported, NEW q, NEW r, IsVersion(r, q), NEW c,
           NEW diff \in [rows : SUBSET Facts(q), seen : Nat], diff.seen <= Cardinality(diff.rows)
    PROVE  LET p == Put(Clear(r), c, diff)
           IN  /\ IsVersion(p, q) /\ Counted(p)
               /\ IndexedRows(p) = diff.rows /\ Rows(p, c) = diff.rows
<1> DEFINE e == Clear(r)
           p == Put(e, c, diff)
<1>1. /\ IsVersion(e, q) /\ e.cols = {} /\ e.n = 0 /\ DOMAIN e.idx = DOMAIN r.idx
      /\ \A x \in DOMAIN e.idx : e.idx[x] = NoRows
  BY ClearParts
<1> HIDE DEF e
<1>2. /\ IsVersion(p, q) /\ p.cols = e.cols /\ p.n = e.n
      /\ DOMAIN p.idx = DOMAIN e.idx \cup {c}
      /\ \A x \in DOMAIN p.idx : p.idx[x] = IF x = c THEN diff ELSE e.idx[x]
  BY <1>1, PutParts
<1> HIDE DEF p
<1>3. c \in DOMAIN p.idx /\ p.idx[c] = diff
  BY <1>2
<1>4. ASSUME NEW x \in DOMAIN p.idx
      PROVE  p.idx[x].rows \subseteq diff.rows /\ p.idx[x].seen <= Cardinality(p.idx[x].rows)
  <2>1. CASE x = c
    BY <1>3, <2>1
  <2>2. CASE x # c
    <3>1. p.idx[x] = NoRows
      BY <1>1, <1>2, <2>2
    <3> QED
      BY <3>1, NoRowsIsIndex, FS_EmptySet
  <2> QED
    BY <2>1, <2>2
<1>5. IndexedRows(p) = diff.rows
  BY <1>3, <1>4 DEF IndexedRows
<1> QED
  BY <1>2, <1>3, <1>4, <1>5 DEF Counted, Rows, HasIndex, p, e

HoldsOnly(p, q, c, diff) ==
    IsVersion(p, q) /\ Counted(p) /\ IndexedRows(p) = diff.rows /\ Rows(p, c) = diff.rows

LEMMA HoldsOnlyPut ==
    ASSUME IndexedSupported, NEW q, NEW r, IsVersion(r, q), NEW c,
           NEW diff \in [rows : SUBSET Facts(q), seen : Nat], diff.seen <= Cardinality(diff.rows)
    PROVE  HoldsOnly(Put(Clear(r), c, diff), q, c, diff)
BY PutIntoCleared DEF HoldsOnly

(* ComputeDelta leaves in DELTA what FULL lacks, in one index.             *)
LEMMA ComputeKeeps ==
    ASSUME IndexedSupported, NEW s \in Level, NEW q \in Relation, NEW facts,
           NEW d, IsRelation(d, q), NEW g, RelInv(q, d, s, g, facts),
           g.comparing, g.member, g.pending, q \in Idb, ~g.rewritten,
           NEW full, full = Registered(d.full, Canonical[s][q]),
           NEW diff, diff = SetDifference(d.new.idx[Canonical[s][q]], full.idx[Canonical[s][q]]),
           NEW d2, d2.full = full, d2.delta = Put(Clear(d.delta), Canonical[s][q], diff),
           d2.new = Clear(d.new), d2 = [full |-> d2.full, delta |-> d2.delta, new |-> d2.new],
           NEW h, h.member, h.touched, ~h.comparing, ~h.rewritten,
           h.merge = Kept(s, q), h.copy = Needed(s, q) \ {Canonical[s][q]}
    PROVE  IsRelation(d2, q) /\ RelInv(q, d2, s, h, facts) /\ SameTuples(q, s, d, g, d2, h)
<1> DEFINE c == Canonical[s][q]
           F == FullOf(q, d, s, g)
           D == DeltaOf(q, d, s, g)
           p == Put(Clear(d.delta), c, diff)
           w == Clear(d.new)
<1>1. /\ IsVersion(d.full, q) /\ IsVersion(d.delta, q) /\ IsVersion(d.new, q)
      /\ ColumnsRel(q, d, facts) /\ ComparingRel(q, d, s)
  BY DEF IsRelation, RelInv
<1>2. /\ IsVersion(full, q) /\ full.cols = d.full.cols /\ full.n = d.full.n
      /\ DOMAIN full.idx = DOMAIN d.full.idx \cup {c}
      /\ \A x \in DOMAIN full.idx :
            full.idx[x] = IF x \in DOMAIN d.full.idx THEN d.full.idx[x] ELSE NoRows
      /\ full.idx[c].rows = Rows(d.full, c)
  BY <1>1, RegisteredParts
<1>4. IsVersion(w, q) /\ w.cols = {}
  BY <1>1, ClearParts
<1>5. F = Rows(d.full, c) /\ D = Rows(d.new, c) \ F
  BY Zenon DEF FullOf, DeltaOf
<1>6. /\ diff \in [rows : SUBSET Facts(q), seen : Nat]
      /\ diff.rows = D /\ diff.seen <= Cardinality(D)
  <2>1. /\ d.new.idx[c] \in [rows : SUBSET Facts(q), seen : Nat] /\ d.new.idx[c].seen = 0
        /\ d.new.idx[c].rows = Rows(d.new, c)
    BY <1>1, Zenon DEF ComparingRel, IsVersion, HasIndex, Rows
  <2>2. full.idx[c] \in [rows : SUBSET Facts(q), seen : Nat]
    BY <1>2 DEF IsVersion
  <2> HIDE DEF F, D, c
  <2>3. diff = SetDifference(d.new.idx[c], full.idx[c])
    BY Zenon DEF c
  <2>4. /\ diff \in [rows : SUBSET Facts(q), seen : Nat]
        /\ diff.rows = d.new.idx[c].rows \ full.idx[c].rows /\ diff.seen <= Cardinality(diff.rows)
    BY <2>1, <2>2, <2>3, DifferenceParts, SMTT(60)
  <2> QED
    BY <1>2, <1>5, <2>1, <2>4, Zenon
<1>7. IsVersion(p, q) /\ Counted(p) /\ IndexedRows(p) = D /\ Rows(p, c) = D
  <2>1. diff.seen <= Cardinality(diff.rows)
    BY <1>6, Zenon
  <2> HIDE DEF D
  <2>2. IsVersion(p, q) /\ Counted(p) /\ IndexedRows(p) = diff.rows /\ Rows(p, c) = diff.rows
    <3>1. HoldsOnly(p, q, c, diff)
      BY <1>1, <1>6, <2>1, HoldsOnlyPut, Zenon
    <3> QED
      BY <3>1, Zenon DEF HoldsOnly
  <2> QED
    BY <1>6, <2>2, Zenon
<1> HIDE DEF F, D, w, p
<1>8. d2.full = full /\ d2.delta = p /\ d2.new = w
  BY Zenon DEF p, w
<1>10. \A x : Rows(full, x) = Rows(d.full, x)
  BY <1>2, NoRowsIsIndex DEF Rows, HasIndex
<1>11. FullOf(q, d2, s, h) = F /\ DeltaOf(q, d2, s, h) = D
  BY <1>5, <1>7, <1>8, <1>10 DEF FullOf, DeltaOf
<1>12. IsRelation(d2, q)
  BY <1>2, <1>4, <1>7, <1>8 DEF IsRelation
<1>13. ColumnsRel(q, d2, facts) /\ d2.new.cols = {}
  <2>1. Counted(d.full) => Counted(full)
    <3> SUFFICES ASSUME Counted(d.full), NEW x \in DOMAIN full.idx
                 PROVE  full.idx[x].seen <= Cardinality(full.idx[x].rows)
      BY Zenon DEF Counted
    <3>1. CASE x \in DOMAIN d.full.idx
      BY <1>2, <3>1 DEF Counted
    <3>2. CASE x \notin DOMAIN d.full.idx
      <4>1. full.idx[x] = NoRows
        BY <1>2, <3>2
      <4> QED
        BY <4>1, NoRowsIsIndex, FS_EmptySet, SMTT(60)
    <3> QED
      BY <3>1, <3>2, Zenon
  <2> QED
    BY <1>1, <1>2, <1>4, <1>8, <2>1 DEF ColumnsRel
<1>14. /\ IndexedRows(full) \subseteq F \cup D
       /\ \A x \in Kept(s, q) : Rows(full, x) = F
  <2>1. IndexedRows(full) \subseteq IndexedRows(d.full)
    <3> SUFFICES ASSUME NEW f \in IndexedRows(full)
                 PROVE  f \in IndexedRows(d.full)
      BY Zenon
    <3>1. PICK x \in DOMAIN full.idx : f \in full.idx[x].rows
      BY DEF IndexedRows
    <3>2. x \in DOMAIN d.full.idx /\ f \in d.full.idx[x].rows
      BY <1>2, <3>1, NoRowsIsIndex
    <3> QED
      BY <3>2 DEF IndexedRows
  <2>2. CASE g.touched
    <3>1. TouchedRel(q, d, s, g)
      BY <2>2 DEF RelInv
    <3>2. IndexedRows(d.full) \subseteq F \cup D
      BY <3>1 DEF TouchedRel, F, D
    <3>3. ASSUME NEW x \in Kept(s, q)
          PROVE  Rows(d.full, x) = F
      <4>1. CASE x \in g.merge
        <5>1. Rows(d.full, x) \cup D = F \cup D /\ Rows(d.full, x) \cap D = {}
          BY <3>1, <4>1 DEF TouchedRel, F, D
        <5>2. F \cap D = {}
          BY <1>5
        <5> QED
          BY <5>1, <5>2
      <4>2. CASE x \notin g.merge
        BY <3>1, <4>2 DEF TouchedRel, F
      <4> QED
        BY <4>1, <4>2
    <3> QED
      BY <1>10, <2>1, <3>2, <3>3
  <2>3. CASE ~g.touched
    <3>1. SettledRel(q, d, s, g)
      BY <2>3 DEF RelInv
    <3>2. \A x \in Specs(q) : Rows(d.full, x) = d.full.cols
      BY <3>1 DEF SettledRel
    <3>3. F = d.full.cols
      BY <1>5, <3>2, RequiredAreSpecs
    <3>4. IndexedRows(d.full) \subseteq F
      BY <3>1, <3>3, RowsAreIndexed DEF SettledRel
    <3>5. Kept(s, q) \subseteq Specs(q)
      BY NeededParts, Zenon
    <3> QED
      BY <1>10, <2>1, <3>2, <3>3, <3>4, <3>5
  <2> QED
    BY <2>2, <2>3
<1>15. TouchedRel(q, d2, s, h)
  <2>1. F \cap D = {}
    BY <1>5
  <2>2. \A x \in Needed(s, q) \ h.copy : Rows(d2.delta, x) = D
    BY <1>7, <1>8
  <2>3. ASSUME NEW x \in Kept(s, q)
        PROVE  Rows(d2.full, x) \cup D = F \cup D /\ Rows(d2.full, x) \cap D = {}
    BY <1>8, <1>10, <1>14, <2>1
  <2>4. IndexedRows(d2.full) \subseteq F \cup D /\ Counted(d2.delta)
    BY <1>7, <1>8, <1>14
  <2>5. \A x \in Kept(s, q) : x \in h.merge
    OBVIOUS
  <2> QED
    BY <1>11, <2>2, <2>3, <2>4, <2>5, Zenon DEF TouchedRel
<1>16. RelInv(q, d2, s, h, facts)
  BY <1>13, <1>15 DEF RelInv
<1>17. d.new.cols = {}
  BY <1>1 DEF ComparingRel
<1> QED
  BY <1>11, <1>12, <1>13, <1>16, <1>17 DEF SameTuples, F, D

(* ClearNew empties a NEW that ComputeDelta has emptied.                   *)
LEMMA ClearNewKeeps ==
    ASSUME IndexedSupported, NEW s \in Level, NEW q \in Relation, NEW facts,
           NEW d, IsRelation(d, q), NEW g, RelInv(q, d, s, g, facts), ~g.comparing, g.moved,
           NEW d2, d2 = [d EXCEPT !.new = Clear(@)],
           NEW h, h.member <=> g.member, h.touched <=> g.touched, ~h.comparing,
           h.pending <=> g.pending, h.prepared <=> g.prepared, h.rewritten <=> g.rewritten,
           h.merge = g.merge, h.copy = g.copy
    PROVE  IsRelation(d2, q) /\ RelInv(q, d2, s, h, facts) /\ SameTuples(q, s, d, g, d2, h)
<1> DEFINE w == Clear(d.new)
<1>1. IsVersion(d.full, q) /\ IsVersion(d.delta, q) /\ IsVersion(d.new, q)
  BY DEF IsRelation
<1>2. IsVersion(w, q) /\ w.cols = {}
  BY <1>1, ClearParts
<1>3. d = [full |-> d.full, delta |-> d.delta, new |-> d.new]
  BY DEF IsRelation
<1> HIDE DEF w
<1>4. /\ d2.full = d.full /\ d2.delta = d.delta /\ d2.new = w
      /\ d2 = [full |-> d2.full, delta |-> d2.delta, new |-> d2.new]
  BY <1>3 DEF w
<1>5. FullOf(q, d2, s, h) = FullOf(q, d, s, g) /\ DeltaOf(q, d2, s, h) = DeltaOf(q, d, s, g)
  BY <1>4 DEF FullOf, DeltaOf
<1>6. IsRelation(d2, q)
  BY <1>1, <1>2, <1>4 DEF IsRelation
<1>7. ColumnsRel(q, d2, facts) /\ d2.new.cols = {} /\ d.new.cols = {}
  BY <1>2, <1>4 DEF RelInv, ColumnsRel
<1>8. TouchedRel(q, d, s, g) => TouchedRel(q, d2, s, h)
  BY <1>4, <1>5 DEF TouchedRel
<1>9. SettledRel(q, d, s, g) => SettledRel(q, d2, s, h)
  BY <1>4 DEF SettledRel
<1>10. RelInv(q, d2, s, h, facts)
  BY <1>7, <1>8, <1>9 DEF RelInv
<1> QED
  BY <1>5, <1>6, <1>7, <1>10 DEF SameTuples

(* IndexFromIndex copies DELTA to one more index.                          *)
LEMMA CopyKeeps ==
    ASSUME IndexedSupported, NEW s \in Level, NEW q \in Relation, NEW facts,
           NEW d, IsRelation(d, q), NEW g, RelInv(q, d, s, g, facts),
           ~g.comparing, ~g.moved, g.member, g.touched, Canonical[s][q] \notin g.copy,
           NEW x \in g.copy,
           NEW d2, d2.full = d.full, d2.delta = IndexFromIndex(d.delta, Canonical[s][q], x),
           d2.new = d.new, d2 = [full |-> d2.full, delta |-> d2.delta, new |-> d2.new],
           NEW h, h.member, h.touched, ~h.comparing, ~h.moved, h.rewritten <=> g.rewritten,
           h.merge = g.merge, h.copy = g.copy \ {x}
    PROVE  IsRelation(d2, q) /\ RelInv(q, d2, s, h, facts) /\ SameTuples(q, s, d, g, d2, h)
<1> DEFINE c == Canonical[s][q]
           D == DeltaOf(q, d, s, g)
           e == IndexFromIndex(d.delta, c, x)
<1>1. /\ IsVersion(d.full, q) /\ IsVersion(d.delta, q) /\ IsVersion(d.new, q)
      /\ ColumnsRel(q, d, facts) /\ TouchedRel(q, d, s, g)
  BY DEF IsRelation, RelInv
<1>2. D = IndexedRows(d.delta) /\ Rows(d.delta, c) = D
  <2>1. D = IndexedRows(d.delta)
    BY DEF DeltaOf
  <2>2. c \in Needed(s, q)
    BY NeededParts
  <2> QED
    BY <1>1, <2>1, <2>2 DEF TouchedRel
<1>3. D \in SUBSET Facts(q) /\ Cardinality(D) \in Nat
  <2>1. D \in SUBSET Facts(q)
    BY <1>1, <1>2 DEF Rows, HasIndex, IsVersion
  <2> QED
    BY <2>1, FactsAreFinite
<1> HIDE DEF D, c
<1>4. \A y \in DOMAIN d.delta.idx : d.delta.idx[y].rows \subseteq D
  BY <1>2 DEF IndexedRows
<1>5. /\ IsVersion(e, q) /\ Counted(e) /\ IndexedRows(e) = D
      /\ \A y : Rows(e, y) = IF y = x THEN D ELSE Rows(d.delta, y)
  <2>1. CASE D = {}
    <3>1. e = Registered(d.delta, x)
      BY <1>2, <2>1 DEF IndexFromIndex
    <3>2. /\ IsVersion(e, q) /\ DOMAIN e.idx = DOMAIN d.delta.idx \cup {x}
          /\ \A y \in DOMAIN e.idx :
                e.idx[y] = IF y \in DOMAIN d.delta.idx THEN d.delta.idx[y] ELSE NoRows
      BY <1>1, <3>1, RegisteredParts
    <3> HIDE DEF e
    <3>3. ASSUME NEW y \in DOMAIN e.idx
          PROVE  e.idx[y].rows = {} /\ e.idx[y].seen <= Cardinality(e.idx[y].rows)
      <4>1. CASE y \in DOMAIN d.delta.idx
        BY <1>1, <1>4, <2>1, <3>2, <4>1 DEF TouchedRel, Counted
      <4>2. CASE y \notin DOMAIN d.delta.idx
        <5>1. e.idx[y] = NoRows
          BY <3>2, <4>2
        <5> QED
          BY <5>1, NoRowsIsIndex, FS_EmptySet
      <4> QED
        BY <4>1, <4>2
    <3>4. Counted(e)
      BY <3>3 DEF Counted
    <3>5. IndexedRows(e) = D
      BY <2>1, <3>3 DEF IndexedRows
    <3>6. ASSUME NEW y
          PROVE  Rows(e, y) = {} /\ Rows(d.delta, y) = {}
      BY <1>4, <2>1, <3>3 DEF Rows, HasIndex
    <3> QED
      BY <2>1, <3>2, <3>4, <3>5, <3>6
  <2>2. CASE D # {}
    <3> DEFINE w == Index(D, 0)
    <3>1. w \in [rows : SUBSET Facts(q), seen : Nat] /\ w.rows = D /\ w.seen = 0
      BY <1>3 DEF Index
    <3> HIDE DEF w
    <3>2. e = Put(d.delta, x, w)
      BY <1>2, <2>2 DEF IndexFromIndex, w
    <3>3. /\ IsVersion(e, q) /\ DOMAIN e.idx = DOMAIN d.delta.idx \cup {x}
          /\ \A y \in DOMAIN e.idx : e.idx[y] = IF y = x THEN w ELSE d.delta.idx[y]
      BY <1>1, <3>1, <3>2, PutParts
    <3> HIDE DEF e
    <3>4. ASSUME NEW y \in DOMAIN e.idx
          PROVE  e.idx[y].rows \subseteq D /\ e.idx[y].seen <= Cardinality(e.idx[y].rows)
      <4>1. CASE y = x
        BY <1>3, <3>1, <3>3, <4>1
      <4>2. CASE y # x
        BY <1>1, <1>4, <3>3, <4>2 DEF TouchedRel, Counted
      <4> QED
        BY <4>1, <4>2
    <3>5. Counted(e)
      BY <3>4 DEF Counted
    <3>6. x \in DOMAIN e.idx /\ e.idx[x].rows = D
      BY <3>1, <3>3
    <3>7. IndexedRows(e) = D
      BY <3>4, <3>6 DEF IndexedRows
    <3>8. \A y : Rows(e, y) = IF y = x THEN D ELSE Rows(d.delta, y)
      BY <3>3, <3>6 DEF Rows, HasIndex
    <3> QED
      BY <3>3, <3>5, <3>7, <3>8
  <2> QED
    BY <2>1, <2>2
<1> HIDE DEF e
<1>6. d2.delta = e
  BY DEF e, c
<1>7. FullOf(q, d2, s, h) = FullOf(q, d, s, g) /\ DeltaOf(q, d2, s, h) = D
  BY <1>5, <1>6 DEF FullOf, DeltaOf
<1>8. IsRelation(d2, q)
  BY <1>1, <1>5, <1>6 DEF IsRelation
<1>9. ColumnsRel(q, d2, facts)
  BY <1>1 DEF ColumnsRel
<1>10. TouchedRel(q, d2, s, h)
  <2>1. ASSUME NEW y \in Needed(s, q) \ h.copy
        PROVE  Rows(d2.delta, y) = D
    <3>1. CASE y = x
      BY <1>5, <1>6, <3>1
    <3>2. CASE y # x
      <4>1. y \in Needed(s, q) \ g.copy
        BY <2>1, <3>2
      <4>2. Rows(d.delta, y) = D
        BY <1>1, <4>1 DEF TouchedRel, D
      <4> QED
        BY <1>5, <1>6, <3>2, <4>2
    <3> QED
      BY <3>1, <3>2
  <2> QED
    BY <1>1, <1>5, <1>6, <1>7, <2>1 DEF TouchedRel, D
<1>11. RelInv(q, d2, s, h, facts)
  BY <1>9, <1>10 DEF RelInv
<1> QED
  BY <1>7, <1>8, <1>11 DEF SameTuples, D

(* Merging an index with one that shares no row with it.                   *)
LEMMA MergeParts ==
    ASSUME IndexedSupported, NEW q, NEW a \in [rows : SUBSET Facts(q), seen : Nat],
           NEW b \in [rows : SUBSET Facts(q), seen : Nat], a.rows \cap b.rows = {},
           a.seen <= Cardinality(a.rows), b.seen <= Cardinality(b.rows)
    PROVE  LET m == MergeInto(a, b)
           IN  /\ m \in [rows : SUBSET Facts(q), seen : Nat]
               /\ m.rows = a.rows \cup b.rows /\ m.seen <= Cardinality(m.rows)
<1> DEFINE m == MergeInto(a, b)
<1>1. /\ a.rows \in SUBSET Facts(q) /\ b.rows \in SUBSET Facts(q) /\ a.seen \in Nat /\ b.seen \in Nat
      /\ (a.rows \cup b.rows) \in SUBSET Facts(q)
  OBVIOUS
<1>2. IsFiniteSet(a.rows) /\ IsFiniteSet(b.rows)
  BY <1>1, FactsAreFinite
<1>3. /\ Cardinality(a.rows \cup b.rows) = Cardinality(a.rows) + Cardinality(b.rows)
      /\ Cardinality(a.rows) \in Nat /\ Cardinality(b.rows) \in Nat
  BY <1>2, CountApart
<1>4. CASE b.rows = {}
  <2>1. m = a /\ a.rows = a.rows \cup b.rows
    BY <1>4 DEF MergeInto
  <2> HIDE DEF m
  <2> QED
    BY <2>1 DEF m
<1>5. CASE b.rows # {} /\ a.rows = {}
  <2>1. m = b /\ b.rows = a.rows \cup b.rows
    BY <1>5 DEF MergeInto
  <2> HIDE DEF m
  <2> QED
    BY <2>1 DEF m
<1>6. CASE b.rows # {} /\ a.rows # {}
  <2> DEFINE R == a.rows \cup b.rows
             n == a.seen + b.seen
  <2>1. m = Index(R, n)
    BY <1>6 DEF MergeInto
  <2>2. R \in SUBSET Facts(q) /\ n \in Nat /\ n <= Cardinality(R)
    BY <1>1, <1>3
  <2> HIDE DEF m, R, n
  <2>3. m.rows = R /\ m.seen = n /\ m \in [rows : SUBSET Facts(q), seen : Nat]
    BY <2>1, <2>2 DEF Index
  <2> QED
    BY <2>2, <2>3 DEF m, R
<1> QED
  BY <1>4, <1>5, <1>6

(* MergeIndex adds DELTA to one index of FULL.                             *)
LEMMA MergeKeeps ==
    ASSUME IndexedSupported, NEW s \in Level, NEW q \in Relation, NEW facts,
           NEW d, IsRelation(d, q), NEW g, RelInv(q, d, s, g, facts),
           ~g.comparing, ~g.moved, g.member, g.touched, q \in Idb, ~g.rewritten,
           NEW x \in g.merge, x \in Kept(s, q), x \notin g.copy, HasIndex(d.delta, x),
           NEW full, full = Registered(d.full, x),
           NEW merged, merged = MergeInto(full.idx[x], d.delta.idx[x]),
           NEW d2, d2.full = Put(full, x, merged), d2.delta = d.delta,
           d2.new = d.new, d2 = [full |-> d2.full, delta |-> d2.delta, new |-> d2.new],
           NEW h, h.member, h.touched, ~h.comparing, ~h.moved, ~h.rewritten,
           h.merge = g.merge \ {x}, h.copy = g.copy
    PROVE  IsRelation(d2, q) /\ RelInv(q, d2, s, h, facts) /\ SameTuples(q, s, d, g, d2, h)
<1> DEFINE c == Canonical[s][q]
           A == Rows(d.full, x)
           F == FullOf(q, d, s, g)
           D == DeltaOf(q, d, s, g)
           e == Put(full, x, merged)
<1>1. /\ IsVersion(d.full, q) /\ IsVersion(d.delta, q) /\ IsVersion(d.new, q)
      /\ ColumnsRel(q, d, facts) /\ TouchedRel(q, d, s, g) /\ Counted(d.full) /\ Counted(d.delta)
  BY DEF IsRelation, RelInv, ColumnsRel, TouchedRel
<1>2. A \cup D = F \cup D /\ A \cap D = {} /\ IndexedRows(d.full) \subseteq F \cup D
  BY <1>1 DEF TouchedRel
<1>3. F = Rows(d.full, c)
  BY DEF FullOf
<1>4. D = IndexedRows(d.delta) /\ d.delta.idx[x].rows = D /\ x \in DOMAIN d.delta.idx
  <2>1. D = IndexedRows(d.delta)
    BY DEF DeltaOf
  <2>2. x \in Needed(s, q) \ g.copy
    BY NeededParts
  <2>3. Rows(d.delta, x) = D
    BY <1>1, <2>2 DEF TouchedRel
  <2> QED
    BY <2>1, <2>3 DEF Rows, HasIndex
<1>5. /\ IsVersion(full, q) /\ full.cols = d.full.cols /\ full.n = d.full.n
      /\ DOMAIN full.idx = DOMAIN d.full.idx \cup {x}
      /\ \A y \in DOMAIN full.idx :
            full.idx[y] = IF y \in DOMAIN d.full.idx THEN d.full.idx[y] ELSE NoRows
      /\ full.idx[x].rows = A
  BY <1>1, RegisteredParts
<1> HIDE DEF A, D, F, c
<1>6. /\ merged \in [rows : SUBSET Facts(q), seen : Nat]
      /\ merged.rows = A \cup D /\ merged.seen <= Cardinality(merged.rows)
  <2>1. /\ full.idx[x] \in [rows : SUBSET Facts(q), seen : Nat]
        /\ d.delta.idx[x] \in [rows : SUBSET Facts(q), seen : Nat]
    BY <1>1, <1>4, <1>5 DEF IsVersion
  <2>2. full.idx[x].rows \cap d.delta.idx[x].rows = {}
    BY <1>2, <1>4, <1>5
  <2>3. full.idx[x].seen <= Cardinality(full.idx[x].rows)
    <3>1. CASE x \in DOMAIN d.full.idx
      BY <1>1, <1>5, <3>1 DEF Counted
    <3>2. CASE x \notin DOMAIN d.full.idx
      <4>1. full.idx[x] = NoRows
        BY <1>5, <3>2
      <4> QED
        BY <4>1, NoRowsIsIndex, FS_EmptySet
    <3> QED
      BY <3>1, <3>2
  <2>4. d.delta.idx[x].seen <= Cardinality(d.delta.idx[x].rows)
    BY <1>1, <1>4 DEF Counted
  <2>5. /\ merged \in [rows : SUBSET Facts(q), seen : Nat]
        /\ merged.rows = full.idx[x].rows \cup d.delta.idx[x].rows
        /\ merged.seen <= Cardinality(merged.rows)
    BY <2>1, <2>2, <2>3, <2>4, MergeParts, SMTT(60)
  <2> QED
    BY <1>4, <1>5, <2>5
<1>7. /\ IsVersion(e, q) /\ e.cols = full.cols /\ e.n = full.n
      /\ DOMAIN e.idx = DOMAIN full.idx \cup {x}
      /\ \A y \in DOMAIN e.idx : e.idx[y] = IF y = x THEN merged ELSE full.idx[y]
  BY <1>5, <1>6, PutParts
<1> HIDE DEF e
<1>8. d2.full = e
  BY DEF e
<1>9. \A y : Rows(e, y) = IF y = x THEN A \cup D ELSE Rows(d.full, y)
  BY <1>5, <1>6, <1>7, NoRowsIsIndex, ZenonT(60) DEF Rows, HasIndex
<1>10. IndexedRows(e) \subseteq F \cup D /\ Counted(e)
  <2>1. ASSUME NEW y \in DOMAIN e.idx
        PROVE  e.idx[y].rows \subseteq F \cup D /\ e.idx[y].seen <= Cardinality(e.idx[y].rows)
    <3>1. CASE y = x
      BY <1>2, <1>6, <1>7, <3>1
    <3>2. CASE y # x /\ y \in DOMAIN d.full.idx
      <4>1. e.idx[y] = d.full.idx[y]
        BY <1>5, <1>7, <3>2
      <4>2. d.full.idx[y].rows \subseteq IndexedRows(d.full)
        BY <3>2 DEF IndexedRows
      <4> QED
        BY <1>1, <1>2, <3>2, <4>1, <4>2 DEF Counted
    <3>3. CASE y # x /\ y \notin DOMAIN d.full.idx
      <4>1. e.idx[y] = NoRows
        BY <1>5, <1>7, <3>3
      <4> QED
        BY <4>1, NoRowsIsIndex, FS_EmptySet
    <3> QED
      BY <3>1, <3>2, <3>3
  <2> QED
    BY <2>1 DEF IndexedRows, Counted
<1> DEFINE G == FullOf(q, d2, s, h)
<1>11. G = Rows(e, c)
  BY <1>8 DEF FullOf, c
<1> HIDE DEF G
<1>12. G \cup D = F \cup D
  BY <1>2, <1>3, <1>9, <1>11
<1>13. DeltaOf(q, d2, s, h) = D
  BY <1>4 DEF DeltaOf
<1>14. TouchedRel(q, d2, s, h)
  <2>1. ASSUME NEW y \in Kept(s, q), y \in h.merge
        PROVE  Rows(e, y) \cup D = G \cup D /\ Rows(e, y) \cap D = {}
    <3>1. y # x /\ y \in g.merge
      BY <2>1
    <3>2. Rows(d.full, y) \cup D = F \cup D /\ Rows(d.full, y) \cap D = {}
      BY <1>1, <3>1 DEF TouchedRel, F, D
    <3> QED
      BY <1>9, <1>12, <3>1, <3>2
  <2>2. ASSUME NEW y \in Kept(s, q), y \notin h.merge
        PROVE  Rows(e, y) = G \cup D
    <3>1. CASE y = x
      BY <1>2, <1>9, <1>12, <3>1
    <3>2. CASE y # x
      <4>1. y \notin g.merge
        BY <2>2, <3>2
      <4>2. Rows(d.full, y) = F \cup D
        BY <1>1, <4>1 DEF TouchedRel, F, D
      <4> QED
        BY <1>9, <1>12, <3>2, <4>2
    <3> QED
      BY <3>1, <3>2
  <2>3. \A y \in Needed(s, q) \ h.copy : Rows(d2.delta, y) = D
    BY <1>1 DEF TouchedRel, D
  <2>4. IndexedRows(e) \subseteq G \cup D
    BY <1>10, <1>12
  <2> QED
    BY <1>1, <1>8, <1>13, <2>1, <2>2, <2>3, <2>4 DEF TouchedRel, G
<1>15. IsRelation(d2, q)
  BY <1>1, <1>7, <1>8 DEF IsRelation
<1>16. ColumnsRel(q, d2, facts)
  BY <1>1, <1>5, <1>7, <1>8, <1>10 DEF ColumnsRel
<1>17. RelInv(q, d2, s, h, facts)
  BY <1>14, <1>16 DEF RelInv
<1> QED
  BY <1>12, <1>13, <1>15, <1>17 DEF SameTuples, G, F, D

(* Reconstruct rewrites the columns from the canonical index.              *)
LEMMA ReconstructKeeps ==
    ASSUME IndexedSupported, NEW s \in Level, NEW q \in Relation, NEW facts,
           NEW d, IsRelation(d, q), NEW g, RelInv(q, d, s, g, facts),
           ~g.comparing, ~g.moved, g.member, g.touched, q \in Idb,
           NEW d2, d2.full = Reconstruct(d.full, Canonical[s][q]), d2.delta = d.delta,
           d2.new = d.new, d2 = [full |-> d2.full, delta |-> d2.delta, new |-> d2.new],
           NEW h, h.member, h.touched, ~h.comparing, ~h.moved, h.merge = g.merge, h.copy = g.copy
    PROVE  IsRelation(d2, q) /\ RelInv(q, d2, s, h, facts) /\ SameTuples(q, s, d, g, d2, h)
<1> DEFINE c == Canonical[s][q]
           F == Rows(d.full, c)
           m == Cardinality(F)
           p == Registered(d.full, c)
           e == Reconstruct(d.full, c)
<1>1. /\ IsVersion(d.full, q) /\ IsVersion(d.delta, q) /\ IsVersion(d.new, q)
      /\ ColumnsRel(q, d, facts) /\ TouchedRel(q, d, s, g)
      /\ Counted(d.full) /\ In(facts, q) = {}
  BY DEF IsRelation, RelInv, ColumnsRel
<1>2. /\ IsVersion(p, q) /\ DOMAIN p.idx = DOMAIN d.full.idx \cup {c}
      /\ \A y \in DOMAIN p.idx :
            p.idx[y] = IF y \in DOMAIN d.full.idx THEN d.full.idx[y] ELSE NoRows
  BY <1>1, RegisteredParts
<1>3. F \in SUBSET Facts(q) /\ m \in Nat
  <2>1. F \in SUBSET Facts(q)
    BY <1>1 DEF Rows, HasIndex, IsVersion
  <2> HIDE DEF F
  <2> QED
    BY <2>1, FactsAreFinite
<1>4. e = [p EXCEPT !.cols = F, !.n = m]
  BY DEF Reconstruct
<1>5. FullOf(q, d, s, g) = F /\ m = Cardinality(F)
  BY DEF FullOf
<1> HIDE DEF F, m, e, p
<1>6. e = [cols |-> F, n |-> m, idx |-> p.idx]
  BY <1>2, <1>4 DEF IsVersion
<1>7. e.cols = F /\ e.n = m /\ e.idx = p.idx /\ IsVersion(e, q)
  BY <1>2, <1>3, <1>6 DEF IsVersion
<1>8. /\ \A y : Rows(e, y) = Rows(d.full, y)
      /\ IndexedRows(e) \subseteq IndexedRows(d.full)
  <2>1. \A y : Rows(e, y) = Rows(d.full, y)
    BY <1>2, <1>7, NoRowsIsIndex DEF Rows, HasIndex
  <2>2. ASSUME NEW f \in IndexedRows(e)
        PROVE  f \in IndexedRows(d.full)
    <3>1. PICK y \in DOMAIN e.idx : f \in e.idx[y].rows
      BY <2>2 DEF IndexedRows
    <3>2. y \in DOMAIN d.full.idx /\ f \in d.full.idx[y].rows
      BY <1>2, <1>7, <3>1, NoRowsIsIndex
    <3> QED
      BY <3>2 DEF IndexedRows
  <2> QED
    BY <2>1, <2>2
<1>9. Counted(e)
  <2> SUFFICES ASSUME NEW y \in DOMAIN e.idx
               PROVE  e.idx[y].seen <= Cardinality(e.idx[y].rows)
    BY DEF Counted
  <2>1. CASE y \in DOMAIN d.full.idx
    BY <1>1, <1>2, <1>7, <2>1 DEF Counted
  <2>2. CASE y \notin DOMAIN d.full.idx
    <3>1. e.idx[y] = NoRows
      BY <1>2, <1>7, <2>2
    <3> QED
      BY <3>1, NoRowsIsIndex, FS_EmptySet
  <2> QED
    BY <2>1, <2>2
<1>10. d2.full = e
  BY DEF e
<1>11. FullOf(q, d2, s, h) = F /\ DeltaOf(q, d2, s, h) = DeltaOf(q, d, s, g)
  BY <1>8, <1>10 DEF FullOf, DeltaOf, F
<1>12. TouchedRel(q, d2, s, h)
  BY <1>1, <1>5, <1>7, <1>8, <1>10, <1>11 DEF TouchedRel
<1>13. ColumnsRel(q, d2, facts)
  BY <1>1, <1>5, <1>7, <1>9, <1>10 DEF ColumnsRel
<1>14. IsRelation(d2, q)
  BY <1>1, <1>7, <1>10 DEF IsRelation
<1>15. RelInv(q, d2, s, h, facts)
  BY <1>12, <1>13 DEF RelInv
<1> QED
  BY <1>5, <1>11, <1>14, <1>15 DEF SameTuples

(* The relations a stratum has maintained are settled when it ends.        *)
LEMMA StratumKeeps ==
    ASSUME IndexedSupported, NEW s \in Level, NEW q \in Relation, NEW facts,
           NEW d, IsRelation(d, q), NEW g, RelInv(q, d, s, g, facts),
           ~g.comparing, g.merge = {}, g.member => g.pending /\ q \in Idb /\ q \in Members(s),
           g.member /\ g.touched => g.rewritten,
           NEW t, NEW h, h.member => h.pending /\ q \in Idb, ~h.touched, ~h.comparing, ~h.moved,
           h.pending => g.pending, h.pending /\ g.member => ~Recursive(s), ~h.prepared,
           h.member => t \in Level
    PROVE  /\ RelInv(q, d, t, h, facts)
           /\ FullOf(q, d, t, h) = FullOf(q, d, s, g)
           /\ FullOf(q, d, t, h) = d.full.cols
           /\ DeltaOf(q, d, t, h) = DeltaOf(q, d, s, g)
<1> DEFINE c == Canonical[s][q]
           F == FullOf(q, d, s, g)
           D == DeltaOf(q, d, s, g)
<1>1. ColumnsRel(q, d, facts) /\ IsVersion(d.full, q)
  BY DEF IsRelation, RelInv
<1>2. SettledRel(q, d, t, h) /\ F = d.full.cols
  <2>1. CASE g.member /\ g.touched
    <3>1. TouchedRel(q, d, s, g)
      BY <2>1 DEF RelInv
    <3>2. /\ IndexedRows(d.full) \subseteq F \cup D
          /\ \A x \in Kept(s, q) : Rows(d.full, x) = F \cup D
          /\ d.full.cols = F
      BY <2>1, <3>1 DEF TouchedRel
    <3>3. D \subseteq F
      BY DeltaInFull
    <3>4. D = IndexedRows(d.delta)
      BY DEF DeltaOf
    <3> HIDE DEF F, D
    <3>5. ASSUME NEW x \in DOMAIN d.full.idx
          PROVE  /\ d.full.idx[x].rows \subseteq d.full.cols
                 /\ d.full.idx[x].seen = d.full.n => d.full.idx[x].rows = d.full.cols
      <4>1. d.full.idx[x].rows \subseteq d.full.cols
        BY <3>2, <3>3 DEF IndexedRows
      <4>2. d.full.cols \in SUBSET Facts(q) /\ d.full.idx[x].rows \in SUBSET Facts(q)
        BY <1>1 DEF IsVersion
      <4>3. /\ IsFiniteSet(d.full.cols) /\ Cardinality(d.full.cols) \in Nat
            /\ Cardinality(d.full.idx[x].rows) \in Nat
        BY <4>2, FactsAreFinite
      <4>4. /\ Cardinality(d.full.idx[x].rows) <= Cardinality(d.full.cols)
            /\ Cardinality(d.full.idx[x].rows) = Cardinality(d.full.cols) =>
                  d.full.idx[x].rows = d.full.cols
        BY <4>1, <4>3, FS_Subset
      <4>5. d.full.n = Cardinality(d.full.cols) /\ d.full.idx[x].seen <= Cardinality(d.full.idx[x].rows)
        BY <1>1, <2>1 DEF ColumnsRel, Counted
      <4> QED
        BY <4>1, <4>3, <4>4, <4>5
    <3>6. Clean(d.full)
      BY <3>5 DEF Clean
    <3>7. h.pending /\ q \in Idb => \A x \in Specs(q) : Rows(d.full, x) = d.full.cols
      <4> SUFFICES ASSUME h.pending, q \in Idb, NEW x \in Specs(q)
                   PROVE  Rows(d.full, x) = d.full.cols
        OBVIOUS
      <4>1. Kept(s, q) = Specs(q)
        BY <2>1, NeededParts
      <4> QED
        BY <3>2, <3>3, <4>1
    <3> QED
      BY <3>2, <3>3, <3>4, <3>6, <3>7 DEF SettledRel
  <2>2. CASE g.member /\ ~g.touched
    <3>1. SettledRel(q, d, s, g)
      BY <2>2 DEF RelInv
    <3>2. F = d.full.cols
      BY <2>2, <3>1, RequiredAreSpecs DEF FullOf, SettledRel
    <3> QED
      BY <2>2, <3>1, <3>2 DEF SettledRel
  <2>3. CASE ~g.member
    <3>1. SettledRel(q, d, s, g)
      BY <2>3 DEF RelInv
    <3>2. F = d.full.cols
      BY <2>3 DEF FullOf
    <3> QED
      BY <2>3, <3>1, <3>2 DEF SettledRel
  <2> QED
    BY <2>1, <2>2, <2>3
<1>3. FullOf(q, d, t, h) = d.full.cols
  <2>1. CASE h.member
    BY <1>2, <2>1, RequiredAreSpecs DEF FullOf, SettledRel
  <2>2. CASE ~h.member
    BY <2>2 DEF FullOf
  <2> QED
    BY <2>1, <2>2
<1>4. DeltaOf(q, d, t, h) = D
  BY DEF DeltaOf
<1> QED
  BY <1>1, <1>2, <1>3, <1>4 DEF RelInv

-----------------------------------------------------------------------------
(***************************************************************************)
(* The stages of a relation                                                *)
(***************************************************************************)

Agree(g, h) ==
    /\ g.member <=> h.member
    /\ g.touched <=> h.touched
    /\ g.comparing <=> h.comparing
    /\ g.moved <=> h.moved
    /\ g.pending <=> h.pending
    /\ g.prepared <=> h.prepared
    /\ g.rewritten <=> h.rewritten
    /\ g.merge = h.merge
    /\ g.copy = h.copy

LEMMA AgreeKeeps ==
    ASSUME NEW q, NEW d, NEW s, NEW facts, NEW g, NEW h, Agree(g, h), RelInv(q, d, s, g, facts)
    PROVE  /\ RelInv(q, d, s, h, facts)
           /\ FullOf(q, d, s, h) = FullOf(q, d, s, g)
           /\ DeltaOf(q, d, s, h) = DeltaOf(q, d, s, g)
<1>1. FullOf(q, d, s, h) = FullOf(q, d, s, g)
  BY DEF Agree, FullOf
<1>2. DeltaOf(q, d, s, h) = DeltaOf(q, d, s, g)
  BY <1>1 DEF Agree, DeltaOf
<1>3. TouchedRel(q, d, s, g) => TouchedRel(q, d, s, h)
  BY <1>1, <1>2 DEF Agree, TouchedRel
<1>4. SettledRel(q, d, s, g) => SettledRel(q, d, s, h)
  BY DEF Agree, SettledRel
<1>5. RelInv(q, d, s, h, facts)
  BY <1>3, <1>4 DEF Agree, RelInv
<1> QED
  BY <1>1, <1>2, <1>5

(* The fields of a stage.                                                  *)
LEMMA StageFields ==
    ASSUME NEW q, NEW ph, NEW s, NEW k, NEW C
    PROVE  LET g == StageOf(q, ph, s, k, C)
           IN  /\ g.member <=> ph # "idle" /\ q \in Members(s)
               /\ g.touched <=>
                     /\ ph # "idle" /\ q \in Maintained[s]
                     /\ \/ k > 0
                        \/ ph = "maintain" /\ \E b \in Blocks(s) : b.rel = q /\ ComparedIn(C, b)
               /\ g.comparing <=> ComparingIn(C, q)
               /\ g.moved <=> MovedIn(C, q)
               /\ g.pending <=> ph # "idle" /\ \E t \in Level : t >= s /\ q \in Members(t)
               /\ g.prepared <=> ph \notin {"idle", "prepare"}
               /\ g.rewritten <=> ph = "epilogue" /\ \E i \in Epilogue[s] \ C : i.rel = q
               /\ g.merge = DueIn(C, "MergeIndex", q)
               /\ g.copy = DueIn(C, "IndexFromIndex", q)
BY Zenon DEF StageOf

(* Between maintenance phases no index is due.                             *)
LEMMA NothingDue ==
    ASSUME NEW q, NEW C, \A i \in C : i.op = "Reconstruct"
    PROVE  /\ ~ComparingIn(C, q) /\ ~MovedIn(C, q)
           /\ DueIn(C, "MergeIndex", q) = {} /\ DueIn(C, "IndexFromIndex", q) = {}
           /\ \A b : ComparedIn(C, b)
<1>1. \A i \in C : i.op \notin {"ComputeDelta", "ClearNew", "MergeIndex", "IndexFromIndex"}
  OBVIOUS
<1>2. ~ComparingIn(C, q) /\ ~MovedIn(C, q) /\ \A b : ComparedIn(C, b)
  BY <1>1 DEF ComparingIn, MovedIn, ComparedIn
<1>3. ASSUME NEW spec
      PROVE  spec \notin DueIn(C, "MergeIndex", q) /\ spec \notin DueIn(C, "IndexFromIndex", q)
  BY <1>1 DEF DueIn
<1> QED
  BY <1>2, <1>3

(* The instructions of the epilogue.                                       *)
LEMMA EpilogueParts ==
    ASSUME IndexedSupported, NEW s \in Level
    PROVE  /\ \A i \in Epilogue[s] : /\ i.op = "Reconstruct" /\ i.rel \in Maintained[s]
                                     /\ i.spec = Canonical[s][i.rel]
           /\ \A q \in Maintained[s] : \E i \in Epilogue[s] : i.rel = q
<1> DEFINE BO == BlockOrder[s]
           First == {k \in DOMAIN BO : \A j \in 1 .. k - 1 : BO[j].rel # BO[k].rel}
<1>1. Epilogue[s] = {Instr(<<round, i>>, "Reconstruct", BO[i], Canonical[s][BO[i].rel]) :
                        round \in Rounds(s), i \in First}
  BY DEF Epilogue
<1>2. ASSUME NEW i \in Epilogue[s]
      PROVE  i.op = "Reconstruct" /\ i.rel \in Maintained[s] /\ i.spec = Canonical[s][i.rel]
  <2>1. PICK round \in Rounds(s), k \in First :
            i = Instr(<<round, k>>, "Reconstruct", BO[k], Canonical[s][BO[k].rel])
    BY <1>1
  <2>2. BO[k] \in Blocks(s) /\ Maintained[s] = {b.rel : b \in Blocks(s)}
    BY OrderOfBlocks
  <2>3. BO[k].rel \in Maintained[s]
    BY <2>2
  <2> QED
    BY <2>1, <2>3 DEF Instr
<1>3. ASSUME NEW q \in Maintained[s]
      PROVE  \E i \in Epilogue[s] : i.rel = q
  <2>1. Maintained[s] = {b.rel : b \in Blocks(s)}
    BY OrderOfBlocks
  <2>2. PICK b \in Blocks(s) : b.rel = q
    BY <2>1
  <2> DEFINE Of == {k \in DOMAIN BO : BO[k].rel = q}
  <2>3. Of \in SUBSET Nat /\ Of # {}
    BY <2>2, OrderOfBlocks
  <2>4. PICK k \in Of : \A j \in Of : k <= j
    <3> HIDE DEF Of
    <3>1. Min(Of) \in Of /\ \A j \in Of : Min(Of) <= j
      BY <2>3, MinOfNaturals
    <3> QED
      BY <3>1
  <2>5. DOMAIN BO = 1 .. Len(BO) /\ Len(BO) \in Nat /\ k \in Nat
    BY OrderOfBlocks
  <2>6. ASSUME NEW j \in 1 .. k - 1
        PROVE  BO[j].rel # BO[k].rel
    <3>1. j \in DOMAIN BO /\ ~(k <= j)
      BY <2>5
    <3> QED
      BY <2>4, <3>1
  <2>7. k \in First
    BY <2>6
  <2>8. 1 \in Rounds(s)
    BY DEF Rounds
  <2> DEFINE i == Instr(<<1, k>>, "Reconstruct", BO[k], Canonical[s][BO[k].rel])
  <2>9. i \in Epilogue[s]
    BY <1>1, <2>7, <2>8
  <2>10. i.rel = q
    BY DEF Instr
  <2> QED
    BY <2>9, <2>10
<1> QED
  BY <1>2, <1>3

(* The stage of q when the code goes on at step k of block n.              *)
LEMMA StageAtStep ==
    ASSUME IndexedSupported, NEW s \in Level, NEW n \in DOMAIN BlockOrder[s], NEW k \in Nat \ {0},
           NEW it \in Nat, NEW q
    PROVE  LET g == StageOf(q, "maintain", s, it, StepsFrom(s, n, k))
               p == BlockOrder[s][n].rel
               R == Required[s][p]
           IN  /\ g.member <=> q \in Members(s)
               /\ g.touched <=> /\ q \in Maintained[s]
                                /\ \/ it > 0
                                   \/ \E m \in DOMAIN BlockOrder[s] :
                                         BlockOrder[s][m].rel = q /\ (m < n \/ (m = n /\ k > 4))
               /\ g.comparing <=> q = p /\ k \in 2 .. 4
               /\ g.moved => q = p /\ k = 5
               /\ g.pending <=> \E t \in Level : t >= s /\ q \in Members(t)
               /\ g.prepared /\ ~g.rewritten
               /\ \A spec : spec \in g.merge <=>
                     /\ q = p /\ k > 4
                     /\ \E j \in DOMAIN R : R[j] = spec /\ Merges(s, p, spec) /\ 5 + 2 * j >= k
               /\ \A spec : spec \in g.copy <=>
                     /\ q = p /\ k > 4
                     /\ \E j \in DOMAIN R :
                           R[j] = spec /\ spec # Canonical[s][p] /\ 4 + 2 * j >= k
<1> DEFINE C == StepsFrom(s, n, k)
           BO == BlockOrder[s]
           g == StageOf(q, "maintain", s, it, C)
           p == BO[n].rel
           R == Required[s][p]
<1>1. /\ ComparingIn(C, q) <=> q = p /\ k \in 2 .. 4
      /\ MovedIn(C, q) => q = p /\ k = 5
      /\ \A m \in DOMAIN BO : ComparedIn(C, BO[m]) <=> m < n \/ (m = n /\ k > 4)
  BY PlaceInCode
<1>2. /\ \A spec : spec \in DueIn(C, "MergeIndex", q) <=>
            /\ q = p /\ k > 4
            /\ \E j \in DOMAIN R : R[j] = spec /\ Merges(s, p, spec) /\ 5 + 2 * j >= k
      /\ \A spec : spec \in DueIn(C, "IndexFromIndex", q) <=>
            /\ q = p /\ k > 4
            /\ \E j \in DOMAIN R : R[j] = spec /\ spec # Canonical[s][p] /\ 4 + 2 * j >= k
  BY PlaceInCode
<1> HIDE DEF C
<1>3. (\E b \in Blocks(s) : b.rel = q /\ ComparedIn(C, b)) <=>
          \E m \in DOMAIN BO : BO[m].rel = q /\ (m < n \/ (m = n /\ k > 4))
  <2>1. /\ \A m \in DOMAIN BO : BO[m] \in Blocks(s)
        /\ \A b \in Blocks(s) : \E m \in DOMAIN BO : BO[m] = b
    BY OrderOfBlocks
  <2> HIDE DEF BO
  <2> QED
    BY <1>1, <2>1
<1>4. "maintain" # "idle" /\ "maintain" # "epilogue" /\ "maintain" # "prepare"
  OBVIOUS
<1>5. /\ g.member <=> q \in Members(s)
      /\ g.touched <=> /\ q \in Maintained[s]
                       /\ \/ it > 0
                          \/ \E b \in Blocks(s) : b.rel = q /\ ComparedIn(C, b)
      /\ g.comparing <=> ComparingIn(C, q)
      /\ g.moved <=> MovedIn(C, q)
      /\ g.pending <=> \E t \in Level : t >= s /\ q \in Members(t)
      /\ g.prepared /\ ~g.rewritten
      /\ g.merge = DueIn(C, "MergeIndex", q)
      /\ g.copy = DueIn(C, "IndexFromIndex", q)
  BY <1>4, Zenon DEF StageOf
<1> HIDE DEF g, p, R, BO
<1>6. g.touched <=> /\ q \in Maintained[s]
                    /\ \/ it > 0
                       \/ \E m \in DOMAIN BO : BO[m].rel = q /\ (m < n \/ (m = n /\ k > 4))
  BY <1>3, <1>5
<1>7. /\ g.comparing <=> q = p /\ k \in 2 .. 4
      /\ g.moved => q = p /\ k = 5
  BY <1>1, <1>5
<1>8. /\ \A spec : spec \in g.merge <=>
            /\ q = p /\ k > 4
            /\ \E j \in DOMAIN R : R[j] = spec /\ Merges(s, p, spec) /\ 5 + 2 * j >= k
      /\ \A spec : spec \in g.copy <=>
            /\ q = p /\ k > 4
            /\ \E j \in DOMAIN R : R[j] = spec /\ spec # Canonical[s][p] /\ 4 + 2 * j >= k
  BY <1>2, <1>5
<1> QED
  BY <1>5, <1>6, <1>7, <1>8 DEF g, p, R, BO, C

(* Other relations stay at their stage.                                    *)
LEMMA StageElsewhere ==
    ASSUME IndexedSupported, NEW s \in Level, NEW n \in DOMAIN BlockOrder[s], NEW k \in Nat \ {0},
           NEW it \in Nat, NEW q, q # BlockOrder[s][n].rel
    PROVE  Agree(StageOf(q, "maintain", s, it, StepsFrom(s, n, k)),
                 StageOf(q, "maintain", s, it, StepsFrom(s, n, k + 1)))
<1> DEFINE g == StageOf(q, "maintain", s, it, StepsFrom(s, n, k))
           h == StageOf(q, "maintain", s, it, StepsFrom(s, n, k + 1))
           Touched == /\ q \in Maintained[s]
                      /\ \/ it > 0
                         \/ \E m \in DOMAIN BlockOrder[s] : BlockOrder[s][m].rel = q /\ m < n
           Pending == \E t \in Level : t >= s /\ q \in Members(t)
<1>1. /\ g.member <=> q \in Members(s)
      /\ g.touched <=> Touched
      /\ ~g.comparing /\ ~g.moved /\ g.prepared /\ ~g.rewritten
      /\ g.pending <=> Pending
      /\ \A spec : spec \notin g.merge /\ spec \notin g.copy
  BY StageAtStep
<1>2. k + 1 \in Nat \ {0}
  OBVIOUS
<1>3. /\ h.member <=> q \in Members(s)
      /\ h.touched <=> Touched
      /\ ~h.comparing /\ ~h.moved /\ h.prepared /\ ~h.rewritten
      /\ h.pending <=> Pending
      /\ \A spec : spec \notin h.merge /\ spec \notin h.copy
  BY <1>2, StageAtStep
<1>4. /\ g.merge = DueIn(StepsFrom(s, n, k), "MergeIndex", q)
      /\ g.copy = DueIn(StepsFrom(s, n, k), "IndexFromIndex", q)
      /\ h.merge = DueIn(StepsFrom(s, n, k + 1), "MergeIndex", q)
      /\ h.copy = DueIn(StepsFrom(s, n, k + 1), "IndexFromIndex", q)
  BY StageFields
<1> HIDE DEF g, h, Touched, Pending
<1>5. g.merge = h.merge /\ g.copy = h.copy
  <2>1. \A spec : spec \notin DueIn(StepsFrom(s, n, k), "MergeIndex", q)
                  /\ spec \notin DueIn(StepsFrom(s, n, k), "IndexFromIndex", q)
    BY <1>1, <1>4
  <2>2. \A spec : spec \notin DueIn(StepsFrom(s, n, k + 1), "MergeIndex", q)
                  /\ spec \notin DueIn(StepsFrom(s, n, k + 1), "IndexFromIndex", q)
    BY <1>3, <1>4
  <2>3. /\ DueIn(StepsFrom(s, n, k), "MergeIndex", q) = {}
        /\ DueIn(StepsFrom(s, n, k), "IndexFromIndex", q) = {}
        /\ DueIn(StepsFrom(s, n, k + 1), "MergeIndex", q) = {}
        /\ DueIn(StepsFrom(s, n, k + 1), "IndexFromIndex", q) = {}
    BY <2>1, <2>2
  <2> QED
    BY <1>4, <2>3
<1> QED
  BY <1>1, <1>3, <1>5 DEF Agree, g, h

(* The copy and the merge of the j-th index are at steps 4 + 2 j and       *)
(* 5 + 2 j.                                                                *)
LEMMA StepsInOrder ==
    ASSUME NEW j \in Nat, NEW l \in Nat, NEW k \in Nat
    PROVE  /\ k = 5 + 2 * j =>
                 /\ 5 + 2 * l >= k <=> l >= j
                 /\ 5 + 2 * l >= k + 1 <=> l >= j /\ l # j
                 /\ 4 + 2 * l >= k <=> l >= j /\ l # j
                 /\ 4 + 2 * l >= k + 1 <=> l >= j /\ l # j
           /\ k = 4 + 2 * j =>
                 /\ 5 + 2 * l >= k <=> l >= j
                 /\ 5 + 2 * l >= k + 1 <=> l >= j
                 /\ 4 + 2 * l >= k <=> l >= j
                 /\ 4 + 2 * l >= k + 1 <=> l >= j /\ l # j
OBVIOUS

(* The stage of the relation an instruction is for, before and after it.   *)
LEMMA StageMoves ==
    ASSUME IndexedSupported, NEW s \in Level, NEW n \in DOMAIN BlockOrder[s], NEW k \in Nat \ {0},
           NEW it \in Nat, NEW i, IsStep(s, n, k, i)
    PROVE  LET q == i.rel
               c == Canonical[s][q]
               g == StageOf(q, "maintain", s, it, StepsFrom(s, n, k))
               h == StageOf(q, "maintain", s, it, StepsFrom(s, n, k + 1))
           IN  /\ q \in Members(s) /\ q \in Relation
               /\ g.member /\ h.member /\ g.pending /\ h.pending
               /\ g.prepared /\ h.prepared /\ ~g.rewritten /\ ~h.rewritten
               /\ i.op = "RebuildNew" =>
                     /\ ~g.comparing /\ g.merge = {} /\ g.copy = {} /\ (h.touched <=> g.touched)
                     /\ h.comparing /\ ~h.moved /\ h.merge = {} /\ h.copy = {} /\ i.spec = c
               /\ i.op \in {"ClearDelta", "CheckSize"} => g.comparing /\ Agree(g, h) /\ i.spec = c
               /\ i.op = "ComputeDelta" =>
                     /\ g.comparing /\ h.touched /\ ~h.comparing /\ i.spec = c
                     /\ h.merge = Kept(s, q) /\ h.copy = Needed(s, q) \ {c}
               /\ i.op = "ClearNew" =>
                     /\ ~g.comparing /\ ~h.comparing /\ (h.touched <=> g.touched)
                     /\ h.merge = g.merge /\ h.copy = g.copy
               /\ i.op = "IndexFromIndex" =>
                     /\ ~g.comparing /\ ~g.moved /\ g.touched /\ c \notin g.copy /\ i.spec \in g.copy
                     /\ ~h.comparing /\ ~h.moved /\ h.touched
                     /\ h.merge = g.merge /\ h.copy = g.copy \ {i.spec}
               /\ i.op = "MergeIndex" =>
                     /\ ~g.comparing /\ ~g.moved /\ g.touched
                     /\ i.spec \in g.merge /\ i.spec \in Kept(s, q) /\ i.spec \notin g.copy
                     /\ ~h.comparing /\ ~h.moved /\ h.touched
                     /\ h.merge = g.merge \ {i.spec} /\ h.copy = g.copy
               /\ i.op # "Reconstruct"
<1> DEFINE q == i.rel
           c == Canonical[s][q]
           g == StageOf(q, "maintain", s, it, StepsFrom(s, n, k))
           h == StageOf(q, "maintain", s, it, StepsFrom(s, n, k + 1))
           R == Required[s][q]
           Touched(l) == /\ q \in Maintained[s]
                         /\ \/ it > 0
                            \/ \E m \in DOMAIN BlockOrder[s] :
                                  BlockOrder[s][m].rel = q /\ (m < n \/ (m = n /\ l > 4))
           Pending == \E t \in Level : t >= s /\ q \in Members(t)
<1>1. q = BlockOrder[s][n].rel
  BY DEF IsStep
<1>2. /\ q \in Members(s) /\ q \in Relation /\ q \in Maintained[s] /\ n \in Nat /\ Pending
  <2>1. /\ BlockOrder[s][n].rel \in Members(s) /\ BlockOrder[s][n].rel \in Relation /\ n \in Nat
        /\ BlockOrder[s][n] \in Blocks(s) /\ Maintained[s] = {b.rel : b \in Blocks(s)}
    BY OrderOfBlocks
  <2>2. s >= s
    BY LevelFacts
  <2> QED
    BY <1>1, <2>1, <2>2
<1>3. /\ R \in Seq(Nat) /\ \A j \in DOMAIN R : j \in Nat /\ j > 0
      /\ \A j, l \in DOMAIN R : R[j] = R[l] => j = l
      /\ \A x : x \in Needed(s, q) <=> \E j \in DOMAIN R : R[j] = x
  <2>1. R \in Seq(Nat) /\ \A j, l \in DOMAIN R : R[j] = R[l] => j = l
    BY <1>2, RequiredParts
  <2>2. Needed(s, q) = ToSet(R)
    BY DEF Needed
  <2> HIDE DEF R
  <2>3. \A j \in DOMAIN R : j \in Nat /\ j > 0
    BY <2>1
  <2>4. ToSet(R) = {R[j] : j \in DOMAIN R}
    BY DEF ToSet
  <2> QED
    BY <2>1, <2>2, <2>3, <2>4
<1>4. /\ g.member <=> q \in Members(s)
      /\ g.touched <=> Touched(k)
      /\ g.comparing <=> k \in 2 .. 4
      /\ g.moved => k = 5
      /\ g.pending <=> Pending
      /\ g.prepared /\ ~g.rewritten
      /\ \A spec : spec \in g.merge <=>
            k > 4 /\ \E j \in DOMAIN R : R[j] = spec /\ Merges(s, q, spec) /\ 5 + 2 * j >= k
      /\ \A spec : spec \in g.copy <=>
            k > 4 /\ \E j \in DOMAIN R : R[j] = spec /\ spec # c /\ 4 + 2 * j >= k
  BY <1>1, StageAtStep
<1>5. k + 1 \in Nat \ {0}
  OBVIOUS
<1>6. /\ h.member <=> q \in Members(s)
      /\ h.touched <=> Touched(k + 1)
      /\ h.comparing <=> (k + 1) \in 2 .. 4
      /\ h.moved => k + 1 = 5
      /\ h.pending <=> Pending
      /\ h.prepared /\ ~h.rewritten
      /\ \A spec : spec \in h.merge <=>
            k + 1 > 4 /\ \E j \in DOMAIN R : R[j] = spec /\ Merges(s, q, spec) /\ 5 + 2 * j >= k + 1
      /\ \A spec : spec \in h.copy <=>
            k + 1 > 4 /\ \E j \in DOMAIN R : R[j] = spec /\ spec # c /\ 4 + 2 * j >= k + 1
  BY <1>1, <1>5, StageAtStep
<1>7. /\ g.merge = DueIn(StepsFrom(s, n, k), "MergeIndex", q)
      /\ g.copy = DueIn(StepsFrom(s, n, k), "IndexFromIndex", q)
      /\ h.merge = DueIn(StepsFrom(s, n, k + 1), "MergeIndex", q)
      /\ h.copy = DueIn(StepsFrom(s, n, k + 1), "IndexFromIndex", q)
  BY StageFields
<1>8. k # 4 => (Touched(k) <=> Touched(k + 1))
  <2>1. k # 4 => (k > 4 <=> k + 1 > 4)
    OBVIOUS
  <2> QED
    BY <2>1
<1>9. k > 3 => Touched(k + 1) /\ (k > 4 => Touched(k))
  <2>1. k > 3 => k + 1 > 4
    BY SMTT(60)
  <2> QED
    BY <1>1, <1>2, <2>1
<1> HIDE DEF Touched, Pending, q, c, R, g, h
<1>10. \/ FirstSteps(k, i.op) /\ i.spec = c
       \/ /\ \E j \in DOMAIN R : k = 4 + 2 * j /\ i.spec = R[j]
          /\ i.op = "IndexFromIndex" /\ i.spec # c
       \/ /\ \E j \in DOMAIN R : k = 5 + 2 * j /\ i.spec = R[j]
          /\ i.op = "MergeIndex" /\ Merges(s, q, i.spec)
  BY DEF IsStep, q, c, R
<1>11. /\ g.member /\ h.member /\ g.pending /\ h.pending
       /\ g.prepared /\ h.prepared /\ ~g.rewritten /\ ~h.rewritten
  BY <1>2, <1>4, <1>6
<1>12. k < 5 => g.merge = {} /\ g.copy = {}
  BY <1>4
<1>13. k < 4 => h.merge = {} /\ h.copy = {}
  BY <1>6
<1>14. CASE k = 1 /\ i.op = "RebuildNew" /\ i.spec = c
  <2>1. (h.touched <=> g.touched) /\ ~g.comparing /\ h.comparing /\ ~h.moved
    BY <1>4, <1>6, <1>8, <1>14
  <2> QED
    BY <1>2, <1>11, <1>12, <1>13, <1>14, <2>1 DEF q, c, g, h
<1>15. CASE k \in {2, 3} /\ i.op \in {"ClearDelta", "CheckSize"} /\ i.spec = c
  <2>1. (h.touched <=> g.touched) /\ g.comparing /\ h.comparing /\ ~g.moved /\ ~h.moved
    BY <1>4, <1>6, <1>8, <1>15
  <2>2. Agree(g, h)
    BY <1>11, <1>12, <1>13, <1>15, <2>1 DEF Agree
  <2> QED
    BY <1>2, <1>11, <1>15, <2>1, <2>2 DEF q, c, g, h
<1>16. CASE k = 4 /\ i.op = "ComputeDelta" /\ i.spec = c
  <2>1. g.comparing /\ h.touched /\ ~h.comparing
    BY <1>4, <1>6, <1>9, <1>16
  <2>2. \A x : x \in h.merge <=> x \in Kept(s, q)
    BY <1>3, <1>6, <1>16 DEF Kept
  <2>3. \A x : x \in h.copy <=> x \in Needed(s, q) \ {c}
    BY <1>3, <1>6, <1>16
  <2>4. h.merge = Kept(s, q) /\ h.copy = Needed(s, q) \ {c}
    BY <2>2, <2>3
  <2> QED
    BY <1>2, <1>11, <1>16, <2>1, <2>4 DEF q, c, g, h
<1>17. CASE k = 5 /\ i.op = "ClearNew" /\ i.spec = c
  <2>1. (h.touched <=> g.touched) /\ ~g.comparing /\ ~h.comparing
    BY <1>4, <1>6, <1>8, <1>17
  <2>2. \A x : x \in h.merge <=> x \in g.merge
    BY <1>3, <1>4, <1>6, <1>17
  <2>3. \A x : x \in h.copy <=> x \in g.copy
    BY <1>3, <1>4, <1>6, <1>17
  <2>4. h.merge = g.merge /\ h.copy = g.copy
    BY <2>2, <2>3
  <2> QED
    BY <1>2, <1>11, <1>17, <2>1, <2>4 DEF q, c, g, h
<1>18. CASE /\ \E j \in DOMAIN R : k = 4 + 2 * j /\ i.spec = R[j]
            /\ i.op = "IndexFromIndex" /\ i.spec # c
  <2>1. PICK j \in DOMAIN R : k = 4 + 2 * j /\ i.spec = R[j]
    BY <1>18
  <2>2. j \in Nat /\ j > 0 /\ k > 5
    BY <1>3, <2>1
  <2>3. g.touched /\ h.touched /\ ~g.comparing /\ ~h.comparing /\ ~g.moved /\ ~h.moved
    BY <1>4, <1>6, <1>9, <2>2
  <2>9. \A l \in DOMAIN R : /\ 5 + 2 * l >= k <=> l >= j
                            /\ 5 + 2 * l >= k + 1 <=> l >= j
                            /\ 4 + 2 * l >= k <=> l >= j
                            /\ 4 + 2 * l >= k + 1 <=> l >= j /\ l # j
    <3> SUFFICES ASSUME NEW l \in Nat
                 PROVE  /\ 5 + 2 * l >= k <=> l >= j
                        /\ 5 + 2 * l >= k + 1 <=> l >= j
                        /\ 4 + 2 * l >= k <=> l >= j
                        /\ 4 + 2 * l >= k + 1 <=> l >= j /\ l # j
      BY <1>3
    <3>1. k = 4 + 2 * j /\ j \in Nat
      BY <2>1, <2>2
    <3> QED
      BY <3>1, StepsInOrder
  <2>10. k > 4 /\ k + 1 > 4 /\ j >= j
    BY <2>2
  <2>11. /\ \A x : x \in g.merge <=> \E l \in DOMAIN R : R[l] = x /\ Merges(s, q, x) /\ l >= j
         /\ \A x : x \in h.merge <=> \E l \in DOMAIN R : R[l] = x /\ Merges(s, q, x) /\ l >= j
         /\ \A x : x \in g.copy <=> \E l \in DOMAIN R : R[l] = x /\ x # c /\ l >= j
         /\ \A x : x \in h.copy <=> \E l \in DOMAIN R : R[l] = x /\ x # c /\ l >= j /\ l # j
    BY <1>4, <1>6, <2>9, <2>10
  <2>4. \A x : x \in h.merge <=> x \in g.merge
    BY <2>11
  <2>5. \A x : x \in h.copy <=> x \in g.copy /\ x # i.spec
    BY <1>3, <2>1, <2>11
  <2>6. h.merge = g.merge /\ h.copy = g.copy \ {i.spec}
    BY <2>4, <2>5
  <2>7. c \notin g.copy /\ i.spec \in g.copy
    BY <1>18, <2>1, <2>10, <2>11
  <2> QED
    BY <1>2, <1>11, <1>18, <2>3, <2>6, <2>7 DEF q, c, g, h
<1>19. CASE /\ \E j \in DOMAIN R : k = 5 + 2 * j /\ i.spec = R[j]
            /\ i.op = "MergeIndex" /\ Merges(s, q, i.spec)
  <2>1. PICK j \in DOMAIN R : k = 5 + 2 * j /\ i.spec = R[j]
    BY <1>19
  <2>2. j \in Nat /\ j > 0 /\ k > 5
    BY <1>3, <2>1
  <2>3. g.touched /\ h.touched /\ ~g.comparing /\ ~h.comparing /\ ~g.moved /\ ~h.moved
    BY <1>4, <1>6, <1>9, <2>2
  <2>9. \A l \in DOMAIN R : /\ 5 + 2 * l >= k <=> l >= j
                            /\ 5 + 2 * l >= k + 1 <=> l >= j /\ l # j
                            /\ 4 + 2 * l >= k <=> l >= j /\ l # j
                            /\ 4 + 2 * l >= k + 1 <=> l >= j /\ l # j
    <3> SUFFICES ASSUME NEW l \in Nat
                 PROVE  /\ 5 + 2 * l >= k <=> l >= j
                        /\ 5 + 2 * l >= k + 1 <=> l >= j /\ l # j
                        /\ 4 + 2 * l >= k <=> l >= j /\ l # j
                        /\ 4 + 2 * l >= k + 1 <=> l >= j /\ l # j
      BY <1>3
    <3>1. k = 5 + 2 * j /\ j \in Nat
      BY <2>1, <2>2
    <3> QED
      BY <3>1, StepsInOrder
  <2>10. k > 4 /\ k + 1 > 4 /\ j >= j
    BY <2>2
  <2>11. /\ \A x : x \in g.merge <=> \E l \in DOMAIN R : R[l] = x /\ Merges(s, q, x) /\ l >= j
         /\ \A x : x \in h.merge <=>
               \E l \in DOMAIN R : R[l] = x /\ Merges(s, q, x) /\ l >= j /\ l # j
         /\ \A x : x \in g.copy <=> \E l \in DOMAIN R : R[l] = x /\ x # c /\ l >= j /\ l # j
         /\ \A x : x \in h.copy <=> \E l \in DOMAIN R : R[l] = x /\ x # c /\ l >= j /\ l # j
    BY <1>4, <1>6, <2>9, <2>10
  <2>4. \A x : x \in h.merge <=> x \in g.merge /\ x # i.spec
    BY <1>3, <2>1, <2>11
  <2>5. \A x : x \in h.copy <=> x \in g.copy
    BY <2>11
  <2>6. h.merge = g.merge \ {i.spec} /\ h.copy = g.copy
    BY <2>4, <2>5
  <2>7. i.spec \in g.merge /\ i.spec \in Kept(s, q) /\ i.spec \notin g.copy
    <3>1. i.spec \in g.merge
      BY <1>4, <1>19, <2>1, <2>2
    <3>2. i.spec \in Kept(s, q)
      BY <1>3, <1>19, <2>1 DEF Kept
    <3>3. i.spec \notin g.copy
      BY <1>3, <1>4, <2>1, <2>2
    <3> QED
      BY <3>1, <3>2, <3>3
  <2> QED
    BY <1>2, <1>11, <1>19, <2>3, <2>6, <2>7 DEF q, c, g, h
<1> QED
  BY <1>10, <1>14, <1>15, <1>16, <1>17, <1>18, <1>19, Zenon DEF FirstSteps

-----------------------------------------------------------------------------
(***************************************************************************)
(* The instructions                                                        *)
(***************************************************************************)

(* What the invariant says while a run goes on.                            *)
LEMMA RunningParts ==
    ASSUME IndexedSupported, IInv, phase # "idle"
    PROVE  /\ Valid /\ PhaseInv /\ TypeInv /\ stratum \in Level /\ live /\ iter \in Nat
           /\ \A q \in Relation : /\ IsRelation(db[q], q)
                                  /\ RelInv(q, db[q], stratum, Stage(q), input)
<1>1. TypeInv /\ status = "running"
  BY DEF IInv, TypeInv
<1>2. Valid
  BY <1>1 DEF Valid
<1> QED
  BY <1>1, <1>2 DEF IInv, PhaseInv, TypeInv

(* A member of a stratum is a computed relation and pending.               *)
LEMMA MemberIsPending ==
    ASSUME NEW s \in Level, NEW q, NEW ph, ph # "idle", NEW k, NEW C
    PROVE  LET g == StageOf(q, ph, s, k, C)
           IN  g.member => g.pending /\ q \in Idb /\ q \in Members(s) /\ s \in Level
<1> DEFINE g == StageOf(q, ph, s, k, C)
<1>1. /\ g.member <=> ph # "idle" /\ q \in Members(s)
      /\ g.pending <=> ph # "idle" /\ \E t \in Level : t >= s /\ q \in Members(t)
  BY StageFields
<1> HIDE DEF g
<1>2. s >= s
  BY LevelFacts
<1> QED
  BY <1>1, <1>2 DEF Idb, g

(* An instruction that runs is the first of the code that is left.         *)
LEMMA InstructionStep ==
    ASSUME IndexedSupported, IInv, phase # "idle",
           NEW i \in code, \A j \in code : ~Earlier(j.at, i.at)
    PROVE  \/ /\ phase = "maintain"
              /\ \E n \in DOMAIN BlockOrder[stratum] : \E k \in Nat \ {0} :
                    /\ IsStep(stratum, n, k, i)
                    /\ code = StepsFrom(stratum, n, k) /\ code \ {i} = StepsFrom(stratum, n, k + 1)
           \/ phase = "epilogue" /\ i \in Epilogue[stratum] /\ code \subseteq Epilogue[stratum]
<1>1. PhaseInv /\ TypeInv /\ stratum \in Level
  BY RunningParts
<1>2. phase \in {"maintain", "epilogue"}
  BY <1>1 DEF PhaseInv, TypeInv
<1>3. CASE phase = "maintain"
  <2>1. /\ code \in SUBSET MaintenanceCode[stratum]
        /\ \A x \in code : \A y \in MaintenanceCode[stratum] : Earlier(x.at, y.at) => y \in code
    BY <1>1, <1>3 DEF PhaseInv
  <2> QED
    BY <1>1, <1>3, <2>1, CodeFromFirst
<1>4. CASE phase = "epilogue"
  BY <1>1, <1>4 DEF PhaseInv
<1> QED
  BY <1>2, <1>3, <1>4

(* An instruction changes one relation; the others stay at their stage.    *)
LEMMA InstructionFrame ==
    ASSUME IndexedSupported, IInv, phase # "idle",
           NEW i \in code, \A j \in code : ~Earlier(j.at, i.at),
           NEW r, Become(i, r), IsRelation(r, i.rel),
           RelInv(i.rel, r, stratum, StageOf(i.rel, phase, stratum, iter, code \ {i}), input),
           phase = "epilogue" => r.delta = db[i.rel].delta
    PROVE  /\ IInv'
           /\ db'[i.rel] = r /\ i.rel \in Relation
           /\ \A q \in Relation : q # i.rel =>
                 SameTuples(q, stratum, db[q], Stage(q), db'[q], Stage(q)')
<1>1. /\ Valid /\ PhaseInv /\ TypeInv /\ stratum \in Level /\ live /\ iter \in Nat
      /\ \A q \in Relation : /\ IsRelation(db[q], q)
                             /\ RelInv(q, db[q], stratum, Stage(q), input)
  BY RunningParts
<1>2. /\ db' = [db EXCEPT ![i.rel] = r] /\ code' = code \ {i}
      /\ phase' = phase /\ stratum' = stratum /\ iter' = iter /\ pipelines' = pipelines
      /\ exact' = exact /\ open' = open /\ host' = host /\ live' = live /\ maxIter' = maxIter
      /\ status' = status /\ input' = input
  BY DEF Become, caller
<1>3. \/ /\ phase = "maintain"
         /\ \E n \in DOMAIN BlockOrder[stratum] : \E k \in Nat \ {0} :
               /\ IsStep(stratum, n, k, i)
               /\ code = StepsFrom(stratum, n, k) /\ code \ {i} = StepsFrom(stratum, n, k + 1)
      \/ phase = "epilogue" /\ i \in Epilogue[stratum] /\ code \subseteq Epilogue[stratum]
  BY InstructionStep
<1>4. i.rel \in Relation /\ DOMAIN db = Relation
  <2>1. CASE phase = "maintain"
    <3>1. PICK n \in DOMAIN BlockOrder[stratum], k \in Nat \ {0} : IsStep(stratum, n, k, i)
      BY <1>3, <2>1, Zenon
    <3>2. i.rel = BlockOrder[stratum][n].rel
      BY <3>1 DEF IsStep
    <3> QED
      BY <1>1, <3>2, OrderOfBlocks DEF TypeInv
  <2>2. CASE phase = "epilogue"
    <3>1. i \in Epilogue[stratum]
      BY <1>3, <2>2
    <3>2. i.rel \in Maintained[stratum]
      BY <1>1, <3>1, EpilogueParts
    <3>3. Maintained[stratum] = {b.rel : b \in Blocks(stratum)}
      BY <1>1, OrderOfBlocks
    <3>4. PICK b \in Blocks(stratum) : b.rel = i.rel
      BY <3>2, <3>3
    <3>5. PICK n \in DOMAIN BlockOrder[stratum] : BlockOrder[stratum][n] = b
      BY <1>1, OrderOfBlocks
    <3> QED
      BY <1>1, <3>4, <3>5, OrderOfBlocks DEF TypeInv
  <2> QED
    BY <1>3, <2>1, <2>2
<1>5. /\ db'[i.rel] = r /\ DOMAIN db' = Relation
      /\ \A q \in Relation : q # i.rel => db'[q] = db[q]
  BY <1>2, <1>4
<1>6. ASSUME NEW q \in Relation, q # i.rel
      PROVE  Agree(Stage(q), StageOf(q, phase, stratum, iter, code \ {i}))
  <2>1. CASE phase = "maintain"
    <3>1. PICK n \in DOMAIN BlockOrder[stratum], k \in Nat \ {0} :
              /\ IsStep(stratum, n, k, i)
              /\ code = StepsFrom(stratum, n, k) /\ code \ {i} = StepsFrom(stratum, n, k + 1)
      BY <1>3, <2>1
    <3>2. q # BlockOrder[stratum][n].rel
      BY <1>6, <3>1 DEF IsStep
    <3>3. Agree(StageOf(q, "maintain", stratum, iter, StepsFrom(stratum, n, k)),
                StageOf(q, "maintain", stratum, iter, StepsFrom(stratum, n, k + 1)))
      BY <1>1, <3>2, StageElsewhere
    <3> QED
      BY <2>1, <3>1, <3>3 DEF Stage
  <2>2. CASE phase = "epilogue"
    <3> DEFINE C == code \ {i}
               g == StageOf(q, phase, stratum, iter, code)
               h == StageOf(q, phase, stratum, iter, C)
    <3>1. \A j \in code : j.op = "Reconstruct"
      BY <1>1, <1>3, <2>2, EpilogueParts
    <3>2. /\ ~ComparingIn(code, q) /\ ~MovedIn(code, q)
          /\ DueIn(code, "MergeIndex", q) = {} /\ DueIn(code, "IndexFromIndex", q) = {}
          /\ \A b : ComparedIn(code, b)
      BY <3>1, NothingDue
    <3>3. \A j \in C : j.op = "Reconstruct"
      BY <3>1
    <3> HIDE DEF C
    <3>4. /\ ~ComparingIn(C, q) /\ ~MovedIn(C, q)
          /\ DueIn(C, "MergeIndex", q) = {} /\ DueIn(C, "IndexFromIndex", q) = {}
          /\ \A b : ComparedIn(C, b)
      BY <3>3, NothingDue
    <3>5. (\E j \in Epilogue[stratum] \ code : j.rel = q) <=> (\E j \in Epilogue[stratum] \ C : j.rel = q)
      BY <1>6 DEF C
    <3>6. /\ g.member <=> phase # "idle" /\ q \in Members(stratum)
          /\ g.touched <=>
                /\ phase # "idle" /\ q \in Maintained[stratum]
                /\ \/ iter > 0
                   \/ phase = "maintain" /\ \E b \in Blocks(stratum) : b.rel = q /\ ComparedIn(code, b)
          /\ g.comparing <=> ComparingIn(code, q)
          /\ g.moved <=> MovedIn(code, q)
          /\ g.pending <=> phase # "idle" /\ \E t \in Level : t >= stratum /\ q \in Members(t)
          /\ g.prepared <=> phase \notin {"idle", "prepare"}
          /\ g.rewritten <=> phase = "epilogue" /\ \E j \in Epilogue[stratum] \ code : j.rel = q
          /\ g.merge = DueIn(code, "MergeIndex", q)
          /\ g.copy = DueIn(code, "IndexFromIndex", q)
      BY StageFields
    <3>7. /\ h.member <=> phase # "idle" /\ q \in Members(stratum)
          /\ h.touched <=>
                /\ phase # "idle" /\ q \in Maintained[stratum]
                /\ \/ iter > 0
                   \/ phase = "maintain" /\ \E b \in Blocks(stratum) : b.rel = q /\ ComparedIn(C, b)
          /\ h.comparing <=> ComparingIn(C, q)
          /\ h.moved <=> MovedIn(C, q)
          /\ h.pending <=> phase # "idle" /\ \E t \in Level : t >= stratum /\ q \in Members(t)
          /\ h.prepared <=> phase \notin {"idle", "prepare"}
          /\ h.rewritten <=> phase = "epilogue" /\ \E j \in Epilogue[stratum] \ C : j.rel = q
          /\ h.merge = DueIn(C, "MergeIndex", q)
          /\ h.copy = DueIn(C, "IndexFromIndex", q)
      BY StageFields
    <3> HIDE DEF g, h
    <3>8. Agree(g, h)
      BY <2>2, <3>2, <3>4, <3>5, <3>6, <3>7 DEF Agree
    <3> QED
      BY <3>8 DEF g, h, C, Stage
  <2> QED
    BY <1>3, <2>1, <2>2
<1>7. ASSUME NEW q \in Relation, q # i.rel
      PROVE  /\ RelInv(q, db'[q], stratum, Stage(q)', input)
             /\ SameTuples(q, stratum, db[q], Stage(q), db'[q], Stage(q)')
  <2> DEFINE h == StageOf(q, phase, stratum, iter, code \ {i})
  <2>1. Stage(q)' = h
    BY <1>2 DEF Stage
  <2>2. Agree(Stage(q), h) /\ RelInv(q, db[q], stratum, Stage(q), input) /\ db'[q] = db[q]
    BY <1>1, <1>5, <1>6, <1>7
  <2> HIDE DEF h
  <2>3. /\ RelInv(q, db[q], stratum, h, input)
        /\ FullOf(q, db[q], stratum, h) = FullOf(q, db[q], stratum, Stage(q))
        /\ DeltaOf(q, db[q], stratum, h) = DeltaOf(q, db[q], stratum, Stage(q))
    BY <2>2, AgreeKeeps
  <2> QED
    BY <2>1, <2>2, <2>3 DEF SameTuples
<1>8. \A q \in Relation : IsRelation(db'[q], q) /\ RelInv(q, db'[q], stratum, Stage(q)', input)
  <2>1. Stage(i.rel)' = StageOf(i.rel, phase, stratum, iter, code \ {i})
    BY <1>2 DEF Stage
  <2> QED
    BY <1>1, <1>5, <1>7, <2>1
<1>9. TypeInv'
  BY <1>1, <1>2, <1>5, <1>8 DEF TypeInv
<1>10. PhaseInv'
  <2>1. CASE phase = "maintain"
    <3>1. /\ code \subseteq MaintenanceCode[stratum]
          /\ \A x \in code : \A y \in MaintenanceCode[stratum] : Earlier(x.at, y.at) => y \in code
      BY <1>1, <2>1 DEF PhaseInv
    <3>2. /\ code' \subseteq MaintenanceCode[stratum]
          /\ \A x \in code' : \A y \in MaintenanceCode[stratum] : Earlier(x.at, y.at) => y \in code'
      BY <1>2, <3>1
    <3> QED
      BY <1>1, <1>2, <2>1, <3>2 DEF PhaseInv
  <2>2. CASE phase = "epilogue"
    <3>1. \A q \in Relation : db'[q].delta = db[q].delta
      BY <1>5, <2>2
    <3>2. Members(stratum) \subseteq Relation
      BY <1>1, StratumParts
    <3>3. DeltaEmpty' <=> DeltaEmpty
      BY <1>2, <3>1, <3>2 DEF DeltaEmpty
    <3> QED
      BY <1>1, <1>2, <2>2, <3>3 DEF PhaseInv
  <2> QED
    BY <1>3, <2>1, <2>2
<1>11. IInv'
  BY <1>2, <1>8, <1>9, <1>10 DEF IInv
<1> QED
  BY <1>4, <1>5, <1>7, <1>11

(* The stage of the relation of an instruction of the maintenance code.    *)
After(i) == StageOf(i.rel, phase, stratum, iter, code \ {i})

LEMMA MaintenanceStep ==
    ASSUME IndexedSupported, IInv, phase # "idle",
           NEW i \in code, \A j \in code : ~Earlier(j.at, i.at), i.op # "Reconstruct"
    PROVE  LET q == i.rel
               c == Canonical[stratum][q]
               g == Stage(q)
               h == After(i)
           IN  /\ phase = "maintain" /\ stratum \in Level /\ q \in Relation /\ q \in Idb
               /\ IsRelation(db[q], q) /\ RelInv(q, db[q], stratum, g, input)
               /\ g.member /\ h.member /\ g.pending /\ h.pending
               /\ g.prepared /\ h.prepared /\ ~g.rewritten /\ ~h.rewritten
               /\ i.op = "RebuildNew" =>
                     /\ ~g.comparing /\ g.merge = {} /\ g.copy = {} /\ (h.touched <=> g.touched)
                     /\ h.comparing /\ ~h.moved /\ h.merge = {} /\ h.copy = {} /\ i.spec = c
               /\ i.op \in {"ClearDelta", "CheckSize"} => g.comparing /\ Agree(g, h) /\ i.spec = c
               /\ i.op = "ComputeDelta" =>
                     /\ g.comparing /\ h.touched /\ ~h.comparing /\ i.spec = c
                     /\ h.merge = Kept(stratum, q) /\ h.copy = Needed(stratum, q) \ {c}
               /\ i.op = "ClearNew" =>
                     /\ ~g.comparing /\ ~h.comparing /\ (h.touched <=> g.touched)
                     /\ h.merge = g.merge /\ h.copy = g.copy /\ g.moved
               /\ i.op = "IndexFromIndex" =>
                     /\ ~g.comparing /\ ~g.moved /\ g.touched /\ c \notin g.copy /\ i.spec \in g.copy
                     /\ ~h.comparing /\ ~h.moved /\ h.touched
                     /\ h.merge = g.merge /\ h.copy = g.copy \ {i.spec}
               /\ i.op = "MergeIndex" =>
                     /\ ~g.comparing /\ ~g.moved /\ g.touched
                     /\ i.spec \in g.merge /\ i.spec \in Kept(stratum, q) /\ i.spec \notin g.copy
                     /\ ~h.comparing /\ ~h.moved /\ h.touched
                     /\ h.merge = g.merge \ {i.spec} /\ h.copy = g.copy
<1> DEFINE q == i.rel
           c == Canonical[stratum][q]
           g == Stage(q)
           h == After(i)
<1>1. /\ stratum \in Level /\ iter \in Nat
      /\ \A p \in Relation : /\ IsRelation(db[p], p)
                             /\ RelInv(p, db[p], stratum, Stage(p), input)
  BY RunningParts
<1>2. phase = "maintain" /\ \E n \in DOMAIN BlockOrder[stratum] : \E k \in Nat \ {0} :
          /\ IsStep(stratum, n, k, i)
          /\ code = StepsFrom(stratum, n, k) /\ code \ {i} = StepsFrom(stratum, n, k + 1)
  BY <1>1, InstructionStep, EpilogueParts
<1>3. PICK n \in DOMAIN BlockOrder[stratum], k \in Nat \ {0} :
          /\ IsStep(stratum, n, k, i)
          /\ code = StepsFrom(stratum, n, k) /\ code \ {i} = StepsFrom(stratum, n, k + 1)
  BY <1>2
<1>4. /\ g = StageOf(q, "maintain", stratum, iter, StepsFrom(stratum, n, k))
      /\ h = StageOf(q, "maintain", stratum, iter, StepsFrom(stratum, n, k + 1))
  BY <1>2, <1>3 DEF Stage, After
<1> HIDE DEF g, h
<1>5. /\ q \in Members(stratum) /\ q \in Relation
      /\ g.member /\ h.member /\ g.pending /\ h.pending
      /\ g.prepared /\ h.prepared /\ ~g.rewritten /\ ~h.rewritten
      /\ i.op = "RebuildNew" =>
            /\ ~g.comparing /\ g.merge = {} /\ g.copy = {} /\ (h.touched <=> g.touched)
            /\ h.comparing /\ ~h.moved /\ h.merge = {} /\ h.copy = {} /\ i.spec = c
      /\ i.op \in {"ClearDelta", "CheckSize"} => g.comparing /\ Agree(g, h) /\ i.spec = c
      /\ i.op = "ComputeDelta" =>
            /\ g.comparing /\ h.touched /\ ~h.comparing /\ i.spec = c
            /\ h.merge = Kept(stratum, q) /\ h.copy = Needed(stratum, q) \ {c}
      /\ i.op = "ClearNew" =>
            /\ ~g.comparing /\ ~h.comparing /\ (h.touched <=> g.touched)
            /\ h.merge = g.merge /\ h.copy = g.copy
      /\ i.op = "IndexFromIndex" =>
            /\ ~g.comparing /\ ~g.moved /\ g.touched /\ c \notin g.copy /\ i.spec \in g.copy
            /\ ~h.comparing /\ ~h.moved /\ h.touched
            /\ h.merge = g.merge /\ h.copy = g.copy \ {i.spec}
      /\ i.op = "MergeIndex" =>
            /\ ~g.comparing /\ ~g.moved /\ g.touched
            /\ i.spec \in g.merge /\ i.spec \in Kept(stratum, q) /\ i.spec \notin g.copy
            /\ ~h.comparing /\ ~h.moved /\ h.touched
            /\ h.merge = g.merge \ {i.spec} /\ h.copy = g.copy
      /\ i.op # "Reconstruct"
  <2> DEFINE G == StageOf(q, "maintain", stratum, iter, StepsFrom(stratum, n, k))
             H == StageOf(q, "maintain", stratum, iter, StepsFrom(stratum, n, k + 1))
  <2>1. /\ q \in Members(stratum) /\ q \in Relation
        /\ G.member /\ H.member /\ G.pending /\ H.pending
        /\ G.prepared /\ H.prepared /\ ~G.rewritten /\ ~H.rewritten
        /\ i.op = "RebuildNew" =>
              /\ ~G.comparing /\ G.merge = {} /\ G.copy = {} /\ (H.touched <=> G.touched)
              /\ H.comparing /\ ~H.moved /\ H.merge = {} /\ H.copy = {} /\ i.spec = c
        /\ i.op \in {"ClearDelta", "CheckSize"} => G.comparing /\ Agree(G, H) /\ i.spec = c
        /\ i.op = "ComputeDelta" =>
              /\ G.comparing /\ H.touched /\ ~H.comparing /\ i.spec = c
              /\ H.merge = Kept(stratum, q) /\ H.copy = Needed(stratum, q) \ {c}
        /\ i.op = "ClearNew" =>
              /\ ~G.comparing /\ ~H.comparing /\ (H.touched <=> G.touched)
              /\ H.merge = G.merge /\ H.copy = G.copy
        /\ i.op = "IndexFromIndex" =>
              /\ ~G.comparing /\ ~G.moved /\ G.touched /\ c \notin G.copy /\ i.spec \in G.copy
              /\ ~H.comparing /\ ~H.moved /\ H.touched
              /\ H.merge = G.merge /\ H.copy = G.copy \ {i.spec}
        /\ i.op = "MergeIndex" =>
              /\ ~G.comparing /\ ~G.moved /\ G.touched
              /\ i.spec \in G.merge /\ i.spec \in Kept(stratum, q) /\ i.spec \notin G.copy
              /\ ~H.comparing /\ ~H.moved /\ H.touched
              /\ H.merge = G.merge \ {i.spec} /\ H.copy = G.copy
        /\ i.op # "Reconstruct"
    BY <1>1, <1>3, StageMoves
  <2>2. g = G /\ h = H
    BY <1>4
  <2> HIDE DEF G, H, q, c
  <2> QED
    BY <2>1, <2>2
<1>6. i.op = "ClearNew" => g.moved
  <2> SUFFICES ASSUME i.op = "ClearNew"
               PROVE  g.moved
    OBVIOUS
  <2>1. ComparedIn(code, i.block)
    <3>1. i.block = BlockOrder[stratum][n] /\ k = 5
      BY <1>3 DEF IsStep, FirstSteps
    <3>2. ComparedIn(StepsFrom(stratum, n, k), BlockOrder[stratum][n]) <=> n < n \/ (n = n /\ k > 4)
      BY <1>1, PlaceInCode
    <3> QED
      BY <1>3, <3>1, <3>2
  <2>2. MovedIn(code, q)
    BY <2>1 DEF MovedIn
  <2>3. g.moved <=> MovedIn(code, q)
    BY StageFields DEF g, Stage
  <2> QED
    BY <2>2, <2>3
<1>7. q \in Idb
  BY <1>1, <1>5 DEF Idb
<1> QED
  BY <1>1, <1>2, <1>5, <1>6, <1>7 DEF g, h

(* RebuildNew moves the rows of NEW; the other instructions move nothing.  *)
MovesNew(i) ==
    \A q \in Relation :
        IF q = i.rel THEN NewMoved(q, stratum, db[q], Stage(q), db'[q], Stage(q)')
        ELSE SameTuples(q, stratum, db[q], Stage(q), db'[q], Stage(q)')

MovesNothing ==
    \A q \in Relation : SameTuples(q, stratum, db[q], Stage(q), db'[q], Stage(q)')

LEMMA AfterIsNext ==
    ASSUME NEW i, NEW r, Become(i, r)
    PROVE  Stage(i.rel)' = After(i)
BY DEF Become, caller, Stage, After

(* All that is to show of an instruction.                                  *)
LEMMA InstructionMovesNothing ==
    ASSUME IndexedSupported, IInv, phase # "idle",
           NEW i \in code, \A j \in code : ~Earlier(j.at, i.at),
           NEW r, Become(i, r), IsRelation(r, i.rel),
           RelInv(i.rel, r, stratum, After(i), input),
           phase = "epilogue" => r.delta = db[i.rel].delta,
           SameTuples(i.rel, stratum, db[i.rel], Stage(i.rel), r, After(i))
    PROVE  IInv' /\ MovesNothing
<1>1. /\ IInv' /\ db'[i.rel] = r
      /\ \A q \in Relation : q # i.rel =>
            SameTuples(q, stratum, db[q], Stage(q), db'[q], Stage(q)')
  BY InstructionFrame DEF After
<1>2. Stage(i.rel)' = After(i)
  BY AfterIsNext
<1> QED
  BY <1>1, <1>2 DEF MovesNothing

LEMMA RebuildNewKeeps ==
    ASSUME IndexedSupported, IInv, phase # "idle", NEW i \in code, RebuildNew(i)
    PROVE  IInv' /\ MovesNew(i)
<1> DEFINE q == i.rel
           d == db[q]
           r == [d EXCEPT !.new = TakeOwnership(@, Canonical[stratum][q])]
           g == Stage(q)
           h == After(i)
<1>1. i.op = "RebuildNew" /\ \A j \in code : ~Earlier(j.at, i.at)
  BY DEF RebuildNew, Due
<1>2. /\ phase = "maintain" /\ stratum \in Level /\ q \in Relation /\ q \in Idb
      /\ IsRelation(d, q) /\ RelInv(q, d, stratum, g, input)
      /\ g.member /\ h.member /\ g.pending /\ h.pending
      /\ g.prepared /\ h.prepared /\ ~g.rewritten /\ ~h.rewritten
      /\ ~g.comparing /\ g.merge = {} /\ g.copy = {} /\ (h.touched <=> g.touched)
      /\ h.comparing /\ ~h.moved /\ h.merge = {} /\ h.copy = {} /\ i.spec = Canonical[stratum][q]
  BY <1>1, MaintenanceStep
<1>3. Become(i, r)
  BY <1>2 DEF RebuildNew
<1> HIDE DEF g, h, d
<1>4. /\ IsRelation(r, q) /\ RelInv(q, r, stratum, h, input)
      /\ NewMoved(q, stratum, d, g, r, h)
  BY <1>2, RebuildKeeps
<1> HIDE DEF r
<1>5. /\ IInv' /\ db'[q] = r
      /\ \A p \in Relation : p # q =>
            SameTuples(p, stratum, db[p], Stage(p), db'[p], Stage(p)')
  BY <1>1, <1>2, <1>3, <1>4, InstructionFrame DEF h, After
<1>6. Stage(q)' = h
  BY <1>3, AfterIsNext DEF h
<1> QED
  BY <1>4, <1>5, <1>6 DEF MovesNew, d, g

LEMMA ClearDeltaStep ==
    ASSUME IndexedSupported, IInv, phase # "idle", NEW i \in code, ClearDelta(i)
    PROVE  IInv' /\ MovesNothing
<1> DEFINE q == i.rel
           d == db[q]
           r == [d EXCEPT !.delta = Clear(@)]
           g == Stage(q)
           h == After(i)
<1>1. i.op = "ClearDelta" /\ (\A j \in code : ~Earlier(j.at, i.at)) /\ Become(i, r)
  BY DEF ClearDelta, Due
<1>2. /\ phase = "maintain" /\ stratum \in Level /\ q \in Relation
      /\ IsRelation(d, q) /\ RelInv(q, d, stratum, g, input)
      /\ g.member /\ g.comparing /\ Agree(g, h)
  BY <1>1, MaintenanceStep
<1> HIDE DEF g, h, d
<1>3. /\ IsRelation(r, q) /\ RelInv(q, r, stratum, g, input)
      /\ SameTuples(q, stratum, d, g, r, g)
  BY <1>2, ClearDeltaKeeps
<1> HIDE DEF r
<1>4. /\ RelInv(q, r, stratum, h, input)
      /\ FullOf(q, r, stratum, h) = FullOf(q, r, stratum, g)
      /\ DeltaOf(q, r, stratum, h) = DeltaOf(q, r, stratum, g)
  BY <1>2, <1>3, AgreeKeeps
<1>5. SameTuples(q, stratum, d, g, r, h)
  BY <1>3, <1>4 DEF SameTuples
<1> QED
  BY <1>1, <1>2, <1>3, <1>4, <1>5, InstructionMovesNothing DEF g, h, d

LEMMA CheckSizeStep ==
    ASSUME IndexedSupported, IInv, phase # "idle", NEW i \in code, CheckSize(i)
    PROVE  IInv' /\ MovesNothing
<1> DEFINE q == i.rel
           d == db[q]
           r == [d EXCEPT !.new = EnsureIndex(@, i.spec, TRUE)]
           g == Stage(q)
           h == After(i)
<1>1. i.op = "CheckSize" /\ (\A j \in code : ~Earlier(j.at, i.at)) /\ Become(i, r)
  BY Zenon DEF CheckSize, Due
<1>2. /\ phase = "maintain" /\ stratum \in Level /\ q \in Relation
      /\ IsRelation(d, q) /\ RelInv(q, d, stratum, g, input)
      /\ g.comparing /\ Agree(g, h) /\ i.spec = Canonical[stratum][q]
  BY <1>1, MaintenanceStep
<1> HIDE DEF g, h, d
<1>3. r = d
  <2> DEFINE e == EnsureIndex(d.new, i.spec, TRUE)
  <2>1. r = [d EXCEPT !.new = e]
    OBVIOUS
  <2>2. d = [full |-> d.full, delta |-> d.delta, new |-> d.new]
    BY <1>2 DEF IsRelation
  <2>3. e = EnsureIndex(d.new, Canonical[stratum][q], TRUE)
    BY <1>2, Zenon
  <2> HIDE DEF e, r
  <2>4. r.full = d.full /\ r.delta = d.delta /\ r.new = e
        /\ r = [full |-> r.full, delta |-> r.delta, new |-> r.new]
    BY <2>1, <2>2
  <2>5. r.new = EnsureIndex(d.new, Canonical[stratum][q], TRUE)
    BY <2>3, <2>4, Zenon
  <2> QED
    BY <1>2, <2>4, <2>5, CheckSizeKeeps
<1> HIDE DEF r
<1>4. /\ RelInv(q, r, stratum, h, input)
      /\ FullOf(q, r, stratum, h) = FullOf(q, d, stratum, g)
      /\ DeltaOf(q, r, stratum, h) = DeltaOf(q, d, stratum, g)
  BY <1>2, <1>3, AgreeKeeps
<1>5. SameTuples(q, stratum, d, g, r, h) /\ IsRelation(r, q)
  BY <1>2, <1>3, <1>4 DEF SameTuples
<1> QED
  BY <1>1, <1>2, <1>3, <1>4, <1>5, InstructionMovesNothing DEF g, h, d

LEMMA ComputeDeltaStep ==
    ASSUME IndexedSupported, IInv, phase # "idle", NEW i \in code, ComputeDelta(i)
    PROVE  IInv' /\ MovesNothing
<1> DEFINE q == i.rel
           d == db[q]
           c == Canonical[stratum][q]
           full == Registered(d.full, c)
           diff == SetDifference(d.new.idx[c], full.idx[c])
           r == [full |-> full, delta |-> Put(Clear(d.delta), c, diff), new |-> Clear(d.new)]
           g == Stage(q)
           h == After(i)
<1>1. i.op = "ComputeDelta" /\ (\A j \in code : ~Earlier(j.at, i.at))
  BY DEF ComputeDelta, Due
<1>2. /\ phase = "maintain" /\ stratum \in Level /\ q \in Relation /\ q \in Idb
      /\ IsRelation(d, q) /\ RelInv(q, d, stratum, g, input)
      /\ g.member /\ h.member /\ g.pending /\ ~g.rewritten /\ ~h.rewritten
      /\ g.comparing /\ h.touched /\ ~h.comparing /\ i.spec = c
      /\ h.merge = Kept(stratum, q) /\ h.copy = Needed(stratum, q) \ {c}
  BY <1>1, MaintenanceStep, Zenon
<1>3. Become(i, r)
  BY <1>2 DEF ComputeDelta
<1> HIDE DEF g, h, d
<1>4. /\ r.full = full /\ r.delta = Put(Clear(d.delta), c, diff) /\ r.new = Clear(d.new)
      /\ r = [full |-> r.full, delta |-> r.delta, new |-> r.new]
  <2> DEFINE x == full
             y == Put(Clear(d.delta), c, diff)
             z == Clear(d.new)
  <2>1. r = [full |-> x, delta |-> y, new |-> z]
    OBVIOUS
  <2> HIDE DEF x, y, z, r
  <2>2. r.full = x /\ r.delta = y /\ r.new = z /\ r = [full |-> r.full, delta |-> r.delta, new |-> r.new]
    BY <2>1
  <2> QED
    BY <2>2 DEF x, y, z
<1> HIDE DEF r
<1>5. IsRelation(r, q) /\ RelInv(q, r, stratum, h, input) /\ SameTuples(q, stratum, d, g, r, h)
  <2> HIDE DEF full, diff, c, q
  <2>1. full = Registered(d.full, c) /\ diff = SetDifference(d.new.idx[c], full.idx[c])
    BY DEF full, diff
  <2>2. c = Canonical[stratum][q]
    BY DEF c
  <2> QED
    BY <1>2, <1>4, <2>1, <2>2, ComputeKeeps
<1> QED
  BY <1>1, <1>2, <1>3, <1>5, InstructionMovesNothing DEF g, h, d

LEMMA ClearNewStep ==
    ASSUME IndexedSupported, IInv, phase # "idle", NEW i \in code, ClearNew(i)
    PROVE  IInv' /\ MovesNothing
<1> DEFINE q == i.rel
           d == db[q]
           r == [d EXCEPT !.new = Clear(@)]
           g == Stage(q)
           h == After(i)
<1>1. i.op = "ClearNew" /\ (\A j \in code : ~Earlier(j.at, i.at)) /\ Become(i, r)
  BY DEF ClearNew, Due
<1>2. /\ phase = "maintain" /\ stratum \in Level /\ q \in Relation
      /\ IsRelation(d, q) /\ RelInv(q, d, stratum, g, input)
      /\ g.member /\ h.member /\ g.pending /\ h.pending
      /\ g.prepared /\ h.prepared /\ ~g.rewritten /\ ~h.rewritten
      /\ ~g.comparing /\ ~h.comparing /\ (h.touched <=> g.touched)
      /\ h.merge = g.merge /\ h.copy = g.copy /\ g.moved
  BY <1>1, MaintenanceStep
<1> HIDE DEF g, h, d
<1>3. IsRelation(r, q) /\ RelInv(q, r, stratum, h, input) /\ SameTuples(q, stratum, d, g, r, h)
  BY <1>2, ClearNewKeeps
<1> HIDE DEF r
<1> QED
  BY <1>1, <1>2, <1>3, InstructionMovesNothing DEF g, h, d

LEMMA BuildFromIndexStep ==
    ASSUME IndexedSupported, IInv, phase # "idle", NEW i \in code, BuildFromIndex(i)
    PROVE  IInv' /\ MovesNothing
<1> DEFINE q == i.rel
           d == db[q]
           c == Canonical[stratum][q]
           e == IndexFromIndex(d.delta, c, i.spec)
           r == [d EXCEPT !.delta = e]
           g == Stage(q)
           h == After(i)
<1>1. i.op = "IndexFromIndex" /\ (\A j \in code : ~Earlier(j.at, i.at)) /\ Become(i, r)
  BY DEF BuildFromIndex, Due
<1>2. /\ phase = "maintain" /\ stratum \in Level /\ q \in Relation
      /\ IsRelation(d, q) /\ RelInv(q, d, stratum, g, input)
      /\ g.member /\ h.member /\ ~g.rewritten /\ ~h.rewritten
      /\ ~g.comparing /\ ~g.moved /\ g.touched /\ c \notin g.copy /\ i.spec \in g.copy
      /\ ~h.comparing /\ ~h.moved /\ h.touched
      /\ h.merge = g.merge /\ h.copy = g.copy \ {i.spec}
  BY <1>1, MaintenanceStep
<1> HIDE DEF g, h, d
<1>3. /\ r.full = d.full /\ r.delta = e /\ r.new = d.new
      /\ r = [full |-> r.full, delta |-> r.delta, new |-> r.new]
  <2>1. d = [full |-> d.full, delta |-> d.delta, new |-> d.new]
    BY <1>2 DEF IsRelation
  <2> HIDE DEF e
  <2> QED
    BY <2>1
<1> HIDE DEF r
<1>4. IsRelation(r, q) /\ RelInv(q, r, stratum, h, input) /\ SameTuples(q, stratum, d, g, r, h)
  BY <1>2, <1>3, CopyKeeps
<1> QED
  BY <1>1, <1>2, <1>4, InstructionMovesNothing DEF g, h, d

LEMMA MergeIndexStep ==
    ASSUME IndexedSupported, IInv, phase # "idle", NEW i \in code, MergeIndex(i)
    PROVE  IInv' /\ MovesNothing
<1> DEFINE q == i.rel
           d == db[q]
           full == Registered(d.full, i.spec)
           merged == MergeInto(full.idx[i.spec], d.delta.idx[i.spec])
           e == Put(full, i.spec, merged)
           r == [d EXCEPT !.full = e]
           g == Stage(q)
           h == After(i)
<1>1. /\ i.op = "MergeIndex" /\ (\A j \in code : ~Earlier(j.at, i.at)) /\ Become(i, r)
      /\ HasIndex(d.delta, i.spec)
  BY DEF MergeIndex, Due
<1>2. /\ phase = "maintain" /\ stratum \in Level /\ q \in Relation /\ q \in Idb
      /\ IsRelation(d, q) /\ RelInv(q, d, stratum, g, input)
      /\ g.member /\ h.member /\ ~g.rewritten /\ ~h.rewritten
      /\ ~g.comparing /\ ~g.moved /\ g.touched
      /\ i.spec \in g.merge /\ i.spec \in Kept(stratum, q) /\ i.spec \notin g.copy
      /\ ~h.comparing /\ ~h.moved /\ h.touched
      /\ h.merge = g.merge \ {i.spec} /\ h.copy = g.copy
  BY <1>1, MaintenanceStep
<1> HIDE DEF g, h, d
<1>3. /\ r.full = e /\ r.delta = d.delta /\ r.new = d.new
      /\ r = [full |-> r.full, delta |-> r.delta, new |-> r.new]
  <2>1. d = [full |-> d.full, delta |-> d.delta, new |-> d.new]
    BY <1>2 DEF IsRelation
  <2> HIDE DEF e
  <2> QED
    BY <2>1
<1> HIDE DEF r
<1>4. IsRelation(r, q) /\ RelInv(q, r, stratum, h, input) /\ SameTuples(q, stratum, d, g, r, h)
  <2> HIDE DEF full, merged, q
  <2>1. full = Registered(d.full, i.spec) /\ merged = MergeInto(full.idx[i.spec], d.delta.idx[i.spec])
    BY DEF full, merged
  <2> QED
    BY <1>1, <1>2, <1>3, <2>1, MergeKeeps
<1> QED
  BY <1>1, <1>2, <1>4, InstructionMovesNothing DEF g, h, d

LEMMA ReconstructStep ==
    ASSUME IndexedSupported, IInv, phase # "idle", NEW i \in code, ReconstructColumns(i)
    PROVE  IInv' /\ MovesNothing
<1> DEFINE q == i.rel
           d == db[q]
           c == Canonical[stratum][q]
           e == Reconstruct(d.full, i.spec)
           r == [d EXCEPT !.full = e]
           g == Stage(q)
           h == After(i)
<1>1. i.op = "Reconstruct" /\ (\A j \in code : ~Earlier(j.at, i.at)) /\ Become(i, r)
  BY DEF ReconstructColumns, Due
<1>2. /\ stratum \in Level /\ PhaseInv /\ iter \in Nat
      /\ \A p \in Relation : IsRelation(db[p], p) /\ RelInv(p, db[p], stratum, Stage(p), input)
  BY RunningParts
<1>3. phase = "epilogue" /\ i \in Epilogue[stratum] /\ code \subseteq Epilogue[stratum]
  <2>1. \A n \in DOMAIN BlockOrder[stratum] : \A k \in Nat \ {0} :
            IsStep(stratum, n, k, i) => i.op # "Reconstruct"
    BY <1>2, StageMoves
  <2> QED
    BY <1>1, <2>1, InstructionStep
<1>4. /\ q \in Maintained[stratum] /\ i.spec = c /\ \A j \in code : j.op = "Reconstruct"
  BY <1>2, <1>3, EpilogueParts
<1>5. q \in Members(stratum) /\ q \in Relation /\ q \in Idb
  <2>1. Maintained[stratum] \subseteq Members(stratum)
    BY <1>2, OrderOfBlocks
  <2>2. Members(stratum) \subseteq Relation
    BY <1>2, StratumParts
  <2> QED
    BY <1>2, <1>4, <2>1, <2>2 DEF Idb
<1>6. /\ iter > 0
      /\ IsRelation(d, q) /\ RelInv(q, d, stratum, g, input)
  BY <1>2, <1>3, <1>5 DEF PhaseInv
<1>7. /\ ~ComparingIn(code, q) /\ ~MovedIn(code, q)
      /\ DueIn(code, "MergeIndex", q) = {} /\ DueIn(code, "IndexFromIndex", q) = {}
  BY <1>4, NothingDue
<1> DEFINE C == code \ {i}
<1>8. /\ ~ComparingIn(C, q) /\ ~MovedIn(C, q)
      /\ DueIn(C, "MergeIndex", q) = {} /\ DueIn(C, "IndexFromIndex", q) = {}
  <2>1. \A j \in C : j.op = "Reconstruct"
    BY <1>4
  <2> HIDE DEF C
  <2> QED
    BY <2>1, NothingDue
<1>9. h = StageOf(q, phase, stratum, iter, C) /\ g = StageOf(q, phase, stratum, iter, code)
  BY DEF Stage, After
<1> HIDE DEF C, g, h, d, q
<1>10. /\ g.member /\ g.touched /\ ~g.comparing /\ ~g.moved
       /\ g.merge = {} /\ g.copy = {}
  <2> DEFINE G == StageOf(q, phase, stratum, iter, code)
  <2>1. /\ G.member <=> phase # "idle" /\ q \in Members(stratum)
        /\ G.touched <=>
              /\ phase # "idle" /\ q \in Maintained[stratum]
              /\ \/ iter > 0
                 \/ phase = "maintain" /\ \E b \in Blocks(stratum) : b.rel = q /\ ComparedIn(code, b)
        /\ G.comparing <=> ComparingIn(code, q)
        /\ G.moved <=> MovedIn(code, q)
        /\ G.merge = DueIn(code, "MergeIndex", q)
        /\ G.copy = DueIn(code, "IndexFromIndex", q)
    BY StageFields
  <2> HIDE DEF G
  <2> QED
    BY <1>3, <1>4, <1>5, <1>6, <1>7, <1>9, <2>1 DEF G, q
<1>11. /\ h.member /\ h.touched /\ ~h.comparing /\ ~h.moved
       /\ h.merge = {} /\ h.copy = {}
  <2> DEFINE G == StageOf(q, phase, stratum, iter, C)
  <2>1. /\ G.member <=> phase # "idle" /\ q \in Members(stratum)
        /\ G.touched <=>
              /\ phase # "idle" /\ q \in Maintained[stratum]
              /\ \/ iter > 0
                 \/ phase = "maintain" /\ \E b \in Blocks(stratum) : b.rel = q /\ ComparedIn(C, b)
        /\ G.comparing <=> ComparingIn(C, q)
        /\ G.moved <=> MovedIn(C, q)
        /\ G.merge = DueIn(C, "MergeIndex", q)
        /\ G.copy = DueIn(C, "IndexFromIndex", q)
    BY StageFields
  <2> HIDE DEF G
  <2> QED
    BY <1>3, <1>4, <1>5, <1>6, <1>8, <1>9, <2>1 DEF G, q
<1>12. /\ r.full = e /\ r.delta = d.delta /\ r.new = d.new
       /\ r = [full |-> r.full, delta |-> r.delta, new |-> r.new]
  <2>1. d = [full |-> d.full, delta |-> d.delta, new |-> d.new]
    BY <1>6 DEF IsRelation
  <2> HIDE DEF e
  <2> QED
    BY <2>1
<1>13. r.full = Reconstruct(d.full, Canonical[stratum][q])
  BY <1>4, <1>12
<1> HIDE DEF r
<1>14. IsRelation(r, q) /\ RelInv(q, r, stratum, h, input) /\ SameTuples(q, stratum, d, g, r, h)
  BY <1>2, <1>5, <1>6, <1>10, <1>11, <1>12, <1>13, ReconstructKeeps
<1> QED
  BY <1>1, <1>12, <1>14, InstructionMovesNothing DEF g, h, d, q

(* Every instruction preserves the invariant, and only RebuildNew changes  *)
(* what the versions of a relation stand for.                              *)
LEMMA InstructionKeeps ==
    ASSUME IndexedSupported, IInv, phase # "idle", NEW i \in code, Instruction(i)
    PROVE  IInv' /\ IF i.op = "RebuildNew" THEN MovesNew(i) ELSE MovesNothing
<1>1. CASE RebuildNew(i)
  BY <1>1, RebuildNewKeeps DEF RebuildNew, Due
<1>2. CASE ClearDelta(i)
  BY <1>2, ClearDeltaStep DEF ClearDelta, Due
<1>3. CASE CheckSize(i)
  <2>1. i.op = "CheckSize"
    BY <1>3, Zenon DEF CheckSize, Due
  <2>2. IInv' /\ MovesNothing
    BY <1>3, CheckSizeStep
  <2> QED
    BY <2>1, <2>2
<1>4. CASE ComputeDelta(i)
  BY <1>4, ComputeDeltaStep DEF ComputeDelta, Due
<1>5. CASE ClearNew(i)
  BY <1>5, ClearNewStep DEF ClearNew, Due
<1>6. CASE BuildFromIndex(i)
  BY <1>6, BuildFromIndexStep DEF BuildFromIndex, Due
<1>7. CASE MergeIndex(i)
  BY <1>7, MergeIndexStep DEF MergeIndex, Due
<1>8. CASE ReconstructColumns(i)
  BY <1>8, ReconstructStep DEF ReconstructColumns, Due
<1> QED
  BY <1>1, <1>2, <1>3, <1>4, <1>5, <1>6, <1>7, <1>8 DEF Instruction

-----------------------------------------------------------------------------
(***************************************************************************)
(* The steps between the instructions                                      *)
(***************************************************************************)

(* Before its first instruction the maintenance code has compared nothing. *)
LEMMA WholeCode ==
    ASSUME IndexedSupported, NEW s \in Level
    PROVE  /\ \A q : /\ ~ComparingIn(MaintenanceCode[s], q) /\ ~MovedIn(MaintenanceCode[s], q)
                     /\ DueIn(MaintenanceCode[s], "MergeIndex", q) = {}
                     /\ DueIn(MaintenanceCode[s], "IndexFromIndex", q) = {}
           /\ \A b \in Blocks(s) : ~ComparedIn(MaintenanceCode[s], b)
<1> DEFINE BO == BlockOrder[s]
           C == MaintenanceCode[s]
<1>1. /\ DOMAIN BO = 1 .. Len(BO) /\ Len(BO) \in Nat
      /\ \A b \in Blocks(s) : \E n \in DOMAIN BO : BO[n] = b
  BY OrderOfBlocks
<1>2. CASE Len(BO) = 0
  <2>1. DOMAIN BO = {}
    BY <1>1, <1>2
  <2>2. C = {} /\ Blocks(s) = {}
    BY <1>1, <2>1 DEF MaintenanceCode
  <2> HIDE DEF C
  <2>3. \A i \in C : i.op = "Reconstruct"
    BY <2>2
  <2>4. \A q : /\ ~ComparingIn(C, q) /\ ~MovedIn(C, q)
               /\ DueIn(C, "MergeIndex", q) = {} /\ DueIn(C, "IndexFromIndex", q) = {}
    BY <2>3, NothingDue
  <2> QED
    BY <2>2, <2>4 DEF C
<1>3. CASE Len(BO) # 0
  <2>1. 1 \in DOMAIN BO /\ 1 \in Nat \ {0}
    BY <1>1, <1>3
  <2>2. ASSUME NEW j \in C
        PROVE  ~Earlier(j.at, <<1, 1>>)
    <3>1. PICK n \in DOMAIN BO, k \in Nat \ {0} : IsStep(s, n, k, j)
      BY CodeIsSteps
    <3>2. j.at = <<n, k>> /\ n \in Nat /\ n > 0
      BY <3>1, OrderOfBlocks DEF IsStep
    <3> QED
      BY <3>2 DEF Earlier
  <2>3. C = StepsFrom(s, 1, 1)
    BY <2>2 DEF StepsFrom
  <2> DEFINE K == StepsFrom(s, 1, 1)
             p == BO[1].rel
             R == Required[s][p]
  <2>4. /\ \A q : ComparingIn(K, q) <=> q = p /\ 1 \in 2 .. 4
        /\ \A q : MovedIn(K, q) => q = p /\ 1 = 5
        /\ \A m \in DOMAIN BO : ComparedIn(K, BO[m]) <=> m < 1 \/ (m = 1 /\ 1 > 4)
        /\ \A q, spec :
              spec \in DueIn(K, "MergeIndex", q) <=>
                  /\ q = p /\ 1 > 4
                  /\ \E j \in DOMAIN R : R[j] = spec /\ Merges(s, p, spec) /\ 5 + 2 * j >= 1
        /\ \A q, spec :
              spec \in DueIn(K, "IndexFromIndex", q) <=>
                  /\ q = p /\ 1 > 4
                  /\ \E j \in DOMAIN R :
                        R[j] = spec /\ spec # Canonical[s][p] /\ 4 + 2 * j >= 1
    BY <2>1, PlaceInCode
  <2> HIDE DEF K, C, R, p
  <2>5. C = K
    BY <2>3 DEF K
  <2>6. \A q : ~ComparingIn(C, q) /\ ~MovedIn(C, q)
    BY <2>4, <2>5
  <2>7. ASSUME NEW q, NEW spec
        PROVE  spec \notin DueIn(C, "MergeIndex", q) /\ spec \notin DueIn(C, "IndexFromIndex", q)
    BY <2>4, <2>5
  <2>8. \A q : DueIn(C, "MergeIndex", q) = {} /\ DueIn(C, "IndexFromIndex", q) = {}
    BY <2>7
  <2>9. ASSUME NEW b \in Blocks(s)
        PROVE  ~ComparedIn(C, b)
    <3>1. PICK n \in DOMAIN BO : BO[n] = b
      BY <1>1
    <3>2. n \in Nat /\ n > 0
      BY OrderOfBlocks
    <3> QED
      BY <2>4, <2>5, <3>1, <3>2
  <2> QED
    BY <2>6, <2>8, <2>9 DEF C
<1> QED
  BY <1>2, <1>3

(* A step that changes no version and no stage keeps what they stand for.  *)
LEMMA StageSteps ==
    ASSUME IndexedSupported, IInv, phase # "idle", UNCHANGED <<caller, db, stratum, exact>>,
           phase' \in {"prepare", "check", "run", "maintain", "epilogue"}, iter' \in Nat,
           \A q \in Relation : Agree(Stage(q), Stage(q)')
    PROVE  /\ TypeInv' /\ MovesNothing
           /\ \A q \in Relation : RelInv(q, db[q], stratum, Stage(q), input)'
<1>1. /\ TypeInv /\ \A q \in Relation : IsRelation(db[q], q) /\ RelInv(q, db[q], stratum, Stage(q), input)
  BY RunningParts
<1>2. /\ db' = db /\ stratum' = stratum
      /\ exact' = exact /\ open' = open /\ host' = host /\ live' = live /\ maxIter' = maxIter
      /\ status' = status /\ input' = input
  BY DEF caller
<1>3. ASSUME NEW q \in Relation
      PROVE  /\ RelInv(q, db[q], stratum, Stage(q)', input)
             /\ SameTuples(q, stratum, db[q], Stage(q), db[q], Stage(q)')
  <2> DEFINE h == Stage(q)'
  <2>1. Agree(Stage(q), h) /\ RelInv(q, db[q], stratum, Stage(q), input)
    BY <1>1
  <2> HIDE DEF h
  <2>2. /\ RelInv(q, db[q], stratum, h, input)
        /\ FullOf(q, db[q], stratum, h) = FullOf(q, db[q], stratum, Stage(q))
        /\ DeltaOf(q, db[q], stratum, h) = DeltaOf(q, db[q], stratum, Stage(q))
    BY <2>1, AgreeKeeps
  <2> QED
    BY <2>2 DEF SameTuples, h
<1>4. TypeInv'
  BY <1>1, <1>2 DEF TypeInv
<1> QED
  BY <1>2, <1>3, <1>4 DEF MovesNothing

(* The stages when no instruction is left, or only those of an epilogue.   *)
LEMMA RestingStage ==
    ASSUME NEW q, NEW ph, NEW s, NEW k, NEW C, \A i \in C : i.op = "Reconstruct"
    PROVE  LET g == StageOf(q, ph, s, k, C)
           IN  /\ g.member <=> ph # "idle" /\ q \in Members(s)
               /\ g.touched <=> /\ ph # "idle" /\ q \in Maintained[s]
                                /\ k > 0 \/ (ph = "maintain" /\ \E b \in Blocks(s) : b.rel = q)
               /\ ~g.comparing /\ ~g.moved
               /\ g.pending <=> ph # "idle" /\ \E t \in Level : t >= s /\ q \in Members(t)
               /\ g.prepared <=> ph \notin {"idle", "prepare"}
               /\ g.rewritten <=> ph = "epilogue" /\ \E i \in Epilogue[s] \ C : i.rel = q
               /\ g.merge = {} /\ g.copy = {}
<1> DEFINE g == StageOf(q, ph, s, k, C)
<1>1. /\ ~ComparingIn(C, q) /\ ~MovedIn(C, q)
      /\ DueIn(C, "MergeIndex", q) = {} /\ DueIn(C, "IndexFromIndex", q) = {}
      /\ \A b : ComparedIn(C, b)
  BY NothingDue
<1>2. /\ g.member <=> ph # "idle" /\ q \in Members(s)
      /\ g.touched <=>
            /\ ph # "idle" /\ q \in Maintained[s]
            /\ \/ k > 0
               \/ ph = "maintain" /\ \E b \in Blocks(s) : b.rel = q /\ ComparedIn(C, b)
      /\ g.comparing <=> ComparingIn(C, q)
      /\ g.moved <=> MovedIn(C, q)
      /\ g.pending <=> ph # "idle" /\ \E t \in Level : t >= s /\ q \in Members(t)
      /\ g.prepared <=> ph \notin {"idle", "prepare"}
      /\ g.rewritten <=> ph = "epilogue" /\ \E i \in Epilogue[s] \ C : i.rel = q
      /\ g.merge = DueIn(C, "MergeIndex", q)
      /\ g.copy = DueIn(C, "IndexFromIndex", q)
  BY StageFields
<1> HIDE DEF g
<1>3. /\ ~g.comparing /\ ~g.moved /\ g.merge = {} /\ g.copy = {}
  BY <1>1, <1>2
<1>4. g.touched <=> /\ ph # "idle" /\ q \in Maintained[s]
                    /\ k > 0 \/ (ph = "maintain" /\ \E b \in Blocks(s) : b.rel = q)
  BY <1>1, <1>2
<1> QED
  BY <1>2, <1>3, <1>4 DEF g

LEMMA StartIterationKeeps ==
    ASSUME IndexedSupported, IInv, StartIteration
    PROVE  IInv' /\ MovesNothing
<1>1. /\ phase = "check" /\ phase' = "run" /\ pipelines' = Variants(stratum)
      /\ UNCHANGED <<caller, db, stratum, iter, code, exact>>
      /\ Recursive(stratum) \/ iter = 0
  BY DEF StartIteration
<1>2. PhaseInv /\ TypeInv /\ stratum \in Level /\ iter \in Nat
  BY <1>1, RunningParts
<1>3. code = {}
  BY <1>1, <1>2 DEF PhaseInv
<1>4. ASSUME NEW q \in Relation
      PROVE  Agree(Stage(q), Stage(q)')
  <2> DEFINE g == StageOf(q, "check", stratum, iter, {})
             h == StageOf(q, "run", stratum, iter, {})
  <2>1. Stage(q) = g /\ Stage(q)' = h
    BY <1>1, <1>3 DEF Stage
  <2>2. /\ g.member <=> q \in Members(stratum)
        /\ g.touched <=> q \in Maintained[stratum] /\ iter > 0
        /\ ~g.comparing /\ ~g.moved /\ g.prepared /\ ~g.rewritten
        /\ g.pending <=> \E t \in Level : t >= stratum /\ q \in Members(t)
        /\ g.merge = {} /\ g.copy = {}
    BY RestingStage
  <2>3. /\ h.member <=> q \in Members(stratum)
        /\ h.touched <=> q \in Maintained[stratum] /\ iter > 0
        /\ ~h.comparing /\ ~h.moved /\ h.prepared /\ ~h.rewritten
        /\ h.pending <=> \E t \in Level : t >= stratum /\ q \in Members(t)
        /\ h.merge = {} /\ h.copy = {}
    BY RestingStage
  <2> HIDE DEF g, h
  <2> QED
    BY <2>1, <2>2, <2>3 DEF Agree
<1>5. iter' \in Nat
  BY <1>1, <1>2
<1>6. /\ TypeInv' /\ MovesNothing
      /\ \A q \in Relation : RelInv(q, db[q], stratum, Stage(q), input)'
  BY <1>1, <1>4, <1>5, StageSteps
<1>7. PhaseInv'
  BY <1>1, <1>2, <1>3 DEF PhaseInv, caller, TypeInv
<1> QED
  BY <1>6, <1>7 DEF IInv

LEMMA StartMaintenanceKeeps ==
    ASSUME IndexedSupported, IInv, StartMaintenance
    PROVE  IInv' /\ MovesNothing
<1>1. /\ phase = "run" /\ phase' = "maintain" /\ code' = MaintenanceCode[stratum]
      /\ UNCHANGED <<caller, db, stratum, iter, pipelines, exact>>
  BY DEF StartMaintenance
<1>2. PhaseInv /\ TypeInv /\ stratum \in Level /\ iter \in Nat
  BY <1>1, RunningParts
<1>3. code = {}
  BY <1>1, <1>2 DEF PhaseInv
<1>4. ASSUME NEW q \in Relation
      PROVE  Agree(Stage(q), Stage(q)')
  <2> DEFINE C == MaintenanceCode[stratum]
             g == StageOf(q, "run", stratum, iter, {})
             h == StageOf(q, "maintain", stratum, iter, C)
  <2>1. Stage(q) = g /\ Stage(q)' = h
    BY <1>1, <1>3 DEF Stage
  <2>2. /\ g.member <=> q \in Members(stratum)
        /\ g.touched <=> q \in Maintained[stratum] /\ iter > 0
        /\ ~g.comparing /\ ~g.moved /\ g.prepared /\ ~g.rewritten
        /\ g.pending <=> \E t \in Level : t >= stratum /\ q \in Members(t)
        /\ g.merge = {} /\ g.copy = {}
    BY RestingStage
  <2>3. /\ h.member <=> q \in Members(stratum)
        /\ h.touched <=>
              /\ q \in Maintained[stratum]
              /\ \/ iter > 0
                 \/ \E b \in Blocks(stratum) : b.rel = q /\ ComparedIn(C, b)
        /\ h.comparing <=> ComparingIn(C, q)
        /\ h.moved <=> MovedIn(C, q)
        /\ h.pending <=> \E t \in Level : t >= stratum /\ q \in Members(t)
        /\ h.prepared /\ ~h.rewritten
        /\ h.merge = DueIn(C, "MergeIndex", q)
        /\ h.copy = DueIn(C, "IndexFromIndex", q)
    BY Zenon DEF StageOf
  <2>4. /\ ~ComparingIn(C, q) /\ ~MovedIn(C, q)
        /\ DueIn(C, "MergeIndex", q) = {} /\ DueIn(C, "IndexFromIndex", q) = {}
        /\ \A b \in Blocks(stratum) : ~ComparedIn(C, b)
    BY <1>2, WholeCode
  <2> HIDE DEF g, h, C
  <2> QED
    BY <2>1, <2>2, <2>3, <2>4 DEF Agree
<1>5. iter' \in Nat
  BY <1>1, <1>2
<1>6. /\ TypeInv' /\ MovesNothing
      /\ \A q \in Relation : RelInv(q, db[q], stratum, Stage(q), input)'
  BY <1>1, <1>4, <1>5, StageSteps
<1>7. PhaseInv'
  BY <1>1, <1>2, <1>3 DEF PhaseInv, caller, TypeInv
<1> QED
  BY <1>6, <1>7 DEF IInv

LEMMA EndIterationKeeps ==
    ASSUME IndexedSupported, IInv, EndIteration
    PROVE  IInv' /\ MovesNothing
<1>1. /\ phase = "maintain" /\ code = {} /\ phase' = "check" /\ iter' = iter + 1
      /\ UNCHANGED <<caller, db, stratum, pipelines, code, exact>>
  BY DEF EndIteration
<1>2. PhaseInv /\ TypeInv /\ stratum \in Level /\ iter \in Nat
  BY <1>1, RunningParts
<1>3. \A q \in Maintained[stratum] : \E b \in Blocks(stratum) : b.rel = q
  <2>1. Maintained[stratum] = {b.rel : b \in Blocks(stratum)}
    BY <1>2, OrderOfBlocks
  <2> QED
    BY <2>1
<1>4. ASSUME NEW q \in Relation
      PROVE  Agree(Stage(q), Stage(q)')
  <2> DEFINE k == iter + 1
             g == StageOf(q, "maintain", stratum, iter, {})
             h == StageOf(q, "check", stratum, k, {})
  <2>1. Stage(q) = g /\ Stage(q)' = h
    BY <1>1 DEF Stage
  <2>2. /\ g.member <=> q \in Members(stratum)
        /\ g.touched <=> /\ q \in Maintained[stratum]
                         /\ iter > 0 \/ \E b \in Blocks(stratum) : b.rel = q
        /\ ~g.comparing /\ ~g.moved /\ g.prepared /\ ~g.rewritten
        /\ g.pending <=> \E t \in Level : t >= stratum /\ q \in Members(t)
        /\ g.merge = {} /\ g.copy = {}
    BY RestingStage
  <2> HIDE DEF k
  <2>3. /\ h.member <=> q \in Members(stratum)
        /\ h.touched <=> q \in Maintained[stratum] /\ k > 0
        /\ ~h.comparing /\ ~h.moved /\ h.prepared /\ ~h.rewritten
        /\ h.pending <=> \E t \in Level : t >= stratum /\ q \in Members(t)
        /\ h.merge = {} /\ h.copy = {}
    BY RestingStage
  <2>4. k > 0
    BY <1>2 DEF k
  <2> HIDE DEF g, h
  <2> QED
    BY <1>3, <2>1, <2>2, <2>3, <2>4 DEF Agree
<1>5. iter' \in Nat
  BY <1>1, <1>2
<1>6. /\ TypeInv' /\ MovesNothing
      /\ \A q \in Relation : RelInv(q, db[q], stratum, Stage(q), input)'
  BY <1>1, <1>4, <1>5, StageSteps
<1>7. PhaseInv'
  BY <1>1, <1>2 DEF PhaseInv, caller, TypeInv
<1> QED
  BY <1>6, <1>7 DEF IInv

LEMMA LeaveKeeps ==
    ASSUME IndexedSupported, IInv, Leave
    PROVE  IInv' /\ MovesNothing
<1>1. /\ phase = "check" /\ phase' = "epilogue" /\ code' = Epilogue[stratum] /\ iter > 0
      /\ UNCHANGED <<caller, db, stratum, iter, pipelines, exact>>
      /\ Recursive(stratum) => iter >= maxIter \/ DeltaEmpty
  BY DEF Leave
<1>2. PhaseInv /\ TypeInv /\ stratum \in Level /\ iter \in Nat
  BY <1>1, RunningParts
<1>3. code = {}
  BY <1>1, <1>2 DEF PhaseInv
<1>4. ASSUME NEW q \in Relation
      PROVE  Agree(Stage(q), Stage(q)')
  <2> DEFINE C == Epilogue[stratum]
             g == StageOf(q, "check", stratum, iter, {})
             h == StageOf(q, "epilogue", stratum, iter, C)
  <2>1. Stage(q) = g /\ Stage(q)' = h
    BY <1>1, <1>3 DEF Stage
  <2>2. /\ g.member <=> q \in Members(stratum)
        /\ g.touched <=> q \in Maintained[stratum] /\ iter > 0
        /\ ~g.comparing /\ ~g.moved /\ g.prepared /\ ~g.rewritten
        /\ g.pending <=> \E t \in Level : t >= stratum /\ q \in Members(t)
        /\ g.merge = {} /\ g.copy = {}
    BY RestingStage
  <2>3. \A i \in C : i.op = "Reconstruct"
    BY <1>2, EpilogueParts
  <2> HIDE DEF C
  <2>4. /\ h.member <=> q \in Members(stratum)
        /\ h.touched <=> q \in Maintained[stratum] /\ iter > 0
        /\ ~h.comparing /\ ~h.moved /\ h.prepared
        /\ h.rewritten <=> \E i \in Epilogue[stratum] \ C : i.rel = q
        /\ h.pending <=> \E t \in Level : t >= stratum /\ q \in Members(t)
        /\ h.merge = {} /\ h.copy = {}
    BY <2>3, RestingStage
  <2> HIDE DEF g, h
  <2>5. ~h.rewritten
    BY <2>4 DEF C
  <2> QED
    BY <2>1, <2>2, <2>4, <2>5 DEF Agree
<1>5. iter' \in Nat
  BY <1>1, <1>2
<1>6. /\ TypeInv' /\ MovesNothing
      /\ \A q \in Relation : RelInv(q, db[q], stratum, Stage(q), input)'
  BY <1>1, <1>4, <1>5, StageSteps
<1>7. DeltaEmpty' <=> DeltaEmpty
  BY <1>1 DEF DeltaEmpty
<1>8. PhaseInv'
  BY <1>1, <1>2, <1>3, <1>7 DEF PhaseInv, caller, TypeInv
<1> QED
  BY <1>6, <1>8 DEF IInv

(* Until a stratum maintains a relation, its columns are FULL.             *)
LEMMA SettledFull ==
    ASSUME IndexedSupported, NEW s, NEW q \in Relation, NEW facts,
           NEW d, NEW g, RelInv(q, d, s, g, facts), ~(g.member /\ g.touched),
           g.member => g.pending /\ q \in Idb /\ s \in Level
    PROVE  FullOf(q, d, s, g) = d.full.cols
<1>1. SettledRel(q, d, s, g)
  BY DEF RelInv
<1>2. CASE g.member
  <2>1. Canonical[s][q] \in Specs(q)
    BY <1>2, RequiredAreSpecs
  <2> QED
    BY <1>1, <1>2, <2>1 DEF SettledRel, FullOf
<1>3. CASE ~g.member
  BY <1>3 DEF FullOf
<1> QED
  BY <1>2, <1>3

LEMMA PrepareStep ==
    ASSUME IndexedSupported, IInv, Prepare
    PROVE  IInv' /\ MovesNothing
<1>1. /\ phase = "prepare" /\ phase' = "check"
      /\ UNCHANGED <<caller, stratum, iter, pipelines, code, exact>>
  BY DEF Prepare
<1>2. /\ PhaseInv /\ TypeInv /\ stratum \in Level /\ iter \in Nat
      /\ \A q \in Relation : IsRelation(db[q], q) /\ RelInv(q, db[q], stratum, Stage(q), input)
  BY <1>1, RunningParts
<1>3. code = {} /\ iter = 0
  BY <1>1, <1>2 DEF PhaseInv
<1> DEFINE New(q) == IF q \in Maintained[stratum]
                     THEN EnsureIndex(db[q].new, Canonical[stratum][q], TRUE) ELSE db[q].new
<1>4. DOMAIN db' = Relation
  BY Zenon DEF Prepare
<1>5. ASSUME NEW q \in Relation
      PROVE  /\ IsRelation(db'[q], q) /\ RelInv(q, db'[q], stratum, Stage(q)', input)
             /\ SameTuples(q, stratum, db[q], Stage(q), db'[q], Stage(q)')
  <2> DEFINE d == db[q]
             E == Built(d.full, Prebuilt(stratum, q))
             M == New(q)
             r == db'[q]
             g == StageOf(q, "prepare", stratum, 0, {})
             h == StageOf(q, "check", stratum, 0, {})
  <2>1. db'[q] = [db[q] EXCEPT !.full = EnsureAll(@, Prebuilt(stratum, q), TRUE),
                               !.new = IF q \in Maintained[stratum]
                                       THEN EnsureIndex(@, Canonical[stratum][q], TRUE) ELSE @]
    BY Zenon DEF Prepare
  <2>2. r = [d EXCEPT !.full = E, !.new = M]
    BY <2>1, Zenon DEF Built
  <2>3. Stage(q) = g /\ Stage(q)' = h
    BY <1>1, <1>3 DEF Stage
  <2>4. IsRelation(d, q) /\ RelInv(q, d, stratum, g, input)
    BY <1>2, <2>3
  <2>5. IsVersion(M, q) /\ M.cols = d.new.cols
    <3>1. IsVersion(d.new, q) /\ TRUE \in BOOLEAN
      BY <2>4 DEF IsRelation
    <3>2. CASE q \in Maintained[stratum]
      <4> DEFINE e == EnsureIndex(d.new, Canonical[stratum][q], TRUE)
      <4>1. M = e
        BY <3>2, Zenon
      <4>2. /\ IsVersion(e, q) /\ e.cols = d.new.cols /\ e.n = d.new.n
            /\ DOMAIN e.idx = DOMAIN d.new.idx \cup {Canonical[stratum][q]}
            /\ e.idx[Canonical[stratum][q]] = EnsuredIndex(d.new, Canonical[stratum][q], TRUE)
            /\ e.idx[Canonical[stratum][q]] \in [rows : SUBSET Facts(q), seen : Nat]
        BY <3>1, EnsureIndexParts, Zenon
      <4> HIDE DEF e, M
      <4> QED
        BY <4>1, <4>2
    <3>3. CASE q \notin Maintained[stratum]
      <4>1. M = d.new
        BY <3>3, Zenon
      <4> QED
        BY <3>1, <4>1, Zenon
    <3> QED
      BY <3>2, <3>3, Zenon
  <2> HIDE DEF E, M, r, d
  <2>6. /\ r.full = E /\ r.delta = d.delta /\ r.new = M
        /\ r = [full |-> r.full, delta |-> r.delta, new |-> r.new]
    <3>1. d = [full |-> d.full, delta |-> d.delta, new |-> d.new]
      BY <2>4 DEF IsRelation
    <3> QED
      BY <2>2, <3>1
  <2>7. /\ g.member <=> q \in Members(stratum)
        /\ g.touched <=> q \in Maintained[stratum] /\ 0 > 0
        /\ ~g.comparing /\ ~g.moved /\ ~g.rewritten
        /\ g.pending <=> \E t \in Level : t >= stratum /\ q \in Members(t)
        /\ g.merge = {} /\ g.copy = {}
    BY RestingStage
  <2>8. /\ h.member <=> q \in Members(stratum)
        /\ h.touched <=> q \in Maintained[stratum] /\ 0 > 0
        /\ ~h.comparing /\ ~h.moved /\ ~h.rewritten
        /\ h.pending <=> \E t \in Level : t >= stratum /\ q \in Members(t)
        /\ h.merge = {} /\ h.copy = {}
    BY RestingStage
  <2>9. g.member => g.pending /\ q \in Idb
    BY <1>1, <1>2, MemberIsPending
  <2> HIDE DEF g, h
  <2>10. r.full = Built(d.full, Prebuilt(stratum, q))
    BY <2>6 DEF E
  <2>11. IsVersion(r.new, q) /\ (h.member <=> g.member) /\ (h.pending <=> g.pending) /\ ~g.touched /\ ~h.touched
    BY <2>5, <2>6, <2>7, <2>8
  <2>12. /\ IsRelation(r, q) /\ RelInv(q, r, stratum, h, input)
         /\ r.full.cols = d.full.cols
    BY <1>2, <2>4, <2>6, <2>7, <2>8, <2>10, <2>11, PrepareKeeps
  <2>13. FullOf(q, d, stratum, g) = d.full.cols
    BY <1>2, <2>4, <2>9, <2>11, SettledFull
  <2>14. FullOf(q, r, stratum, h) = r.full.cols
    BY <1>2, <2>9, <2>11, <2>12, SettledFull
  <2>15. DeltaOf(q, r, stratum, h) = DeltaOf(q, d, stratum, g)
    BY <2>6, <2>7, <2>8 DEF DeltaOf
  <2>16. SameTuples(q, stratum, d, g, r, h)
    BY <2>5, <2>6, <2>12, <2>13, <2>14, <2>15 DEF SameTuples
  <2> QED
    BY <2>3, <2>12, <2>16 DEF r, d
<1> HIDE DEF New
<1>6. TypeInv'
  BY <1>1, <1>2, <1>4, <1>5 DEF TypeInv, caller
<1>7. PhaseInv'
  BY <1>1, <1>2, <1>3 DEF PhaseInv, caller, TypeInv
<1>8. \A q \in Relation : RelInv(q, db[q], stratum, Stage(q), input)'
  BY <1>1, <1>5 DEF caller
<1> QED
  BY <1>5, <1>6, <1>7, <1>8 DEF IInv, MovesNothing

-----------------------------------------------------------------------------

(* The views a pipeline opens on relation q are q's versions; an index the *)
(* pipeline negates through is built from the columns.                     *)
SameViews(q, v, d2) ==
    LET d == db[q]
        g == Stage(q)
    IN  /\ d2.full.cols = d.full.cols
        /\ \A x : Rows(d2.full, x) = IF x \in NegatedBy(v, q) THEN d.full.cols ELSE Rows(d.full, x)
        /\ \A x : Rows(d2.delta, x) = Rows(d.delta, x)
        /\ FullOf(q, d2, stratum, g) = FullOf(q, d, stratum, g)
        /\ DeltaOf(q, d2, stratum, g) = DeltaOf(q, d, stratum, g)

LEMMA OpenedKeeps ==
    ASSUME IndexedSupported, IInv, phase = "run", NEW v \in pipelines, NEW q \in Relation,
           NEW r, r.full = Opened(v)[q].full, r.delta = Opened(v)[q].delta,
           r = [full |-> r.full, delta |-> r.delta, new |-> r.new], IsVersion(r.new, q)
    PROVE  /\ IsRelation(r, q) /\ RelInv(q, r, stratum, Stage(q), input)
           /\ SameViews(q, v, r)
<1> DEFINE d == db[q]
           g == Stage(q)
           R == ReadBy(v, q, "full")
           N == NegatedBy(v, q)
           D == ReadBy(v, q, "delta")
           A == Built(Unbuilt(d.full, R), N)
           B == Unbuilt(d.delta, D)
<1>1. /\ PhaseInv /\ TypeInv /\ stratum \in Level /\ iter \in Nat
      /\ IsRelation(d, q) /\ RelInv(q, d, stratum, g, input)
  BY RunningParts
<1>2. code = {} /\ v \in Variants(stratum)
  BY <1>1 DEF PhaseInv
<1>3. g = StageOf(q, "run", stratum, iter, {})
  BY <1>2 DEF Stage
<1>4. /\ g.member <=> q \in Members(stratum)
      /\ ~g.comparing /\ ~g.moved
  <2> DEFINE h == StageOf(q, "run", stratum, iter, {})
  <2>1. /\ h.member <=> q \in Members(stratum)
        /\ ~h.comparing /\ ~h.moved
    BY RestingStage
  <2> HIDE DEF h, g
  <2> QED
    BY <1>3, <2>1 DEF h
<1>5. g.member => N = {}
  BY <1>1, <1>2, <1>4, MembersAreNotRead DEF NegatedBy
<1>6. Opened(v)[q] = [full |-> A, delta |-> B, new |-> d.new]
  BY Zenon DEF Opened, Built, Unbuilt
<1>7. r.full = A /\ r.delta = B
  <2> HIDE DEF A, B
  <2> QED
    BY <1>6
<1>8. r.full = Built(Unbuilt(d.full, R), N) /\ r.delta = Unbuilt(d.delta, D)
  BY <1>7
<1> HIDE DEF A, B, R, N, D, g, d
<1>9. IsRelation(r, q) /\ RelInv(q, r, stratum, g, input) /\ OpenedOver(d, r, N)
  BY <1>1, <1>4, <1>5, <1>8, OpenKeeps
<1>13. /\ r.full.cols = d.full.cols
       /\ \A x : Rows(r.full, x) = IF x \in N THEN d.full.cols ELSE Rows(d.full, x)
       /\ \A x : Rows(r.delta, x) = Rows(d.delta, x)
       /\ IndexedRows(r.delta) = IndexedRows(d.delta)
  BY <1>9 DEF OpenedOver
<1>10. FullOf(q, r, stratum, g) = FullOf(q, d, stratum, g)
  BY <1>5, <1>13 DEF FullOf
<1>11. DeltaOf(q, r, stratum, g) = DeltaOf(q, d, stratum, g)
  BY <1>4, <1>10, <1>13 DEF DeltaOf
<1>12. SameViews(q, v, r)
  BY <1>10, <1>11, <1>13 DEF SameViews, N, g, d
<1> QED
  BY <1>9, <1>12 DEF g

(* What pipeline v produces of relation q.                                 *)
Of(out, q) == {x \in out : RelOf[x[2]] = q}
ProducedOf(v, q) == {o[2] : o \in Of(Derived(v, Opened(v)), q)}

Executed(v) ==
    \A q \in Relation :
        /\ FullOf(q, db'[q], stratum, Stage(q)') = FullOf(q, db[q], stratum, Stage(q))
        /\ DeltaOf(q, db'[q], stratum, Stage(q)') = DeltaOf(q, db[q], stratum, Stage(q))
        /\ db'[q].new.cols = db[q].new.cols \cup ProducedOf(v, q)

LEMMA AppendParts ==
    ASSUME NEW q, NEW r, IsVersion(r, q), NEW facts \in SUBSET Facts(q), NEW count \in Nat
    PROVE  LET e == AppendRows(r, facts, count)
           IN  /\ IsVersion(e, q) /\ e.cols = r.cols \cup facts /\ e.n = r.n + count
               /\ e.idx = r.idx
<1> DEFINE e == AppendRows(r, facts, count)
           a == r.cols \cup facts
           m == r.n + count
<1>1. r = [cols |-> r.cols, n |-> r.n, idx |-> r.idx]
  BY DEF IsVersion
<1>2. e = [r EXCEPT !.cols = a, !.n = m]
  BY DEF AppendRows
<1> HIDE DEF a, m, e
<1>3. /\ e.cols = a /\ e.n = m /\ e.idx = r.idx
      /\ e = [cols |-> e.cols, n |-> e.n, idx |-> e.idx]
  BY <1>1, <1>2
<1>4. a = r.cols \cup facts /\ m = r.n + count
  BY DEF a, m
<1>5. IsVersion(e, q)
  BY <1>3, <1>4 DEF IsVersion
<1> QED
  BY <1>3, <1>4, <1>5 DEF e

LEMMA ExecuteStep ==
    ASSUME IndexedSupported, IInv, NEW v \in pipelines, Execute(v)
    PROVE  IInv' /\ Executed(v)
<1>1. /\ phase = "run" /\ pipelines' = pipelines \ {v}
      /\ UNCHANGED <<caller, stratum, phase, iter, code, exact>>
  BY DEF Execute
<1>2. /\ PhaseInv /\ TypeInv /\ stratum \in Level /\ iter \in Nat
      /\ \A q \in Relation : IsRelation(db[q], q) /\ RelInv(q, db[q], stratum, Stage(q), input)
  BY <1>1, RunningParts
<1> DEFINE out == Derived(v, Opened(v))
<1>3. DOMAIN db' = Relation
  BY Zenon DEF Execute
<1>4. out \in SUBSET (Ground \X Fact) /\ IsFiniteSet(Ground \X Fact)
  <2>1. \A g \in Ground : g.heads \subseteq Fact
    BY ProgramOK
  <2>2. out \in SUBSET (Ground \X Fact)
    BY <2>1 DEF Derived
  <2>3. IsFiniteSet(Ground \X Fact)
    BY FS_Product DEF IndexedSupported
  <2> QED
    BY <2>2, <2>3
<1>5. ASSUME NEW q \in Relation
      PROVE  /\ IsRelation(db'[q], q) /\ RelInv(q, db'[q], stratum, Stage(q)', input)
             /\ FullOf(q, db'[q], stratum, Stage(q)') = FullOf(q, db[q], stratum, Stage(q))
             /\ DeltaOf(q, db'[q], stratum, Stage(q)') = DeltaOf(q, db[q], stratum, Stage(q))
             /\ db'[q].new.cols = db[q].new.cols \cup ProducedOf(v, q)
  <2> DEFINE o == Opened(v)[q]
             facts == {x[2] : x \in {y \in out : RelOf[y[2]] = q}}
             count == Cardinality({y \in out : RelOf[y[2]] = q})
             e == AppendRows(db[q].new, facts, count)
             r == db'[q]
  <2>1. o.new = db[q].new /\ o = [full |-> o.full, delta |-> o.delta, new |-> o.new]
    <3> DEFINE A == EnsureAll(EnsureAll(db[q].full, ReadBy(v, q, "full"), FALSE), NegatedBy(v, q), TRUE)
               B == EnsureAll(db[q].delta, ReadBy(v, q, "delta"), FALSE)
    <3>1. o = [full |-> A, delta |-> B, new |-> db[q].new]
      BY Zenon DEF Opened
    <3> HIDE DEF A, B, o
    <3> QED
      BY <3>1
  <2>2. r = [o EXCEPT !.new = AppendRows(@, facts, count)]
    BY Zenon DEF Execute
  <2>3. facts \in SUBSET Facts(q) /\ facts = ProducedOf(v, q)
    BY <1>4 DEF Facts, ProducedOf, Of
  <2>4. count \in Nat
    <3>1. {y \in out : RelOf[y[2]] = q} \in SUBSET (Ground \X Fact)
      BY <1>4
    <3>2. IsFiniteSet({y \in out : RelOf[y[2]] = q})
      BY <1>4, <3>1, FS_Subset
    <3> QED
      BY <3>2, FS_CardinalityType
  <2> HIDE DEF out, facts, count
  <2>5. IsVersion(db[q].new, q)
    BY <1>2 DEF IsRelation
  <2>6. IsVersion(e, q) /\ e.cols = db[q].new.cols \cup facts
    BY <2>3, <2>4, <2>5, AppendParts
  <2> HIDE DEF o, r
  <2>7. /\ r.full = o.full /\ r.delta = o.delta /\ r.new = e
        /\ r = [full |-> r.full, delta |-> r.delta, new |-> r.new]
    <3>1. e = AppendRows(o.new, facts, count)
      BY <2>1
    <3> HIDE DEF e
    <3> QED
      BY <2>1, <2>2, <3>1
  <2> HIDE DEF e
  <2>8. r.full = Opened(v)[q].full /\ r.delta = Opened(v)[q].delta
    BY <2>7 DEF o
  <2>9. IsRelation(r, q) /\ RelInv(q, r, stratum, Stage(q), input) /\ SameViews(q, v, r)
    BY <1>1, <2>6, <2>7, <2>8, OpenedKeeps
  <2>10. Stage(q)' = Stage(q)
    BY <1>1 DEF Stage
  <2>11. /\ FullOf(q, r, stratum, Stage(q)) = FullOf(q, db[q], stratum, Stage(q))
         /\ DeltaOf(q, r, stratum, Stage(q)) = DeltaOf(q, db[q], stratum, Stage(q))
    BY <2>9 DEF SameViews
  <2>12. r.new.cols = db[q].new.cols \cup ProducedOf(v, q)
    BY <2>3, <2>6, <2>7
  <2> QED
    BY <2>9, <2>10, <2>11, <2>12 DEF r
<1> HIDE DEF out
<1>6. TypeInv'
  BY <1>1, <1>2, <1>3, <1>5 DEF TypeInv, caller
<1>7. PhaseInv'
  BY <1>1, <1>2 DEF PhaseInv, caller, TypeInv
<1>8. \A q \in Relation : RelInv(q, db[q], stratum, Stage(q), input)'
  BY <1>1, <1>5 DEF caller
<1> QED
  BY <1>5, <1>6, <1>7, <1>8 DEF IInv, Executed

(* What the versions stand for is the same before and after.               *)
TuplesStay ==
    \A q \in Relation :
        /\ FullOf(q, db[q], stratum, Stage(q))' = FullOf(q, db[q], stratum, Stage(q))
        /\ DeltaOf(q, db[q], stratum, Stage(q))' = DeltaOf(q, db[q], stratum, Stage(q))
        /\ FullOf(q, db[q], stratum, Stage(q))' = db[q].full.cols

LEMMA NextStratumKeeps ==
    ASSUME IndexedSupported, IInv, NextStratum
    PROVE  IInv' /\ TuplesStay
<1>1. /\ phase = "epilogue" /\ code = {} /\ iter' = 0 /\ db' = db /\ code' = code
      /\ open' = open /\ host' = host /\ live' = live /\ maxIter' = maxIter /\ input' = input
      /\ pipelines' = pipelines
  BY DEF NextStratum
<1>2. /\ Valid /\ PhaseInv /\ TypeInv /\ stratum \in Level /\ live /\ iter \in Nat
      /\ \A q \in Relation : IsRelation(db[q], q) /\ RelInv(q, db[q], stratum, Stage(q), input)
  BY <1>1, RunningParts
<1>3. status = "running" /\ iter > 0
  BY <1>1, <1>2 DEF TypeInv, PhaseInv
<1>4. \/ stratum' = 0 /\ phase' = "idle" /\ status' = "ok"
      \/ stratum' \in Level /\ stratum' = stratum + 1 /\ phase' = "prepare" /\ status' = status
  <2>1. stratum \in 1 .. Len(Strata) /\ Len(Strata) \in Nat
    BY <1>2, LevelFacts
  <2>2. CASE stratum = Len(Strata)
    BY <2>2 DEF NextStratum
  <2>3. CASE stratum # Len(Strata)
    <3>1. stratum' = stratum + 1 /\ phase' = "prepare" /\ status' = status
      BY <2>3 DEF NextStratum
    <3> QED
      BY <2>1, <2>3, <3>1 DEF Level
  <2> QED
    BY <2>2, <2>3
<1>5. exact' \in BOOLEAN
  BY <1>2 DEF NextStratum, TypeInv
<1>6. ASSUME NEW q \in Relation
      PROVE  /\ RelInv(q, db[q], stratum', Stage(q)', input)
             /\ FullOf(q, db[q], stratum', Stage(q)') = FullOf(q, db[q], stratum, Stage(q))
             /\ FullOf(q, db[q], stratum', Stage(q)') = db[q].full.cols
             /\ DeltaOf(q, db[q], stratum', Stage(q)') = DeltaOf(q, db[q], stratum, Stage(q))
  <2> DEFINE d == db[q]
             t == stratum'
             ph == phase'
             g == StageOf(q, "epilogue", stratum, iter, {})
             h == StageOf(q, ph, t, 0, {})
  <2>1. Stage(q) = g /\ Stage(q)' = h
    BY <1>1 DEF Stage
  <2>2. IsRelation(d, q) /\ RelInv(q, d, stratum, g, input)
    BY <1>2, <2>1
  <2>3. /\ g.member <=> q \in Members(stratum)
        /\ g.touched <=> q \in Maintained[stratum] /\ iter > 0
        /\ ~g.comparing
        /\ g.rewritten <=> \E i \in Epilogue[stratum] \ {} : i.rel = q
        /\ g.pending <=> \E u \in Level : u >= stratum /\ q \in Members(u)
        /\ g.merge = {}
    BY RestingStage
  <2> HIDE DEF t, ph, d
  <2>4. /\ h.member <=> ph # "idle" /\ q \in Members(t)
        /\ h.touched <=> /\ ph # "idle" /\ q \in Maintained[t]
                         /\ 0 > 0 \/ (ph = "maintain" /\ \E b \in Blocks(t) : b.rel = q)
        /\ ~h.comparing /\ ~h.moved
        /\ h.pending <=> ph # "idle" /\ \E u \in Level : u >= t /\ q \in Members(u)
        /\ h.prepared <=> ph \notin {"idle", "prepare"}
    BY RestingStage
  <2> HIDE DEF g, h
  <2>5. \/ t = 0 /\ ph = "idle"
        \/ t \in Level /\ t = stratum + 1 /\ ph = "prepare"
    BY <1>4 DEF t, ph
  <2>6. /\ ~h.touched /\ ~h.prepared
        /\ h.member => h.pending /\ q \in Idb /\ t \in Level
    <3>1. t \in Level => t >= t
      BY LevelFacts
    <3> QED
      BY <2>4, <2>5, <3>1 DEF Idb
  <2>7. g.member => g.pending /\ q \in Idb /\ q \in Members(stratum)
    <3>1. stratum >= stratum
      BY <1>2, LevelFacts
    <3> QED
      BY <1>2, <2>3, <3>1 DEF Idb
  <2>8. g.member /\ g.touched => g.rewritten
    BY <1>2, <2>3, EpilogueParts
  <2>9. h.pending => g.pending /\ (g.member => ~Recursive(stratum))
    <3> SUFFICES ASSUME h.pending
                 PROVE  g.pending /\ (g.member => ~Recursive(stratum))
      OBVIOUS
    <3>1. PICK u \in Level : u >= t /\ q \in Members(u)
      BY <2>4
    <3>2. u >= stratum /\ stratum < u
      BY <1>2, <2>4, <2>5, <3>1, LevelFacts
    <3>3. Recursive(stratum) => Members(stratum) \cap Members(u) = {}
      BY <1>2, <3>2 DEF IndexedSupported
    <3> QED
      BY <2>3, <3>1, <3>2, <3>3
  <2>10. /\ RelInv(q, d, t, h, input)
         /\ FullOf(q, d, t, h) = FullOf(q, d, stratum, g)
         /\ FullOf(q, d, t, h) = d.full.cols
         /\ DeltaOf(q, d, t, h) = DeltaOf(q, d, stratum, g)
    BY <1>2, <2>2, <2>3, <2>4, <2>6, <2>7, <2>8, <2>9, StratumKeeps
  <2> QED
    BY <2>1, <2>10 DEF t, d
<1>7. TypeInv'
  BY <1>1, <1>2, <1>3, <1>4, <1>5 DEF TypeInv
<1>8. PhaseInv'
  BY <1>1, <1>2, <1>3, <1>4 DEF PhaseInv
<1>9. \A q \in Relation : RelInv(q, db[q], stratum, Stage(q), input)'
  BY <1>1, <1>6
<1>10. TuplesStay
  BY <1>1, <1>6 DEF TuplesStay
<1> QED
  BY <1>7, <1>8, <1>9, <1>10 DEF IInv

LEMMA AbortKeeps ==
    ASSUME IInv, Abort
    PROVE  IInv'
<1>1. status' = "failed" /\ phase' = "idle" /\ TypeInv
  BY DEF Abort, IInv
<1>2. TypeInv'
  BY <1>1 DEF Abort, TypeInv
<1>3. ~Valid'
  BY <1>1 DEF Valid
<1> QED
  BY <1>2, <1>3 DEF IInv

-----------------------------------------------------------------------------
(* An empty device database is one.                                        *)
LEMMA EmptyIsRelation ==
    ASSUME NEW q \in Relation
    PROVE  /\ IsVersion(NoColumns, q) /\ NoColumns.cols = {} /\ NoColumns.n = 0
           /\ DOMAIN NoColumns.idx = {} /\ Cardinality(NoColumns.cols) <= NoColumns.n
           /\ IsRelation(Empty[q], q) /\ DOMAIN Empty = Relation
<1> DEFINE f == [spec \in {} |-> NoRows]
<1>1. NoColumns = [cols |-> {}, n |-> 0, idx |-> f]
  BY DEF NoColumns, Columns
<1>2. DOMAIN f = {}
  OBVIOUS
<1>3. Cardinality({}) = 0
  BY FS_EmptySet
<1> HIDE DEF f
<1>4. /\ NoColumns.cols = {} /\ NoColumns.n = 0 /\ NoColumns.idx = f
      /\ NoColumns = [cols |-> NoColumns.cols, n |-> NoColumns.n, idx |-> NoColumns.idx]
  BY <1>1
<1>5. IsVersion(NoColumns, q)
  BY <1>2, <1>4 DEF IsVersion
<1>6. Empty[q] = [full |-> NoColumns, delta |-> NoColumns, new |-> NoColumns] /\ DOMAIN Empty = Relation
  BY DEF Empty
<1>7. IsRelation(Empty[q], q)
  BY <1>5, <1>6 DEF IsRelation
<1> QED
  BY <1>2, <1>3, <1>4, <1>5, <1>6, <1>7

(* The host database and the facts in it.                                  *)
IsHost(h) ==
    /\ DOMAIN h = Relation
    /\ \A q \in Relation :
          /\ IsVersion(h[q], q) /\ h[q].idx = NoColumns.idx
          /\ Cardinality(h[q].cols) <= h[q].n
          /\ q \in Idb => h[q] = NoColumns

LEMMA HostFactsParts ==
    ASSUME IsHost(host)
    PROVE  HostFacts \subseteq Fact /\ \A q \in Relation : In(HostFacts, q) = host[q].cols
<1>1. \A q \in Relation : host[q].cols \subseteq {f \in Fact : RelOf[f] = q}
  BY DEF IsHost, IsVersion, Facts
<1>2. HostFacts \subseteq Fact
  BY <1>1 DEF HostFacts
<1>3. ASSUME NEW q \in Relation, NEW f
      PROVE  f \in In(HostFacts, q) <=> f \in host[q].cols
  BY <1>1 DEF In, HostFacts
<1> QED
  BY <1>2, <1>3

LEMMA LoadKeeps ==
    ASSUME IndexedSupported, IInv, NEW file \in Files \cup {{}}, Load(file)
    PROVE  IInv' /\ \A q \in Relation : host'[q].cols = host[q].cols \cup In(file, q)
<1>1. /\ phase = "idle" /\ open' = TRUE
      /\ host' = [q \in Relation |-> AppendRows(host[q], In(file, q), Cardinality(In(file, q)))]
      /\ UNCHANGED <<live, db, stratum, phase, iter, maxIter, pipelines, code,
                     status, exact, input>>
  BY DEF Load
<1>2. TypeInv /\ IsHost(host)
  BY DEF IInv, TypeInv, IsHost
<1>3. file \in SUBSET Fact /\ \A f \in file : \A s \in Level : RelOf[f] \notin Members(s)
  BY ProgramOK DEF IndexedSupported
<1>4. ASSUME NEW q \in Relation
      PROVE  /\ IsVersion(host'[q], q) /\ host'[q].idx = NoColumns.idx
             /\ Cardinality(host'[q].cols) <= host'[q].n
             /\ q \in Idb => host'[q] = NoColumns
             /\ host'[q].cols = host[q].cols \cup In(file, q)
  <2> DEFINE F == In(file, q)
             m == Cardinality(F)
             e == AppendRows(host[q], F, m)
  <2>1. F \in SUBSET Facts(q)
    BY <1>3 DEF In, Facts
  <2>2. IsFiniteSet(F) /\ m \in Nat
    BY <2>1, FactsAreFinite
  <2>3. host'[q] = e
    BY <1>1
  <2>4. /\ IsVersion(host[q], q) /\ host[q].idx = NoColumns.idx
        /\ Cardinality(host[q].cols) <= host[q].n
        /\ q \in Idb => host[q] = NoColumns
    BY <1>2 DEF IsHost
  <2>5. q \in Idb => F = {}
    BY <1>3 DEF Idb, In
  <2>6. m = Cardinality(F)
    OBVIOUS
  <2> HIDE DEF F, m
  <2>7. IsVersion(e, q) /\ e.cols = host[q].cols \cup F /\ e.n = host[q].n + m /\ e.idx = host[q].idx
    BY <2>1, <2>2, <2>4, AppendParts
  <2> HIDE DEF e
  <2>8. host[q].cols \in SUBSET Facts(q) /\ host[q].n \in Nat
    BY <2>4 DEF IsVersion
  <2>9. Cardinality(e.cols) <= e.n
    <3>1. IsFiniteSet(host[q].cols) /\ Cardinality(host[q].cols) \in Nat
      BY <2>8, FactsAreFinite
    <3>2. /\ IsFiniteSet(host[q].cols \cup F)
          /\ Cardinality(host[q].cols \cup F) =
                Cardinality(host[q].cols) + Cardinality(F) - Cardinality(host[q].cols \cap F)
      BY <2>2, <3>1, FS_Union
    <3>3. Cardinality(host[q].cols \cap F) \in Nat
      <4>1. IsFiniteSet(host[q].cols \cap F)
        BY <2>2, FS_Subset
      <4> QED
        BY <4>1, FS_CardinalityType
    <3> QED
      BY <2>2, <2>4, <2>6, <2>7, <2>8, <3>1, <3>2, <3>3
  <2>10. q \in Idb => e = NoColumns
    <3> SUFFICES ASSUME q \in Idb
                 PROVE  e = NoColumns
      OBVIOUS
    <3>1. host[q] = NoColumns /\ F = {} /\ m = 0
      BY <2>4, <2>5, <2>6, FS_EmptySet
    <3>2. /\ NoColumns.cols = {} /\ NoColumns.n = 0
          /\ NoColumns = [cols |-> NoColumns.cols, n |-> NoColumns.n, idx |-> NoColumns.idx]
      BY EmptyIsRelation DEF IsVersion
    <3>3. e = [cols |-> e.cols, n |-> e.n, idx |-> e.idx]
      BY <2>7 DEF IsVersion
    <3>4. e.cols = {} /\ e.n = 0 /\ e.idx = NoColumns.idx
      BY <2>7, <3>1, <3>2
    <3> QED
      BY <3>2, <3>3, <3>4
  <2> QED
    BY <2>3, <2>4, <2>7, <2>9, <2>10 DEF F
<1>5. DOMAIN host' = Relation
  BY <1>1
<1>6. TypeInv'
  BY <1>1, <1>2, <1>4, <1>5 DEF TypeInv
<1>7. Valid' <=> Valid
  BY <1>1 DEF Valid
<1>8. Valid => PhaseInv'
  <2>1. DeltaEmpty' <=> DeltaEmpty
    BY <1>1 DEF DeltaEmpty
  <2> QED
    BY <1>1, <2>1 DEF IInv, PhaseInv
<1>9. Valid => \A q \in Relation : RelInv(q, db[q], stratum, Stage(q), input)'
  BY <1>1 DEF IInv, Stage
<1> QED
  BY <1>4, <1>6, <1>7, <1>8, <1>9 DEF IInv

LEMMA RunKeeps ==
    ASSUME IndexedSupported, IInv, NEW max \in MaxIters, Run(max)
    PROVE  IInv' /\ \A q \in Relation : /\ FullOf(q, db[q], stratum, Stage(q))' = host[q].cols
                                        /\ DeltaOf(q, db[q], stratum, Stage(q))' = {}
                                        /\ db'[q].new.cols = {}
<1>1. /\ live' = TRUE
      /\ db' = [q \in Relation |-> [Empty[q] EXCEPT !.full = host[q]]]
      /\ stratum' = 1 /\ phase' = "prepare" /\ iter' = 0 /\ maxIter' = max
      /\ pipelines' = {} /\ code' = {}
      /\ status' = "running" /\ exact' = TRUE /\ input' = HostFacts
      /\ open' = open /\ host' = host
  BY DEF Run
<1>2. TypeInv /\ IsHost(host)
  BY DEF IInv, TypeInv, IsHost
<1>3. HostFacts \subseteq Fact /\ \A q \in Relation : In(HostFacts, q) = host[q].cols
  BY <1>2, HostFactsParts
<1>4. max \in Nat
  BY ProgramOK
<1>5. 1 \in Level
  BY LevelFacts
<1>6. DOMAIN db' = Relation
  BY <1>1
<1>7. ASSUME NEW q \in Relation
      PROVE  /\ IsRelation(db'[q], q) /\ RelInv(q, db'[q], 1, Stage(q)', HostFacts)
             /\ FullOf(q, db'[q], 1, Stage(q)') = host[q].cols
             /\ DeltaOf(q, db'[q], 1, Stage(q)') = {}
             /\ db'[q].new.cols = {}
  <2> DEFINE d == db'[q]
             h == StageOf(q, "prepare", 1, 0, {})
  <2>1. Stage(q)' = h
    BY <1>1 DEF Stage
  <2>2. /\ IsVersion(NoColumns, q) /\ NoColumns.cols = {} /\ NoColumns.n = 0
        /\ DOMAIN NoColumns.idx = {} /\ Cardinality(NoColumns.cols) <= NoColumns.n
    BY EmptyIsRelation
  <2>3. /\ IsVersion(host[q], q) /\ host[q].idx = NoColumns.idx
        /\ Cardinality(host[q].cols) <= host[q].n
        /\ q \in Idb => host[q] = NoColumns
    BY <1>2 DEF IsHost
  <2>4. /\ d.full = host[q] /\ d.delta = NoColumns /\ d.new = NoColumns
        /\ d = [full |-> d.full, delta |-> d.delta, new |-> d.new]
    <3>1. Empty[q] = [full |-> NoColumns, delta |-> NoColumns, new |-> NoColumns]
      BY DEF Empty
    <3>2. d = [Empty[q] EXCEPT !.full = host[q]]
      BY <1>1
    <3> HIDE DEF d
    <3> QED
      BY <3>1, <3>2
  <2>5. /\ h.member <=> "prepare" # "idle" /\ q \in Members(1)
        /\ h.touched <=> /\ "prepare" # "idle" /\ q \in Maintained[1]
                         /\ 0 > 0 \/ ("prepare" = "maintain" /\ \E b \in Blocks(1) : b.rel = q)
        /\ ~h.comparing /\ ~h.moved
        /\ h.pending <=> "prepare" # "idle" /\ \E t \in Level : t >= 1 /\ q \in Members(t)
        /\ h.prepared <=> "prepare" \notin {"idle", "prepare"}
    BY RestingStage
  <2> HIDE DEF d, h
  <2>6. ~h.touched /\ ~h.prepared /\ (h.member => h.pending /\ q \in Idb)
    BY <1>5, <2>5 DEF Idb
  <2>7. IsRelation(d, q)
    BY <2>2, <2>3, <2>4 DEF IsRelation
  <2>8. ColumnsRel(q, d, HostFacts)
    <3>1. Cardinality({}) = 0
      BY FS_EmptySet
    <3>2. In(HostFacts, q) = host[q].cols
      BY <1>3
    <3>3. CASE q \in Idb
      BY <2>2, <2>3, <2>4, <3>1, <3>2, <3>3 DEF ColumnsRel, Counted
    <3>4. CASE q \notin Idb
      BY <2>3, <2>4, <3>2, <3>4 DEF ColumnsRel
    <3> QED
      BY <3>3, <3>4
  <2>9. \A x : Rows(d.full, x) = {}
    BY <2>2, <2>3, <2>4 DEF Rows, HasIndex
  <2>10. IndexedRows(d.delta) = {}
    BY <2>2, <2>4 DEF IndexedRows
  <2>11. SettledRel(q, d, 1, h)
    <3>1. Clean(d.full)
      BY <2>2, <2>3, <2>4 DEF Clean
    <3> QED
      BY <2>2, <2>3, <2>4, <2>6, <2>9, <2>10, <3>1 DEF SettledRel
  <2>12. RelInv(q, d, 1, h, HostFacts)
    BY <2>5, <2>6, <2>8, <2>11 DEF RelInv
  <2>13. FullOf(q, d, 1, h) = host[q].cols
    BY <1>5, <2>4, <2>6, <2>12, SettledFull
  <2>14. DeltaOf(q, d, 1, h) = {}
    BY <2>5, <2>10 DEF DeltaOf
  <2> QED
    BY <2>1, <2>2, <2>4, <2>7, <2>12, <2>13, <2>14 DEF d
<1>8. TypeInv'
  BY <1>1, <1>2, <1>3, <1>4, <1>6, <1>7 DEF TypeInv
<1>9. PhaseInv'
  BY <1>1, <1>5 DEF PhaseInv
<1>10. \A q \in Relation : /\ RelInv(q, db[q], stratum, Stage(q), input)'
                           /\ FullOf(q, db[q], stratum, Stage(q))' = host[q].cols
                           /\ DeltaOf(q, db[q], stratum, Stage(q))' = {}
                           /\ db'[q].new.cols = {}
  BY <1>1, <1>7
<1> QED
  BY <1>8, <1>9, <1>10 DEF IInv

LEMMA FailKeeps ==
    ASSUME IInv, RunFails \/ Shutdown
    PROVE  IInv'
<1>1. TypeInv /\ IsHost(host)
  BY DEF IInv, TypeInv, IsHost
<1>2. /\ db' = Empty /\ ~Valid' /\ phase' = phase /\ phase = "idle" /\ iter' = 0
      /\ live' = FALSE /\ status' \in {"failed", "none"} /\ exact' = TRUE /\ maxIter' = maxIter
      /\ \/ open' = open /\ host' = host /\ input' = HostFacts
         \/ open' = FALSE /\ host' = [q \in Relation |-> NoColumns] /\ input' = {}
  BY DEF RunFails, Shutdown, Valid
<1>3. input' \subseteq Fact
  BY <1>1, <1>2, HostFactsParts
<1>4. IsHost(host')
  BY <1>1, <1>2, EmptyIsRelation DEF IsHost
<1>5. DOMAIN db' = Relation /\ \A q \in Relation : IsRelation(db'[q], q)
  BY <1>2, EmptyIsRelation DEF Empty
<1>6. TypeInv'
  BY <1>1, <1>2, <1>3, <1>4, <1>5 DEF TypeInv, IsHost
<1> QED
  BY <1>2, <1>6 DEF IInv

LEMMA InitKeeps ==
    ASSUME Init
    PROVE  IInv
<1>1. db = Empty /\ host = [q \in Relation |-> NoColumns] /\ ~Valid
  BY DEF Init, Valid
<1>2. DOMAIN host = Relation /\ DOMAIN db = Relation
  BY <1>1 DEF Empty
<1>3. \A q \in Relation :
          /\ IsVersion(host[q], q) /\ host[q].idx = NoColumns.idx
          /\ Cardinality(host[q].cols) <= host[q].n
          /\ q \in Idb => host[q] = NoColumns
          /\ IsRelation(db[q], q)
  BY <1>1, EmptyIsRelation
<1>4. TypeInv
  BY <1>2, <1>3 DEF TypeInv, Init
<1> QED
  BY <1>1, <1>4 DEF IInv

(* Steps that leave everything as it is.                                   *)
LEMMA StutterKeeps ==
    ASSUME IInv, UNCHANGED vars
    PROVE  IInv'
<1>1. /\ TypeInv' <=> TypeInv
      /\ Valid' <=> Valid
  BY DEF vars, TypeInv, Valid
<1>2. PhaseInv' <=> PhaseInv
  BY DEF vars, PhaseInv, DeltaEmpty
<1>3. (\A q \in Relation : RelInv(q, db[q], stratum, Stage(q), input))' <=>
      (\A q \in Relation : RelInv(q, db[q], stratum, Stage(q), input))
  BY DEF vars, Stage
<1> QED
  BY <1>1, <1>2, <1>3 DEF IInv

(* The invariant holds throughout every run: columns, row counts and the   *)
(* indexes of each version stay what the stage of their relation says.     *)
THEOREM IndexInvariant ==
    ASSUME IndexedSupported
    PROVE  Spec => []IInv
<1>1. Init => IInv
  BY InitKeeps
<1>2. IInv /\ [Next]_vars => IInv'
  <2> SUFFICES ASSUME IInv, [Next]_vars
               PROVE  IInv'
    OBVIOUS
  <2>1. CASE \E file \in Files \cup {{}} : Load(file)
    BY <2>1, LoadKeeps
  <2>2. CASE \E max \in MaxIters : Run(max)
    BY <2>2, RunKeeps
  <2>3. CASE RunFails \/ Shutdown
    BY <2>3, FailKeeps
  <2>4. CASE phase # "idle" /\ Step
    <3>1. CASE Prepare
      BY <3>1, PrepareStep
    <3>2. CASE StartIteration
      BY <3>2, StartIterationKeeps
    <3>3. CASE \E v \in pipelines : Execute(v)
      BY <3>3, ExecuteStep
    <3>4. CASE StartMaintenance
      BY <3>4, StartMaintenanceKeeps
    <3>5. CASE \E i \in code : Instruction(i)
      BY <2>4, <3>5, InstructionKeeps
    <3>6. CASE EndIteration
      BY <3>6, EndIterationKeeps
    <3>7. CASE Leave
      BY <3>7, LeaveKeeps
    <3>8. CASE NextStratum
      BY <3>8, NextStratumKeeps
    <3> QED
      BY <2>4, <3>1, <3>2, <3>3, <3>4, <3>5, <3>6, <3>7, <3>8 DEF Step
  <2>5. CASE Abort
    BY <2>5, AbortKeeps
  <2>6. CASE UNCHANGED vars
    BY <2>6, StutterKeeps
  <2> QED
    BY <2>1, <2>2, <2>3, <2>4, <2>5, <2>6 DEF Next
<1> QED
  BY <1>1, <1>2, PTL DEF Spec

-----------------------------------------------------------------------------
(***************************************************************************)
(* What the invariant gives                                                *)
(***************************************************************************)
FullNow(q) == FullOf(q, db[q], stratum, Stage(q))
DeltaNow(q) == DeltaOf(q, db[q], stratum, Stage(q))

LEMMA RowsNow ==
    ASSUME IndexedSupported, IInv, phase # "idle", NEW q \in Relation
    PROVE  FullRows(q) = FullNow(q) /\ DeltaRows(q) = DeltaNow(q)
<1>1. stratum \in Level /\ live
  BY RunningParts
<1>2. stratum # 0
  BY <1>1, LevelFacts
<1> DEFINE g == Stage(q)
           h == StageOf(q, phase, stratum, iter, code)
<1>3. /\ h.member <=> q \in Members(stratum)
      /\ h.comparing <=> ComparingIn(code, q)
  BY StageFields
<1>4. g = h
  BY DEF Stage
<1> HIDE DEF g, h
<1>5. FullRows(q) = FullNow(q)
  BY <1>1, <1>2, <1>3, <1>4 DEF FullRows, FullNow, FullOf, g
<1>6. Comparing(q) <=> g.comparing
  BY <1>3, <1>4 DEF Comparing, ComparingIn
<1> QED
  BY <1>5, <1>6 DEF DeltaRows, DeltaNow, DeltaOf, FullNow, IndexedRows, g

(* While pipelines run, no maintenance is under way.                       *)
LEMMA RunStage ==
    ASSUME IndexedSupported, IInv, phase = "run", NEW q \in Relation
    PROVE  /\ Stage(q).member <=> q \in Members(stratum)
           /\ Stage(q).touched <=> q \in Maintained[stratum] /\ iter > 0
           /\ ~Stage(q).comparing /\ ~Stage(q).moved /\ Stage(q).prepared
           /\ Stage(q).member => Stage(q).pending /\ q \in Idb
           /\ Stage(q).merge = {} /\ Stage(q).copy = {}
           /\ Recursive(stratum) => Maintained[stratum] = Members(stratum)
           /\ iter > 0 => Recursive(stratum)
<1>1. /\ PhaseInv /\ TypeInv /\ stratum \in Level /\ iter \in Nat
  BY RunningParts
<1>2. code = {}
  BY <1>1 DEF PhaseInv
<1> DEFINE g == Stage(q)
           h == StageOf(q, "run", stratum, iter, {})
<1>3. g = h
  BY <1>2 DEF Stage
<1>4. /\ h.member <=> q \in Members(stratum)
      /\ h.touched <=> q \in Maintained[stratum] /\ iter > 0
      /\ ~h.comparing /\ ~h.moved /\ h.prepared
      /\ h.merge = {} /\ h.copy = {}
  BY RestingStage
<1>5. h.member => h.pending /\ q \in Idb
  BY <1>1, MemberIsPending
<1>6. Recursive(stratum) => Maintained[stratum] = Members(stratum)
  <2> SUFFICES ASSUME Recursive(stratum)
               PROVE  Maintained[stratum] = Members(stratum)
    OBVIOUS
  <2>1. Maintained[stratum] = {b.rel : b \in Blocks(stratum)}
    BY <1>1, OrderOfBlocks
  <2>2. Blocks(stratum) = {[by |-> "loop", rel |-> p] : p \in Members(stratum)}
    BY DEF Blocks
  <2>3. ASSUME NEW p \in Members(stratum)
        PROVE  p \in Maintained[stratum]
    <3> DEFINE b == [by |-> "loop", rel |-> p]
    <3>1. b \in Blocks(stratum) /\ b.rel = p
      BY <2>2
    <3> HIDE DEF b
    <3> QED
      BY <2>1, <3>1
  <2> QED
    BY <1>1, <2>3, OrderOfBlocks
<1>7. iter > 0 => Recursive(stratum)
  BY <1>1 DEF PhaseInv
<1> HIDE DEF g, h
<1> QED
  BY <1>3, <1>4, <1>5, <1>6, <1>7 DEF g

(* What a pipeline reads.                                                  *)
LEMMA ViewsAreCurrent ==
    ASSUME IndexedSupported, IInv, phase = "run", NEW v \in pipelines
    PROVE  /\ \A i \in DOMAIN Body[v.rule] :
                 LET q == Body[v.rule][i]
                 IN  /\ q \in Relation
                     /\ View(Opened(v), q, VersionOf(v, i), Access[v][i]) =
                           IF VersionOf(v, i) = "delta" THEN DeltaNow(q) ELSE FullNow(q)
                     /\ iter = 0 => FullNow(q) = db[q].full.cols
           /\ \A q \in Negated[v.rule] :
                 /\ q \in Relation
                 /\ View(Opened(v), q, "full", NegAccess[v][q]) = FullNow(q)
                 /\ FullNow(q) = db[q].full.cols
<1>1. /\ PhaseInv /\ TypeInv /\ stratum \in Level /\ iter \in Nat
      /\ \A q \in Relation : IsRelation(db[q], q) /\ RelInv(q, db[q], stratum, Stage(q), input)
  BY RunningParts
<1>2. v \in Variants(stratum)
  BY <1>1 DEF PhaseInv
<1>3. v.rule \in Rule /\ IF Recursive(stratum) THEN v.clause \in SccClauses(stratum, v.rule) ELSE v.clause = 0
  BY <1>1, <1>2, VariantParts
<1>4. /\ DOMAIN Body[v.rule] = 1 .. Len(Body[v.rule]) /\ Len(Body[v.rule]) \in Nat
      /\ \A i \in DOMAIN Body[v.rule] : Body[v.rule][i] \in Relation
      /\ Negated[v.rule] \subseteq Relation
  BY <1>3, BodyParts
<1>5. ASSUME NEW q \in Relation
      PROVE  SameViews(q, v, Opened(v)[q])
  <2> DEFINE A == EnsureAll(EnsureAll(db[q].full, ReadBy(v, q, "full"), FALSE), NegatedBy(v, q), TRUE)
             B == EnsureAll(db[q].delta, ReadBy(v, q, "delta"), FALSE)
             o == Opened(v)[q]
  <2>1. o = [full |-> A, delta |-> B, new |-> db[q].new]
    BY Zenon DEF Opened
  <2>2. IsVersion(db[q].new, q)
    BY <1>1 DEF IsRelation
  <2> HIDE DEF A, B, o
  <2>3. o.new = db[q].new /\ o = [full |-> o.full, delta |-> o.delta, new |-> o.new]
    BY <2>1
  <2>4. o.full = Opened(v)[q].full /\ o.delta = Opened(v)[q].delta
    BY DEF o
  <2>5. IsVersion(o.new, q)
    BY <2>2, <2>3
  <2>6. SameViews(q, v, o)
    BY <2>3, <2>4, <2>5, OpenedKeeps
  <2> QED
    BY <2>6 DEF o
<1>6. ASSUME NEW q \in Relation, ~Stage(q).touched \/ ~Stage(q).member
      PROVE  FullNow(q) = db[q].full.cols /\ SettledRel(q, db[q], stratum, Stage(q))
  <2> DEFINE g == Stage(q)
  <2>1. g.member => g.pending /\ q \in Idb
    BY RunStage
  <2>2. RelInv(q, db[q], stratum, g, input) /\ ~(g.member /\ g.touched)
    BY <1>1, <1>6
  <2> HIDE DEF g
  <2>3. FullOf(q, db[q], stratum, g) = db[q].full.cols
    BY <1>1, <2>1, <2>2, SettledFull
  <2>4. SettledRel(q, db[q], stratum, g)
    BY <2>2 DEF RelInv
  <2> QED
    BY <2>3, <2>4 DEF FullNow, g
<1>7. ASSUME NEW i \in DOMAIN Body[v.rule]
      PROVE  LET q == Body[v.rule][i]
             IN  /\ q \in Relation
                 /\ View(Opened(v), q, VersionOf(v, i), Access[v][i]) =
                       IF VersionOf(v, i) = "delta" THEN DeltaNow(q) ELSE FullNow(q)
                 /\ iter = 0 => FullNow(q) = db[q].full.cols
  <2> DEFINE q == Body[v.rule][i]
             spec == Access[v][i]
             g == Stage(q)
             d == db[q]
             o == Opened(v)[q]
             F == FullNow(q)
             D == DeltaNow(q)
  <2>1. /\ q \in Relation
        /\ IF i = v.clause THEN spec \in ReadAsDelta(stratum, q) ELSE spec \in ReadPositively(stratum, q)
    BY <1>1, <1>2, <1>4, ReadsOfVariant
  <2>2. /\ g.member <=> q \in Members(stratum)
        /\ g.touched <=> q \in Maintained[stratum] /\ iter > 0
        /\ ~g.comparing /\ ~g.moved /\ g.prepared
        /\ g.member => g.pending /\ q \in Idb
        /\ g.merge = {} /\ g.copy = {}
        /\ Recursive(stratum) => Maintained[stratum] = Members(stratum)
        /\ iter > 0 => Recursive(stratum)
    BY <2>1, RunStage
  <2>3. /\ \A x : Rows(o.full, x) = IF x \in NegatedBy(v, q) THEN d.full.cols ELSE Rows(d.full, x)
        /\ \A x : Rows(o.delta, x) = Rows(d.delta, x)
    BY <1>5, <2>1 DEF SameViews
  <2>4. /\ ReadAsDelta(stratum, q) \subseteq Needed(stratum, q)
        /\ Recursive(stratum) => ReadPositively(stratum, q) \subseteq Kept(stratum, q)
        /\ Canonical[stratum][q] \in Kept(stratum, q)
        /\ ReadAsDelta(stratum, q) \subseteq Specs(q) /\ ReadAsFull(stratum, q) \subseteq Specs(q)
    BY <1>1, <2>1, NeededParts
  <2>5. RelInv(q, d, stratum, g, input)
    BY <1>1, <2>1
  <2>6. F = FullOf(q, d, stratum, g) /\ D = DeltaOf(q, d, stratum, g)
    BY DEF FullNow, DeltaNow
  <2>7. /\ ~g.touched => F = d.full.cols /\ SettledRel(q, d, stratum, g)
        /\ ~g.member => F = d.full.cols /\ SettledRel(q, d, stratum, g)
    BY <1>6, <2>1
  <2> HIDE DEF q, spec, g, d, o, F, D
  <2>8. iter = 0 => F = d.full.cols
    BY <2>2, <2>7
  <2>9. CASE VersionOf(v, i) = "delta"
    <3>1. i = v.clause /\ iter > 0 /\ Recursive(stratum)
      BY <2>2, <2>9 DEF VersionOf
    <3>2. q \in Members(stratum)
      BY <1>3, <3>1 DEF SccClauses, q
    <3>3. g.member /\ g.touched
      BY <2>2, <3>1, <3>2
    <3>4. TouchedRel(q, d, stratum, g)
      BY <2>5, <3>3 DEF RelInv
    <3>5. Rows(d.delta, spec) = D
      BY <2>1, <2>2, <2>4, <2>6, <3>1, <3>4 DEF TouchedRel
    <3>6. View(Opened(v), q, "delta", spec) = Rows(o.delta, spec)
      BY DEF View, o
    <3> QED
      BY <2>1, <2>3, <2>8, <2>9, <3>5, <3>6 DEF q, spec, d, F, D
  <2>10. CASE VersionOf(v, i) # "delta"
    <3>1. VersionOf(v, i) = "full" /\ (i # v.clause \/ iter = 0)
      BY <1>1, <2>10 DEF VersionOf
    <3>2. View(Opened(v), q, "full", spec) = Rows(o.full, spec)
      BY DEF View, o
    <3>3. CASE spec \in NegatedBy(v, q)
      <4>1. q \in Negated[v.rule]
        BY <3>3 DEF NegatedBy
      <4>2. q \notin Members(stratum)
        BY <1>1, <1>2, <4>1, MembersAreNotRead
      <4>3. F = d.full.cols
        BY <2>2, <2>7, <4>2
      <4> QED
        BY <2>1, <2>3, <2>8, <3>1, <3>2, <3>3, <4>3 DEF q, spec, d, F, D
    <3>4. Rows(d.full, spec) = F
      <4>1. CASE g.member /\ g.touched
        <5>1. i # v.clause /\ Recursive(stratum)
          BY <2>2, <3>1, <4>1
        <5>2. TouchedRel(q, d, stratum, g)
          BY <2>5, <4>1 DEF RelInv
        <5>3. \A x \in Kept(stratum, q) : Rows(d.full, x) = F \cup D
          BY <2>2, <2>6, <5>2 DEF TouchedRel
        <5>4. F = Rows(d.full, Canonical[stratum][q])
          BY <2>6, <4>1 DEF FullOf
        <5> QED
          BY <2>1, <2>4, <5>1, <5>3, <5>4
      <4>2. CASE g.member /\ ~g.touched
        <5>1. spec \in Specs(q)
          BY <2>1, <2>4 DEF ReadAsFull
        <5> QED
          BY <2>2, <2>7, <4>2, <5>1 DEF SettledRel
      <4>3. CASE ~g.member
        <5>1. spec \in Prebuilt(stratum, q)
          <6>1. CASE Recursive(stratum)
            <7>1. v.clause \in DOMAIN Body[v.rule] /\ v.clause # i
              BY <1>3, <2>2, <4>3, <6>1 DEF SccClauses, q
            <7>2. Len(Body[v.rule]) > 1
              BY <1>4, <7>1
            <7>3. spec \in Joined(stratum, q)
              BY <1>2, <7>2 DEF Joined, q, spec
            <7> QED
              BY <6>1, <7>3 DEF Prebuilt
          <6>2. CASE ~Recursive(stratum)
            <7>1. v.clause # i
              BY <1>3, <1>4, <6>2
            <7> QED
              BY <2>1, <6>2, <7>1 DEF Prebuilt, ReadAsFull
          <6> QED
            BY <6>1, <6>2
        <5> QED
          BY <2>2, <2>7, <4>3, <5>1 DEF SettledRel
      <4> QED
        BY <4>1, <4>2, <4>3
    <3> QED
      BY <2>1, <2>3, <2>8, <3>1, <3>2, <3>3, <3>4 DEF q, spec, d, F, D
  <2> QED
    BY <2>9, <2>10
<1>8. ASSUME NEW q \in Negated[v.rule]
      PROVE  /\ q \in Relation
             /\ View(Opened(v), q, "full", NegAccess[v][q]) = FullNow(q)
             /\ FullNow(q) = db[q].full.cols
  <2>1. q \in Relation
    BY <1>4
  <2>2. q \notin Members(stratum)
    BY <1>1, <1>2, MembersAreNotRead
  <2>3. FullNow(q) = db[q].full.cols
    BY <1>6, <2>1, <2>2, RunStage
  <2>4. NegAccess[v][q] \in NegatedBy(v, q)
    BY DEF NegatedBy
  <2>5. Rows(Opened(v)[q].full, NegAccess[v][q]) = db[q].full.cols
    BY <1>5, <2>1, <2>4 DEF SameViews
  <2> QED
    BY <2>1, <2>3, <2>5 DEF View
<1> QED
  BY <1>7, <1>8

(* Whatever index a pipeline reads a clause or a negated clause through,   *)
(* it holds exactly the facts of the version the clause stands for.        *)
THEOREM IndexesAreCurrent ==
    ASSUME IndexedSupported
    PROVE  Spec => []ReadsAreCurrent
<1>1. IInv => ReadsAreCurrent
  <2> SUFFICES ASSUME IInv, phase = "run", NEW v \in pipelines
               PROVE  /\ \A i \in DOMAIN Body[v.rule] :
                            LET q == Body[v.rule][i] IN
                            View(Opened(v), q, VersionOf(v, i), Access[v][i]) =
                                IF VersionOf(v, i) = "delta" THEN DeltaRows(q) ELSE CurrentFull(q)
                      /\ \A q \in Negated[v.rule] :
                            View(Opened(v), q, "full", NegAccess[v][q]) = CurrentFull(q)
    BY DEF ReadsAreCurrent
  <2>1. ASSUME NEW i \in DOMAIN Body[v.rule]
        PROVE  LET q == Body[v.rule][i] IN
               View(Opened(v), q, VersionOf(v, i), Access[v][i]) =
                   IF VersionOf(v, i) = "delta" THEN DeltaRows(q) ELSE CurrentFull(q)
    <3> DEFINE q == Body[v.rule][i]
    <3>1. /\ q \in Relation
          /\ View(Opened(v), q, VersionOf(v, i), Access[v][i]) =
                IF VersionOf(v, i) = "delta" THEN DeltaNow(q) ELSE FullNow(q)
          /\ iter = 0 => FullNow(q) = db[q].full.cols
      BY <2>1, ViewsAreCurrent
    <3>2. FullRows(q) = FullNow(q) /\ DeltaRows(q) = DeltaNow(q)
      BY <3>1, RowsNow
    <3> HIDE DEF q
    <3>3. CurrentFull(q) = FullNow(q)
      BY <3>1, <3>2 DEF CurrentFull
    <3> QED
      BY <3>1, <3>2, <3>3 DEF q
  <2>2. ASSUME NEW q \in Negated[v.rule]
        PROVE  View(Opened(v), q, "full", NegAccess[v][q]) = CurrentFull(q)
    <3>1. /\ q \in Relation
          /\ View(Opened(v), q, "full", NegAccess[v][q]) = FullNow(q)
          /\ FullNow(q) = db[q].full.cols
      BY <2>2, ViewsAreCurrent
    <3>2. FullRows(q) = FullNow(q)
      BY <3>1, RowsNow
    <3> QED
      BY <3>1, <3>2 DEF CurrentFull
  <2> QED
    BY <2>1, <2>2
<1> QED
  BY <1>1, IndexInvariant, PTL

(* Between strata, an index whose row count says it is up to date is:      *)
(* ensure_index never skips a rebuild that was needed.                     *)
THEOREM CountsTell ==
    ASSUME IndexedSupported
    PROVE  Spec => []CleanMeansCurrent
<1>1. IInv => CleanMeansCurrent
  <2> SUFFICES ASSUME IInv, phase = "prepare", NEW q \in Relation,
                      NEW spec \in DOMAIN db[q].full.idx, ~IsDirty(db[q].full, spec)
               PROVE  db[q].full.idx[spec].rows = db[q].full.cols
    BY DEF CleanMeansCurrent
  <2>1. PhaseInv /\ iter \in Nat /\ RelInv(q, db[q], stratum, Stage(q), input)
    BY RunningParts
  <2>2. code = {} /\ iter = 0
    BY <2>1 DEF PhaseInv
  <2> DEFINE g == StageOf(q, "prepare", stratum, 0, {})
  <2>3. Stage(q) = g
    BY <2>2 DEF Stage
  <2>4. g.touched <=> /\ "prepare" # "idle" /\ q \in Maintained[stratum]
                      /\ 0 > 0 \/ ("prepare" = "maintain" /\ \E b \in Blocks(stratum) : b.rel = q)
    BY RestingStage
  <2> HIDE DEF g
  <2>5. ~g.touched
    BY <2>4
  <2>6. Clean(db[q].full)
    BY <2>1, <2>3, <2>5 DEF RelInv, SettledRel
  <2> QED
    BY <2>6 DEF Clean, IsDirty
<1> QED
  BY <1>1, IndexInvariant, PTL

(* After a successful run the columns the caller reads hold every fact of  *)
(* FULL and every loaded one, and of a computed relation each fact once.   *)
THEOREM ColumnsHoldResult ==
    ASSUME IndexedSupported
    PROVE  Spec => []ResultInColumns
<1>1. IInv => ResultInColumns
  <2> SUFFICES ASSUME IInv, status = "ok", NEW q \in Relation
               PROVE  /\ Contents(db[q].full) \subseteq db[q].full.cols
                      /\ In(input, q) \subseteq db[q].full.cols
                      /\ (\E s \in Level : q \in Maintained[s]) =>
                            db[q].full.n = Cardinality(db[q].full.cols)
    BY DEF ResultInColumns
  <2>1. PhaseInv /\ RelInv(q, db[q], stratum, Stage(q), input) /\ phase = "idle"
    BY DEF IInv, Valid, TypeInv
  <2>2. stratum = 0 /\ code = {}
    BY <2>1 DEF PhaseInv
  <2> DEFINE g == StageOf(q, "idle", 0, iter, {})
  <2>3. Stage(q) = g
    BY <2>1, <2>2 DEF Stage
  <2>4. g.member <=> "idle" # "idle" /\ q \in Members(0)
    BY RestingStage
  <2> HIDE DEF g
  <2>5. ~g.member
    BY <2>4
  <2>6. Clean(db[q].full) /\ ColumnsRel(q, db[q], input)
    BY <2>1, <2>3, <2>5 DEF RelInv, SettledRel
  <2>7. Contents(db[q].full) \subseteq db[q].full.cols
    <3>1. IndexedRows(db[q].full) \subseteq db[q].full.cols
      BY <2>6, RowsAreIndexed
    <3> QED
      BY <3>1 DEF Contents, IndexedRows
  <2>8. (\E s \in Level : q \in Maintained[s]) => q \in Idb
    BY OrderOfBlocks DEF Idb
  <2> QED
    BY <2>6, <2>7, <2>8 DEF ColumnsRel
<1> QED
  BY <1>1, IndexInvariant, PTL

-----------------------------------------------------------------------------
(***************************************************************************)
(* The runner on tuple sets                                                *)
(***************************************************************************)

(* What the versions stand for after a step.                               *)
LEMMA RowsNext ==
    ASSUME IF phase' = "idle" THEN ~live' \/ stratum' = 0 ELSE live' /\ stratum' # 0,
           NEW q \in Relation
    PROVE  FullRows(q)' = FullNow(q)' /\ DeltaRows(q)' = DeltaNow(q)'
<1> DEFINE g == Stage(q)'
           ph == phase'
           s == stratum'
           k == iter'
           C == code'
           h == StageOf(q, ph, s, k, C)
<1>1. g = h
  BY DEF Stage
<1> HIDE DEF g, ph, s, k, C
<1>2. /\ h.member <=> ph # "idle" /\ q \in Members(s)
      /\ h.comparing <=> ComparingIn(C, q)
  BY StageFields
<1> HIDE DEF h
<1>3. FullRows(q)' = FullNow(q)'
  BY <1>1, <1>2 DEF FullRows, FullNow, FullOf, g, ph, s
<1>4. Comparing(q)' <=> g.comparing
  BY <1>1, <1>2 DEF Comparing, ComparingIn, g, C
<1> QED
  BY <1>3, <1>4 DEF DeltaRows, DeltaNow, DeltaOf, FullNow, IndexedRows, g

(* Facts of each relation put together, and told apart again.              *)
LEMMA TogetherAndApart ==
    ASSUME NEW F, \A q \in Relation : F[q] \in SUBSET Facts(q)
    PROVE  \A q \in Relation : In(UNION {F[p] : p \in Relation}, q) = F[q]
<1> SUFFICES ASSUME NEW q \in Relation, NEW f
             PROVE  f \in In(UNION {F[p] : p \in Relation}, q) <=> f \in F[q]
  OBVIOUS
<1>1. \A p \in Relation : \A x \in F[p] : x \in Fact /\ RelOf[x] = p
  BY DEF Facts
<1> QED
  BY <1>1 DEF In

LEMMA FactsNow ==
    ASSUME IndexedSupported, IInv, phase # "idle"
    PROVE  /\ \A q \in Relation : /\ FullNow(q) \in SUBSET Facts(q) /\ DeltaNow(q) \in SUBSET Facts(q)
                                  /\ db[q].new.cols \in SUBSET Facts(q)
                                  /\ In(FullFacts, q) = FullNow(q) \cup DeltaNow(q)
                                  /\ In(DeltaFacts, q) = DeltaNow(q)
                                  /\ In(NewFacts, q) = db[q].new.cols
           /\ FullFacts = UNION {FullNow(q) \cup DeltaNow(q) : q \in Relation}
           /\ DeltaFacts = UNION {DeltaNow(q) : q \in Relation}
<1>1. \A q \in Relation : IsRelation(db[q], q)
  BY RunningParts
<1>2. ASSUME NEW q, NEW r, IsVersion(r, q)
      PROVE  IndexedRows(r) \in SUBSET Facts(q) /\ \A x : Rows(r, x) \in SUBSET Facts(q)
  BY <1>2 DEF IsVersion, IndexedRows, Rows, HasIndex
<1>3. ASSUME NEW q \in Relation
      PROVE  /\ FullNow(q) \in SUBSET Facts(q) /\ DeltaNow(q) \in SUBSET Facts(q)
             /\ db[q].new.cols \in SUBSET Facts(q)
  <2>1. IsVersion(db[q].full, q) /\ IsVersion(db[q].delta, q) /\ IsVersion(db[q].new, q)
    BY <1>1 DEF IsRelation
  <2>2. /\ db[q].full.cols \in SUBSET Facts(q) /\ db[q].new.cols \in SUBSET Facts(q)
        /\ \A x : Rows(db[q].full, x) \in SUBSET Facts(q)
        /\ \A x : Rows(db[q].new, x) \in SUBSET Facts(q)
        /\ IndexedRows(db[q].delta) \in SUBSET Facts(q)
    BY <1>2, <2>1 DEF IsVersion
  <2>3. FullNow(q) \in SUBSET Facts(q)
    BY <2>2 DEF FullNow, FullOf
  <2>4. DeltaNow(q) \in SUBSET Facts(q)
    BY <2>2 DEF DeltaNow, DeltaOf
  <2> QED
    BY <2>2, <2>3, <2>4
<1> DEFINE D == [q \in Relation |-> DeltaNow(q)]
           F == [q \in Relation |-> FullNow(q) \cup DeltaNow(q)]
           N == [q \in Relation |-> db[q].new.cols]
<1>4. \A q \in Relation : FullRows(q) = FullNow(q) /\ DeltaRows(q) = DeltaNow(q)
  BY RowsNow
<1>5. /\ FullFacts = UNION {F[q] : q \in Relation} /\ DeltaFacts = UNION {D[q] : q \in Relation}
      /\ NewFacts = UNION {N[q] : q \in Relation}
  BY <1>4 DEF FullFacts, DeltaFacts, NewFacts
<1>6. /\ \A q \in Relation : F[q] \in SUBSET Facts(q)
      /\ \A q \in Relation : D[q] \in SUBSET Facts(q)
      /\ \A q \in Relation : N[q] \in SUBSET Facts(q)
  BY <1>3
<1>7. \A q \in Relation : F[q] = FullNow(q) \cup DeltaNow(q) /\ D[q] = DeltaNow(q) /\ N[q] = db[q].new.cols
  OBVIOUS
<1>8. /\ FullFacts = UNION {FullNow(q) \cup DeltaNow(q) : q \in Relation}
      /\ DeltaFacts = UNION {DeltaNow(q) : q \in Relation}
  BY <1>4 DEF FullFacts, DeltaFacts
<1> HIDE DEF F, D, N
<1>9. /\ \A q \in Relation : In(FullFacts, q) = F[q]
      /\ \A q \in Relation : In(DeltaFacts, q) = D[q]
      /\ \A q \in Relation : In(NewFacts, q) = N[q]
  BY <1>5, <1>6, TogetherAndApart
<1> QED
  BY <1>3, <1>7, <1>8, <1>9

(* When nothing moves, the runner on tuple sets has nothing to do.         *)
LEMMA MovesNothingKeeps ==
    ASSUME IndexedSupported, IInv, IInv', phase # "idle", phase' # "idle",
           stratum' = stratum, MovesNothing
    PROVE  FullFacts' = FullFacts /\ DeltaFacts' = DeltaFacts /\ NewFacts' = NewFacts
<1>1. live' /\ stratum' # 0
  <2>1. live' /\ stratum' \in Level
    BY DEF IInv, TypeInv, Valid, PhaseInv
  <2> QED
    BY <2>1, LevelFacts
<1>2. \A q \in Relation : /\ FullRows(q)' = FullNow(q)' /\ DeltaRows(q)' = DeltaNow(q)'
                          /\ FullRows(q) = FullNow(q) /\ DeltaRows(q) = DeltaNow(q)
  BY <1>1, RowsNext, RowsNow
<1>3. \A q \in Relation : /\ FullNow(q)' \cup DeltaNow(q)' = FullNow(q) \cup DeltaNow(q)
                          /\ DeltaNow(q)' = DeltaNow(q) /\ db'[q].new.cols = db[q].new.cols
  BY DEF MovesNothing, SameTuples, FullNow, DeltaNow
<1>4. \A q \in Relation : /\ FullRows(q)' \cup DeltaRows(q)' = FullRows(q) \cup DeltaRows(q)
                          /\ DeltaRows(q)' = DeltaRows(q) /\ db'[q].new.cols = db[q].new.cols
  BY <1>2, <1>3
<1>5. FullFacts' = FullFacts
  <2> SUFFICES ASSUME NEW f
               PROVE  f \in FullFacts' <=> f \in FullFacts
    OBVIOUS
  <2> QED
    BY <1>4 DEF FullFacts
<1>6. DeltaFacts' = DeltaFacts
  <2> SUFFICES ASSUME NEW f
               PROVE  f \in DeltaFacts' <=> f \in DeltaFacts
    OBVIOUS
  <2> QED
    BY <1>4 DEF DeltaFacts
<1>7. NewFacts' = NewFacts
  <2> SUFFICES ASSUME NEW f
               PROVE  f \in NewFacts' <=> f \in NewFacts
    OBVIOUS
  <2> QED
    BY <1>4 DEF NewFacts
<1> QED
  BY <1>5, <1>6, <1>7

(* DELTA is empty on its canonical indexes exactly if it is empty.         *)
LEMMA EmptyOrNot ==
    ASSUME IndexedSupported, IInv, phase \in {"check", "epilogue"}, iter > 0, Recursive(stratum)
    PROVE  DeltaEmpty <=> Tuples!NoDelta
<1>1. /\ PhaseInv /\ TypeInv /\ stratum \in Level /\ iter \in Nat
      /\ \A q \in Relation : IsRelation(db[q], q) /\ RelInv(q, db[q], stratum, Stage(q), input)
  BY RunningParts
<1>2. \A i \in code : i.op = "Reconstruct"
  BY <1>1, EpilogueParts DEF PhaseInv
<1>3. ASSUME NEW q \in Members(stratum)
      PROVE  Rows(db[q].delta, Canonical[stratum][q]) = In(DeltaFacts, q)
  <2> DEFINE d == db[q]
             g == Stage(q)
             h == StageOf(q, phase, stratum, iter, code)
  <2>1. q \in Relation
    BY <1>1, StratumParts
  <2>2. /\ h.member <=> phase # "idle" /\ q \in Members(stratum)
        /\ h.touched <=> /\ phase # "idle" /\ q \in Maintained[stratum]
                         /\ iter > 0 \/ (phase = "maintain" /\ \E b \in Blocks(stratum) : b.rel = q)
        /\ ~h.comparing /\ h.copy = {}
    BY <1>2, RestingStage
  <2>3. g = h
    BY DEF Stage
  <2> HIDE DEF g, h
  <2>4. q \in Maintained[stratum]
    <3>1. Maintained[stratum] = {b.rel : b \in Blocks(stratum)}
      BY <1>1, OrderOfBlocks
    <3>2. Blocks(stratum) = {[by |-> "loop", rel |-> p] : p \in Members(stratum)}
      BY DEF Blocks
    <3> DEFINE b == [by |-> "loop", rel |-> q]
    <3>3. b \in Blocks(stratum) /\ b.rel = q
      BY <3>2
    <3> HIDE DEF b
    <3> QED
      BY <3>1, <3>3
  <2>5. g.member /\ g.touched /\ ~g.comparing /\ g.copy = {}
    BY <2>2, <2>3, <2>4
  <2>6. TouchedRel(q, d, stratum, g)
    BY <1>1, <2>1, <2>5 DEF RelInv, g
  <2>7. Canonical[stratum][q] \in Needed(stratum, q)
    BY <1>1, <2>1, NeededParts
  <2>8. Rows(d.delta, Canonical[stratum][q]) = DeltaOf(q, d, stratum, g)
    BY <2>5, <2>6, <2>7 DEF TouchedRel
  <2>9. In(DeltaFacts, q) = DeltaNow(q)
    BY <2>1, FactsNow
  <2> QED
    BY <2>8, <2>9 DEF DeltaNow, g
<1>4. RunStratum = stratum
  BY DEF RunStratum
<1>5. Tuples!NoDelta <=> \A q \in Members(stratum) : In(DeltaFacts, q) = {}
  BY <1>4 DEF Tuples!NoDelta, Tuples!Members, Members, Tuples!In, In
<1> QED
  BY <1>3, <1>5 DEF DeltaEmpty

(* A step the runner on tuple sets does not see.                           *)
LEMMA Unseen ==
    ASSUME UNCHANGED <<open, host, live, maxIter, status, exact, input>>,
           FullFacts' = FullFacts, DeltaFacts' = DeltaFacts, NewFacts' = NewFacts,
           RunStratum' = RunStratum, RunPhase' = RunPhase, RunIter' = RunIter, RunTodo' = RunTodo
    PROVE  UNCHANGED Tuples!vars
<1>1. HostFacts' = HostFacts
  BY DEF HostFacts
<1> QED
  BY <1>1 DEF Tuples!vars

TupleStep == Tuples!Next \/ UNCHANGED Tuples!vars

(* Both runners run the same program.                                      *)
LEMMA SameProgram ==
    /\ Tuples!Level = Level /\ \A F, q : Tuples!In(F, q) = In(F, q)
    /\ \A s : /\ Tuples!Members(s) = Members(s) /\ Tuples!Recursive(s) = Recursive(s)
              /\ Tuples!Variants(s) = Variants(s) /\ Tuples!Blocks(s) = Blocks(s)
<1>1. Tuples!Level = Level /\ \A F, q : Tuples!In(F, q) = In(F, q)
  BY DEF Tuples!Level, Level, Tuples!In, In
<1>2. ASSUME NEW s
      PROVE  /\ Tuples!Members(s) = Members(s) /\ Tuples!Recursive(s) = Recursive(s)
             /\ Tuples!RulesOf(s) = RulesOf(s)
  BY DEF Tuples!Members, Members, Tuples!Recursive, Recursive, Tuples!RulesOf, RulesOf
<1>3. ASSUME NEW s
      PROVE  /\ Tuples!Variants(s) = Variants(s) /\ Tuples!Blocks(s) = Blocks(s)
  <2>1. \A r : Tuples!SccClauses(s, r) = SccClauses(s, r)
    BY <1>2 DEF Tuples!SccClauses, SccClauses
  <2>2. Tuples!Variants(s) = Variants(s)
    BY <1>2, <2>1 DEF Tuples!Variants, Variants
  <2> QED
    BY <1>2, <2>2 DEF Tuples!Blocks, Blocks
<1> QED
  BY <1>1, <1>2, <1>3

LEMMA PrepareIsStep ==
    ASSUME IndexedSupported, IInv, Prepare
    PROVE  TupleStep
<1>1. phase = "prepare" /\ phase' = "check" /\ UNCHANGED <<caller, stratum, iter, pipelines, code, exact>>
  BY DEF Prepare
<1>2. IInv' /\ MovesNothing
  BY PrepareStep
<1>3. FullFacts' = FullFacts /\ DeltaFacts' = DeltaFacts /\ NewFacts' = NewFacts
  BY <1>1, <1>2, MovesNothingKeeps
<1>4. RunStratum' = RunStratum /\ RunPhase' = RunPhase /\ RunIter' = RunIter /\ RunTodo' = RunTodo
  BY <1>1 DEF RunStratum, RunPhase, RunIter, RunTodo
<1>5. UNCHANGED <<open, host, live, maxIter, status, exact, input>>
  BY <1>1 DEF caller
<1> QED
  BY <1>3, <1>4, <1>5, Unseen DEF TupleStep

LEMMA LeaveIsStep ==
    ASSUME IndexedSupported, IInv, Leave
    PROVE  TupleStep
<1>1. phase = "check" /\ phase' = "epilogue" /\ UNCHANGED <<caller, db, stratum, iter, pipelines, exact>>
  BY DEF Leave
<1>2. IInv' /\ MovesNothing
  BY LeaveKeeps
<1>3. FullFacts' = FullFacts /\ DeltaFacts' = DeltaFacts /\ NewFacts' = NewFacts
  BY <1>1, <1>2, MovesNothingKeeps
<1>4. RunStratum' = RunStratum /\ RunPhase' = RunPhase /\ RunIter' = RunIter /\ RunTodo' = RunTodo
  BY <1>1 DEF RunStratum, RunPhase, RunIter, RunTodo
<1>5. UNCHANGED <<open, host, live, maxIter, status, exact, input>>
  BY <1>1 DEF caller
<1> QED
  BY <1>3, <1>4, <1>5, Unseen DEF TupleStep

(* No instruction but RebuildNew is a step of the runner on tuple sets.    *)
LEMMA QuietInstruction ==
    ASSUME IndexedSupported, IInv, phase # "idle",
           NEW i \in code, Instruction(i), i.op # "RebuildNew"
    PROVE  TupleStep
<1>1. IInv' /\ MovesNothing
  BY InstructionKeeps
<1>2. code' = code \ {i} /\ UNCHANGED <<caller, stratum, phase, iter, pipelines, exact>>
  BY DEF Instruction, RebuildNew, ClearDelta, CheckSize, ComputeDelta, ClearNew, BuildFromIndex,
         MergeIndex, ReconstructColumns, Become
<1>3. FullFacts' = FullFacts /\ DeltaFacts' = DeltaFacts /\ NewFacts' = NewFacts
  BY <1>1, <1>2, MovesNothingKeeps
<1>4. {j \in code' : j.op = "RebuildNew"} = {j \in code : j.op = "RebuildNew"}
  BY <1>2
<1>5. RunStratum' = RunStratum /\ RunPhase' = RunPhase /\ RunIter' = RunIter /\ RunTodo' = RunTodo
  BY <1>2, <1>4 DEF RunStratum, RunPhase, RunIter, RunTodo
<1>6. UNCHANGED <<open, host, live, maxIter, status, exact, input>>
  BY <1>2 DEF caller
<1> QED
  BY <1>3, <1>5, <1>6, Unseen DEF TupleStep

LEMMA StartIterationIsStep ==
    ASSUME IndexedSupported, IInv, StartIteration
    PROVE  TupleStep
<1>1. /\ phase = "check" /\ phase' = "run" /\ pipelines' = Variants(stratum)
      /\ UNCHANGED <<caller, db, stratum, iter, code, exact>>
      /\ IF Recursive(stratum) THEN iter < maxIter /\ (iter > 0 => ~DeltaEmpty) ELSE iter = 0
  BY DEF StartIteration
<1>2. IInv' /\ MovesNothing
  BY StartIterationKeeps
<1>3. FullFacts' = FullFacts /\ DeltaFacts' = DeltaFacts /\ NewFacts' = NewFacts
  BY <1>1, <1>2, MovesNothingKeeps
<1>4. /\ RunStratum = stratum /\ RunStratum' = RunStratum /\ RunIter = iter /\ RunIter' = RunIter
      /\ RunPhase = "check" /\ RunPhase' = "run" /\ RunTodo' = Variants(stratum)
  BY <1>1 DEF RunStratum, RunPhase, RunIter, RunTodo
<1>5. HostFacts' = HostFacts
  BY <1>1 DEF caller, HostFacts
<1>6. Recursive(stratum) /\ iter > 0 => ~Tuples!NoDelta
  BY <1>1, EmptyOrNot
<1>7. UNCHANGED Tuples!caller
  BY <1>1, <1>5 DEF caller, Tuples!caller
<1>8. Tuples!Variants(RunStratum) = Variants(stratum) /\ Tuples!Recursive(RunStratum) = Recursive(stratum)
  BY <1>4, SameProgram
<1>9. Tuples!StartIteration
  BY <1>1, <1>3, <1>4, <1>6, <1>7, <1>8 DEF Tuples!StartIteration
<1> QED
  BY <1>9 DEF TupleStep, Tuples!Next, Tuples!Step

LEMMA StartMaintenanceIsStep ==
    ASSUME IndexedSupported, IInv, StartMaintenance
    PROVE  TupleStep
<1>1. /\ phase = "run" /\ phase' = "maintain" /\ pipelines = {} /\ code' = MaintenanceCode[stratum]
      /\ UNCHANGED <<caller, db, stratum, iter, pipelines, exact>>
  BY DEF StartMaintenance
<1>2. IInv' /\ MovesNothing
  BY StartMaintenanceKeeps
<1>3. FullFacts' = FullFacts /\ DeltaFacts' = DeltaFacts /\ NewFacts' = NewFacts
  BY <1>1, <1>2, MovesNothingKeeps
<1> DEFINE R == {j.block : j \in {i \in MaintenanceCode[stratum] : i.op = "RebuildNew"}}
<1>4. stratum \in Level
  BY <1>1, RunningParts
<1>5. ASSUME NEW b
      PROVE  b \in R <=> b \in Blocks(stratum)
  <2>1. ASSUME NEW i \in MaintenanceCode[stratum]
        PROVE  i.block \in Blocks(stratum)
    <3>1. PICK n \in DOMAIN BlockOrder[stratum] : \E k \in Nat \ {0} : IsStep(stratum, n, k, i)
      BY <1>4, CodeIsSteps
    <3>2. i.block = BlockOrder[stratum][n]
      BY <3>1 DEF IsStep
    <3> QED
      BY <1>4, <3>2, OrderOfBlocks
  <2>2. ASSUME b \in Blocks(stratum)
        PROVE  \E i \in MaintenanceCode[stratum] : i.op = "RebuildNew" /\ i.block = b
    <3>1. PICK n \in DOMAIN BlockOrder[stratum] : BlockOrder[stratum][n] = b
      BY <1>4, <2>2, OrderOfBlocks
    <3>2. Instr(<<n, 1>>, "RebuildNew", b, Canonical[stratum][b.rel]) \in MaintenanceCode[stratum]
      BY <1>4, <3>1, CodeHasSteps
    <3> QED
      BY <3>2 DEF Instr
  <2> QED
    BY <2>1, <2>2
<1>6. R = Blocks(stratum)
  BY <1>5
<1>7. RunTodo' = R
  BY <1>1 DEF RunTodo
<1> HIDE DEF R
<1>8. /\ RunStratum = stratum /\ RunStratum' = RunStratum /\ RunIter' = RunIter
      /\ RunPhase = "run" /\ RunPhase' = "maintain" /\ RunTodo = {}
  BY <1>1 DEF RunStratum, RunPhase, RunIter, RunTodo
<1>9. HostFacts' = HostFacts
  BY <1>1 DEF caller, HostFacts
<1>10. UNCHANGED Tuples!caller
  BY <1>1, <1>9 DEF caller, Tuples!caller
<1>11. Tuples!Blocks(RunStratum) = Blocks(stratum)
  BY <1>8, SameProgram
<1>12. Tuples!StartMaintenance
  BY <1>1, <1>3, <1>6, <1>7, <1>8, <1>10, <1>11 DEF Tuples!StartMaintenance
<1> QED
  BY <1>12 DEF TupleStep, Tuples!Next, Tuples!Step

LEMMA EndIterationIsStep ==
    ASSUME IndexedSupported, IInv, EndIteration
    PROVE  TupleStep
<1>1. /\ phase = "maintain" /\ phase' = "check" /\ code = {} /\ iter' = iter + 1
      /\ UNCHANGED <<caller, db, stratum, pipelines, code, exact>>
  BY DEF EndIteration
<1>2. IInv' /\ MovesNothing
  BY EndIterationKeeps
<1>3. FullFacts' = FullFacts /\ DeltaFacts' = DeltaFacts /\ NewFacts' = NewFacts
  BY <1>1, <1>2, MovesNothingKeeps
<1>4. /\ RunStratum' = RunStratum /\ RunIter' = RunIter + 1
      /\ RunPhase = "maintain" /\ RunPhase' = "check" /\ RunTodo = {} /\ RunTodo' = {}
  BY <1>1 DEF RunStratum, RunPhase, RunIter, RunTodo
<1>5. HostFacts' = HostFacts
  BY <1>1 DEF caller, HostFacts
<1>6. UNCHANGED Tuples!caller
  BY <1>1, <1>5 DEF caller, Tuples!caller
<1>7. Tuples!EndIteration
  BY <1>1, <1>3, <1>4, <1>6 DEF Tuples!EndIteration
<1> QED
  BY <1>7 DEF TupleStep, Tuples!Next, Tuples!Step

(* The facts of all relations after a step within a run.                   *)
LEMMA FactsNext ==
    ASSUME IInv', IF phase' = "idle" THEN ~live' \/ stratum' = 0 ELSE live' /\ stratum' # 0
    PROVE  /\ \A f : f \in FullFacts' <=> \E q \in Relation : f \in FullNow(q)' \cup DeltaNow(q)'
           /\ \A f : f \in DeltaFacts' <=> \E q \in Relation : f \in DeltaNow(q)'
           /\ \A f : f \in NewFacts' <=> \E q \in Relation : f \in db'[q].new.cols
<1>1. \A q \in Relation : FullRows(q)' = FullNow(q)' /\ DeltaRows(q)' = DeltaNow(q)'
  BY RowsNext
<1>2. ASSUME NEW f
      PROVE  f \in FullFacts' <=> \E q \in Relation : f \in FullNow(q)' \cup DeltaNow(q)'
  BY <1>1 DEF FullFacts
<1>3. ASSUME NEW f
      PROVE  f \in DeltaFacts' <=> \E q \in Relation : f \in DeltaNow(q)'
  BY <1>1 DEF DeltaFacts
<1>4. ASSUME NEW f
      PROVE  f \in NewFacts' <=> \E q \in Relation : f \in db'[q].new.cols
  BY DEF NewFacts
<1> QED
  BY <1>2, <1>3, <1>4

(* In the maintenance code a block is entered once.                        *)
LEMMA OneRebuildEach ==
    ASSUME IndexedSupported, NEW s \in Level,
           NEW i \in MaintenanceCode[s], NEW j \in MaintenanceCode[s],
           i.op = "RebuildNew", j.op = "RebuildNew", i.block = j.block
    PROVE  i = j
<1>1. PICK n \in DOMAIN BlockOrder[s] : \E k \in Nat \ {0} : IsStep(s, n, k, i)
  BY CodeIsSteps
<1>2. PICK m \in DOMAIN BlockOrder[s] : \E k \in Nat \ {0} : IsStep(s, m, k, j)
  BY CodeIsSteps
<1>3. i.at = <<n, 1>> /\ i.block = BlockOrder[s][n]
  BY <1>1 DEF IsStep, FirstSteps
<1>4. j.at = <<m, 1>> /\ j.block = BlockOrder[s][m]
  BY <1>2 DEF IsStep, FirstSteps
<1>5. m = n
  BY <1>3, <1>4, OrderOfBlocks, ZenonT(60)
<1> QED
  BY <1>3, <1>4, <1>5, OnePlaceEach

LEMMA RebuildIsStep ==
    ASSUME IndexedSupported, IInv, phase # "idle",
           NEW i \in code, Instruction(i), i.op = "RebuildNew"
    PROVE  TupleStep
<1>1. IInv' /\ MovesNew(i)
  BY InstructionKeeps
<1>2. code' = code \ {i} /\ UNCHANGED <<caller, stratum, phase, iter, pipelines, exact>>
  BY DEF Instruction, RebuildNew, ClearDelta, CheckSize, ComputeDelta, ClearNew, BuildFromIndex,
         MergeIndex, ReconstructColumns, Become
<1>3. /\ Valid /\ PhaseInv /\ TypeInv /\ stratum \in Level /\ live
  BY RunningParts
<1>4. phase = "maintain" /\ code \subseteq MaintenanceCode[stratum]
  <2>1. phase # "epilogue"
    BY <1>3, EpilogueParts DEF PhaseInv
  <2> QED
    BY <1>3, <2>1 DEF PhaseInv, TypeInv
<1> DEFINE p == i.rel
           F == FullNow(p)
           D == DeltaNow(p)
           N == db[p].new.cols
<1>5. p \in Relation /\ i.block.rel = p /\ i.block \in RunTodo
  <2>1. PICK n \in DOMAIN BlockOrder[stratum] : \E k \in Nat \ {0} : IsStep(stratum, n, k, i)
    BY <1>3, <1>4, CodeIsSteps
  <2>2. i.block = BlockOrder[stratum][n] /\ i.rel = BlockOrder[stratum][n].rel
    BY <2>1 DEF IsStep
  <2>3. i.block \in RunTodo
    BY <1>4 DEF RunTodo
  <2> QED
    BY <1>3, <2>2, <2>3, OrderOfBlocks
<1>6. FullNow(p)' = F /\ D \subseteq F /\ DeltaNow(p)' = N \ F /\ db'[p].new.cols = {}
  BY <1>1, <1>2, <1>5 DEF MovesNew, NewMoved, FullNow, DeltaNow
<1>7. \A q \in Relation \ {p} : /\ FullNow(q)' \cup DeltaNow(q)' = FullNow(q) \cup DeltaNow(q)
                                /\ DeltaNow(q)' = DeltaNow(q) /\ db'[q].new.cols = db[q].new.cols
  BY <1>1, <1>2 DEF MovesNew, SameTuples, FullNow, DeltaNow
<1>8. /\ \A q \in Relation : /\ FullNow(q) \in SUBSET Facts(q) /\ DeltaNow(q) \in SUBSET Facts(q)
                             /\ db[q].new.cols \in SUBSET Facts(q)
      /\ FullFacts = UNION {FullNow(q) \cup DeltaNow(q) : q \in Relation}
      /\ DeltaFacts = UNION {DeltaNow(q) : q \in Relation}
  BY <1>4, FactsNow
<1>9. /\ \A f : f \in FullFacts' <=> \E q \in Relation : f \in FullNow(q)' \cup DeltaNow(q)'
      /\ \A f : f \in DeltaFacts' <=> \E q \in Relation : f \in DeltaNow(q)'
      /\ \A f : f \in NewFacts' <=> \E q \in Relation : f \in db'[q].new.cols
  <2>1. stratum # 0
    BY <1>3, LevelFacts
  <2> QED
    BY <1>1, <1>2, <1>3, <1>4, <2>1, FactsNext DEF caller
<1>10. /\ In(NewFacts, p) = N /\ In(DeltaFacts, p) = D /\ In(FullFacts, p) = F \cup D
  BY <1>4, <1>5, FactsNow
<1>11. \A q \in Relation : \A f : f \in FullNow(q) \cup DeltaNow(q) \cup db[q].new.cols => RelOf[f] = q
  BY <1>8 DEF Facts
<1>12. ASSUME NEW f
       PROVE  f \in N \ F <=> f \in Tuples!Fresh(p)
  <2>1. Tuples!Fresh(p) = In(NewFacts, p) \ FullFacts
    BY SameProgram DEF Tuples!Fresh
  <2>2. f \in N => RelOf[f] = p
    BY <1>5, <1>11
  <2>3. RelOf[f] = p => (f \in FullFacts <=> f \in F \cup D)
    BY <1>10 DEF In
  <2> HIDE DEF N, F, D
  <2> QED
    BY <1>6, <1>10, <2>1, <2>2, <2>3
<1> HIDE DEF p
<1>13. FullFacts' = FullFacts \cup Tuples!Fresh(p)
  <2> SUFFICES ASSUME NEW f
               PROVE  f \in FullFacts' <=> f \in FullFacts \/ f \in Tuples!Fresh(p)
    OBVIOUS
  <2>1. f \in FullFacts <=> \E q \in Relation : f \in FullNow(q) \cup DeltaNow(q)
    BY <1>8
  <2>2. f \in FullNow(p)' \cup DeltaNow(p)' <=> f \in FullNow(p) \cup DeltaNow(p) \/ f \in N \ F
    BY <1>6
  <2> HIDE DEF N, F
  <2> QED
    BY <1>5, <1>7, <1>9, <1>12, <2>1, <2>2
<1>14. DeltaFacts' = (DeltaFacts \ In(DeltaFacts, p)) \cup Tuples!Fresh(p)
  <2> SUFFICES ASSUME NEW f
               PROVE  f \in DeltaFacts' <=>
                         (f \in DeltaFacts /\ f \notin In(DeltaFacts, p)) \/ f \in Tuples!Fresh(p)
    OBVIOUS
  <2>1. f \in DeltaFacts <=> \E q \in Relation : f \in DeltaNow(q)
    BY <1>8
  <2>2. f \in DeltaNow(p)' <=> f \in N \ F
    BY <1>6
  <2>3. \A q \in Relation : f \in DeltaNow(q) => RelOf[f] = q
    BY <1>11
  <2> HIDE DEF N, F
  <2>4. f \in In(DeltaFacts, p) <=> f \in DeltaFacts /\ RelOf[f] = p
    BY DEF In
  <2> QED
    BY <1>5, <1>7, <1>9, <1>12, <2>1, <2>2, <2>3, <2>4
<1>15. NewFacts' = NewFacts \ In(NewFacts, p)
  <2> SUFFICES ASSUME NEW f
               PROVE  f \in NewFacts' <=> f \in NewFacts /\ f \notin In(NewFacts, p)
    OBVIOUS
  <2>1. f \in NewFacts <=> \E q \in Relation : f \in db[q].new.cols
    BY DEF NewFacts
  <2>2. \A q \in Relation : f \in db[q].new.cols => RelOf[f] = q
    BY <1>11
  <2>3. f \in In(NewFacts, p) <=> f \in NewFacts /\ RelOf[f] = p
    BY DEF In
  <2> QED
    BY <1>5, <1>6, <1>7, <1>9, <2>1, <2>2, <2>3
<1>16. RunTodo' = RunTodo \ {i.block}
  <2>1. RunTodo = {j.block : j \in {x \in code : x.op = "RebuildNew"}}
    BY <1>4 DEF RunTodo
  <2>2. RunTodo' = {j.block : j \in {x \in code \ {i} : x.op = "RebuildNew"}}
    BY <1>2, <1>4 DEF RunTodo
  <2>3. \A j \in code : j.op = "RebuildNew" /\ j.block = i.block => j = i
    BY <1>3, <1>4, OneRebuildEach
  <2> SUFFICES ASSUME NEW b
               PROVE  b \in RunTodo' <=> b \in RunTodo /\ b # i.block
    OBVIOUS
  <2> QED
    BY <2>1, <2>2, <2>3
<1>17. /\ RunStratum' = RunStratum /\ RunIter' = RunIter /\ RunPhase = "maintain" /\ RunPhase' = "maintain"
  BY <1>2, <1>4 DEF RunStratum, RunPhase, RunIter
<1>18. HostFacts' = HostFacts
  BY <1>2 DEF caller, HostFacts
<1>19. UNCHANGED Tuples!caller /\ exact' = exact
  BY <1>2, <1>18 DEF caller, Tuples!caller
<1> DEFINE b == i.block
<1>20. b.rel = p /\ b \in RunTodo
  BY <1>5
<1>21. RunTodo' = RunTodo \ {b}
  BY <1>16
<1> HIDE DEF b
<1>22. Tuples!In(DeltaFacts, p) = In(DeltaFacts, p) /\ Tuples!In(NewFacts, p) = In(NewFacts, p)
  BY SameProgram
<1>23. Tuples!Maintain(b)
  BY <1>13, <1>14, <1>15, <1>17, <1>19, <1>20, <1>21, <1>22 DEF Tuples!Maintain
<1> QED
  BY <1>20, <1>23 DEF TupleStep, Tuples!Next, Tuples!Step

(* Ground instances are of the form of their rule.                         *)
LEMMA InstanceParts ==
    ASSUME NEW g \in Ground
    PROVE  /\ g.rule \in Rule /\ g.heads \subseteq Fact /\ DOMAIN g.pos = DOMAIN Body[g.rule]
           /\ \A i \in DOMAIN g.pos : g.pos[i] \in Fact /\ RelOf[g.pos[i]] = Body[g.rule][i]
           /\ \A f \in g.neg : f \in Fact /\ RelOf[f] \in Negated[g.rule]
<1>1. /\ g.rule \in Rule /\ g.heads \in SUBSET Fact /\ g.pos \in Seq(Fact) /\ g.neg \in SUBSET Fact
      /\ Len(g.pos) = Len(Body[g.rule])
      /\ \A i \in DOMAIN g.pos : RelOf[g.pos[i]] = Body[g.rule][i]
      /\ \A f \in g.neg : RelOf[f] \in Negated[g.rule]
  BY ProgramOK
<1>2. DOMAIN Body[g.rule] = 1 .. Len(Body[g.rule])
  BY <1>1, BodyParts
<1>3. DOMAIN g.pos = 1 .. Len(g.pos) /\ \A i \in DOMAIN g.pos : g.pos[i] \in Fact
  BY <1>1
<1> QED
  BY <1>1, <1>2, <1>3

(* A pipeline finds in its indexes the instances it finds among the facts. *)
LEMMA SameMatches ==
    ASSUME IndexedSupported, IInv, phase = "run", NEW v \in pipelines,
           NEW g \in Ground, g.rule = v.rule
    PROVE  MatchesIn(g, v, Opened(v)) <=>
              Tuples!MatchesIn(g, v.clause, Tuples!DeltaSource, FullFacts)
<1>1. /\ g.rule \in Rule /\ g.heads \subseteq Fact /\ DOMAIN g.pos = DOMAIN Body[g.rule]
      /\ \A i \in DOMAIN g.pos : g.pos[i] \in Fact /\ RelOf[g.pos[i]] = Body[g.rule][i]
      /\ \A f \in g.neg : f \in Fact /\ RelOf[f] \in Negated[g.rule]
  BY InstanceParts
<1>2. /\ \A i \in DOMAIN Body[v.rule] :
            LET q == Body[v.rule][i]
            IN  /\ q \in Relation
                /\ View(Opened(v), q, VersionOf(v, i), Access[v][i]) =
                      IF VersionOf(v, i) = "delta" THEN DeltaNow(q) ELSE FullNow(q)
      /\ \A q \in Negated[v.rule] :
            q \in Relation /\ View(Opened(v), q, "full", NegAccess[v][q]) = FullNow(q)
  BY ViewsAreCurrent
<1>3. /\ stratum \in Level /\ iter \in Nat
      /\ \A q \in Relation : IsRelation(db[q], q) /\ RelInv(q, db[q], stratum, Stage(q), input)
  BY RunningParts DEF TypeInv
<1>4. ASSUME NEW q \in Relation
      PROVE  DeltaNow(q) \subseteq FullNow(q)
  <2>1. /\ ~Stage(q).comparing /\ Stage(q).merge = {}
        /\ Stage(q).member => Stage(q).pending /\ q \in Idb
    BY RunStage
  <2>2. IsRelation(db[q], q) /\ RelInv(q, db[q], stratum, Stage(q), input)
    BY <1>3
  <2> DEFINE w == Stage(q)
             d == db[q]
  <2>3. /\ ~w.comparing /\ w.merge = {} /\ (w.member => w.pending /\ q \in Idb)
        /\ IsRelation(d, q) /\ RelInv(q, d, stratum, w, input)
    BY <2>1, <2>2
  <2> HIDE DEF w, d
  <2>4. DeltaOf(q, d, stratum, w) \subseteq FullOf(q, d, stratum, w)
    BY <1>3, <2>3, DeltaInFull
  <2> QED
    BY <2>4 DEF DeltaNow, FullNow, w, d
<1>5. ASSUME NEW f, RelOf[f] \in Relation
      PROVE  /\ f \in FullFacts <=> f \in FullNow(RelOf[f])
             /\ f \in DeltaFacts <=> f \in DeltaNow(RelOf[f])
  <2>1. /\ In(FullFacts, RelOf[f]) = FullNow(RelOf[f]) \cup DeltaNow(RelOf[f])
        /\ In(DeltaFacts, RelOf[f]) = DeltaNow(RelOf[f])
    BY <1>5, FactsNow
  <2>2. DeltaNow(RelOf[f]) \subseteq FullNow(RelOf[f])
    BY <1>4, <1>5
  <2> QED
    BY <2>1, <2>2 DEF In
<1>6. ASSUME NEW i \in DOMAIN g.pos
      PROVE  g.pos[i] \in View(Opened(v), Body[v.rule][i], VersionOf(v, i), Access[v][i]) <=>
                g.pos[i] \in (IF i = v.clause THEN Tuples!DeltaSource ELSE FullFacts)
  <2> DEFINE q == Body[v.rule][i]
             f == g.pos[i]
  <2>1. RelOf[f] = q /\ q \in Relation
    BY <1>1, <1>2
  <2>2. View(Opened(v), q, VersionOf(v, i), Access[v][i]) =
           IF VersionOf(v, i) = "delta" THEN DeltaNow(q) ELSE FullNow(q)
    BY <1>1, <1>2
  <2>3. (f \in FullFacts <=> f \in FullNow(q)) /\ (f \in DeltaFacts <=> f \in DeltaNow(q))
    BY <1>5, <2>1
  <2>4. VersionOf(v, i) = IF i = v.clause /\ iter > 0 THEN "delta" ELSE "full"
    BY DEF VersionOf
  <2>5. RunIter = iter
    BY DEF RunIter
  <2>6. Tuples!DeltaSource = IF iter > 0 THEN DeltaFacts ELSE FullFacts
    BY <1>3, <2>5 DEF Tuples!DeltaSource
  <2> HIDE DEF q, f
  <2>7. f \in View(Opened(v), q, VersionOf(v, i), Access[v][i]) <=>
           f \in (IF i = v.clause THEN Tuples!DeltaSource ELSE FullFacts)
    BY <2>2, <2>3, <2>4, <2>6
  <2> QED
    BY <2>7 DEF q, f
<1>7. ASSUME NEW f \in g.neg
      PROVE  f \in View(Opened(v), RelOf[f], "full", NegAccess[v][RelOf[f]]) <=> f \in FullFacts
  BY <1>1, <1>2, <1>5
<1>8. Tuples!MatchesIn(g, v.clause, Tuples!DeltaSource, FullFacts) <=>
         /\ \A i \in DOMAIN g.pos :
               g.pos[i] \in (IF i = v.clause THEN Tuples!DeltaSource ELSE FullFacts)
         /\ \A f \in g.neg : f \notin FullFacts
  BY DEF Tuples!MatchesIn
<1> QED
  BY <1>6, <1>7, <1>8 DEF MatchesIn

LEMMA ExecuteIsStep ==
    ASSUME IndexedSupported, IInv, phase # "idle", NEW v \in pipelines, Execute(v)
    PROVE  TupleStep
<1>1. /\ phase = "run" /\ pipelines' = pipelines \ {v}
      /\ UNCHANGED <<caller, stratum, phase, iter, code, exact>>
  BY DEF Execute
<1>2. IInv' /\ Executed(v)
  BY ExecuteStep
<1>3. stratum \in Level /\ live /\ stratum # 0
  BY <1>1, RunningParts, LevelFacts
<1>4. \A q \in Relation : /\ FullNow(q)' = FullNow(q) /\ DeltaNow(q)' = DeltaNow(q)
                          /\ db'[q].new.cols = db[q].new.cols \cup ProducedOf(v, q)
  BY <1>1, <1>2 DEF Executed, FullNow, DeltaNow
<1>5. /\ \A f : f \in FullFacts' <=> \E q \in Relation : f \in FullNow(q)' \cup DeltaNow(q)'
      /\ \A f : f \in DeltaFacts' <=> \E q \in Relation : f \in DeltaNow(q)'
      /\ \A f : f \in NewFacts' <=> \E q \in Relation : f \in db'[q].new.cols
  BY <1>1, <1>2, <1>3, FactsNext DEF caller
<1>6. /\ FullFacts = UNION {FullNow(q) \cup DeltaNow(q) : q \in Relation}
      /\ DeltaFacts = UNION {DeltaNow(q) : q \in Relation}
  BY <1>1, FactsNow
<1>7. FullFacts' = FullFacts
  <2> SUFFICES ASSUME NEW f
               PROVE  f \in FullFacts' <=> f \in FullFacts
    OBVIOUS
  <2> QED
    BY <1>4, <1>5, <1>6
<1>8. DeltaFacts' = DeltaFacts
  <2> SUFFICES ASSUME NEW f
               PROVE  f \in DeltaFacts' <=> f \in DeltaFacts
    OBVIOUS
  <2> QED
    BY <1>4, <1>5, <1>6
<1>9. ASSUME NEW f
      PROVE  f \in Tuples!Produced(v) <=> \E q \in Relation : f \in ProducedOf(v, q)
  <2>1. f \in Tuples!Produced(v) <=>
           \E g \in Ground : /\ g.rule = v.rule /\ f \in g.heads
                             /\ Tuples!MatchesIn(g, v.clause, Tuples!DeltaSource, FullFacts)
    BY DEF Tuples!Produced, Tuples!Outputs
  <2>2. ASSUME NEW q
        PROVE  f \in ProducedOf(v, q) <=>
                  RelOf[f] = q /\ \E g \in Ground : /\ g.rule = v.rule /\ f \in g.heads
                                                    /\ MatchesIn(g, v, Opened(v))
    <3>1. f \in ProducedOf(v, q) <=> \E o \in Derived(v, Opened(v)) : RelOf[o[2]] = q /\ f = o[2]
      BY DEF ProducedOf, Of
    <3>2. \A o : o \in Derived(v, Opened(v)) <=>
             \E g \in Ground : \E x \in g.heads : /\ g.rule = v.rule /\ MatchesIn(g, v, Opened(v))
                                                  /\ o = <<g, x>>
      BY DEF Derived
    <3>3. ASSUME NEW o \in Derived(v, Opened(v)), RelOf[o[2]] = q, f = o[2]
          PROVE  RelOf[f] = q /\ \E g \in Ground : /\ g.rule = v.rule /\ f \in g.heads
                                                   /\ MatchesIn(g, v, Opened(v))
      BY <3>2, <3>3
    <3>4. ASSUME RelOf[f] = q, NEW g \in Ground, g.rule = v.rule, f \in g.heads,
                 MatchesIn(g, v, Opened(v))
          PROVE  \E o \in Derived(v, Opened(v)) : RelOf[o[2]] = q /\ f = o[2]
      <4>1. <<g, f>> \in Derived(v, Opened(v))
        BY <3>2, <3>4
      <4> QED
        BY <3>4, <4>1
    <3> QED
      BY <3>1, <3>3, <3>4
  <2>3. \A g \in Ground : f \in g.heads => RelOf[f] \in Relation
    <3>1. \A g \in Ground : g.heads \subseteq Fact
      BY InstanceParts
    <3> QED
      BY <3>1, ProgramOK
  <2>4. \A g \in Ground : g.rule = v.rule =>
           (MatchesIn(g, v, Opened(v)) <=>
               Tuples!MatchesIn(g, v.clause, Tuples!DeltaSource, FullFacts))
    BY <1>1, SameMatches
  <2> QED
    BY <2>1, <2>2, <2>3, <2>4
<1>10. NewFacts' = NewFacts \cup Tuples!Produced(v)
  <2> SUFFICES ASSUME NEW f
               PROVE  f \in NewFacts' <=> f \in NewFacts \/ f \in Tuples!Produced(v)
    OBVIOUS
  <2>1. f \in NewFacts <=> \E q \in Relation : f \in db[q].new.cols
    BY DEF NewFacts
  <2> QED
    BY <1>4, <1>5, <1>9, <2>1
<1>11. /\ RunStratum' = RunStratum /\ RunIter' = RunIter /\ RunPhase = "run" /\ RunPhase' = "run"
       /\ RunTodo = pipelines /\ RunTodo' = pipelines \ {v}
  BY <1>1 DEF RunStratum, RunPhase, RunIter, RunTodo
<1>12. HostFacts' = HostFacts
  BY <1>1 DEF caller, HostFacts
<1>13. UNCHANGED Tuples!caller /\ exact' = exact
  BY <1>1, <1>12 DEF caller, Tuples!caller
<1>14. Tuples!Execute(v)
  BY <1>7, <1>8, <1>10, <1>11, <1>13 DEF Tuples!Execute
<1> QED
  BY <1>11, <1>14 DEF TupleStep, Tuples!Next, Tuples!Step

LEMMA NextStratumIsStep ==
    ASSUME IndexedSupported, IInv, NextStratum
    PROVE  TupleStep
<1>1. /\ phase = "epilogue" /\ code = {} /\ iter' = 0 /\ db' = db /\ code' = code
      /\ open' = open /\ host' = host /\ live' = live /\ maxIter' = maxIter /\ input' = input
      /\ pipelines' = pipelines
      /\ exact' = (exact /\ (Recursive(stratum) /\ iter >= maxIter => DeltaEmpty))
      /\ IF stratum = Len(Strata)
         THEN stratum' = 0 /\ phase' = "idle" /\ status' = "ok"
         ELSE stratum' = stratum + 1 /\ phase' = "prepare" /\ status' = status
  BY DEF NextStratum
<1>2. IInv' /\ TuplesStay
  BY NextStratumKeeps
<1>3. /\ PhaseInv /\ TypeInv /\ stratum \in Level /\ live /\ iter \in Nat /\ maxIter \in Nat
      /\ exact \in BOOLEAN
  BY <1>1, RunningParts DEF TypeInv
<1>4. /\ iter > 0 /\ (Recursive(stratum) => iter >= maxIter \/ DeltaEmpty)
      /\ ~Recursive(stratum) => iter = 1
  BY <1>1, <1>3 DEF PhaseInv
<1>5. IF phase' = "idle" THEN ~live' \/ stratum' = 0 ELSE live' /\ stratum' # 0
  <2>1. stratum \in Nat
    BY <1>3, LevelFacts
  <2> QED
    BY <1>1, <1>3, <2>1
<1>6. /\ \A f : f \in FullFacts' <=> \E q \in Relation : f \in FullNow(q)' \cup DeltaNow(q)'
      /\ \A f : f \in DeltaFacts' <=> \E q \in Relation : f \in DeltaNow(q)'
  BY <1>2, <1>5, FactsNext
<1>7. \A q \in Relation : FullNow(q)' = FullNow(q) /\ DeltaNow(q)' = DeltaNow(q)
  BY <1>2 DEF TuplesStay, FullNow, DeltaNow
<1>8. /\ FullFacts = UNION {FullNow(q) \cup DeltaNow(q) : q \in Relation}
      /\ DeltaFacts = UNION {DeltaNow(q) : q \in Relation}
  BY <1>1, FactsNow
<1>9. FullFacts' = FullFacts
  <2> SUFFICES ASSUME NEW f
               PROVE  f \in FullFacts' <=> f \in FullFacts
    OBVIOUS
  <2> QED
    BY <1>6, <1>7, <1>8
<1>10. DeltaFacts' = DeltaFacts
  <2> SUFFICES ASSUME NEW f
               PROVE  f \in DeltaFacts' <=> f \in DeltaFacts
    OBVIOUS
  <2> QED
    BY <1>6, <1>7, <1>8
<1>11. NewFacts' = NewFacts /\ HostFacts' = HostFacts
  BY <1>1 DEF NewFacts, HostFacts
<1>12. /\ RunStratum = stratum /\ RunIter = iter /\ RunPhase = "check" /\ RunTodo = {}
       /\ RunIter' = 0 /\ RunTodo' = {}
       /\ IF stratum = Len(Strata) THEN RunStratum' = 0 /\ RunPhase' = "idle" /\ status' = "ok"
          ELSE RunStratum' = stratum + 1 /\ RunPhase' = "check" /\ status' = status
  BY <1>1 DEF RunStratum, RunPhase, RunIter, RunTodo
<1>13. Tuples!NextStratum
  BY <1>1, <1>9, <1>10, <1>11, <1>12 DEF Tuples!NextStratum
<1>14. Tuples!Recursive(RunStratum) = Recursive(stratum)
  BY <1>12, SameProgram
<1>15. Recursive(stratum) => (DeltaEmpty <=> Tuples!NoDelta)
  BY <1>1, <1>4, EmptyOrNot
<1>16. CASE ~Recursive(stratum)
  <2>1. exact' = exact
    BY <1>1, <1>3, <1>16
  <2>2. Tuples!Finish
    BY <1>4, <1>12, <1>13, <1>14, <1>16, <2>1 DEF Tuples!Finish
  <2> QED
    BY <2>2 DEF TupleStep, Tuples!Next, Tuples!Step
<1>17. CASE Recursive(stratum) /\ iter < maxIter
  <2>1. ~(iter >= maxIter)
    BY <1>3, <1>17
  <2>2. exact' = exact
    BY <1>1, <1>3, <2>1
  <2>3. Tuples!NoDelta
    BY <1>4, <1>15, <1>17, <2>1
  <2>4. Tuples!Converge
    BY <1>3, <1>4, <1>12, <1>13, <1>14, <1>17, <2>2, <2>3 DEF Tuples!Converge
  <2> QED
    BY <2>4 DEF TupleStep, Tuples!Next, Tuples!Step
<1>18. CASE Recursive(stratum) /\ iter >= maxIter
  <2>1. exact' = (exact /\ DeltaEmpty)
    BY <1>1, <1>18
  <2>2. exact' = (exact /\ Tuples!NoDelta)
    BY <1>15, <1>18, <2>1
  <2>3. Tuples!CutOff
    BY <1>12, <1>13, <1>14, <1>18, <2>2 DEF Tuples!CutOff
  <2> QED
    BY <2>3 DEF TupleStep, Tuples!Next, Tuples!Step
<1> QED
  BY <1>3, <1>16, <1>17, <1>18

LEMMA AbortIsStep ==
    ASSUME Abort
    PROVE  TupleStep
<1>1. /\ phase # "idle" /\ phase' = "idle" /\ status' = "failed"
      /\ UNCHANGED <<open, host, live, maxIter, input, db, stratum, iter, pipelines, code, exact>>
  BY DEF Abort
<1>2. \A q : FullRows(q)' = FullRows(q)
  BY <1>1 DEF FullRows
<1>3. \A q : Comparing(q)' <=> Comparing(q)
  BY <1>1 DEF Comparing
<1>4. \A q : DeltaRows(q)' = DeltaRows(q)
  BY <1>1, <1>2, <1>3 DEF DeltaRows
<1>5. /\ FullFacts' = FullFacts /\ DeltaFacts' = DeltaFacts /\ NewFacts' = NewFacts
      /\ HostFacts' = HostFacts
  BY <1>1, <1>2, <1>4 DEF FullFacts, DeltaFacts, NewFacts, HostFacts
<1>6. /\ RunPhase # "idle" /\ RunPhase' = "idle" /\ RunStratum' = 0 /\ RunIter' = 0 /\ RunTodo' = {}
  BY <1>1 DEF RunStratum, RunPhase, RunIter, RunTodo
<1>7. Tuples!Abort
  BY <1>1, <1>5, <1>6 DEF Tuples!Abort
<1> QED
  BY <1>7 DEF TupleStep, Tuples!Next

LEMMA LoadIsStep ==
    ASSUME IndexedSupported, IInv, NEW file \in Files \cup {{}}, Load(file)
    PROVE  TupleStep
<1>1. /\ phase = "idle" /\ open' = TRUE
      /\ UNCHANGED <<live, db, stratum, phase, iter, maxIter, pipelines, code,
                     status, exact, input>>
  BY DEF Load
<1>2. \A q \in Relation : host'[q].cols = host[q].cols \cup In(file, q)
  BY LoadKeeps
<1>3. \A f \in file : RelOf[f] \in Relation
  BY ProgramOK
<1>4. HostFacts' = HostFacts \cup file
  <2> SUFFICES ASSUME NEW f
               PROVE  f \in HostFacts' <=> f \in HostFacts \/ f \in file
    OBVIOUS
  <2>1. f \in HostFacts' <=> \E q \in Relation : f \in host'[q].cols
    BY DEF HostFacts
  <2>2. f \in HostFacts <=> \E q \in Relation : f \in host[q].cols
    BY DEF HostFacts
  <2>3. \A q : f \in In(file, q) <=> f \in file /\ RelOf[f] = q
    BY DEF In
  <2> QED
    BY <1>2, <1>3, <2>1, <2>2, <2>3
<1>5. \A q : FullRows(q)' = FullRows(q)
  BY <1>1 DEF FullRows
<1>6. \A q : Comparing(q)' <=> Comparing(q)
  BY <1>1 DEF Comparing
<1>7. \A q : DeltaRows(q)' = DeltaRows(q)
  BY <1>1, <1>5, <1>6 DEF DeltaRows
<1>8. FullFacts' = FullFacts /\ DeltaFacts' = DeltaFacts /\ NewFacts' = NewFacts
  BY <1>1, <1>5, <1>7 DEF FullFacts, DeltaFacts, NewFacts
<1>9. /\ RunPhase = "idle" /\ RunPhase' = RunPhase /\ RunStratum' = RunStratum
      /\ RunIter' = RunIter /\ RunTodo' = RunTodo
  BY <1>1 DEF RunStratum, RunPhase, RunIter, RunTodo
<1>10. Tuples!Load(file)
  BY <1>1, <1>4, <1>8, <1>9 DEF Tuples!Load
<1> QED
  BY <1>10 DEF TupleStep, Tuples!Next

LEMMA RunIsStep ==
    ASSUME IndexedSupported, IInv, NEW max \in MaxIters, Run(max)
    PROVE  TupleStep
<1>1. /\ phase = "idle" /\ open /\ live' = TRUE
      /\ stratum' = 1 /\ phase' = "prepare" /\ iter' = 0 /\ maxIter' = max
      /\ pipelines' = {} /\ code' = {}
      /\ status' = "running" /\ exact' = TRUE /\ input' = HostFacts
      /\ open' = open /\ host' = host
  BY DEF Run
<1>2. /\ IInv'
      /\ \A q \in Relation : /\ FullNow(q)' = host[q].cols /\ DeltaNow(q)' = {}
                             /\ db'[q].new.cols = {}
  BY RunKeeps DEF FullNow, DeltaNow
<1>3. /\ \A f : f \in FullFacts' <=> \E q \in Relation : f \in FullNow(q)' \cup DeltaNow(q)'
      /\ \A f : f \in DeltaFacts' <=> \E q \in Relation : f \in DeltaNow(q)'
      /\ \A f : f \in NewFacts' <=> \E q \in Relation : f \in db'[q].new.cols
  BY <1>1, <1>2, FactsNext
<1>4. FullFacts' = HostFacts
  <2> SUFFICES ASSUME NEW f
               PROVE  f \in FullFacts' <=> f \in HostFacts
    OBVIOUS
  <2>1. f \in HostFacts <=> \E q \in Relation : f \in host[q].cols
    BY DEF HostFacts
  <2> QED
    BY <1>2, <1>3, <2>1
<1>5. DeltaFacts' = {} /\ NewFacts' = {}
  BY <1>2, <1>3
<1>6. HostFacts' = HostFacts
  BY <1>1 DEF HostFacts
<1>7. /\ RunPhase = "idle" /\ RunPhase' = "check" /\ RunStratum' = 1 /\ RunIter' = 0 /\ RunTodo' = {}
  BY <1>1 DEF RunStratum, RunPhase, RunIter, RunTodo
<1>8. Tuples!Run(max)
  BY <1>1, <1>4, <1>5, <1>6, <1>7 DEF Tuples!Run
<1> QED
  BY <1>8 DEF TupleStep, Tuples!Next

LEMMA NoDatabase ==
    ASSUME RunFails \/ Shutdown
    PROVE  /\ FullFacts' = {} /\ DeltaFacts' = {} /\ NewFacts' = {}
           /\ RunPhase = "idle" /\ RunPhase' = "idle" /\ RunStratum' = RunStratum
           /\ RunIter' = RunIter /\ RunTodo' = RunTodo
<1>1. phase = "idle" /\ phase' = "idle" /\ live' = FALSE /\ db' = Empty /\ code' = {}
  BY DEF RunFails, Shutdown
<1>2. ASSUME NEW q \in Relation
      PROVE  FullRows(q)' = {} /\ DeltaRows(q)' = {} /\ db'[q].new.cols = {}
  <2>1. db'[q] = [full |-> NoColumns, delta |-> NoColumns, new |-> NoColumns]
    BY <1>1 DEF Empty
  <2>2. NoColumns.cols = {} /\ DOMAIN NoColumns.idx = {}
    BY EmptyIsRelation
  <2>3. FullRows(q)' = {}
    BY <1>1, <2>1, <2>2 DEF FullRows
  <2>4. ~Comparing(q)'
    BY <1>1 DEF Comparing
  <2>5. DeltaRows(q)' = {}
    BY <2>1, <2>2, <2>4 DEF DeltaRows
  <2> QED
    BY <2>1, <2>2, <2>3, <2>5
<1>3. FullFacts' = {} /\ DeltaFacts' = {} /\ NewFacts' = {}
  BY <1>2 DEF FullFacts, DeltaFacts, NewFacts
<1>4. /\ RunPhase = "idle" /\ RunPhase' = "idle" /\ RunStratum' = RunStratum
      /\ RunIter' = RunIter /\ RunTodo' = RunTodo
  BY <1>1 DEF RunStratum, RunPhase, RunIter, RunTodo
<1> QED
  BY <1>3, <1>4

LEMMA FailIsStep ==
    ASSUME RunFails \/ Shutdown
    PROVE  TupleStep
<1>1. /\ FullFacts' = {} /\ DeltaFacts' = {} /\ NewFacts' = {}
      /\ RunPhase = "idle" /\ RunPhase' = "idle" /\ RunStratum' = RunStratum
      /\ RunIter' = RunIter /\ RunTodo' = RunTodo
  BY NoDatabase
<1>2. CASE RunFails
  <2>1. HostFacts' = HostFacts
    BY <1>2 DEF RunFails, HostFacts
  <2>2. Tuples!RunFails
    BY <1>1, <1>2, <2>1 DEF RunFails, Tuples!RunFails
  <2> QED
    BY <2>2 DEF TupleStep, Tuples!Next
<1>3. CASE Shutdown
  <2>1. host' = [q \in Relation |-> NoColumns]
    BY <1>3 DEF Shutdown
  <2>2. NoColumns.cols = {}
    BY DEF NoColumns, Columns
  <2>3. HostFacts' = {}
    BY <2>1, <2>2 DEF HostFacts
  <2>4. Tuples!Shutdown
    BY <1>1, <1>3, <2>3 DEF Shutdown, Tuples!Shutdown
  <2> QED
    BY <2>4 DEF TupleStep, Tuples!Next
<1> QED
  BY <1>2, <1>3

LEMMA InitIsInit ==
    ASSUME Init
    PROVE  Tuples!Init
<1>1. /\ open = FALSE /\ host = [q \in Relation |-> NoColumns]
      /\ live = FALSE /\ db = Empty
      /\ stratum = 0 /\ phase = "idle" /\ iter = 0 /\ maxIter = 0
      /\ pipelines = {} /\ code = {}
      /\ status = "none" /\ exact = TRUE /\ input = {}
  BY DEF Init
<1>2. NoColumns.cols = {} /\ DOMAIN NoColumns.idx = {}
  BY DEF NoColumns, Columns
<1>3. ASSUME NEW q \in Relation
      PROVE  FullRows(q) = {} /\ DeltaRows(q) = {} /\ db[q].new.cols = {}
  <2>1. db[q] = [full |-> NoColumns, delta |-> NoColumns, new |-> NoColumns]
    BY <1>1 DEF Empty
  <2>2. FullRows(q) = {}
    BY <1>1, <1>2, <2>1 DEF FullRows
  <2>3. ~Comparing(q)
    BY <1>1 DEF Comparing
  <2>4. DeltaRows(q) = {}
    BY <1>2, <2>1, <2>3 DEF DeltaRows
  <2> QED
    BY <1>2, <2>1, <2>2, <2>4
<1>4. FullFacts = {} /\ DeltaFacts = {} /\ NewFacts = {}
  BY <1>3 DEF FullFacts, DeltaFacts, NewFacts
<1>5. HostFacts = {}
  BY <1>1, <1>2 DEF HostFacts
<1>6. RunStratum = 0 /\ RunPhase = "idle" /\ RunIter = 0 /\ RunTodo = {}
  BY <1>1 DEF RunStratum, RunPhase, RunIter, RunTodo
<1> QED
  BY <1>1, <1>4, <1>5, <1>6 DEF Tuples!Init

LEMMA StutterIsStutter ==
    ASSUME UNCHANGED vars
    PROVE  UNCHANGED Tuples!vars
<1>1. /\ open' = open /\ host' = host /\ live' = live /\ db' = db /\ stratum' = stratum
      /\ phase' = phase /\ iter' = iter /\ maxIter' = maxIter /\ pipelines' = pipelines
      /\ code' = code /\ status' = status /\ exact' = exact /\ input' = input
  BY DEF vars
<1>2. \A q : FullRows(q)' = FullRows(q)
  BY <1>1 DEF FullRows
<1>3. \A q : Comparing(q)' <=> Comparing(q)
  BY <1>1 DEF Comparing
<1>4. \A q : DeltaRows(q)' = DeltaRows(q)
  BY <1>1, <1>2, <1>3 DEF DeltaRows
<1>5. FullFacts' = FullFacts /\ DeltaFacts' = DeltaFacts /\ NewFacts' = NewFacts
  BY <1>1, <1>2, <1>4 DEF FullFacts, DeltaFacts, NewFacts
<1>6. RunStratum' = RunStratum /\ RunPhase' = RunPhase /\ RunIter' = RunIter /\ RunTodo' = RunTodo
  BY <1>1 DEF RunStratum, RunPhase, RunIter, RunTodo
<1> QED
  BY <1>1, <1>5, <1>6, Unseen

(* Every step of the runner with indexes is a step of the runner on tuple  *)
(* sets, or none.                                                          *)
LEMMA EveryStepIsStep ==
    ASSUME IndexedSupported, IInv, [Next]_vars
    PROVE  TupleStep
<1>1. CASE \E file \in Files \cup {{}} : Load(file)
  BY <1>1, LoadIsStep
<1>2. CASE \E max \in MaxIters : Run(max)
  BY <1>2, RunIsStep
<1>3. CASE RunFails \/ Shutdown
  BY <1>3, FailIsStep
<1>4. CASE phase # "idle" /\ Step
  <2>1. CASE Prepare
    BY <2>1, PrepareIsStep
  <2>2. CASE StartIteration
    BY <2>2, StartIterationIsStep
  <2>3. CASE \E v \in pipelines : Execute(v)
    BY <1>4, <2>3, ExecuteIsStep
  <2>4. CASE StartMaintenance
    BY <2>4, StartMaintenanceIsStep
  <2>5. CASE \E i \in code : Instruction(i)
    <3>1. PICK i \in code : Instruction(i)
      BY <2>5
    <3>2. CASE i.op = "RebuildNew"
      BY <1>4, <3>1, <3>2, RebuildIsStep
    <3>3. CASE i.op # "RebuildNew"
      BY <1>4, <3>1, <3>3, QuietInstruction
    <3> QED
      BY <3>2, <3>3
  <2>6. CASE EndIteration
    BY <2>6, EndIterationIsStep
  <2>7. CASE Leave
    BY <2>7, LeaveIsStep
  <2>8. CASE NextStratum
    BY <2>8, NextStratumIsStep
  <2> QED
    BY <1>4, <2>1, <2>2, <2>3, <2>4, <2>5, <2>6, <2>7, <2>8 DEF Step
<1>5. CASE Abort
  BY <1>5, AbortIsStep
<1>6. CASE UNCHANGED vars
  BY <1>6, StutterIsStutter DEF TupleStep
<1> QED
  BY <1>1, <1>2, <1>3, <1>4, <1>5, <1>6 DEF Next

(* The runner with indexes implements the runner on tuple sets: what the   *)
(* generated instructions do to columns and indexes, RebuildNew to         *)
(* Reconstruct, adds up to DELTA = NEW \ FULL and FULL = FULL + DELTA, and *)
(* the pipelines that read those indexes derive what semi-naive evaluation *)
(* derives from the facts.                                                 *)
THEOREM RunnerImplementsTuples ==
    ASSUME IndexedSupported
    PROVE  Spec => ImplementsTuples
<1>1. Init => Tuples!Init
  BY InitIsInit
<1>2. IInv /\ [Next]_vars => [Tuples!Next]_(Tuples!vars)
  BY EveryStepIsStep DEF TupleStep
<1> QED
  BY <1>1, <1>2, IndexInvariant, PTL DEF Spec, ImplementsTuples, Tuples!Spec

-----------------------------------------------------------------------------
(***************************************************************************)
(* From the instructions to the perfect model: what is proved of the       *)
(* runner on tuple sets holds of the sets the columns stand for.           *)
(***************************************************************************)

Loop == INSTANCE SemiNaive_proofs WITH
    host <- HostFacts, full <- FullFacts, delta <- DeltaFacts, newt <- NewFacts,
    stratum <- RunStratum, phase <- RunPhase, iter <- RunIter, todo <- RunTodo

(* SemiNaive and the module with its theorems are the same specification.  *)
LEMMA SameLoop ==
    /\ \A F, q : Loop!In(F, q) = Tuples!In(F, q)
    /\ \A s : /\ Loop!Members(s) = Tuples!Members(s) /\ Loop!Recursive(s) = Tuples!Recursive(s)
              /\ Loop!Variants(s) = Tuples!Variants(s) /\ Loop!Blocks(s) = Tuples!Blocks(s)
    /\ \A v : Loop!Produced(v) = Tuples!Produced(v)
    /\ \A q : Loop!Fresh(q) = Tuples!Fresh(q)
    /\ Loop!NoDelta <=> Tuples!NoDelta
    /\ Loop!vars = Tuples!vars /\ Loop!caller = Tuples!caller
<1>1. \A F, q : Loop!In(F, q) = Tuples!In(F, q)
  BY DEF Loop!In, Tuples!In
<1>2. ASSUME NEW s
      PROVE  /\ Loop!Members(s) = Members(s) /\ Loop!Recursive(s) = Recursive(s)
             /\ Loop!RulesOf(s) = RulesOf(s)
  BY DEF Loop!Members, Members, Loop!Recursive, Recursive, Loop!RulesOf, RulesOf
<1>3. ASSUME NEW s
      PROVE  /\ Loop!Variants(s) = Variants(s) /\ Loop!Blocks(s) = Blocks(s)
  <2>2. Loop!Variants(s) = Variants(s)
    BY DEF Loop!Variants, Variants, Loop!SccClauses, SccClauses, Loop!Members, Members,
       Loop!Recursive, Recursive, Loop!RulesOf, RulesOf
  <2> QED
    BY <1>2, <2>2 DEF Loop!Blocks, Blocks
<1>4. \A v : Loop!Produced(v) = Tuples!Produced(v)
  BY DEF Loop!Produced, Tuples!Produced, Loop!Outputs, Tuples!Outputs, Loop!MatchesIn,
     Tuples!MatchesIn, Loop!DeltaSource, Tuples!DeltaSource
<1>5. \A q : Loop!Fresh(q) = Tuples!Fresh(q)
  BY <1>1 DEF Loop!Fresh, Tuples!Fresh
<1>6. Loop!NoDelta <=> Tuples!NoDelta
  BY <1>1, <1>2, SameProgram DEF Loop!NoDelta, Tuples!NoDelta
<1>7. Loop!vars = Tuples!vars /\ Loop!caller = Tuples!caller
  BY DEF Loop!vars, Tuples!vars, Loop!caller, Tuples!caller
<1> QED
  BY <1>1, <1>2, <1>3, <1>4, <1>5, <1>6, <1>7, SameProgram

(* What is proved of the runner on tuple sets holds of this one.           *)
LEMMA LoopSpec == ImplementsTuples => Loop!Spec
<1>1. Tuples!Init => Loop!Init
  BY DEF Tuples!Init, Loop!Init
<1>2. ASSUME Tuples!Step
      PROVE  Loop!Step
  <2>1. CASE Tuples!StartIteration
    <3>1. Loop!StartIteration
      BY <2>1, SameLoop DEF Tuples!StartIteration, Loop!StartIteration, Loop!caller, Tuples!caller
    <3> QED
      BY <3>1 DEF Loop!Step
  <2>2. CASE \E v \in RunTodo : Tuples!Execute(v)
    <3>1. PICK v \in RunTodo : Tuples!Execute(v)
      BY <2>2
    <3>2. Loop!Execute(v)
      BY <3>1, SameLoop DEF Tuples!Execute, Loop!Execute, Loop!caller, Tuples!caller
    <3> QED
      BY <3>2 DEF Loop!Step
  <2>3. CASE Tuples!StartMaintenance
    <3>1. Loop!StartMaintenance
      BY <2>3, SameLoop DEF Tuples!StartMaintenance, Loop!StartMaintenance, Loop!caller, Tuples!caller
    <3> QED
      BY <3>1 DEF Loop!Step
  <2>4. CASE \E b \in RunTodo : Tuples!Maintain(b)
    <3>1. PICK b \in RunTodo : Tuples!Maintain(b)
      BY <2>4
    <3>2. Loop!Maintain(b)
      BY <3>1, SameLoop DEF Tuples!Maintain, Loop!Maintain, Loop!caller, Tuples!caller
    <3> QED
      BY <3>2 DEF Loop!Step
  <2>5. CASE Tuples!EndIteration
    <3>1. Loop!EndIteration
      BY <2>5, SameLoop DEF Tuples!EndIteration, Loop!EndIteration, Loop!caller, Tuples!caller
    <3> QED
      BY <3>1 DEF Loop!Step
  <2>6. Tuples!NextStratum => Loop!NextStratum
    BY DEF Tuples!NextStratum, Loop!NextStratum
  <2>7. CASE Tuples!Finish
    <3>1. Loop!Finish
      BY <2>6, <2>7, SameLoop DEF Tuples!Finish, Loop!Finish
    <3> QED
      BY <3>1 DEF Loop!Step
  <2>8. CASE Tuples!Converge
    <3>1. Loop!Converge
      BY <2>6, <2>8, SameLoop DEF Tuples!Converge, Loop!Converge
    <3> QED
      BY <3>1 DEF Loop!Step
  <2>9. CASE Tuples!CutOff
    <3>1. Loop!CutOff
      BY <2>6, <2>9, SameLoop DEF Tuples!CutOff, Loop!CutOff
    <3> QED
      BY <3>1 DEF Loop!Step
  <2> QED
    BY <1>2, <2>1, <2>2, <2>3, <2>4, <2>5, <2>7, <2>8, <2>9 DEF Tuples!Step
<1>3. ASSUME Tuples!Next
      PROVE  Loop!Next
  <2>1. CASE \E file \in Files \cup {{}} : Tuples!Load(file)
    BY <2>1 DEF Tuples!Load, Loop!Load, Loop!Next
  <2>2. CASE \E max \in MaxIters : Tuples!Run(max)
    BY <2>2 DEF Tuples!Run, Loop!Run, Loop!Next
  <2>3. CASE Tuples!RunFails
    BY <2>3 DEF Tuples!RunFails, Loop!RunFails, Loop!Next
  <2>4. CASE Tuples!Shutdown
    BY <2>4 DEF Tuples!Shutdown, Loop!Shutdown, Loop!Next
  <2>5. CASE Tuples!Step
    BY <1>2, <2>5 DEF Loop!Next
  <2>6. CASE Tuples!Abort
    BY <2>6 DEF Tuples!Abort, Loop!Abort, Loop!Next
  <2> QED
    BY <1>3, <2>1, <2>2, <2>3, <2>4, <2>5, <2>6 DEF Tuples!Next
<1>4. [Tuples!Next]_(Tuples!vars) => [Loop!Next]_(Loop!vars)
  BY <1>3 DEF Tuples!vars, Loop!vars
<1> QED
  BY <1>1, <1>4, PTL DEF Tuples!Spec, Loop!Spec, ImplementsTuples

LEMMA LoopReachesModel == Loop!Spec => []Loop!Promise!EndsInPerfectModel
<1>1. Loop!Stratified
  BY Stratified DEF Layered, Loop!Layered, Level, Loop!Level, Members, Loop!Members,
     RulesOf, Loop!RulesOf, Recursive, Loop!Recursive, SccClauses, Loop!SccClauses
<1>2. Loop!ProgramOK
  BY ProgramOK
<1> QED
  BY <1>1, <1>2, Loop!RunnerReachesModel

Model == [0 .. Len(Strata) -> SUBSET Fact]

(* The promise speaks of the perfect models of this program.               *)
LEMMA SamePromise ==
    /\ Loop!Promise!Layers = Model
    /\ \A M : Loop!Promise!PerfectModelOver(input, M) <=> PerfectModelOver(input, M)
<1>1. \A s : Loop!Promise!GroundOf(s) = GroundOf(s) /\ Loop!Promise!Members(s) = Members(s)
  BY DEF Loop!Promise!GroundOf, GroundOf, Loop!Promise!RulesOf, RulesOf, Loop!Promise!Members, Members
<1>2. \A s, G : Loop!Promise!Closed(s, G) <=> Closed(s, G)
  BY <1>1 DEF Loop!Promise!Closed, Closed, Loop!Promise!Fires, Fires
<1>3. \A s, F, G : Loop!Promise!Extension(s, F, G) <=> Extension(s, F, G)
  BY <1>1, <1>2 DEF Loop!Promise!Extension, Extension
<1>4. \A s, F, G : Loop!Promise!LeastExtension(s, F, G) <=> LeastExtension(s, F, G)
  BY <1>3 DEF Loop!Promise!LeastExtension, LeastExtension
<1>5. Loop!Promise!Level = Level
  BY DEF Loop!Promise!Level, Level
<1>6. \A M : Loop!Promise!PerfectModelOver(input, M) <=> PerfectModelOver(input, M)
  BY <1>4, <1>5 DEF Loop!Promise!PerfectModelOver, PerfectModelOver
<1> QED
  BY <1>6 DEF Loop!Promise!Layers, Model

(* After a successful run FULL is what the columns hold.                   *)
LEMMA ColumnsAreFull ==
    ASSUME IndexedSupported, IInv, status = "ok", NEW q \in Relation
    PROVE  In(FullFacts, q) = db[q].full.cols
<1>1. PhaseInv /\ phase = "idle" /\ iter \in Nat
  BY DEF IInv, Valid, TypeInv
<1>2. stratum = 0 /\ code = {}
  BY <1>1 DEF PhaseInv
<1>3. ASSUME NEW p \in Relation
      PROVE  /\ FullRows(p) = db[p].full.cols
             /\ DeltaRows(p) \subseteq db[p].full.cols
             /\ db[p].full.cols \subseteq Facts(p)
  <2> DEFINE g == StageOf(p, "idle", 0, iter, {})
  <2>1. RelInv(p, db[p], stratum, Stage(p), input) /\ IsRelation(db[p], p)
    BY DEF IInv, Valid, TypeInv
  <2>2. Stage(p) = g
    BY <1>1, <1>2 DEF Stage
  <2>3. g.member <=> "idle" # "idle" /\ p \in Members(0)
    BY RestingStage
  <2>4. ~g.comparing
    BY DEF g, StageOf, ComparingIn
  <2> HIDE DEF g
  <2>5. IndexedRows(db[p].delta) \subseteq db[p].full.cols
    BY <2>1, <2>2, <2>3, <2>4 DEF RelInv, SettledRel
  <2>6. DeltaRows(p) = IndexedRows(db[p].delta)
    BY <1>2 DEF DeltaRows, Comparing, IndexedRows
  <2>7. FullRows(p) = db[p].full.cols
    BY <1>2 DEF FullRows
  <2> QED
    BY <2>1, <2>5, <2>6, <2>7 DEF IsRelation, IsVersion
<1>4. \A p \in Relation : \A f \in FullRows(p) \cup DeltaRows(p) : RelOf[f] = p
  BY <1>3 DEF Facts
<1> QED
  BY <1>3, <1>4 DEF FullFacts, In

(* A successful run that no limit cut short leaves in the columns of every *)
(* relation its facts in the perfect model of what was loaded.             *)
ColumnsArePerfectModel ==
    \A M \in Model : PerfectModelOver(input, M) =>
        (status = "ok" /\ exact => \A q \in Relation : db[q].full.cols = In(M[Len(Strata)], q))

(* Every such run ends so, whatever indexes the program reads through and  *)
(* in whatever order blocks and pipelines run.                             *)
THEOREM PerfectModelInColumns ==
    ASSUME IndexedSupported
    PROVE  Spec => []ColumnsArePerfectModel
<1>1. IInv /\ Loop!Promise!EndsInPerfectModel => ColumnsArePerfectModel
  <2> SUFFICES ASSUME IInv, Loop!Promise!EndsInPerfectModel, NEW M \in Model,
                      PerfectModelOver(input, M), status = "ok", exact, NEW q \in Relation
               PROVE  db[q].full.cols = In(M[Len(Strata)], q)
    BY DEF ColumnsArePerfectModel
  <2>1. FullFacts = M[Len(Strata)]
    BY SamePromise DEF Loop!Promise!EndsInPerfectModel
  <2> QED
    BY <2>1, ColumnsAreFull
<1> QED
  BY <1>1, IndexInvariant, RunnerImplementsTuples, LoopSpec, LoopReachesModel, PTL
=============================================================================
