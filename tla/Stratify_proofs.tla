--------------------------- MODULE Stratify_proofs ---------------------------
(***************************************************************************)
(* Proofs about Stratify, for every program over finitely many relations.  *)
(*                                                                         *)
(* Each pass has an invariant of its own, and the end of a pass makes the  *)
(* invariant of the next: SearchInv is Tarjan's, MergeInv says of the      *)
(* components that they are bottom-up and that each is computed together,  *)
(* SplitInv and StrataInv say the same of the strata made of them.  What   *)
(* needs a program the stratifier is made for is conditional on Supported. *)
(***************************************************************************)
EXTENDS Stratify, SequenceTheorems, FiniteSetTheorems, WellFoundedInduction, TLAPS

-----------------------------------------------------------------------------
(***************************************************************************)
(* Least elements, and sets as sequences                                   *)
(***************************************************************************)

(* A set of natural numbers that is not empty has a least element.         *)
LEMMA MinOfNaturals ==
    ASSUME NEW S \in SUBSET Nat, S # {}
    PROVE  Min(S) \in S /\ \A k \in S : Min(S) <= k
<1> DEFINE R == {ss \in Nat \X Nat : ss[1] < ss[2]}
<1>1. IsWellFoundedOn(R, Nat)
  BY NatLessThanWellFounded DEF OpToRel
<1>2. PICK m \in S : \A k \in S : <<k, m>> \notin R
  <2> HIDE DEF R
  <2> QED
    BY <1>1, WFMin
<1>3. ASSUME NEW k \in S
      PROVE  m <= k
  <2>1. <<k, m>> \notin R /\ k \in Nat /\ m \in Nat
    BY <1>2
  <2>2. ~(k < m)
    BY <2>1
  <2> QED
    BY <2>1, <2>2
<1> QED
  BY <1>3 DEF Min

(* A finite set as a sequence has the elements of the set, each once.       *)
LEMMA ElementsInSequence ==
    ASSUME NEW S, IsFiniteSet(S)
    PROVE  /\ SetToSeq(S) \in Seq(S) /\ Len(SetToSeq(S)) = Cardinality(S)
           /\ \A i \in DOMAIN SetToSeq(S) : SetToSeq(S)[i] \in S
           /\ \A x \in S : \E i \in DOMAIN SetToSeq(S) : SetToSeq(S)[i] = x
<1> DEFINE n == Cardinality(S)
           f == SetToSeq(S)
<1>1. n \in Nat
  BY FS_CardinalityType
<1>2. IsFiniteSet(1 .. n) /\ Cardinality(1 .. n) = n
  BY <1>1, FS_Interval
<1>3. PICK g : g \in Bijection(1 .. n, S)
  BY <1>2, FS_SameCardinalityBij DEF ExistsBijection
<1>4. g \in [1 .. n -> S] /\ IsInjective(g)
  BY <1>3 DEF Bijection, Injection, IsInjective
<1>5. f \in [1 .. n -> S] /\ IsInjective(f)
  BY <1>4 DEF SetToSeq
<1>6. f \in Injection(1 .. n, S)
  BY <1>5 DEF Injection, IsInjective
<1>7. f \in Surjection(1 .. n, S)
  BY <1>2, <1>6, FS_Injection
<1> HIDE DEF f, n
<1>8. f \in Seq(S) /\ Len(f) = n
  BY <1>1, <1>5
<1> QED
  BY <1>5, <1>7, <1>8 DEF Surjection, f, n

(***************************************************************************)
(* Dependencies                                                            *)
(***************************************************************************)
ReachesOrIs(q, r) == r = q \/ r \in Reach(q)
ReachTogether(q) == LeastClosed(q, ComputedWith)

(* The relations of a program, its rules and what they read, typed.        *)
LEMMA GraphTypes ==
    ASSUME rules \in Programs
    PROVE  /\ IsFiniteSet(Rel) /\ Rel \subseteq Nat
           /\ rules \in Seq([heads : Seq(Rel), pos : SUBSET Rel, neg : SUBSET Rel])
           /\ DOMAIN rules = 1 .. Len(rules) /\ Len(rules) \in Nat
           /\ \A i \in DOMAIN rules :
                 /\ rules[i].heads \in Seq(Rel) /\ rules[i].heads # <<>>
                 /\ Len(rules[i].heads) \in Nat \ {0}
                 /\ DOMAIN rules[i].heads = 1 .. Len(rules[i].heads)
                 /\ rules[i].pos \subseteq Rel /\ rules[i].neg \subseteq Rel
                 /\ HeadsOf(i) \subseteq Idb /\ HeadsOf(i) # {}
           /\ Idb \subseteq Rel
           /\ \A q : DependsOn(q) \subseteq Idb /\ ComputedWith(q) \subseteq Idb
<1>1. /\ IsFiniteSet(Rel) /\ Rel \subseteq Nat
      /\ rules \in Seq([heads : Seq(Rel), pos : SUBSET Rel, neg : SUBSET Rel])
      /\ \A i \in DOMAIN rules : rules[i].heads # <<>>
  BY ProgramsOK
<1>2. DOMAIN rules = 1 .. Len(rules) /\ Len(rules) \in Nat
      /\ \A i \in DOMAIN rules : rules[i] \in [heads : Seq(Rel), pos : SUBSET Rel, neg : SUBSET Rel]
  BY <1>1, LenProperties, ElementOfSeq
<1>3. ASSUME NEW i \in DOMAIN rules
      PROVE  /\ rules[i].heads \in Seq(Rel) /\ rules[i].heads # <<>>
             /\ Len(rules[i].heads) \in Nat \ {0}
             /\ DOMAIN rules[i].heads = 1 .. Len(rules[i].heads)
             /\ rules[i].pos \subseteq Rel /\ rules[i].neg \subseteq Rel
             /\ HeadsOf(i) \subseteq Rel /\ HeadsOf(i) # {}
  <2>1. rules[i].heads \in Seq(Rel) /\ rules[i].heads # <<>>
        /\ rules[i].pos \subseteq Rel /\ rules[i].neg \subseteq Rel
    BY <1>1, <1>2
  <2>2. Len(rules[i].heads) \in Nat \ {0} /\ DOMAIN rules[i].heads = 1 .. Len(rules[i].heads)
        /\ \A k \in DOMAIN rules[i].heads : rules[i].heads[k] \in Rel
    BY <2>1, EmptySeq, LenProperties, ElementOfSeq
  <2>3. HeadsOf(i) = {rules[i].heads[k] : k \in DOMAIN rules[i].heads}
    BY DEF HeadsOf, ToSet
  <2>4. 1 \in DOMAIN rules[i].heads
    BY <2>2
  <2>5. HeadsOf(i) \subseteq Rel /\ HeadsOf(i) # {}
    BY <2>2, <2>3, <2>4, Zenon
  <2> QED
    BY <2>1, <2>2, <2>5
<1>4. Idb \subseteq Rel /\ \A i \in DOMAIN rules : HeadsOf(i) \subseteq Idb
  BY <1>3 DEF Idb
<1>5. \A q : DependsOn(q) \subseteq Idb
  BY DEF DependsOn
<1>6. \A q : ComputedWith(q) \subseteq Idb
  <2> SUFFICES ASSUME NEW q, NEW r \in ComputedWith(q)
               PROVE  r \in Idb
    OBVIOUS
  <2>1. r \in DependsOn(q) \/ \E i \in DOMAIN rules : r \in HeadsOf(i)
    BY DEF ComputedWith
  <2> QED
    BY <1>4, <1>5, <2>1
<1> QED
  BY <1>1, <1>2, <1>3, <1>4, <1>5, <1>6

(* A relation depends on what it reads, and on what that depends on;       *)
(* whatever is closed under dependencies has it all.                       *)
LEMMA ReachStep ==
    ASSUME rules \in Programs, NEW q, NEW r \in DependsOn(q)
    PROVE  r \in Reach(q)
BY GraphTypes DEF Reach, LeastClosed

(* A set that has what q depends on, and is closed under dependencies, has *)
(* all q reaches.                                                          *)
LEMMA ReachWithin ==
    ASSUME NEW q, NEW S \in SUBSET Idb, DependsOn(q) \subseteq S,
           \A r \in S : DependsOn(r) \subseteq S
    PROVE  Reach(q) \subseteq S
BY DEF Reach, LeastClosed, ClosedFor

(* Reaching is transitive.                                                 *)
LEMMA ReachTransitive ==
    ASSUME NEW q, NEW r \in Reach(q), NEW s \in Reach(r)
    PROVE  s \in Reach(q)
<1> SUFFICES ASSUME NEW S \in SUBSET Idb, DependsOn(q) \subseteq S,
                    \A x \in S : DependsOn(x) \subseteq S
             PROVE  s \in S
  BY DEF Reach, LeastClosed, ClosedFor
<1>1. r \in S
  BY ReachWithin
<1> QED
  BY <1>1, ReachWithin

(* As long as the rules stay, so do the dependencies.                      *)
LEMMA GraphUnmoved ==
    ASSUME rules' = rules
    PROVE  /\ Idb' = Idb
           /\ \A i : HeadsOf(i)' = HeadsOf(i) /\ BodyRelations(i)' = BodyRelations(i)
           /\ \A q : DependsOn(q)' = DependsOn(q) /\ Reach(q)' = Reach(q)
           /\ \A q : ReachTogether(q)' = ReachTogether(q)
           /\ \A q : Component(q)' = Component(q)
           /\ \A q, r : ReachesOrIs(q, r)' = ReachesOrIs(q, r)
           /\ Supported' = Supported
<1>1. Idb' = Idb /\ \A i : HeadsOf(i)' = HeadsOf(i) /\ BodyRelations(i)' = BodyRelations(i)
  BY DEF Idb, HeadsOf, BodyRelations
<1>2. \A q : DependsOn(q)' = DependsOn(q)
  BY <1>1, Zenon DEF DependsOn
<1>2a. \A q : ComputedWith(q)' = ComputedWith(q)
  BY <1>1, <1>2, Zenon DEF ComputedWith
<1>3. \A q : Reach(q)' = Reach(q)
  BY <1>1, <1>2, Zenon DEF Reach, LeastClosed, ClosedFor
<1>4. \A q : ReachTogether(q)' = ReachTogether(q)
  BY <1>1, <1>2a, Zenon DEF ReachTogether, LeastClosed, ClosedFor
<1>5. \A q : Component(q)' = Component(q)
  BY <1>3 DEF Component
<1>6. \A q, r : ReachesOrIs(q, r)' = ReachesOrIs(q, r)
  BY <1>3 DEF ReachesOrIs
<1>7. Supported' = Supported
  BY <1>1, <1>3, <1>4 DEF Supported, ReachTogether
<1> QED
  BY <1>1, <1>2, <1>3, <1>4, <1>5, <1>6, <1>7

(* Being or reaching is transitive.                                        *)
LEMMA ReachesComposed ==
    ASSUME NEW q, NEW r, NEW s, ReachesOrIs(q, r), ReachesOrIs(r, s)
    PROVE  ReachesOrIs(q, s)
BY ReachTransitive DEF ReachesOrIs

-----------------------------------------------------------------------------
(***************************************************************************)
(* Tarjan's search                                                         *)
(***************************************************************************)
OnStack == {stack[i] : i \in 1 .. Len(stack)}
Upto(k) == UNION {comps[j] : j \in 1 .. k}
Done == Upto(Len(comps))
Call == [rel : Reached, left : SUBSET Idb]

SearchTypes ==
    /\ rules \in Programs
    /\ Reached \subseteq Idb
    /\ index \in [Reached -> Nat] /\ lowlink \in [Reached -> Nat]
    /\ stack \in Seq(Reached)
    /\ frames \in Seq(Call)
    /\ comps \in Seq(SUBSET Reached)
    /\ next = 1 /\ strata = <<>>

(* Indexes count what was reached; they ascend on the stack.               *)
Numbered ==
    /\ \A q \in Reached : index[q] < Cardinality(Reached)
    /\ \A i, j \in 1 .. Len(stack) : i < j => index[stack[i]] < index[stack[j]]

(* What was reached is on the stack or in a component.                     *)
Partitioned == OnStack \cup Done = Reached /\ OnStack \cap Done = {}

(* The calls in progress are of relations on the stack, in its order.      *)
Calls ==
    \A i \in 1 .. Len(frames) :
        /\ frames[i].rel \in OnStack
        /\ frames[i].left \subseteq DependsOn(frames[i].rel)
        /\ \A j \in 1 .. i - 1 : index[frames[j].rel] < index[frames[i].rel]

(* What a relation depends on was reached, or is left to its call.         *)
Explored ==
    \A q \in Reached : \A n \in DependsOn(q) :
        n \in Reached \/ \E i \in 1 .. Len(frames) : frames[i].rel = q /\ n \in frames[i].left

(* A lowlink is the index of something reachable.                          *)
LowReached ==
    \A q \in OnStack :
        /\ lowlink[q] <= index[q]
        /\ \E r \in OnStack : index[r] = lowlink[q] /\ ReachesOrIs(q, r)

(* A call reaches whatever is above it; whatever is on the stack reaches a *)
(* call below it.                                                          *)
Descends ==
    \A i \in 1 .. Len(frames) : \A q \in OnStack :
        index[frames[i].rel] <= index[q] => ReachesOrIs(frames[i].rel, q)

Ascends ==
    \A q \in OnStack : \E i \in 1 .. Len(frames) :
        index[frames[i].rel] <= index[q] /\ ReachesOrIs(q, frames[i].rel)

(* The lowlink of a call is low enough for what lies between it and the    *)
(* next call.                                                              *)
Segment(i, q) ==
    /\ index[frames[i].rel] <= index[q]
    /\ i < Len(frames) => index[q] < index[frames[i + 1].rel]

LowEnough ==
    \A i \in 1 .. Len(frames) : \A q \in OnStack : Segment(i, q) =>
        \A n \in DependsOn(q) : n \in OnStack =>
            \/ q = frames[i].rel /\ n \in frames[i].left
            \/ lowlink[frames[i].rel] <= index[n]

(* The components found are components, bottom-up.                         *)
BottomUp ==
    \A k \in 1 .. Len(comps) :
        /\ comps[k] # {}
        /\ \A q \in comps[k] : comps[k] = Component(q) /\ DependsOn(q) \subseteq Upto(k)
        /\ \A j \in 1 .. k - 1 : comps[j] \cap comps[k] = {}

SearchInv ==
    /\ SearchTypes /\ Numbered /\ Partitioned /\ Calls /\ Explored
    /\ LowReached /\ Descends /\ Ascends /\ LowEnough /\ BottomUp

(* What the types of the search say of its parts.                          *)
LEMMA SearchFacts ==
    ASSUME SearchTypes
    PROVE  /\ Len(stack) \in Nat /\ Len(frames) \in Nat /\ Len(comps) \in Nat
           /\ DOMAIN stack = 1 .. Len(stack) /\ DOMAIN frames = 1 .. Len(frames)
           /\ DOMAIN comps = 1 .. Len(comps)
           /\ OnStack \subseteq Reached /\ Done \subseteq Reached
           /\ \A i \in 1 .. Len(stack) : stack[i] \in Reached /\ stack[i] \in OnStack
           /\ \A i \in 1 .. Len(frames) :
                 frames[i] \in Call /\ frames[i].rel \in Reached /\ frames[i].left \subseteq Idb
           /\ \A i \in 1 .. Len(comps) : comps[i] \subseteq Reached /\ comps[i] \subseteq Done
           /\ IsFiniteSet(Reached) /\ Cardinality(Reached) \in Nat
           /\ \A q \in Reached : index[q] \in Nat /\ lowlink[q] \in Nat
<1>1. /\ Len(stack) \in Nat /\ Len(frames) \in Nat /\ Len(comps) \in Nat
      /\ DOMAIN stack = 1 .. Len(stack) /\ DOMAIN frames = 1 .. Len(frames)
      /\ DOMAIN comps = 1 .. Len(comps)
      /\ \A i \in 1 .. Len(stack) : stack[i] \in Reached
      /\ \A i \in 1 .. Len(frames) : frames[i] \in Call
      /\ \A i \in 1 .. Len(comps) : comps[i] \in SUBSET Reached
  BY LenProperties, ElementOfSeq DEF SearchTypes
<1>2. OnStack \subseteq Reached /\ \A i \in 1 .. Len(stack) : stack[i] \in OnStack
  BY <1>1 DEF OnStack
<1>3. Done \subseteq Reached /\ \A i \in 1 .. Len(comps) : comps[i] \subseteq Done
  BY <1>1 DEF Done, Upto
<1>4. \A i \in 1 .. Len(frames) : frames[i].rel \in Reached /\ frames[i].left \subseteq Idb
  BY <1>1 DEF Call
<1>5. IsFiniteSet(Reached) /\ Cardinality(Reached) \in Nat
  BY GraphTypes, FS_Subset, FS_CardinalityType DEF SearchTypes
<1> QED
  BY <1>1, <1>2, <1>3, <1>4, <1>5 DEF SearchTypes

(* A call of strongconnect, the first or a nested one.                     *)
LEMMA EnterKeeps ==
    ASSUME SearchInv, UNCHANGED <<rules, phase, comps, next, strata>>,
           NEW q \in Idb \ Reached, Enter(q),
           frames' \in Seq([rel : Reached \cup {q}, left : SUBSET Idb]),
           Len(frames') = Len(frames) + 1,
           \A i \in 1 .. Len(frames) :
               /\ frames'[i].rel = frames[i].rel
               /\ frames'[i].left \subseteq frames[i].left
               /\ frames[i].left \subseteq frames'[i].left \cup {q},
           frames'[Len(frames) + 1] = Frame(q),
           Len(frames) # 0 => q \in DependsOn(frames[Len(frames)].rel)
    PROVE  SearchInv'
<1> DEFINE n == Cardinality(Reached)
           L == Len(frames)
<1>a. /\ SearchTypes /\ Numbered /\ Partitioned /\ Calls /\ Explored
      /\ LowReached /\ Descends /\ Ascends /\ LowEnough /\ BottomUp
  BY DEF SearchInv
<1>b. n \in Nat /\ L \in Nat /\ Len(stack) \in Nat /\ IsFiniteSet(Reached) /\ L = Len(frames)
  BY <1>a, SearchFacts
<1>c. /\ OnStack \subseteq Reached
      /\ \A i \in 1 .. Len(stack) : stack[i] \in Reached
      /\ \A r \in Reached : index[r] \in Nat /\ lowlink[r] \in Nat /\ index[r] < n
  BY <1>a, SearchFacts DEF Numbered
<1>d. Len(frames') = L + 1 /\ \A i \in 1 .. L : frames'[i].rel = frames[i].rel
  OBVIOUS
<1>g. /\ Idb' = Idb
      /\ \A r : DependsOn(r)' = DependsOn(r) /\ Component(r)' = Component(r)
      /\ \A r, s : ReachesOrIs(r, s)' = ReachesOrIs(r, s)
  BY <1>a, GraphUnmoved
<1>1. /\ Reached' = Reached \cup {q}
      /\ index' \in [Reached' -> Nat] /\ lowlink' \in [Reached' -> Nat]
      /\ \A r \in Reached : index'[r] = index[r] /\ lowlink'[r] = lowlink[r]
      /\ index'[q] = n /\ lowlink'[q] = n
  BY <1>a, <1>b DEF Enter, Reached, SearchTypes
<1>2. Cardinality(Reached') = n + 1
  BY <1>1, <1>b, FS_AddElement
<1>3. /\ stack' \in Seq(Reached') /\ Len(stack') = Len(stack) + 1
      /\ \A i \in 1 .. Len(stack) : stack'[i] = stack[i]
      /\ stack'[Len(stack) + 1] = q
  <2>1. stack \in Seq(Reached') /\ q \in Reached'
    BY <1>a, <1>1, SeqMonotonic DEF SearchTypes
  <2> QED
    BY <2>1, AppendProperties DEF Enter
<1>4. OnStack' = OnStack \cup {q}
  <2>1. \A i : i \in 1 .. Len(stack) + 1 <=> i \in 1 .. Len(stack) \/ i = Len(stack) + 1
    BY <1>b
  <2>2. OnStack' = {stack'[i] : i \in 1 .. Len(stack) + 1}
    BY <1>3 DEF OnStack
  <2>3. \A x : x \in OnStack' <=> x \in OnStack \/ x = q
    BY <1>3, <2>1, <2>2, ZenonT(30) DEF OnStack
  <2> QED
    BY <2>3
<1>5. SearchTypes'
  <2>1. comps' \in Seq(SUBSET (Reached'))
    BY <1>a, <1>1, SeqMonotonic DEF SearchTypes
  <2> QED
    BY <1>a, <1>1, <1>3, <1>g, <2>1 DEF SearchTypes, Call
<1>6. Numbered'
  <2>1. \A r \in Reached' : index'[r] < Cardinality(Reached')
    BY <1>1, <1>2, <1>b, <1>c
  <2>2. ASSUME NEW i \in 1 .. Len(stack'), NEW j \in 1 .. Len(stack'), i < j
        PROVE  index'[stack'[i]] < index'[stack'[j]]
    <3>1. i \in 1 .. Len(stack) /\ (j \in 1 .. Len(stack) \/ j = Len(stack) + 1)
      BY <1>3, <1>b, <2>2
    <3>2. CASE j \in 1 .. Len(stack)
      <4>1. index[stack[i]] < index[stack[j]]
        BY <1>a, <2>2, <3>1, <3>2 DEF Numbered
      <4> QED
        BY <1>1, <1>3, <1>c, <3>1, <3>2, <4>1
    <3>3. CASE j = Len(stack) + 1
      <4>1. stack'[j] = q /\ stack'[i] = stack[i] /\ stack[i] \in Reached
        BY <1>3, <1>c, <3>1, <3>3
      <4>2. index'[stack'[j]] = n
        BY <1>1, <4>1
      <4>3. index'[stack'[i]] = index[stack[i]] /\ index[stack[i]] < n
        BY <1>1, <1>c, <4>1
      <4> QED
        BY <4>2, <4>3
    <3> QED
      BY <3>1, <3>2, <3>3
  <2> QED
    BY <2>1, <2>2 DEF Numbered
<1>7. Done' = Done /\ \A k : Upto(k)' = Upto(k)
  BY DEF Done, Upto
<1>8. Partitioned'
  BY <1>a, <1>c, <1>1, <1>4, <1>7 DEF Partitioned
<1>9. \A i \in 1 .. L : frames[i].rel \in Reached /\ frames[i].rel \in OnStack /\ index[frames[i].rel] < n
  BY <1>a, <1>c DEF Calls
<1>10. Len(frames') = L + 1 /\ L \in Nat /\ \A i \in 1 .. L + 1 : i \in 1 .. L \/ i = L + 1
  BY <1>b
<1>11. frames'[L + 1].rel = q /\ frames'[L + 1].left = DependsOn(q)
  BY DEF Frame
<1>12. Calls'
  <2> SUFFICES ASSUME NEW i \in 1 .. L + 1
               PROVE  /\ frames'[i].rel \in OnStack'
                      /\ frames'[i].left \subseteq DependsOn(frames'[i].rel)
                      /\ \A j \in 1 .. i - 1 : index'[frames'[j].rel] < index'[frames'[i].rel]
    BY <1>10, <1>g DEF Calls
  <2>1. CASE i \in 1 .. L
    <3>1. \A j \in 1 .. i - 1 : j \in 1 .. L /\ index[frames[j].rel] < index[frames[i].rel]
      BY <1>a, <1>b, <2>1 DEF Calls
    <3>2. frames[i].rel \in OnStack /\ frames[i].left \subseteq DependsOn(frames[i].rel)
      BY <1>a, <1>b, <2>1 DEF Calls
    <3>3. frames'[i].rel = frames[i].rel /\ frames'[i].left \subseteq frames[i].left
      BY <2>1
    <3> HIDE DEF L
    <3> QED
      BY <1>1, <1>4, <1>9, <1>d, <2>1, <3>1, <3>2, <3>3
  <2>2. CASE i = L + 1
    <3>1. \A j \in 1 .. i - 1 : j \in 1 .. L
      BY <1>b, <2>2
    <3> HIDE DEF L
    <3>2. \A j \in 1 .. i - 1 : index'[frames'[j].rel] < index'[frames'[i].rel]
      BY SMTT(30), <1>1, <1>9, <1>11, <1>d, <2>2, <3>1
    <3> QED
      BY <1>4, <1>11, <2>2, <3>2
  <2> QED
    BY <1>10, <2>1, <2>2
<1>13. Explored'
  <2> SUFFICES ASSUME NEW r \in Reached', NEW m \in DependsOn(r), m \notin Reached'
               PROVE  \E i \in 1 .. L + 1 : frames'[i].rel = r /\ m \in frames'[i].left
    BY <1>10, <1>g DEF Explored
  <2>1. CASE r = q
    BY <1>10, <1>11, <2>1
  <2>2. CASE r \in Reached
    <3>1. PICK i \in 1 .. L : frames[i].rel = r /\ m \in frames[i].left
      BY <1>a, <1>1, <2>2 DEF Explored
    <3>2. frames'[i].rel = r /\ m \in frames'[i].left
      BY <1>1, <3>1
    <3> QED
      BY <1>10, <3>2
  <2> QED
    BY <1>1, <2>1, <2>2
<1>14. LowReached'
  <2> SUFFICES ASSUME NEW r \in OnStack'
               PROVE  /\ lowlink'[r] <= index'[r]
                      /\ \E s \in OnStack' : index'[s] = lowlink'[r] /\ ReachesOrIs(r, s)
    BY <1>g DEF LowReached
  <2>1. CASE r = q
    BY <1>1, <1>4, <1>b, <2>1 DEF ReachesOrIs
  <2>2. CASE r \in OnStack
    BY <1>a, <1>c, <1>1, <1>4, <2>2 DEF LowReached
  <2> QED
    BY <1>4, <2>1, <2>2
<1>15. \A i \in 1 .. L : ReachesOrIs(frames[i].rel, q)
  <2> SUFFICES ASSUME NEW i \in 1 .. L
               PROVE  ReachesOrIs(frames[i].rel, q)
    OBVIOUS
  <2>1. L \in 1 .. L /\ (i = L \/ i \in 1 .. L - 1)
    BY <1>b
  <2>2. index[frames[i].rel] <= index[frames[L].rel]
    <3>1. CASE i = L
      BY <1>c, <1>9, <3>1
    <3>2. CASE i \in 1 .. L - 1
      BY <1>a, <1>c, <1>9, <2>1, <3>2 DEF Calls
    <3> QED
      BY <2>1, <3>1, <3>2
  <2>3. ReachesOrIs(frames[i].rel, frames[L].rel)
    BY <1>a, <1>9, <2>1, <2>2 DEF Descends
  <2>4. q \in DependsOn(frames[L].rel)
    BY <1>b, <2>1
  <2>5. ReachesOrIs(frames[L].rel, q)
    BY <1>a, <2>4, ReachStep DEF ReachesOrIs, SearchTypes
  <2> QED
    BY <2>3, <2>5, ReachesComposed
<1>16. \A r \in OnStack' : (r \in OnStack /\ r \in Reached /\ index'[r] < n) \/ r = q
  BY <1>1, <1>4, <1>c
<1>17. Descends'
  <2> SUFFICES ASSUME NEW i \in 1 .. L + 1, NEW r \in OnStack',
                      index'[frames'[i].rel] <= index'[r]
               PROVE  ReachesOrIs(frames'[i].rel, r)
    BY <1>10, <1>g DEF Descends
  <2>1. CASE i = L + 1
    <3>1. r = q
      BY <1>1, <1>10, <1>11, <1>16, <2>1
    <3> QED
      BY <1>11, <2>1, <3>1 DEF ReachesOrIs
  <2>2. CASE i \in 1 .. L /\ r = q
    BY <1>15, <1>d, <2>2
  <2>3. CASE i \in 1 .. L /\ r \in OnStack
    BY <1>a, <1>d, <1>c, <1>1, <1>9, <2>3 DEF Descends
  <2> QED
    BY <1>10, <1>16, <2>1, <2>2, <2>3
<1>18. Ascends'
  <2> SUFFICES ASSUME NEW r \in OnStack'
               PROVE  \E i \in 1 .. L + 1 : index'[frames'[i].rel] <= index'[r] /\ ReachesOrIs(r, frames'[i].rel)
    BY <1>10, <1>g DEF Ascends
  <2>1. CASE r = q
    BY <1>1, <1>10, <1>11, <1>b, <2>1 DEF ReachesOrIs
  <2>2. CASE r \in OnStack
    <3>1. PICK i \in 1 .. L : index[frames[i].rel] <= index[r] /\ ReachesOrIs(r, frames[i].rel)
      BY <1>a, <2>2 DEF Ascends
    <3>2. index'[frames'[i].rel] <= index'[r] /\ ReachesOrIs(r, frames'[i].rel)
      BY <1>1, <1>9, <1>c, <1>d, <2>2, <3>1
    <3> QED
      BY <1>10, <3>2
  <2> QED
    BY <1>16, <2>1, <2>2
<1>19. LowEnough'
  <2> SUFFICES ASSUME NEW i \in 1 .. L + 1, NEW r \in OnStack',
                      index'[frames'[i].rel] <= index'[r],
                      i < L + 1 => index'[r] < index'[frames'[i + 1].rel],
                      NEW m \in DependsOn(r), m \in OnStack'
               PROVE  \/ r = frames'[i].rel /\ m \in frames'[i].left
                      \/ lowlink'[frames'[i].rel] <= index'[m]
    BY <1>10, <1>g DEF LowEnough, Segment
  <2>1. CASE i = L + 1
    BY <1>1, <1>10, <1>11, <1>16, <2>1
  <2>2. CASE i \in 1 .. L
    <3>1. r \in OnStack /\ r \in Reached
      <4> SUFFICES ASSUME r = q
                   PROVE  FALSE
        BY <1>16
      <4>1. CASE i = L
        BY <1>1, <1>10, <1>11, <2>2, <4>1
      <4>2. CASE i + 1 \in 1 .. L
        BY SMTT(30), <1>1, <1>9, <1>d, <1>10, <2>2, <4>2
      <4> QED
        BY <1>10, <2>2, <4>1, <4>2
    <3>2. Segment(i, r)
      <4>1. i < L => i + 1 \in 1 .. L
        BY <1>10, <2>2
      <4>2. index[frames[i].rel] <= index[r]
        BY <1>1, <1>9, <1>d, <2>2, <3>1
      <4>3. ASSUME i < L
            PROVE  index[r] < index[frames[i + 1].rel]
        <5> HIDE DEF L
        <5>1. i < L + 1
          BY <1>10, <4>3
        <5>2. index'[r] < index'[frames'[i + 1].rel]
          BY <5>1
        <5> QED
          BY <1>1, <1>9, <1>d, <3>1, <4>1, <4>3, <5>2
      <4> QED
        BY <4>2, <4>3 DEF Segment
    <3>3. CASE m = q
      <4>1. lowlink[frames[i].rel] <= index[frames[i].rel]
        BY <1>a, <1>9, <2>2 DEF LowReached
      <4> QED
        BY <1>1, <1>9, <1>c, <1>d, <1>b, <2>2, <3>3, <4>1
    <3>4. CASE m \in OnStack /\ m # q
      <4>1. (r = frames[i].rel /\ m \in frames[i].left) \/ lowlink[frames[i].rel] <= index[m]
        BY <1>a, <2>2, <3>1, <3>2, <3>4 DEF LowEnough
      <4>2. m \in frames[i].left => m \in frames'[i].left
        BY <2>2, <3>4
      <4> QED
        BY <1>1, <1>9, <1>c, <1>d, <2>2, <3>4, <4>1, <4>2
    <3> QED
      BY <1>16, <3>3, <3>4
  <2> QED
    BY <1>10, <2>1, <2>2
<1>20. BottomUp'
  BY <1>a, <1>7, <1>g DEF BottomUp
<1> QED
  BY <1>5, <1>6, <1>8, <1>12, <1>13, <1>14, <1>17, <1>18, <1>19, <1>20 DEF SearchInv

(* There is a root for the next search as long as a head was not reached.  *)
LEMMA RootUnreached ==
    ASSUME rules \in Programs, WithRoots # {}
    PROVE  Root \in Idb \ Reached
<1>1. DOMAIN rules = 1 .. Len(rules) /\ Len(rules) \in Nat
  BY GraphTypes
<1>2. WithRoots \in SUBSET Nat
  BY <1>1 DEF WithRoots
<1>3. Min(WithRoots) \in WithRoots
  BY <1>2, MinOfNaturals
<1> DEFINE i == Min(WithRoots)
<1>4. i \in DOMAIN rules /\ Unreached(i) # {} /\ Root = rules[i].heads[Min(Unreached(i))]
  BY <1>3 DEF WithRoots, Root
<1> HIDE DEF i
<1>5. DOMAIN rules[i].heads = 1 .. Len(rules[i].heads) /\ Len(rules[i].heads) \in Nat
      /\ HeadsOf(i) \subseteq Idb
  BY <1>4, GraphTypes
<1>6. Unreached(i) \in SUBSET Nat
  BY <1>5 DEF Unreached
<1>7. Min(Unreached(i)) \in Unreached(i)
  BY <1>4, <1>6, MinOfNaturals
<1>8. HeadsOf(i) = {rules[i].heads[k] : k \in DOMAIN rules[i].heads}
  BY DEF HeadsOf, ToSet
<1>9. Root \notin Reached /\ Root \in HeadsOf(i)
  BY <1>4, <1>7, <1>8 DEF Unreached
<1> QED
  BY <1>5, <1>9

(* When no head is left as a root, every head was reached.                 *)
LEMMA NoRoots ==
    ASSUME SearchTypes, WithRoots = {}
    PROVE  Reached = Idb
<1>1. ASSUME NEW i \in DOMAIN rules
      PROVE  HeadsOf(i) \subseteq Reached
  <2>1. HeadsOf(i) = {rules[i].heads[k] : k \in DOMAIN rules[i].heads}
    BY DEF HeadsOf, ToSet
  <2>2. Unreached(i) = {}
    BY <1>1 DEF WithRoots
  <2> QED
    BY <2>1, <2>2, Zenon DEF Unreached
<1> QED
  BY <1>1 DEF SearchTypes, Idb

(* A search from a new root.                                               *)
LEMMA StartSearchKeeps == SearchInv /\ StartSearch => SearchInv'
<1> SUFFICES ASSUME SearchInv, StartSearch
             PROVE  SearchInv'
  OBVIOUS
<1>1. SearchTypes /\ rules \in Programs
  BY DEF SearchInv, SearchTypes
<1>2. Root \in Idb \ Reached
  BY <1>1, RootUnreached DEF StartSearch
<1> DEFINE q == Root
<1> HIDE DEF q
<1>3. q \in Idb \ Reached /\ Enter(q) /\ frames' = <<Frame(q)>>
  BY <1>2 DEF StartSearch, q
<1>4. Len(frames) = 0 /\ Len(frames') = 1 /\ frames'[1] = Frame(q)
  BY <1>3 DEF StartSearch
<1>5. frames' \in Seq([rel : Reached \cup {q}, left : SUBSET Idb])
  BY <1>1, <1>3, GraphTypes DEF Frame
<1>6. UNCHANGED <<rules, phase, comps, next, strata>>
  BY DEF StartSearch
<1> QED
  BY <1>3, <1>4, <1>5, <1>6, EnterKeeps

(* A sequence without its last element.                                    *)
LEMMA FrontFacts ==
    ASSUME NEW S, NEW s \in Seq(S), s # <<>>
    PROVE  /\ Front(s) \in Seq(S) /\ Len(Front(s)) = Len(s) - 1
           /\ \A i \in 1 .. Len(s) - 1 : Front(s)[i] = s[i]
<1>1. Len(s) \in Nat \ {0}
  BY EmptySeq, LenProperties
<1>2. Front(s) = SubSeq(s, 1, Len(s) - 1)
  BY DEF Front
<1>3. \A i \in 1 .. Len(s) - 1 : s[i] \in S
  BY <1>1, ElementOfSeq
<1>4. /\ SubSeq(s, 1, Len(s) - 1) \in Seq(S) /\ Len(SubSeq(s, 1, Len(s) - 1)) = Len(s) - 1
      /\ \A i \in 1 .. Len(s) - 1 : SubSeq(s, 1, Len(s) - 1)[i] = s[i]
  <2> DEFINE m == Len(s) - 1
  <2>1. m \in Nat /\ m = Len(s) - 1
    BY <1>1
  <2> HIDE DEF m
  <2>2. /\ SubSeq(s, 1, m) \in Seq(S)
        /\ Len(SubSeq(s, 1, m)) = IF 1 <= m THEN m - 1 + 1 ELSE 0
        /\ \A i \in 1 .. m - 1 + 1 : SubSeq(s, 1, m)[i] = s[1 + i - 1]
    BY <1>3, <2>1, SubSeqProperties
  <2> QED
    BY <2>1, <2>2
<1> QED
  BY <1>2, <1>4

(* The call at work, and its next neighbour.                               *)
LEMMA CallAtWork ==
    ASSUME SearchInv, frames # <<>>
    PROVE  /\ Len(frames) \in Nat \ {0} /\ Len(frames) \in 1 .. Len(frames)
           /\ Last(frames) = frames[Len(frames)] /\ Caller = frames[Len(frames)].rel
           /\ Front(frames) \in Seq(Call) /\ Len(Front(frames)) = Len(frames) - 1
           /\ \A i \in 1 .. Len(frames) - 1 : Front(frames)[i] = frames[i]
           /\ Caller \in OnStack /\ Caller \in Reached
           /\ frames[Len(frames)].left \subseteq DependsOn(Caller)
           /\ frames[Len(frames)].left \subseteq Idb
           /\ frames[Len(frames)].left # {} => Neighbour \in frames[Len(frames)].left
<1>1. SearchTypes /\ Calls /\ rules \in Programs /\ frames \in Seq(Call)
  BY DEF SearchInv, SearchTypes
<1>2. Len(frames) \in Nat /\ Len(frames) # 0
  BY <1>1, SearchFacts, EmptySeq
<1>3. Last(frames) = frames[Len(frames)] /\ Caller = frames[Len(frames)].rel
  BY DEF Last, Caller
<1>4. Front(frames) \in Seq(Call) /\ Len(Front(frames)) = Len(frames) - 1
      /\ \A i \in 1 .. Len(frames) - 1 : Front(frames)[i] = frames[i]
  BY <1>1, FrontFacts
<1>5. Caller \in OnStack /\ Caller \in Reached /\ frames[Len(frames)].left \subseteq DependsOn(Caller)
      /\ frames[Len(frames)].left \subseteq Idb
  BY <1>1, <1>2, <1>3, SearchFacts DEF Calls
<1>6. frames[Len(frames)].left \in SUBSET Nat
  BY <1>1, <1>5, GraphTypes
<1>7. frames[Len(frames)].left # {} => Neighbour \in frames[Len(frames)].left
  BY <1>3, <1>6, MinOfNaturals DEF Neighbour
<1> QED
  BY <1>2, <1>3, <1>4, <1>5, <1>7

(* The call at work has one neighbour less to visit.                       *)
LEMMA ResumedCall ==
    ASSUME SearchInv, frames # <<>>, Last(frames).left # {}
    PROVE  /\ Resumed \in Seq(Call) /\ Len(Resumed) = Len(frames)
           /\ \A i \in 1 .. Len(frames) :
                 /\ Resumed[i].rel = frames[i].rel
                 /\ Resumed[i].left \subseteq frames[i].left
                 /\ frames[i].left \subseteq Resumed[i].left \cup {Neighbour}
           /\ \A i \in 1 .. Len(frames) - 1 : Resumed[i].left = frames[i].left
           /\ Resumed[Len(frames)].left = frames[Len(frames)].left \ {Neighbour}
<1>1. frames[Len(frames)] \in Call /\ Len(frames) \in 1 .. Len(frames) /\ Len(frames) \in Nat
  BY CallAtWork, SearchFacts DEF SearchInv
<1>2. PICK last \in Call : /\ last.rel = frames[Len(frames)].rel
                            /\ last.left = frames[Len(frames)].left \ {Neighbour}
                            /\ Resumed = Append(Front(frames), last)
  <2> DEFINE c == [frames[Len(frames)] EXCEPT !.left = @ \ {Neighbour}]
  <2>1. c \in Call /\ c.rel = frames[Len(frames)].rel
        /\ c.left = frames[Len(frames)].left \ {Neighbour}
    BY <1>1 DEF Call
  <2>2. Resumed = Append(Front(frames), c)
    BY CallAtWork DEF Resumed
  <2> QED
    BY <2>1, <2>2
<1>4. Resumed \in Seq(Call) /\ Len(Resumed) = Len(frames)
      /\ \A i \in 1 .. Len(frames) - 1 : Resumed[i] = frames[i]
      /\ Resumed[Len(frames)] = last
  <2> DEFINE front == Front(frames)
  <2>1. front \in Seq(Call) /\ Len(front) = Len(frames) - 1
        /\ \A i \in 1 .. Len(frames) - 1 : front[i] = frames[i]
    BY CallAtWork
  <2>2. Resumed = Append(front, last)
    BY <1>2
  <2> HIDE DEF front
  <2>3. /\ Resumed \in Seq(Call) /\ Len(Resumed) = Len(front) + 1
        /\ \A i \in 1 .. Len(front) : Resumed[i] = front[i]
        /\ Resumed[Len(front) + 1] = last
    BY <1>2, <2>1, <2>2, AppendProperties
  <2> QED
    BY <1>1, <2>1, <2>3
<1>5. \A i \in 1 .. Len(frames) : i \in 1 .. Len(frames) - 1 \/ i = Len(frames)
  BY <1>1
<1>6. ASSUME NEW i \in 1 .. Len(frames)
      PROVE  /\ Resumed[i].rel = frames[i].rel
             /\ Resumed[i].left \subseteq frames[i].left
             /\ frames[i].left \subseteq Resumed[i].left \cup {Neighbour}
  <2>1. CASE i \in 1 .. Len(frames) - 1
    BY <1>4, <2>1
  <2>2. CASE i = Len(frames)
    <3>1. Resumed[i] = last /\ last.rel = frames[i].rel /\ last.left = frames[i].left \ {Neighbour}
      BY <1>2, <1>4, <2>2
    <3>2. Resumed[i].rel = frames[i].rel /\ Resumed[i].left = frames[i].left \ {Neighbour}
      BY <3>1
    <3> QED
      BY <3>2
  <2> QED
    BY <1>5, <2>1, <2>2
<1>7. /\ \A i \in 1 .. Len(frames) - 1 : Resumed[i].left = frames[i].left
      /\ Resumed[Len(frames)].left = frames[Len(frames)].left \ {Neighbour}
  BY <1>2, <1>4
<1> QED
  BY <1>4, <1>6, <1>7

(* A nested call, for a neighbour not reached yet.                         *)
LEMMA DescendKeeps == SearchInv /\ Descend => SearchInv'
<1> SUFFICES ASSUME SearchInv, Descend
             PROVE  SearchInv'
  OBVIOUS
<1>1. frames # <<>> /\ Last(frames).left # {} /\ UNCHANGED <<rules, phase, comps, next, strata>>
  BY DEF Descend
<1> DEFINE q == Neighbour
           L == Len(frames)
<1>2. q \in frames[L].left /\ frames[L].left \subseteq DependsOn(frames[L].rel) /\ frames[L].left \subseteq Idb
      /\ L \in Nat \ {0} /\ L \in 1 .. L
  BY <1>1, CallAtWork
<1>3. q \in Idb \ Reached /\ Enter(q) /\ frames' = Append(Resumed, Frame(q))
  BY <1>2 DEF Descend
<1>4. /\ Resumed \in Seq(Call) /\ Len(Resumed) = L
      /\ \A i \in 1 .. L :
            /\ Resumed[i].rel = frames[i].rel
            /\ Resumed[i].left \subseteq frames[i].left
            /\ frames[i].left \subseteq Resumed[i].left \cup {q}
  BY <1>1, ResumedCall
<1> HIDE DEF q
<1> DEFINE Wider == [rel : Reached \cup {q}, left : SUBSET Idb]
<1>5. Resumed \in Seq(Wider)
  <2>1. Call \subseteq Wider
    BY DEF Call
  <2> HIDE DEF Wider
  <2> QED
    BY <1>4, <2>1, SeqMonotonic
<1>6. Frame(q) \in Wider
  BY GraphTypes DEF Frame, SearchInv, SearchTypes
<1>7. frames' \in Seq(Wider) /\ Len(frames') = L + 1
      /\ \A i \in 1 .. L : frames'[i] = Resumed[i]
      /\ frames'[L + 1] = Frame(q)
  <2> HIDE DEF Wider
  <2> QED
    BY <1>3, <1>4, <1>5, <1>6, AppendProperties
<1>8. \A i \in 1 .. L :
               /\ frames'[i].rel = frames[i].rel
               /\ frames'[i].left \subseteq frames[i].left
               /\ frames[i].left \subseteq frames'[i].left \cup {q}
  BY <1>4, <1>7
<1>9. q \in DependsOn(frames[L].rel)
  BY <1>2 DEF q
<1> QED
  BY <1>1, <1>3, <1>7, <1>8, <1>9, EnterKeeps

(* A neighbour that was reached before may lower the lowlink of the call.  *)
LEMMA MeetAgainKeeps == SearchInv /\ MeetAgain => SearchInv'
<1> SUFFICES ASSUME SearchInv, MeetAgain
             PROVE  SearchInv'
  OBVIOUS
<1> DEFINE L == Len(frames)
           c == Caller
           n == Neighbour
<1>a. /\ SearchTypes /\ Numbered /\ Partitioned /\ Calls /\ Explored
      /\ LowReached /\ Descends /\ Ascends /\ LowEnough /\ BottomUp
  BY DEF SearchInv
<1>b. /\ frames # <<>> /\ Last(frames).left # {} /\ n \in Reached /\ frames' = Resumed
      /\ UNCHANGED <<rules, phase, index, stack, comps, next, strata>>
      /\ lowlink' = IF n \in ToSet(stack)
                    THEN [lowlink EXCEPT ![c] = Least(@, index[n])] ELSE lowlink
  BY DEF MeetAgain
<1>c. /\ Idb' = Idb
      /\ \A r : DependsOn(r)' = DependsOn(r) /\ Component(r)' = Component(r)
      /\ \A r, s : ReachesOrIs(r, s)' = ReachesOrIs(r, s)
  BY <1>b, GraphUnmoved
<1>d. /\ OnStack' = OnStack /\ Done' = Done /\ \A k : Upto(k)' = Upto(k)
      /\ Reached' = Reached /\ index' = index
      /\ Numbered' = Numbered /\ Partitioned' = Partitioned
  BY <1>b DEF OnStack, Done, Upto, Reached, Numbered, Partitioned
<1>e. /\ L \in Nat \ {0} /\ L \in 1 .. L /\ frames[L].rel = c
      /\ c \in OnStack /\ c \in Reached /\ n \in frames[L].left
      /\ frames[L].left \subseteq DependsOn(c) /\ rules \in Programs
  BY <1>a, <1>b, CallAtWork DEF SearchTypes
<1>f. /\ OnStack \subseteq Reached
      /\ \A r \in Reached : index[r] \in Nat /\ lowlink[r] \in Nat
      /\ \A i \in 1 .. L : frames[i].rel \in Reached
  BY <1>a, SearchFacts
<1>g. /\ frames' \in Seq(Call) /\ Len(frames') = L
      /\ \A i \in 1 .. L : frames'[i].rel = frames[i].rel /\ frames'[i].left \subseteq frames[i].left
                           /\ frames[i].left \subseteq frames'[i].left \cup {n}
      /\ \A i \in 1 .. L - 1 : frames'[i].left = frames[i].left
  BY <1>b, ResumedCall
<1>h. ReachesOrIs(c, n)
  BY <1>e, ReachStep DEF ReachesOrIs
<1> HIDE DEF L, c, n
<1>i. /\ lowlink' \in [Reached -> Nat]
      /\ \A r \in Reached : lowlink'[r] <= lowlink[r] /\ (r # c => lowlink'[r] = lowlink[r])
      /\ lowlink'[c] = lowlink[c] \/ (n \in OnStack /\ lowlink'[c] = index[n])
      /\ n \in OnStack => lowlink'[c] <= index[n]
  <2>1. ToSet(stack) = OnStack
    BY <1>a, SearchFacts DEF ToSet, OnStack
  <2>2. lowlink \in [Reached -> Nat]
    BY <1>a DEF SearchTypes
  <2>3. CASE n \in OnStack
    <3>1. lowlink' = [lowlink EXCEPT ![c] = Least(@, index[n])]
      BY <1>b, <2>1, <2>3 DEF c, n
    <3>2. index[n] \in Nat /\ lowlink[c] \in Nat
      BY <1>e, <1>f, <2>3
    <3>3. /\ Least(lowlink[c], index[n]) \in Nat
          /\ Least(lowlink[c], index[n]) <= lowlink[c] /\ Least(lowlink[c], index[n]) <= index[n]
          /\ Least(lowlink[c], index[n]) \in {lowlink[c], index[n]}
      BY <3>2 DEF Least
    <3>4. lowlink' \in [Reached -> Nat] /\ lowlink'[c] = Least(lowlink[c], index[n])
          /\ \A r \in Reached : r # c => lowlink'[r] = lowlink[r]
      BY <1>e, <2>2, <3>1, <3>3
    <3>5. \A r \in Reached : lowlink'[r] <= lowlink[r]
      BY <1>f, <3>3, <3>4
    <3> QED
      BY <2>3, <3>3, <3>4, <3>5
  <2>4. CASE n \notin OnStack
    <3>1. lowlink' = lowlink
      BY <1>b, <2>1, <2>4
    <3>2. \A r \in Reached : lowlink[r] <= lowlink[r]
      BY <1>f
    <3> QED
      BY <2>2, <2>4, <3>1, <3>2
  <2> QED
    BY <2>3, <2>4
<1>1. SearchTypes'
  <2>1. Call' = Call
    BY <1>c, <1>d DEF Call
  <2> QED
    BY <1>a, <1>b, <1>c, <1>d, <1>g, <1>i, <2>1 DEF SearchTypes
<1>2. Calls'
  <2> SUFFICES ASSUME NEW i \in 1 .. L
               PROVE  /\ frames'[i].rel \in OnStack
                      /\ frames'[i].left \subseteq DependsOn(frames'[i].rel)
                      /\ \A j \in 1 .. i - 1 : index[frames'[j].rel] < index[frames'[i].rel]
    BY <1>c, <1>d, <1>g DEF Calls
  <2>1. /\ frames[i].rel \in OnStack
        /\ frames[i].left \subseteq DependsOn(frames[i].rel)
        /\ \A j \in 1 .. i - 1 : index[frames[j].rel] < index[frames[i].rel]
    BY <1>a DEF Calls, L
  <2>2. \A j \in 1 .. i - 1 : j \in 1 .. L
    BY <1>e
  <2> QED
    BY <1>g, <2>1, <2>2
<1>3. Explored'
  <2> SUFFICES ASSUME NEW r \in Reached, NEW m \in DependsOn(r), m \notin Reached
               PROVE  \E i \in 1 .. L : frames'[i].rel = r /\ m \in frames'[i].left
    BY <1>c, <1>d, <1>g DEF Explored
  <2>1. PICK i \in 1 .. L : frames[i].rel = r /\ m \in frames[i].left
    BY <1>a DEF Explored, L
  <2>2. frames'[i].rel = r /\ m \in frames'[i].left
    BY <1>b, <1>g, <2>1 DEF n
  <2> QED
    BY <2>2
<1>4. LowReached'
  <2> SUFFICES ASSUME NEW r \in OnStack
               PROVE  /\ lowlink'[r] <= index[r]
                      /\ \E s \in OnStack : index[s] = lowlink'[r] /\ ReachesOrIs(r, s)
    BY <1>c, <1>d DEF LowReached
  <2>1. lowlink[r] <= index[r] /\ \E s \in OnStack : index[s] = lowlink[r] /\ ReachesOrIs(r, s)
    BY <1>a DEF LowReached
  <2>2. lowlink'[r] <= index[r]
    BY <1>f, <1>i, <2>1
  <2>3. lowlink'[r] = lowlink[r] \/ (r = c /\ n \in OnStack /\ lowlink'[r] = index[n])
    BY <1>f, <1>i
  <2> QED
    BY <1>h, <2>1, <2>2, <2>3
<1>5. Descends'
  <2> SUFFICES ASSUME NEW i \in 1 .. L, NEW r \in OnStack, index[frames'[i].rel] <= index[r]
               PROVE  ReachesOrIs(frames'[i].rel, r)
    BY <1>c, <1>d, <1>g DEF Descends
  <2> QED
    BY <1>a, <1>g DEF Descends, L
<1>6. Ascends'
  <2> SUFFICES ASSUME NEW r \in OnStack
               PROVE  \E i \in 1 .. L : index[frames'[i].rel] <= index[r] /\ ReachesOrIs(r, frames'[i].rel)
    BY <1>c, <1>d, <1>g DEF Ascends
  <2> QED
    BY <1>a, <1>g DEF Ascends, L
<1>7. LowEnough'
  <2> SUFFICES ASSUME NEW i \in 1 .. L, NEW r \in OnStack,
                      index[frames'[i].rel] <= index[r],
                      i < L => index[r] < index[frames'[i + 1].rel],
                      NEW m \in DependsOn(r), m \in OnStack
               PROVE  \/ r = frames'[i].rel /\ m \in frames'[i].left
                      \/ lowlink'[frames'[i].rel] <= index[m]
    BY <1>c, <1>d, <1>g DEF LowEnough, Segment
  <2>1. Segment(i, r)
    <3>1. i < L => i + 1 \in 1 .. L
      BY <1>e
    <3> QED
      BY <1>g, <3>1 DEF Segment, L
  <2>2. (r = frames[i].rel /\ m \in frames[i].left) \/ lowlink[frames[i].rel] <= index[m]
    BY <1>a, <2>1 DEF LowEnough, L
  <2>3. index[m] \in Nat /\ frames'[i].rel = frames[i].rel /\ frames[i].rel \in Reached
    BY <1>f, <1>g
  <2>4. CASE lowlink[frames[i].rel] <= index[m]
    BY <1>f, <1>i, <2>3, <2>4
  <2>5. CASE r = frames[i].rel /\ m \in frames[i].left
    <3>1. CASE m \in frames'[i].left
      BY <2>3, <2>5, <3>1
    <3>2. CASE m \notin frames'[i].left
      <4>1. m = n
        BY <1>g, <2>5, <3>2
      <4>2. i = L
        BY <1>e, <1>g, <2>5, <3>2
      <4> QED
        BY <1>e, <1>i, <2>3, <4>1, <4>2
    <3> QED
      BY <3>1, <3>2
  <2> QED
    BY <2>2, <2>4, <2>5
<1>8. BottomUp'
  BY <1>a, <1>b, <1>c, <1>d DEF BottomUp
<1> QED
  BY <1>a, <1>d, <1>1, <1>2, <1>3, <1>4, <1>5, <1>6, <1>7, <1>8 DEF SearchInv

(* No two relations on the stack have one index.                           *)
LEMMA SameIndex ==
    ASSUME SearchInv, NEW q \in OnStack, NEW r \in OnStack, index[q] = index[r]
    PROVE  q = r
<1>1. PICK i \in 1 .. Len(stack), j \in 1 .. Len(stack) : q = stack[i] /\ r = stack[j]
  BY DEF OnStack
<1>2. Len(stack) \in Nat /\ index[q] \in Nat /\ index[r] \in Nat
  BY SearchFacts DEF SearchInv
<1>3. i < j => index[stack[i]] < index[stack[j]]
  BY DEF SearchInv, Numbered
<1>4. j < i => index[stack[j]] < index[stack[i]]
  BY DEF SearchInv, Numbered
<1> QED
  BY <1>1, <1>2, <1>3, <1>4

(* What the end of any call does: the call is gone, it left nothing        *)
(* unvisited, and its lowlink counts for the call below it.                *)
LEMMA ReturnShape ==
    ASSUME SearchInv, Return
    PROVE  /\ Len(frames) \in Nat \ {0} /\ Len(frames) \in 1 .. Len(frames)
           /\ frames' \in Seq(Call) /\ Len(frames') = Len(frames) - 1
           /\ \A i \in 1 .. Len(frames) - 1 : frames'[i] = frames[i]
           /\ frames[Len(frames)].rel = Caller /\ frames[Len(frames)].left = {}
           /\ Caller \in OnStack /\ Caller \in Reached
           /\ \A i \in 1 .. Len(frames) :
                 /\ frames[i].rel \in OnStack
                 /\ i # Len(frames) => index[frames[i].rel] < index[Caller]
           /\ UNCHANGED <<rules, phase, index, next, strata>>
           /\ Reached' = Reached /\ Idb' = Idb /\ Call' = Call
           /\ \A r : DependsOn(r)' = DependsOn(r) /\ Component(r)' = Component(r)
           /\ \A r, s : ReachesOrIs(r, s)' = ReachesOrIs(r, s)
           /\ OnStack \subseteq Reached
           /\ \A r \in Reached : index[r] \in Nat /\ lowlink[r] \in Nat
<1>1. frames # <<>> /\ Last(frames).left = {} /\ frames' = Front(frames)
      /\ UNCHANGED <<rules, phase, index, next, strata>>
  BY DEF Return
<1>2. /\ Len(frames) \in Nat \ {0} /\ Len(frames) \in 1 .. Len(frames)
      /\ frames' \in Seq(Call) /\ Len(frames') = Len(frames) - 1
      /\ \A i \in 1 .. Len(frames) - 1 : frames'[i] = frames[i]
      /\ frames[Len(frames)].rel = Caller /\ frames[Len(frames)].left = {}
      /\ Caller \in OnStack /\ Caller \in Reached
  BY <1>1, CallAtWork
<1>3. ASSUME NEW i \in 1 .. Len(frames)
      PROVE  /\ frames[i].rel \in OnStack
             /\ i # Len(frames) => index[frames[i].rel] < index[Caller]
  <2>1. Calls
    BY DEF SearchInv
  <2>2. i # Len(frames) => i \in 1 .. Len(frames) - 1
    BY <1>2
  <2> QED
    BY <1>2, <2>1, <2>2 DEF Calls
<1>4. /\ Idb' = Idb
      /\ \A r : DependsOn(r)' = DependsOn(r) /\ Component(r)' = Component(r)
      /\ \A r, s : ReachesOrIs(r, s)' = ReachesOrIs(r, s)
  BY <1>1, GraphUnmoved
<1>5. Reached' = Reached /\ Call' = Call
  BY <1>1, <1>4 DEF Reached, Call
<1>6. OnStack \subseteq Reached /\ \A r \in Reached : index[r] \in Nat /\ lowlink[r] \in Nat
  BY SearchFacts DEF SearchInv
<1> QED
  BY <1>1, <1>2, <1>3, <1>4, <1>5, <1>6

(* A call that is no root: the lowlink of the call below it takes over.    *)
LEMMA InnerReturnKeeps ==
    ASSUME SearchInv, Return, lowlink[Caller] # index[Caller]
    PROVE  SearchInv'
<1> DEFINE L == Len(frames)
           c == Caller
           p == frames[L - 1].rel
<1>a. /\ SearchTypes /\ Numbered /\ Partitioned /\ Calls /\ Explored
      /\ LowReached /\ Descends /\ Ascends /\ LowEnough /\ BottomUp
  BY DEF SearchInv
<1>b. /\ L \in Nat \ {0} /\ L \in 1 .. L
      /\ frames' \in Seq(Call) /\ Len(frames') = L - 1
      /\ \A i \in 1 .. L - 1 : frames'[i] = frames[i]
      /\ frames[L].rel = c /\ frames[L].left = {} /\ c \in OnStack /\ c \in Reached
      /\ \A i \in 1 .. L : frames[i].rel \in OnStack
      /\ \A i \in 1 .. L - 1 : index[frames[i].rel] < index[c]
  BY ReturnShape
<1>c. /\ UNCHANGED <<rules, phase, index, next, strata>>
      /\ Reached' = Reached /\ Idb' = Idb /\ Call' = Call
      /\ \A r : DependsOn(r)' = DependsOn(r) /\ Component(r)' = Component(r)
      /\ \A r, s : ReachesOrIs(r, s)' = ReachesOrIs(r, s)
  BY ReturnShape
<1>d. OnStack \subseteq Reached /\ \A r \in Reached : index[r] \in Nat /\ lowlink[r] \in Nat
  BY ReturnShape
<1>e. UNCHANGED <<comps, stack>>
  BY DEF Return
<1>f. lowlink' = IF L = 1 THEN lowlink ELSE [lowlink EXCEPT ![p] = Least(@, lowlink[c])]
  BY DEF Return
<1>g. /\ OnStack' = OnStack /\ Done' = Done /\ \A k : Upto(k)' = Upto(k)
      /\ Numbered' /\ Partitioned'
  BY <1>a, <1>c, <1>e DEF OnStack, Done, Upto, Numbered, Partitioned
<1> HIDE DEF L, c
<1>1. PICK r \in OnStack : index[r] = lowlink[c] /\ ReachesOrIs(c, r) /\ index[r] < index[c]
  BY <1>a, <1>b, <1>d DEF LowReached, c
<1>2. PICK below \in 1 .. L - 1 : index[frames[below].rel] <= index[r] /\ ReachesOrIs(r, frames[below].rel)
  <2>1. PICK i \in 1 .. L : index[frames[i].rel] <= index[r] /\ ReachesOrIs(r, frames[i].rel)
    BY <1>a DEF Ascends, L
  <2>2. i # L
    BY <1>1, <1>b, <1>d, <2>1
  <2>3. i \in 1 .. L - 1
    BY <1>b, <2>2
  <2> QED
    BY <2>1, <2>3
<1>3. L - 1 \in 1 .. L - 1 /\ L - 1 \in 1 .. L /\ L # 1
  BY <1>b, <1>2
<1>4. p \in OnStack /\ p \in Reached /\ index[p] < index[c]
  BY <1>b, <1>d, <1>3
<1> HIDE DEF p
<1>5. /\ lowlink' \in [Reached -> Nat]
      /\ \A q \in Reached : q # p => lowlink'[q] = lowlink[q]
      /\ lowlink'[p] = Least(lowlink[p], lowlink[c])
  <2>1. lowlink \in [Reached -> Nat] /\ lowlink[p] \in Nat /\ lowlink[c] \in Nat
    BY <1>a, <1>b, <1>d, <1>4 DEF SearchTypes
  <2>2. Least(lowlink[p], lowlink[c]) \in Nat
    BY <2>1 DEF Least
  <2>3. lowlink' = [lowlink EXCEPT ![p] = Least(@, lowlink[c])]
    BY <1>f, <1>3
  <2> QED
    BY <1>4, <2>1, <2>2, <2>3
<1>6. /\ lowlink'[p] \in {lowlink[p], lowlink[c]}
      /\ lowlink'[p] <= lowlink[p] /\ lowlink'[p] <= lowlink[c]
      /\ \A q \in Reached : lowlink'[q] <= lowlink[q]
  <2>1. lowlink[p] \in Nat /\ lowlink[c] \in Nat
    BY <1>b, <1>d, <1>4
  <2>2. lowlink'[p] \in {lowlink[p], lowlink[c]}
        /\ lowlink'[p] <= lowlink[p] /\ lowlink'[p] <= lowlink[c]
    BY <1>5, <2>1 DEF Least
  <2> QED
    BY <1>5, <1>d, <2>2
<1>7. SearchTypes'
  BY <1>a, <1>b, <1>c, <1>e, <1>5 DEF SearchTypes
<1>8. Calls'
  <2> SUFFICES ASSUME NEW i \in 1 .. L - 1
               PROVE  /\ frames'[i].rel \in OnStack
                      /\ frames'[i].left \subseteq DependsOn(frames'[i].rel)
                      /\ \A j \in 1 .. i - 1 : index[frames'[j].rel] < index[frames'[i].rel]
    BY <1>b, <1>c, <1>g DEF Calls
  <2>1. i \in 1 .. L /\ \A j \in 1 .. i - 1 : j \in 1 .. L - 1
    BY <1>b
  <2> QED
    BY <1>a, <1>b, <2>1 DEF Calls, L
<1>9. Explored'
  <2> SUFFICES ASSUME NEW q \in Reached, NEW m \in DependsOn(q), m \notin Reached
               PROVE  \E i \in 1 .. L - 1 : frames'[i].rel = q /\ m \in frames'[i].left
    BY <1>b, <1>c DEF Explored
  <2>1. PICK i \in 1 .. L : frames[i].rel = q /\ m \in frames[i].left
    BY <1>a DEF Explored, L
  <2>2. i \in 1 .. L - 1
    BY <1>b, <2>1
  <2> QED
    BY <1>b, <2>1, <2>2
<1>10. LowReached'
  <2> SUFFICES ASSUME NEW q \in OnStack
               PROVE  /\ lowlink'[q] <= index[q]
                      /\ \E s \in OnStack : index[s] = lowlink'[q] /\ ReachesOrIs(q, s)
    BY <1>c, <1>g DEF LowReached
  <2>1. lowlink[q] <= index[q] /\ \E s \in OnStack : index[s] = lowlink[q] /\ ReachesOrIs(q, s)
    BY <1>a DEF LowReached
  <2>2. lowlink[q] \in Nat /\ index[q] \in Nat /\ lowlink'[q] \in Nat /\ lowlink'[q] <= lowlink[q]
    BY <1>d, <1>5, <1>6
  <2>3. CASE lowlink'[q] = lowlink[q]
    BY <2>1, <2>3
  <2>4. CASE q = p /\ lowlink'[p] = lowlink[c]
    <3>1. ReachesOrIs(frames[L - 1].rel, c)
      BY <1>a, <1>3, <1>4, <1>b, <1>d DEF Descends, L, p
    <3>2. ReachesOrIs(q, r)
      BY <1>1, <2>4, <3>1, ReachesComposed DEF p
    <3> QED
      BY <1>1, <2>1, <2>2, <2>4, <3>2
  <2> QED
    BY <1>5, <1>6, <1>d, <2>3, <2>4
<1>11. Descends'
  <2> SUFFICES ASSUME NEW i \in 1 .. L - 1, NEW q \in OnStack, index[frames'[i].rel] <= index[q]
               PROVE  ReachesOrIs(frames'[i].rel, q)
    BY <1>b, <1>c, <1>g DEF Descends
  <2>1. i \in 1 .. L
    BY <1>b
  <2> QED
    BY <1>a, <1>b, <2>1 DEF Descends, L
<1>12. Ascends'
  <2> SUFFICES ASSUME NEW q \in OnStack
               PROVE  \E i \in 1 .. L - 1 : index[frames'[i].rel] <= index[q] /\ ReachesOrIs(q, frames'[i].rel)
    BY <1>b, <1>c, <1>g DEF Ascends
  <2>1. PICK i \in 1 .. L : index[frames[i].rel] <= index[q] /\ ReachesOrIs(q, frames[i].rel)
    BY <1>a DEF Ascends, L
  <2>2. CASE i \in 1 .. L - 1
    BY <1>b, <2>1, <2>2
  <2>3. CASE i = L
    <3>1. ReachesOrIs(q, c) /\ index[c] <= index[q]
      BY <1>b, <2>1, <2>3
    <3>2. ReachesOrIs(q, frames[below].rel)
      BY <1>1, <1>2, <3>1, ReachesComposed
    <3>3. frames[below].rel \in OnStack
      BY <1>b
    <3>4. index[frames[below].rel] <= index[q]
      BY <1>1, <1>2, <1>b, <1>d, <3>1, <3>3
    <3> QED
      BY <1>b, <3>2, <3>4
  <2> QED
    BY <1>b, <2>2, <2>3
<1>13. LowEnough'
  <2> SUFFICES ASSUME NEW i \in 1 .. L - 1, NEW q \in OnStack,
                      index[frames'[i].rel] <= index[q],
                      i < L - 1 => index[q] < index[frames'[i + 1].rel],
                      NEW m \in DependsOn(q), m \in OnStack
               PROVE  \/ q = frames'[i].rel /\ m \in frames'[i].left
                      \/ lowlink'[frames'[i].rel] <= index[m]
    BY <1>b, <1>c, <1>g DEF LowEnough, Segment
  <2>1. frames'[i] = frames[i] /\ frames[i].rel \in OnStack /\ i \in 1 .. L
        /\ index[q] \in Nat /\ index[m] \in Nat /\ lowlink[frames[i].rel] \in Nat
        /\ lowlink'[frames[i].rel] \in Nat
        /\ lowlink'[frames[i].rel] <= lowlink[frames[i].rel]
    BY <1>b, <1>d, <1>5, <1>6
  <2>2. CASE Segment(i, q)
    <3>1. (q = frames[i].rel /\ m \in frames[i].left) \/ lowlink[frames[i].rel] <= index[m]
      BY <1>a, <2>1, <2>2 DEF LowEnough, L
    <3> QED
      BY <2>1, <3>1
  <2>3. CASE ~Segment(i, q)
    <3>1. i = L - 1
      <4> SUFFICES ASSUME i < L - 1
                   PROVE  FALSE
        BY <1>b
      <4>1. i + 1 \in 1 .. L - 1
        BY <1>b
      <4> QED
        BY <1>b, <2>1, <2>3, <4>1 DEF Segment, L
    <3>2. index[c] <= index[q]
      BY <1>b, <1>d, <2>1, <2>3, <3>1 DEF Segment, L
    <3>3. Segment(L, q)
      BY <1>b, <3>2 DEF Segment, L
    <3>4. lowlink[c] <= index[m]
      BY <1>a, <1>b, <3>3 DEF LowEnough, L
    <3> QED
      BY <1>6, <1>b, <1>d, <2>1, <3>1, <3>4 DEF p
  <2> QED
    BY <2>2, <2>3
<1>14. BottomUp'
  BY <1>a, <1>c, <1>e, <1>g DEF BottomUp
<1> QED
  BY <1>g, <1>7, <1>8, <1>9, <1>10, <1>11, <1>12, <1>13, <1>14 DEF SearchInv

(* A call that is the root of a component: the stack from the root on is   *)
(* what was reached since.                                                 *)
LEMMA RootPopped ==
    ASSUME SearchInv, Return, lowlink[Caller] = index[Caller]
    PROVE  \E C \in SUBSET OnStack :
              /\ C = {x \in OnStack : index[Caller] <= index[x]}
              /\ comps' = Append(comps, C)
              /\ stack' \in Seq(Reached) /\ Len(stack') \in 0 .. Len(stack)
              /\ \A i \in 1 .. Len(stack') : stack'[i] = stack[i]
              /\ OnStack' = OnStack \ C
<1> DEFINE c == Caller
           root == CHOOSE k \in DOMAIN stack : stack[k] = c
           C == {stack[k] : k \in root .. Len(stack)}
<1>1. /\ SearchTypes /\ Numbered /\ c \in OnStack
      /\ \A x \in OnStack : index[x] \in Nat
  BY ReturnShape DEF SearchInv
<1>2. Len(stack) \in Nat /\ DOMAIN stack = 1 .. Len(stack) /\ stack \in Seq(Reached)
      /\ \A i \in 1 .. Len(stack) : stack[i] \in Reached /\ stack[i] \in OnStack
  BY <1>1, SearchFacts DEF SearchTypes
<1>3. root \in 1 .. Len(stack) /\ stack[root] = c
  <2>1. \E k \in DOMAIN stack : stack[k] = c
    BY <1>1, <1>2 DEF OnStack
  <2> QED
    BY <1>2, <2>1
<1>4. comps' = Append(comps, C) /\ stack' = SubSeq(stack, 1, root - 1)
  BY DEF Return
<1>5. \A i \in 1 .. Len(stack) : index[c] <= index[stack[i]] <=> i \in root .. Len(stack)
  <2> SUFFICES ASSUME NEW i \in 1 .. Len(stack)
               PROVE  index[c] <= index[stack[i]] <=> i \in root .. Len(stack)
    OBVIOUS
  <2> HIDE DEF root, c
  <2>1. i < root => index[stack[i]] < index[c]
    BY <1>1, <1>3 DEF Numbered
  <2>2. root < i => index[c] < index[stack[i]]
    BY <1>1, <1>3 DEF Numbered
  <2>3. index[c] \in Nat /\ index[stack[i]] \in Nat /\ root \in Nat /\ i \in Nat
    BY <1>1, <1>2, <1>3
  <2> QED
    BY <1>2, <1>3, <2>1, <2>2, <2>3
<1> HIDE DEF root, c
<1>6. C = {x \in OnStack : index[c] <= index[x]} /\ C \in SUBSET OnStack
  <2>1. \A k \in root .. Len(stack) : k \in 1 .. Len(stack)
    BY <1>2, <1>3
  <2> QED
    BY <1>2, <1>5, <2>1, Zenon DEF OnStack
<1>7. /\ stack' \in Seq(Reached) /\ Len(stack') = root - 1
      /\ \A i \in 1 .. Len(stack') : stack'[i] = stack[i]
  <2> DEFINE m == root - 1
  <2>1. m \in Nat /\ m = root - 1 /\ m <= Len(stack)
    BY <1>2, <1>3
  <2>2. stack' = SubSeq(stack, 1, m)
    BY <1>4
  <2> HIDE DEF m
  <2>3. \A i \in 1 .. m : stack[i] \in Reached
    BY <1>2, <2>1
  <2>4. /\ SubSeq(stack, 1, m) \in Seq(Reached)
        /\ Len(SubSeq(stack, 1, m)) = IF 1 <= m THEN m - 1 + 1 ELSE 0
        /\ \A i \in 1 .. m - 1 + 1 : SubSeq(stack, 1, m)[i] = stack[1 + i - 1]
    BY <2>1, <2>3, SubSeqProperties
  <2> QED
    BY <2>1, <2>2, <2>4
<1>8. OnStack' = OnStack \ C
  <2>1. OnStack' = {stack'[i] : i \in 1 .. Len(stack')}
    BY DEF OnStack
  <2>2. \A i : i \in 1 .. Len(stack') <=> i \in 1 .. Len(stack) /\ i \notin root .. Len(stack)
    BY <1>2, <1>3, <1>7
  <2>3. \A i \in 1 .. Len(stack') : stack'[i] = stack[i]
    BY <1>7
  <2>4. \A i \in 1 .. Len(stack) : stack[i] \in C <=> i \in root .. Len(stack)
    <3> HIDE DEF C
    <3> QED
      BY <1>2, <1>5, <1>6
  <2> HIDE DEF C
  <2> QED
    BY <2>1, <2>2, <2>3, <2>4, Zenon DEF OnStack
<1> HIDE DEF C
<1>9. Len(stack') \in 0 .. Len(stack)
  BY <1>2, <1>3, <1>7
<1> QED
  BY <1>4, <1>6, <1>7, <1>8, <1>9 DEF c

(* What was reached since the call is a component, and depends on nothing  *)
(* but itself and the components before it.                                *)
LEMMA RootComponent ==
    ASSUME SearchInv, Return, lowlink[Caller] = index[Caller],
           NEW C, C = {x \in OnStack : index[Caller] <= index[x]}
    PROVE  /\ C # {}
           /\ \A q \in C : C = Component(q) /\ DependsOn(q) \subseteq Done \cup C
<1> DEFINE L == Len(frames)
           c == Caller
<1>a. /\ SearchTypes /\ Partitioned /\ Calls /\ Explored
      /\ Descends /\ Ascends /\ LowEnough /\ BottomUp
  BY DEF SearchInv
<1>b. /\ L \in Nat \ {0} /\ L \in 1 .. L
      /\ frames[L].rel = c /\ frames[L].left = {} /\ c \in OnStack
      /\ \A i \in 1 .. L : frames[i].rel \in OnStack
      /\ \A i \in 1 .. L : i # L => index[frames[i].rel] < index[c]
      /\ OnStack \subseteq Reached
      /\ \A r \in Reached : index[r] \in Nat /\ lowlink[r] \in Nat
  BY ReturnShape
<1>c. C = {x \in OnStack : index[c] <= index[x]} /\ lowlink[c] = index[c]
  OBVIOUS
<1> HIDE DEF c, L
<1>1. c \in C
  BY <1>b, <1>c
<1>2. ASSUME NEW q \in C
      PROVE  DependsOn(q) \subseteq Done \cup C
  <2> SUFFICES ASSUME NEW m \in DependsOn(q), m \notin Done
               PROVE  m \in C
    OBVIOUS
  <2>1. q \in OnStack /\ q \in Reached /\ index[c] <= index[q]
    BY <1>b, <1>c
  <2>2. m \in Reached
    <3> SUFFICES ASSUME m \notin Reached
                 PROVE  FALSE
      OBVIOUS
    <3>1. PICK i \in 1 .. L : frames[i].rel = q /\ m \in frames[i].left
      BY <1>a, <2>1 DEF Explored, L
    <3>2. i # L
      BY <1>b, <3>1
    <3> QED
      BY <1>b, <2>1, <3>1, <3>2
  <2>3. m \in OnStack
    BY <1>a, <2>2 DEF Partitioned
  <2>4. Segment(L, q)
    BY <1>b, <2>1 DEF Segment, L
  <2>5. lowlink[c] <= index[m]
    BY <1>a, <1>b, <2>1, <2>3, <2>4 DEF LowEnough, L
  <2> QED
    BY <1>c, <2>3, <2>5
<1>3. ASSUME NEW q \in C, NEW r \in C
      PROVE  ReachesOrIs(q, r)
  <2>1. ReachesOrIs(c, r)
    BY <1>a, <1>b, <1>c DEF Descends, L
  <2>2. PICK i \in 1 .. L : index[frames[i].rel] <= index[q] /\ ReachesOrIs(q, frames[i].rel)
    BY <1>a, <1>c DEF Ascends, L
  <2>3. index[frames[i].rel] <= index[c]
    BY <1>b
  <2>4. ReachesOrIs(frames[i].rel, c)
    BY <1>a, <1>b, <2>3 DEF Descends, L
  <2> QED
    BY <2>1, <2>2, <2>4, ReachesComposed
<1>4. \A r \in Done : DependsOn(r) \subseteq Done
  <2> SUFFICES ASSUME NEW r \in Done
               PROVE  DependsOn(r) \subseteq Done
    OBVIOUS
  <2>1. PICK k \in 1 .. Len(comps) : r \in comps[k]
    BY DEF Done, Upto
  <2>2. DependsOn(r) \subseteq Upto(k)
    BY <1>a, <2>1 DEF BottomUp
  <2>3. Upto(k) \subseteq Done
    BY <1>a, <2>1, SearchFacts DEF Done, Upto
  <2> QED
    BY <2>2, <2>3
<1>5. Done \subseteq Idb /\ C \subseteq Idb /\ Done \cap C = {}
  BY <1>a, <1>b, <1>c, SearchFacts DEF SearchTypes, Partitioned
<1>6. ASSUME NEW q \in C
      PROVE  C = Component(q)
  <2>1. Reach(q) \subseteq Done \cup C
    <3>1. (Done \cup C) \in SUBSET Idb /\ DependsOn(q) \subseteq Done \cup C
          /\ \A r \in Done \cup C : DependsOn(r) \subseteq Done \cup C
      BY <1>2, <1>4, <1>5
    <3> QED
      BY <3>1, ReachWithin
  <2>2. \A r \in Done : Reach(r) \subseteq Done
    <3> SUFFICES ASSUME NEW r \in Done
                 PROVE  Reach(r) \subseteq Done
      OBVIOUS
    <3>1. Done \in SUBSET Idb /\ DependsOn(r) \subseteq Done
      BY <1>4, <1>5
    <3> QED
      BY <1>4, <3>1, ReachWithin
  <2>3. ASSUME NEW r \in Reach(q), q \in Reach(r)
        PROVE  r \in C
    BY <1>5, <2>1, <2>2, <2>3
  <2>4. ASSUME NEW r \in C
        PROVE  r \in Component(q)
    BY <1>3 DEF ReachesOrIs, Component
  <2> QED
    BY <2>3, <2>4 DEF Component
<1> QED
  BY <1>1, <1>2, <1>6

(* The return of a root: its component is complete, and above all it       *)
(* depends on.                                                             *)
LEMMA RootReturnKeeps ==
    ASSUME SearchInv, Return, lowlink[Caller] = index[Caller]
    PROVE  SearchInv'
<1> DEFINE L == Len(frames)
           c == Caller
<1>a. /\ SearchTypes /\ Numbered /\ Partitioned /\ Calls /\ Explored
      /\ LowReached /\ Descends /\ Ascends /\ LowEnough /\ BottomUp
  BY DEF SearchInv
<1>b. /\ L \in Nat \ {0} /\ L \in 1 .. L
      /\ frames' \in Seq(Call) /\ Len(frames') = L - 1
      /\ \A i \in 1 .. L - 1 : frames'[i] = frames[i]
      /\ frames[L].rel = c /\ frames[L].left = {} /\ c \in OnStack /\ c \in Reached
      /\ \A i \in 1 .. L : frames[i].rel \in OnStack
      /\ \A i \in 1 .. L - 1 : index[frames[i].rel] < index[c]
  BY ReturnShape
<1>c. /\ UNCHANGED <<rules, phase, index, next, strata>>
      /\ Reached' = Reached /\ Idb' = Idb /\ Call' = Call
      /\ \A r : DependsOn(r)' = DependsOn(r) /\ Component(r)' = Component(r)
      /\ \A r, s : ReachesOrIs(r, s)' = ReachesOrIs(r, s)
  BY ReturnShape
<1>d. OnStack \subseteq Reached /\ \A r \in Reached : index[r] \in Nat /\ lowlink[r] \in Nat
  BY ReturnShape
<1>e. PICK C \in SUBSET OnStack :
          /\ C = {x \in OnStack : index[c] <= index[x]}
          /\ comps' = Append(comps, C)
          /\ stack' \in Seq(Reached) /\ Len(stack') \in 0 .. Len(stack)
          /\ \A i \in 1 .. Len(stack') : stack'[i] = stack[i]
          /\ OnStack' = OnStack \ C
  BY RootPopped
<1>n. PICK N \in Nat : N = Len(comps)
  BY <1>a, SearchFacts
<1>f. C # {} /\ \A q \in C : C = Component(q) /\ DependsOn(q) \subseteq Done \cup C
  BY <1>e, RootComponent
<1>g. \A q \in OnStack' : q \in OnStack /\ q \in Reached /\ index[q] < index[c] /\ index[q] \in Nat
  BY <1>b, <1>d, <1>e
<1>h. \A q \in OnStack : index[q] < index[c] => q \in OnStack'
  BY <1>b, <1>d, <1>e
<1>1. lowlink' = lowlink
  <2>1. CASE L = 1
    BY <2>1 DEF Return
  <2>2. CASE L # 1
    <3> DEFINE p == frames[L - 1].rel
    <3>1. lowlink' = [lowlink EXCEPT ![p] = Least(@, lowlink[c])]
      BY <2>2 DEF Return
    <3>2. p \in OnStack /\ index[p] < index[c]
      BY <1>b, <2>2
    <3> HIDE DEF p
    <3>3. lowlink[p] <= index[p]
      BY <1>a, <3>2 DEF LowReached
    <3>4. Least(lowlink[p], lowlink[c]) = lowlink[p]
      BY <1>b, <1>d, <3>2, <3>3 DEF Least
    <3>5. lowlink \in [Reached -> Nat]
      BY <1>a DEF SearchTypes
    <3> QED
      BY <3>1, <3>4, <3>5
  <2> QED
    BY <2>1, <2>2
<1> HIDE DEF L, c
<1>2. /\ Len(comps') = N + 1 /\ comps' \in Seq(SUBSET Reached)
      /\ \A k \in 1 .. N : comps'[k] = comps[k]
      /\ comps'[N + 1] = C
  <2>1. comps \in Seq(SUBSET Reached) /\ C \in SUBSET Reached
    BY <1>a, <1>d DEF SearchTypes
  <2> DEFINE S == SUBSET Reached
  <2>2. comps \in Seq(S) /\ C \in S /\ comps' = Append(comps, C)
    BY <1>e, <2>1
  <2> HIDE DEF S
  <2>3. /\ Len(comps') = Len(comps) + 1 /\ comps' \in Seq(S)
        /\ \A k \in 1 .. Len(comps) : comps'[k] = comps[k]
        /\ comps'[Len(comps) + 1] = C
    BY <2>2, AppendProperties
  <2> QED
    BY <1>n, <2>3 DEF S
<1>3. \A k \in 1 .. N : Upto(k)' = Upto(k)
  <2> SUFFICES ASSUME NEW k \in 1 .. N
               PROVE  Upto(k)' = Upto(k)
    OBVIOUS
  <2>1. \A j \in 1 .. k : comps'[j] = comps[j]
    BY <1>2
  <2> QED
    BY <2>1, Zenon DEF Upto
<1>4. Upto(N + 1)' = Done \cup C
  <2>1. \A j : j \in 1 .. N + 1 <=> j \in 1 .. N \/ j = N + 1
    BY <1>2
  <2>2. Upto(N + 1)' = UNION {comps'[j] : j \in 1 .. N + 1}
    BY DEF Upto
  <2>3. Done = UNION {comps[j] : j \in 1 .. N}
    BY <1>n DEF Done, Upto
  <2>4. \A x : x \in Upto(N + 1)' <=> \E j \in 1 .. N + 1 : x \in comps'[j]
    BY <2>2
  <2>5. \A x : x \in Done <=> \E j \in 1 .. N : x \in comps[j]
    BY <2>3
  <2> QED
    BY <1>2, <2>1, <2>4, <2>5
<1>5. Done' = Done \cup C
  BY <1>2, <1>4 DEF Done, Upto
<1>6. SearchTypes'
  BY <1>a, <1>b, <1>c, <1>e, <1>1, <1>2 DEF SearchTypes
<1>7. Numbered'
  <2>1. \A q \in Reached : index[q] < Cardinality(Reached)
    BY <1>a DEF Numbered
  <2>2. ASSUME NEW i \in 1 .. Len(stack'), NEW j \in 1 .. Len(stack'), i < j
        PROVE  index[stack'[i]] < index[stack'[j]]
    <3>1. i \in 1 .. Len(stack) /\ j \in 1 .. Len(stack)
      BY <1>a, <1>e, SearchFacts
    <3> QED
      BY <1>a, <1>e, <2>2, <3>1 DEF Numbered
  <2> QED
    BY <1>c, <2>1, <2>2 DEF Numbered
<1>8. Partitioned'
  BY <1>a, <1>c, <1>e, <1>5 DEF Partitioned
<1>9. Calls'
  <2> SUFFICES ASSUME NEW i \in 1 .. L - 1
               PROVE  /\ frames'[i].rel \in OnStack'
                      /\ frames'[i].left \subseteq DependsOn(frames'[i].rel)
                      /\ \A j \in 1 .. i - 1 : index[frames'[j].rel] < index[frames'[i].rel]
    BY <1>b, <1>c DEF Calls
  <2>1. i \in 1 .. L /\ \A j \in 1 .. i - 1 : j \in 1 .. L - 1
    BY <1>b
  <2> QED
    BY <1>a, <1>b, <1>h, <2>1 DEF Calls, L
<1>10. Explored'
  <2> SUFFICES ASSUME NEW q \in Reached, NEW m \in DependsOn(q), m \notin Reached
               PROVE  \E i \in 1 .. L - 1 : frames'[i].rel = q /\ m \in frames'[i].left
    BY <1>b, <1>c DEF Explored
  <2>1. PICK i \in 1 .. L : frames[i].rel = q /\ m \in frames[i].left
    BY <1>a DEF Explored, L
  <2>2. i \in 1 .. L - 1
    BY <1>b, <2>1
  <2> QED
    BY <1>b, <2>1, <2>2
<1>11. LowReached'
  <2> SUFFICES ASSUME NEW q \in OnStack'
               PROVE  /\ lowlink[q] <= index[q]
                      /\ \E s \in OnStack' : index[s] = lowlink[q] /\ ReachesOrIs(q, s)
    BY <1>c, <1>1 DEF LowReached
  <2>1. q \in OnStack /\ index[q] < index[c] /\ index[q] \in Nat
    BY <1>g
  <2>2. lowlink[q] <= index[q]
    BY <1>a, <2>1 DEF LowReached
  <2>3. PICK s \in OnStack : index[s] = lowlink[q] /\ ReachesOrIs(q, s)
    BY <1>a, <2>1 DEF LowReached
  <2>4. s \in OnStack'
    BY <1>b, <1>d, <1>h, <2>1, <2>2, <2>3
  <2> QED
    BY <2>2, <2>3, <2>4
<1>12. Descends'
  <2> SUFFICES ASSUME NEW i \in 1 .. L - 1, NEW q \in OnStack', index[frames'[i].rel] <= index[q]
               PROVE  ReachesOrIs(frames'[i].rel, q)
    BY <1>b, <1>c DEF Descends
  <2>1. i \in 1 .. L
    BY <1>b
  <2> QED
    BY <1>a, <1>b, <1>g, <2>1 DEF Descends, L
<1>13. Ascends'
  <2> SUFFICES ASSUME NEW q \in OnStack'
               PROVE  \E i \in 1 .. L - 1 : index[frames'[i].rel] <= index[q] /\ ReachesOrIs(q, frames'[i].rel)
    BY <1>b, <1>c DEF Ascends
  <2>1. q \in OnStack /\ index[q] < index[c] /\ index[q] \in Nat
    BY <1>g
  <2>2. PICK i \in 1 .. L : index[frames[i].rel] <= index[q] /\ ReachesOrIs(q, frames[i].rel)
    BY <1>a, <2>1 DEF Ascends, L
  <2>3. i # L
    BY <1>b, <1>d, <2>1, <2>2
  <2>4. i \in 1 .. L - 1
    BY <1>b, <2>3
  <2> QED
    BY <1>b, <2>2, <2>4
<1>14. LowEnough'
  <2> SUFFICES ASSUME NEW i \in 1 .. L - 1, NEW q \in OnStack',
                      index[frames'[i].rel] <= index[q],
                      i < L - 1 => index[q] < index[frames'[i + 1].rel],
                      NEW m \in DependsOn(q), m \in OnStack'
               PROVE  \/ q = frames'[i].rel /\ m \in frames'[i].left
                      \/ lowlink[frames'[i].rel] <= index[m]
    BY <1>b, <1>c, <1>1 DEF LowEnough, Segment
  <2>1. frames'[i] = frames[i] /\ i \in 1 .. L
    BY <1>b
  <2>2. q \in OnStack /\ m \in OnStack /\ index[q] < index[c]
    BY <1>g
  <2>3. i < L - 1 => frames'[i + 1] = frames[i + 1]
    BY <1>b
  <2>4. Segment(i, q)
    <3>1. CASE i < L - 1
      BY <2>1, <2>3, <3>1 DEF Segment
    <3>2. CASE i = L - 1
      BY <1>b, <2>1, <2>2, <3>2 DEF Segment, L
    <3> QED
      BY <1>b, <3>1, <3>2
  <2> QED
    BY <1>a, <2>1, <2>2, <2>4 DEF LowEnough, L
<1>15. BottomUp'
  <2> SUFFICES ASSUME NEW k \in 1 .. N + 1
               PROVE  /\ comps'[k] # {}
                      /\ \A q \in comps'[k] : comps'[k] = Component(q) /\ DependsOn(q) \subseteq Upto(k)'
                      /\ \A j \in 1 .. k - 1 : comps'[j] \cap comps'[k] = {}
    BY <1>c, <1>2 DEF BottomUp
  <2>1. CASE k \in 1 .. N
    <3>1. \A j \in 1 .. k - 1 : j \in 1 .. N
      BY <1>2, <2>1
    <3> QED
      BY <1>a, <1>n, <1>2, <1>3, <2>1, <3>1 DEF BottomUp
  <2>2. CASE k = N + 1
    <3>1. \A j \in 1 .. k - 1 : j \in 1 .. N /\ comps[j] \subseteq Done
      BY <1>a, <1>n, <2>2, SearchFacts
    <3>2. Done \cap C = {}
      BY <1>a, <1>e DEF Partitioned
    <3>3. \A j \in 1 .. k - 1 : comps'[j] \cap comps'[k] = {}
      BY <1>2, <2>2, <3>1, <3>2
    <3> QED
      BY <1>2, <1>4, <1>f, <2>2, <3>3
  <2> QED
    BY <1>2, <2>1, <2>2
<1> QED
  BY <1>6, <1>7, <1>8, <1>9, <1>10, <1>11, <1>12, <1>13, <1>14, <1>15 DEF SearchInv

(* The end of a call, of a root or of another relation.                    *)
LEMMA ReturnKeeps == SearchInv /\ Return => SearchInv'
BY InnerReturnKeeps, RootReturnKeeps

(* The search starts with nothing reached.                                 *)
LEMMA SearchStarts == Init => SearchInv
<1> SUFFICES ASSUME Init
             PROVE  SearchInv
  OBVIOUS
<1>1. /\ rules \in Programs
      /\ index = <<>> /\ lowlink = <<>> /\ stack = <<>> /\ frames = <<>>
      /\ comps = <<>> /\ strata = <<>> /\ next = 1
  BY DEF Init
<1>2. DOMAIN index = {} /\ Reached = {} /\ index \in [{} -> Nat] /\ lowlink \in [{} -> Nat]
  BY <1>1 DEF Reached
<1>3. Len(stack) = 0 /\ Len(frames) = 0 /\ Len(comps) = 0
  BY <1>1
<1>4. OnStack = {} /\ Done = {}
  BY <1>3 DEF OnStack, Done, Upto
<1>5. SearchTypes
  BY <1>1, <1>2 DEF SearchTypes
<1>6. Numbered /\ Partitioned /\ Calls /\ Explored
  BY <1>2, <1>3, <1>4 DEF Numbered, Partitioned, Calls, Explored
<1>7. LowReached /\ Descends /\ Ascends /\ LowEnough /\ BottomUp
  BY <1>3, <1>4 DEF LowReached, Descends, Ascends, LowEnough, BottomUp
<1> QED
  BY <1>5, <1>6, <1>7 DEF SearchInv

(* What a component depends on, directly or not, is found before it.       *)
LEMMA BelowFound ==
    ASSUME SearchInv, NEW k \in 1 .. Len(comps), NEW q \in comps[k]
    PROVE  Reach(q) \subseteq Upto(k)
<1>a. SearchTypes /\ BottomUp
  BY DEF SearchInv
<1>1. Upto(k) \subseteq Idb
  <2>1. \A j \in 1 .. k : j \in 1 .. Len(comps) /\ comps[j] \subseteq Idb
    BY <1>a, SearchFacts DEF SearchTypes
  <2> QED
    BY <2>1 DEF Upto
<1>2. DependsOn(q) \subseteq Upto(k)
  BY <1>a DEF BottomUp
<1>3. ASSUME NEW r \in Upto(k)
      PROVE  DependsOn(r) \subseteq Upto(k)
  <2>1. PICK j \in 1 .. k : r \in comps[j]
    BY DEF Upto
  <2>2. DependsOn(r) \subseteq Upto(j)
    BY <1>a, <2>1, SearchFacts DEF BottomUp
  <2>3. Upto(j) \subseteq Upto(k)
    BY <1>a, SearchFacts DEF Upto
  <2> QED
    BY <2>2, <2>3
<1> QED
  BY <1>1, <1>2, <1>3, ReachWithin

-----------------------------------------------------------------------------
(***************************************************************************)
(* The components after the search                                         *)
(***************************************************************************)

(* q is r, or r depends on q when the heads of a rule count as depending   *)
(* on one another.                                                         *)
TiedTo(q, r) == q = r \/ q \in ReachTogether(r)

(* What is computed with q is tied to it.                                  *)
LEMMA TiedStep ==
    ASSUME rules \in Programs, NEW q, NEW r \in ComputedWith(q)
    PROVE  TiedTo(r, q)
BY GraphTypes DEF ReachTogether, LeastClosed, TiedTo

(* Being tied is transitive.                                               *)
LEMMA TiedComposed ==
    ASSUME rules \in Programs, NEW q, NEW r, NEW s, TiedTo(q, r), TiedTo(r, s)
    PROVE  TiedTo(q, s)
<1> SUFFICES ASSUME q \in ReachTogether(r), r \in ReachTogether(s)
             PROVE  q \in ReachTogether(s)
  BY DEF TiedTo
<1> SUFFICES ASSUME NEW S \in SUBSET Idb, ComputedWith(s) \subseteq S,
                    \A x \in S : ComputedWith(x) \subseteq S
             PROVE  q \in S
  BY DEF ReachTogether, LeastClosed, ClosedFor
<1>1. r \in S
  BY DEF ReachTogether, LeastClosed, ClosedFor
<1>2. ComputedWith(r) \subseteq S
  BY <1>1
<1> QED
  BY <1>2 DEF ReachTogether, LeastClosed, ClosedFor

(* What q reaches is tied to it.                                           *)
LEMMA ReachTied ==
    ASSUME NEW q, NEW r \in Reach(q)
    PROVE  TiedTo(r, q)
<1>1. \A x : DependsOn(x) \subseteq ComputedWith(x)
  BY DEF ComputedWith
<1>2. r \in Idb /\ \A S \in SUBSET Idb :
          DependsOn(q) \subseteq S /\ (\A x \in S : DependsOn(x) \subseteq S) => r \in S
  BY DEF Reach, LeastClosed, ClosedFor
<1>3. ASSUME NEW S \in SUBSET Idb, ComputedWith(q) \subseteq S,
             \A x \in S : ComputedWith(x) \subseteq S
      PROVE  r \in S
  BY <1>1, <1>2, <1>3
<1> QED
  BY <1>2, <1>3 DEF TiedTo, ReachTogether, LeastClosed, ClosedFor

PassTypes ==
    /\ rules \in Programs
    /\ comps \in Seq(SUBSET Idb)
    /\ next \in Nat \ {0}
    /\ strata \in Seq([recursive : BOOLEAN, members : SUBSET Idb, rules : SUBSET DOMAIN rules])

Covered == \A q \in Idb : \E k \in 1 .. Len(comps) : q \in comps[k]

Disjoint ==
    \A j, k \in 1 .. Len(comps) : j # k => comps[j] \cap comps[k] = {}

(* The relations of a component are computed together.                     *)
Tied == \A k \in 1 .. Len(comps) : \A q, r \in comps[k] : TiedTo(q, r)

(* Components are bottom-up, and the relations of a component depend on    *)
(* the same relations outside it: that makes merging keep the order.       *)
Ordered == \A k \in 1 .. Len(comps) : \A q \in comps[k] : Reach(q) \subseteq Upto(k)

SameBelow ==
    \A k \in 1 .. Len(comps) : \A q, r \in comps[k] : Reach(q) \ comps[k] = Reach(r) \ comps[k]

(* The rules before rule n have their heads in one component each.         *)
HeadsTogether(n) ==
    \A i \in 1 .. Len(rules) : i < n => \E k \in 1 .. Len(comps) : HeadsOf(i) \subseteq comps[k]

MergeInv ==
    /\ PassTypes /\ Covered /\ Disjoint /\ Tied
    /\ Supported => Ordered /\ SameBelow

(* What the types of the passes say of their parts.                        *)
LEMMA PassFacts ==
    ASSUME PassTypes
    PROVE  /\ Len(comps) \in Nat /\ Len(strata) \in Nat /\ Len(rules) \in Nat
           /\ DOMAIN comps = 1 .. Len(comps) /\ DOMAIN strata = 1 .. Len(strata)
           /\ DOMAIN rules = 1 .. Len(rules)
           /\ \A k \in 1 .. Len(comps) : comps[k] \subseteq Idb
           /\ \A s \in 1 .. Len(strata) :
                 /\ strata[s] \in [recursive : BOOLEAN, members : SUBSET Idb, rules : SUBSET DOMAIN rules]
                 /\ strata[s].members \subseteq Idb /\ strata[s].rules \subseteq DOMAIN rules
<1>1. Len(rules) \in Nat /\ DOMAIN rules = 1 .. Len(rules)
  BY GraphTypes DEF PassTypes
<1>2. /\ Len(comps) \in Nat /\ DOMAIN comps = 1 .. Len(comps)
      /\ \A k \in 1 .. Len(comps) : comps[k] \in SUBSET Idb
  BY LenProperties, ElementOfSeq DEF PassTypes
<1> DEFINE R == [recursive : BOOLEAN, members : SUBSET Idb, rules : SUBSET DOMAIN rules]
<1>3. strata \in Seq(R)
  BY DEF PassTypes
<1>4. /\ Len(strata) \in Nat /\ DOMAIN strata = 1 .. Len(strata)
      /\ \A s \in 1 .. Len(strata) : strata[s] \in R
  <2> HIDE DEF R
  <2> QED
    BY <1>3, LenProperties, ElementOfSeq
<1> QED
  BY <1>1, <1>2, <1>4

(* The search leaves components that cover the heads, bottom-up.           *)
LEMMA EndSearchMakes ==
    ASSUME SearchInv, EndSearch
    PROVE  phase' = "merge" /\ MergeInv' /\ HeadsTogether(next)' /\ strata' = <<>>
<1>a. SearchTypes /\ Partitioned /\ Ascends /\ BottomUp /\ rules \in Programs
  BY DEF SearchInv, SearchTypes
<1>b. /\ phase' = "merge" /\ next' = 1 /\ UNCHANGED <<rules, comps, strata>>
      /\ frames = <<>> /\ WithRoots = {} /\ strata = <<>>
  BY <1>a DEF EndSearch, Pass, SearchTypes
<1>c. /\ Idb' = Idb /\ Supported' = Supported
      /\ \A r : Reach(r)' = Reach(r) /\ ReachTogether(r)' = ReachTogether(r)
      /\ DOMAIN rules' = DOMAIN rules
  BY <1>b, GraphUnmoved
<1>d. Len(comps) \in Nat
  BY <1>a, SearchFacts
<1>1. Reached = Idb
  BY <1>a, <1>b, NoRoots
<1>2. OnStack = {}
  <2>1. Len(frames) = 0
    BY <1>b
  <2> QED
    BY <1>a, <2>1 DEF Ascends
<1>3. PassTypes'
  BY <1>a, <1>b, <1>c, <1>1 DEF SearchTypes, PassTypes
<1>4. Covered'
  BY <1>a, <1>b, <1>c, <1>1, <1>2 DEF Covered, Partitioned, Done, Upto
<1>5. Disjoint'
  <2> SUFFICES ASSUME NEW j \in 1 .. Len(comps), NEW k \in 1 .. Len(comps), j # k
               PROVE  comps[j] \cap comps[k] = {}
    BY <1>b DEF Disjoint
  <2>1. j \in 1 .. k - 1 \/ k \in 1 .. j - 1
    BY <1>d
  <2> QED
    BY <1>a, <2>1 DEF BottomUp
<1>6. ASSUME NEW k \in 1 .. Len(comps), NEW q \in comps[k], NEW r \in comps[k]
      PROVE  q = r \/ (q \in Reach(r) /\ r \in Reach(q))
  BY <1>a DEF BottomUp, Component
<1>7. Tied'
  <2> SUFFICES ASSUME NEW k \in 1 .. Len(comps), NEW q \in comps[k], NEW r \in comps[k]
               PROVE  TiedTo(q, r)
    BY <1>b, <1>c DEF Tied, TiedTo
  <2> QED
    BY <1>6, ReachTied DEF TiedTo
<1>8. Ordered'
  BY <1>b, <1>c, BelowFound DEF Ordered, Upto
<1>9. SameBelow'
  <2> SUFFICES ASSUME NEW k \in 1 .. Len(comps), NEW q \in comps[k], NEW r \in comps[k]
               PROVE  Reach(q) \ comps[k] = Reach(r) \ comps[k]
    BY <1>b, <1>c DEF SameBelow
  <2>1. q = r \/ (q \in Reach(r) /\ r \in Reach(q))
    BY <1>6
  <2> QED
    BY <2>1, ReachTransitive
<1>10. HeadsTogether(next)'
  BY <1>b, <1>c DEF HeadsTogether
<1> QED
  BY <1>b, <1>3, <1>4, <1>5, <1>7, <1>8, <1>9, <1>10 DEF MergeInv

(* A rule's components become one, in the place of the first.              *)
LEMMA MergeShape ==
    ASSUME MergeInv, MergeComponents
    PROVE  \E m \in 1 .. Len(comps), hit \in SUBSET (1 .. Len(comps)), M \in SUBSET Idb :
              /\ next \in DOMAIN rules
              /\ hit = {k \in 1 .. Len(comps) : comps[k] \cap HeadsOf(next) # {}}
              /\ M = UNION {comps[j] : j \in hit}
              /\ m \in hit /\ \A k \in hit : m <= k
              /\ HeadsOf(next) \subseteq M
              /\ comps' \in Seq(SUBSET Idb) /\ Len(comps') = Len(comps)
              /\ comps'[m] = M
              /\ \A k \in 1 .. Len(comps) :
                    /\ k \notin hit => comps'[k] = comps[k]
                    /\ k \in hit /\ k # m => comps'[k] = {}
<1> DEFINE N == Len(comps)
           H == HeadsOf(next)
           hit == {k \in DOMAIN comps : comps[k] \cap H # {}}
           M == UNION {comps[j] : j \in hit}
           m == Min(hit)
<1>1. /\ next \in DOMAIN rules /\ N \in Nat /\ DOMAIN comps = 1 .. N
      /\ \A k \in 1 .. N : comps[k] \subseteq Idb
      /\ rules \in Programs
  BY PassFacts DEF MergeInv, PassTypes, MergeComponents
<1>2. H # {} /\ H \subseteq Idb
  BY <1>1, GraphTypes
<1>3. comps' = [k \in DOMAIN comps |->
                    IF k \notin hit THEN comps[k] ELSE IF k = m THEN M ELSE {}]
  BY DEF MergeComponents
<1> HIDE DEF H
<1>4. H \subseteq M /\ hit # {} /\ M \subseteq Idb
  <2>1. \A q \in H : \E k \in 1 .. N : q \in comps[k]
    BY <1>2 DEF MergeInv, Covered
  <2> QED
    BY <1>1, <1>2, <2>1
<1>5. hit \subseteq 1 .. N /\ hit = {k \in 1 .. N : comps[k] \cap H # {}}
  BY <1>1
<1> HIDE DEF M
<1>6. m \in hit /\ \A k \in hit : m <= k
  <2>1. hit \in SUBSET Nat
    BY <1>1
  <2> HIDE DEF hit
  <2> QED
    BY <1>4, <2>1, MinOfNaturals
<1> HIDE DEF hit, m, N
<1>7. \A k \in 1 .. N : comps'[k] \in SUBSET Idb
  BY <1>1, <1>3, <1>4
<1>8. Len(comps') = N /\ comps' \in Seq(SUBSET Idb)
  <2>1. comps' \in [1 .. N -> SUBSET Idb]
    BY <1>1, <1>3, <1>7
  <2> QED
    BY <1>1, <2>1
<1>9. /\ comps'[m] = M
      /\ \A k \in 1 .. N :
            /\ k \notin hit => comps'[k] = comps[k]
            /\ k \in hit /\ k # m => comps'[k] = {}
  BY <1>1, <1>3, <1>5, <1>6
<1>10. /\ next \in DOMAIN rules /\ hit \in SUBSET (1 .. Len(comps)) /\ M \in SUBSET Idb
       /\ m \in 1 .. Len(comps)
       /\ hit = {k \in 1 .. Len(comps) : comps[k] \cap HeadsOf(next) # {}}
       /\ M = UNION {comps[j] : j \in hit}
       /\ HeadsOf(next) \subseteq M
  BY <1>1, <1>4, <1>5, <1>6 DEF H, M, N
<1>11. /\ Len(comps') = Len(comps)
       /\ \A k \in 1 .. Len(comps) :
            /\ k \notin hit => comps'[k] = comps[k]
            /\ k \in hit /\ k # m => comps'[k] = {}
  BY <1>8, <1>9 DEF N
<1>12. comps'[m] = M /\ comps' \in Seq(SUBSET Idb)
  BY <1>8, <1>9
<1> QED
  BY <1>6, <1>10, <1>11, <1>12, Zenon

(* What merging puts into one component is computed together, and depends  *)
(* on the same relations outside it: the heads of the rule connect it.     *)
LEMMA MergedAlike ==
    ASSUME MergeInv, NEW i \in DOMAIN rules, NEW M,
           \A q \in M : \E j \in 1 .. Len(comps) :
               q \in comps[j] /\ comps[j] \subseteq M /\ comps[j] \cap HeadsOf(i) # {},
           HeadsOf(i) \subseteq M,
           NEW q \in M, NEW r \in M
    PROVE  /\ TiedTo(q, r)
           /\ Supported => Reach(q) \ M = Reach(r) \ M
<1>1. PICK j \in 1 .. Len(comps) : q \in comps[j] /\ comps[j] \subseteq M /\ comps[j] \cap HeadsOf(i) # {}
  OBVIOUS
<1>2. PICK l \in 1 .. Len(comps) : r \in comps[l] /\ comps[l] \subseteq M /\ comps[l] \cap HeadsOf(i) # {}
  OBVIOUS
<1>3. PICK g \in comps[j] \cap HeadsOf(i) : TRUE
  BY <1>1
<1>4. PICK h \in comps[l] \cap HeadsOf(i) : TRUE
  BY <1>2
<1>5. rules \in Programs
  BY DEF MergeInv, PassTypes
<1>6. TiedTo(q, g) /\ TiedTo(h, r)
  BY <1>1, <1>2 DEF MergeInv, Tied
<1>7. g \in ComputedWith(h)
  BY DEF ComputedWith
<1>8. TiedTo(g, h)
  BY <1>5, <1>7, TiedStep
<1>9. TiedTo(q, r)
  BY <1>5, <1>6, <1>8, TiedComposed
<1>10. ASSUME Supported
       PROVE  Reach(q) \ M = Reach(r) \ M
  <2>1. SameBelow
    BY <1>10 DEF MergeInv
  <2>2. /\ Reach(q) \ comps[j] = Reach(g) \ comps[j]
        /\ Reach(h) \ comps[l] = Reach(r) \ comps[l]
    BY <1>1, <1>2, <2>1 DEF SameBelow
  <2>3. Reach(g) \ HeadsOf(i) = Reach(h) \ HeadsOf(i)
    BY <1>10 DEF Supported
  <2>4. Reach(q) \ M = Reach(g) \ M
    BY <1>1, <2>2
  <2>5. Reach(g) \ M = Reach(h) \ M
    BY <2>3
  <2>6. Reach(h) \ M = Reach(r) \ M
    BY <1>2, <2>2
  <2> QED
    BY <2>4, <2>5, <2>6
<1> QED
  BY <1>9, <1>10

(* Merging the components of a rule's heads keeps them in order.           *)
LEMMA MergeKeeps ==
    ASSUME MergeInv, HeadsTogether(next), strata = <<>>, MergeComponents
    PROVE  MergeInv' /\ HeadsTogether(next)' /\ strata' = <<>>
<1>a. PassTypes /\ Covered /\ Disjoint /\ Tied /\ (Supported => Ordered /\ SameBelow)
  BY DEF MergeInv
<1>b. /\ UNCHANGED <<rules, phase, strata>> /\ next' = next + 1
      /\ rules \in Programs /\ next \in Nat \ {0}
  BY <1>a DEF MergeComponents, PassTypes
<1>c. PICK m \in 1 .. Len(comps), hit \in SUBSET (1 .. Len(comps)), M \in SUBSET Idb :
              /\ next \in DOMAIN rules
              /\ hit = {k \in 1 .. Len(comps) : comps[k] \cap HeadsOf(next) # {}}
              /\ M = UNION {comps[j] : j \in hit}
              /\ m \in hit /\ \A k \in hit : m <= k
              /\ HeadsOf(next) \subseteq M
              /\ comps' \in Seq(SUBSET Idb) /\ Len(comps') = Len(comps)
              /\ comps'[m] = M
              /\ \A k \in 1 .. Len(comps) :
                    /\ k \notin hit => comps'[k] = comps[k]
                    /\ k \in hit /\ k # m => comps'[k] = {}
  BY MergeShape
<1>d. /\ Idb' = Idb /\ Supported' = Supported
      /\ \A r : Reach(r)' = Reach(r) /\ ReachTogether(r)' = ReachTogether(r)
      /\ \A i : HeadsOf(i)' = HeadsOf(i)
      /\ DOMAIN rules' = DOMAIN rules /\ Len(rules') = Len(rules)
  BY <1>b, GraphUnmoved
<1>e. PICK N \in Nat : N = Len(comps)
  BY <1>a, PassFacts
<1>f. \A k \in 1 .. N : comps'[k] = comps[k] \/ comps'[k] = M \/ comps'[k] = {}
  BY <1>c, <1>e
<1>g. \A q : q \in M <=> \E j \in hit : q \in comps[j]
  BY <1>c, ZenonT(30)
<1>h. comps'[m] = M /\ m \in hit /\ m \in 1 .. N /\ \A k \in hit : m <= k
  BY <1>c, <1>e
<1>1. PassTypes'
  BY <1>a, <1>b, <1>c, <1>d DEF PassTypes
<1>2. Covered'
  <2> SUFFICES ASSUME NEW q \in Idb
               PROVE  \E k \in 1 .. N : q \in comps'[k]
    BY <1>c, <1>d, <1>e DEF Covered
  <2>1. PICK k \in 1 .. N : q \in comps[k]
    BY <1>a, <1>e DEF Covered
  <2>2. CASE k \in hit
    <3>1. q \in comps'[m] /\ m \in 1 .. N
      BY <1>c, <1>e, <1>g, <2>1, <2>2
    <3> QED
      BY <3>1
  <2>3. CASE k \notin hit
    <3>1. comps'[k] = comps[k]
      BY <1>c, <1>e, <2>3
    <3> QED
      BY <2>1, <3>1
  <2> QED
    BY <2>2, <2>3
<1>3. \A k \in 1 .. N : k \notin hit => comps[k] \cap M = {}
  <2> SUFFICES ASSUME NEW k \in 1 .. N, k \notin hit, NEW j \in hit
               PROVE  comps[k] \cap comps[j] = {}
    BY <1>g
  <2> QED
    BY <1>a, <1>c, <1>e DEF Disjoint
<1>4. Disjoint'
  <2> SUFFICES ASSUME NEW j \in 1 .. N, NEW k \in 1 .. N, j # k
               PROVE  comps'[j] \cap comps'[k] = {}
    BY <1>c, <1>e DEF Disjoint
  <2>1. CASE j \in hit /\ k \in hit
    BY <1>c, <1>e, <2>1
  <2>2. CASE j \notin hit /\ k \notin hit
    BY <1>a, <1>c, <1>e, <2>2 DEF Disjoint
  <2>3. CASE j \notin hit /\ k \in hit
    BY <1>3, <1>c, <1>e, <2>3
  <2>4. CASE j \in hit /\ k \notin hit
    BY <1>3, <1>c, <1>e, <2>4
  <2> QED
    BY <2>1, <2>2, <2>3, <2>4
<1>5. \A q \in M : \E j \in 1 .. Len(comps) :
          q \in comps[j] /\ comps[j] \subseteq M /\ comps[j] \cap HeadsOf(next) # {}
  BY <1>c, <1>g
<1>6. ASSUME NEW q \in M, NEW r \in M
      PROVE  TiedTo(q, r) /\ (Supported => Reach(q) \ M = Reach(r) \ M)
  BY <1>5, <1>c, MergedAlike
<1>7. Tied'
  <2> SUFFICES ASSUME NEW k \in 1 .. N, NEW q \in comps'[k], NEW r \in comps'[k]
               PROVE  TiedTo(q, r)
    BY <1>c, <1>d, <1>e DEF Tied, TiedTo
  <2> QED
    BY <1>a, <1>e, <1>f, <1>6 DEF Tied
<1>8. ASSUME Supported
      PROVE  Ordered' /\ SameBelow'
  <2>1. Ordered /\ SameBelow
    BY <1>8, <1>a
  <2>2. \A k \in 1 .. N : Upto(k) \subseteq Upto(k)'
    <3> SUFFICES ASSUME NEW k \in 1 .. N, NEW q \in Upto(k)
                 PROVE  q \in Upto(k)'
      OBVIOUS
    <3>1. PICK j \in 1 .. k : q \in comps[j]
      BY DEF Upto
    <3>2. j \in 1 .. N
      BY <1>e
    <3>3. CASE j \notin hit
      <4>1. q \in comps'[j]
        BY <1>c, <1>e, <3>1, <3>2, <3>3
      <4> QED
        BY <4>1 DEF Upto
    <3>4. CASE j \in hit
      <4>1. q \in comps'[m] /\ m \in 1 .. k
        BY <1>g, <1>h, <3>1, <3>2, <3>4
      <4> QED
        BY <4>1 DEF Upto
    <3> QED
      BY <3>3, <3>4
  <2>3. ASSUME NEW q \in M
        PROVE  Reach(q) \subseteq Upto(m)'
    <3>1. PICK h \in comps[m] : TRUE
      BY <1>c
    <3>2. h \in M
      BY <1>c, <1>g
    <3>3. Reach(q) \ M = Reach(h) \ M
      BY <1>6, <1>8, <3>2
    <3>4. Reach(h) \subseteq Upto(m)
      BY <2>1, <1>c DEF Ordered
    <3>5. Upto(m) \subseteq Upto(m)'
      BY <2>2, <1>c, <1>e
    <3>6. M \subseteq Upto(m)'
      <4>1. m \in 1 .. m
        BY <1>c, <1>e
      <4> QED
        BY <1>c, <4>1 DEF Upto
    <3> QED
      BY <3>3, <3>4, <3>5, <3>6
  <2>4. Ordered'
    <3> SUFFICES ASSUME NEW k \in 1 .. N, NEW q \in comps'[k]
                 PROVE  Reach(q) \subseteq Upto(k)'
      BY <1>c, <1>d, <1>e DEF Ordered
    <3>1. CASE k \notin hit
      BY <1>c, <1>e, <2>1, <2>2, <3>1 DEF Ordered
    <3>2. CASE k \in hit
      BY <1>c, <1>e, <2>3, <3>2
    <3> QED
      BY <3>1, <3>2
  <2>5. SameBelow'
    <3> SUFFICES ASSUME NEW k \in 1 .. N, NEW q \in comps'[k], NEW r \in comps'[k]
                 PROVE  Reach(q) \ comps'[k] = Reach(r) \ comps'[k]
      BY <1>c, <1>d, <1>e DEF SameBelow
    <3>1. CASE comps'[k] = comps[k]
      BY <1>e, <2>1, <3>1 DEF SameBelow
    <3>2. CASE comps'[k] = M
      BY <1>6, <1>8, <3>2
    <3> QED
      BY <1>f, <3>1, <3>2
  <2> QED
    BY <2>4, <2>5
<1>9. HeadsTogether(next)'
  <2> SUFFICES ASSUME NEW i \in 1 .. Len(rules), i < next + 1
               PROVE  \E k \in 1 .. N : HeadsOf(i) \subseteq comps'[k]
    BY <1>b, <1>c, <1>d, <1>e DEF HeadsTogether
  <2>1. CASE i = next
    BY <1>c, <1>e, <2>1
  <2>2. CASE i < next
    <3>1. PICK k \in 1 .. N : HeadsOf(i) \subseteq comps[k]
      BY <1>e, <2>2 DEF HeadsTogether
    <3> QED
      BY <1>c, <1>e, <1>g, <3>1
  <2> QED
    BY <1>a, <1>b, <2>1, <2>2, PassFacts
<1> QED
  BY <1>b, <1>d, <1>1, <1>2, <1>4, <1>7, <1>8, <1>9 DEF MergeInv

-----------------------------------------------------------------------------
(***************************************************************************)
(* Strata                                                                  *)
(***************************************************************************)
StratumType == [recursive : BOOLEAN, members : SUBSET Idb, rules : SUBSET DOMAIN rules]

(* What Layered says, of the rules' relations as sets.                     *)
Fits(i, s, t) ==
    /\ s < t => rules[i].pos \cap strata[t].members = {}
    /\ s <= t => rules[i].neg \cap strata[t].members = {}

Kind(i, x) ==
    /\ HeadsOf(i) \subseteq x.members
    /\ IF x.recursive THEN rules[i].pos \cap x.members # {} ELSE rules[i].pos \cap x.members = {}

StrataLayered ==
    \A s \in 1 .. Len(strata) : \A i \in strata[s].rules :
        /\ Kind(i, strata[s])
        /\ \A t \in 1 .. Len(strata) : Fits(i, s, t)

RulesApart ==
    \A s, t \in 1 .. Len(strata) : s # t => strata[s].rules \cap strata[t].rules = {}

SplitInv ==
    /\ MergeInv /\ HeadsTogether(Len(rules) + 1)
    /\ \A s \in 1 .. Len(strata) : \E k \in 1 .. next - 1 :
          /\ k \in 1 .. Len(comps)
          /\ strata[s].members = comps[k]
          /\ strata[s].rules \subseteq RulesFor(comps[k])
    /\ \A k \in 1 .. Len(comps) : k < next =>
          \A i \in RulesFor(comps[k]) : \E s \in 1 .. Len(strata) : i \in strata[s].rules
    /\ RulesApart
    /\ Supported => StrataLayered

StrataInv ==
    /\ PassTypes
    /\ \A i \in DOMAIN rules : \E s \in 1 .. Len(strata) : i \in strata[s].rules
    /\ RulesApart
    /\ Supported => StrataLayered

(* After the last rule every rule has its heads in one component.          *)
LEMMA EndMergeMakes ==
    ASSUME MergeInv, HeadsTogether(next), strata = <<>>, EndMerge
    PROVE  phase' = "split" /\ SplitInv'
<1>1. /\ phase' = "split" /\ next' = 1 /\ UNCHANGED <<rules, comps, strata>>
      /\ next \notin DOMAIN rules
  BY DEF EndMerge, Pass
<1>2. /\ Idb' = Idb /\ Supported' = Supported
      /\ \A r : Reach(r)' = Reach(r) /\ ReachTogether(r)' = ReachTogether(r)
      /\ \A i : HeadsOf(i)' = HeadsOf(i)
      /\ DOMAIN rules' = DOMAIN rules /\ Len(rules') = Len(rules)
  BY <1>1, GraphUnmoved
<1>3. PassTypes' /\ Covered' /\ Disjoint'
  BY <1>1, <1>2 DEF MergeInv, PassTypes, Covered, Disjoint
<1>4. Tied'
  BY <1>1, <1>2 DEF MergeInv, Tied, TiedTo
<1>5. Supported => Ordered' /\ SameBelow'
  BY <1>1, <1>2 DEF MergeInv, Ordered, SameBelow, Upto
<1>6. HeadsTogether(Len(rules) + 1)'
  <2> SUFFICES ASSUME NEW i \in 1 .. Len(rules)
               PROVE  \E k \in 1 .. Len(comps) : HeadsOf(i) \subseteq comps[k]
    BY <1>1, <1>2 DEF HeadsTogether
  <2>1. i < next
    BY <1>1, PassFacts DEF MergeInv, PassTypes
  <2> QED
    BY <2>1 DEF HeadsTogether
<1>7. Len(strata) = 0 /\ Len(strata') = 0
  BY <1>1
<1>8. RulesApart' /\ StrataLayered'
  BY <1>7 DEF RulesApart, StrataLayered
<1>9. \A k \in 1 .. Len(comps) : k >= 1
  BY PassFacts DEF MergeInv
<1>10. \A k \in 1 .. Len(comps') : ~(k < next')
  BY <1>1, <1>9, PassFacts DEF MergeInv
<1> QED
  BY <1>1, <1>2, <1>3, <1>4, <1>5, <1>6, <1>7, <1>8, <1>10 DEF MergeInv, SplitInv

(* A component computes the rules it gets, whole.                          *)
LEMMA RulesFit ==
    ASSUME MergeInv, HeadsTogether(Len(rules) + 1),
           NEW k \in 1 .. Len(comps), NEW i \in RulesFor(comps[k])
    PROVE  /\ i \in DOMAIN rules /\ HeadsOf(i) \subseteq comps[k]
           /\ \A j \in 1 .. Len(comps) : j # k => i \notin RulesFor(comps[j])
           /\ Supported =>
                 /\ \A j \in 1 .. Len(comps) : k < j => BodyRelations(i) \cap comps[j] = {}
                 /\ \A j \in 1 .. Len(comps) : k <= j => rules[i].neg \cap comps[j] = {}
<1>a. PassTypes /\ Disjoint /\ Tied /\ (Supported => Ordered)
  BY DEF MergeInv
<1>b. /\ i \in DOMAIN rules /\ HeadsOf(i) \cap comps[k] # {} /\ i \in 1 .. Len(rules)
      /\ Len(comps) \in Nat /\ Len(rules) \in Nat
      /\ rules \in Programs
  BY <1>a, PassFacts DEF RulesFor, PassTypes
<1>1. HeadsOf(i) \subseteq comps[k]
  <2>1. PICK l \in 1 .. Len(comps) : HeadsOf(i) \subseteq comps[l]
    BY <1>b DEF HeadsTogether
  <2>2. l = k
    BY <1>a, <1>b, <2>1 DEF Disjoint
  <2> QED
    BY <2>1, <2>2
<1>2. \A j \in 1 .. Len(comps) : j # k => i \notin RulesFor(comps[j])
  <2> SUFFICES ASSUME NEW j \in 1 .. Len(comps), j # k
               PROVE  HeadsOf(i) \cap comps[j] = {}
    BY DEF RulesFor
  <2> QED
    BY <1>1, <1>a DEF Disjoint
<1>3. PICK h \in HeadsOf(i) : h \in comps[k]
  BY <1>b
<1>4. ASSUME Supported, NEW j \in 1 .. Len(comps), k < j
      PROVE  BodyRelations(i) \cap comps[j] = {}
  <2> SUFFICES ASSUME NEW b \in BodyRelations(i), b \in comps[j]
               PROVE  FALSE
    OBVIOUS
  <2>1. b \in Idb
    BY <1>a, PassFacts
  <2>2. b \in DependsOn(h)
    BY <1>3, <1>b, <2>1 DEF DependsOn
  <2>3. b \in Upto(k)
    BY <1>3, <1>4, <1>a, <1>b, <2>2, ReachStep DEF Ordered
  <2>4. PICK l \in 1 .. k : b \in comps[l]
    BY <2>3 DEF Upto
  <2>5. l \in 1 .. Len(comps) /\ l # j
    BY <1>4, <1>b
  <2> QED
    BY <1>a, <2>4, <2>5 DEF Disjoint
<1>5. ASSUME Supported
      PROVE  rules[i].neg \cap comps[k] = {}
  <2> SUFFICES ASSUME NEW b \in rules[i].neg, b \in comps[k]
               PROVE  FALSE
    OBVIOUS
  <2>1. TiedTo(h, b)
    BY <1>3, <1>a DEF Tied
  <2>2. h # b /\ h \notin ReachTogether(b)
    BY <1>5, <1>b, <1>3 DEF Supported, ReachTogether
  <2> QED
    BY <2>1, <2>2 DEF TiedTo
<1>6. ASSUME Supported, NEW j \in 1 .. Len(comps), k <= j
      PROVE  rules[i].neg \cap comps[j] = {}
  <2>1. CASE k = j
    BY <1>5, <1>6, <2>1
  <2>2. CASE k < j
    BY <1>4, <1>6, <2>2 DEF BodyRelations
  <2> QED
    BY <1>6, <1>b, <2>1, <2>2
<1> QED
  BY <1>1, <1>2, <1>4, <1>6, <1>b

(* The strata of a component.                                              *)
Pieces(c, new) ==
    /\ new \in Seq(StratumType) /\ Len(new) \in 0 .. 2
    /\ \A s \in 1 .. Len(new) : new[s].members = c /\ new[s].rules \subseteq RulesFor(c)
    /\ \A i \in RulesFor(c) : \E s \in 1 .. Len(new) : i \in new[s].rules
    /\ \A s, t \in 1 .. Len(new) : s # t => new[s].rules \cap new[t].rules = {}
    /\ \A s \in 1 .. Len(new) : \A i \in new[s].rules :
          /\ IF new[s].recursive THEN BodyRelations(i) \cap c # {} ELSE BodyRelations(i) \cap c = {}
          /\ \A t \in 1 .. Len(new) : s < t => BodyRelations(i) \cap c = {}

(* A stratum is there if it has rules.                                     *)
LEMMA StratumShape ==
    ASSUME NEW c \in SUBSET Idb, NEW is \in SUBSET DOMAIN rules
    PROVE  /\ Stratum(FALSE, c, is) \in Seq(StratumType)
           /\ Stratum(TRUE, c, is) \in Seq(StratumType)
           /\ is = {} => Len(Stratum(FALSE, c, is)) = 0 /\ Len(Stratum(TRUE, c, is)) = 0
           /\ is # {} => /\ Len(Stratum(FALSE, c, is)) = 1
                         /\ ~Stratum(FALSE, c, is)[1].recursive
                         /\ Stratum(FALSE, c, is)[1].members = c
                         /\ Stratum(FALSE, c, is)[1].rules = is
                         /\ Len(Stratum(TRUE, c, is)) = 1
                         /\ Stratum(TRUE, c, is)[1].recursive
                         /\ Stratum(TRUE, c, is)[1].members = c
                         /\ Stratum(TRUE, c, is)[1].rules = is
<1>1. CASE is = {}
  BY <1>1 DEF Stratum
<1>2. CASE is # {}
  <2> DEFINE r == [recursive |-> FALSE, members |-> c, rules |-> is]
             x == [recursive |-> TRUE, members |-> c, rules |-> is]
  <2>1. /\ r \in StratumType /\ ~r.recursive /\ r.members = c /\ r.rules = is
        /\ x \in StratumType /\ x.recursive /\ x.members = c /\ x.rules = is
    BY DEF StratumType
  <2>2. Stratum(FALSE, c, is) = <<r>> /\ Stratum(TRUE, c, is) = <<x>>
    BY <1>2 DEF Stratum
  <2> HIDE DEF r, x
  <2>3. /\ <<r>> \in Seq(StratumType) /\ Len(<<r>>) = 1 /\ <<r>>[1] = r
        /\ <<x>> \in Seq(StratumType) /\ Len(<<x>>) = 1 /\ <<x>>[1] = x
    BY <2>1
  <2> QED
    BY <1>2, <2>1, <2>2, <2>3
<1> QED
  BY <1>1, <1>2

(* The strata of a component: at most two, the second one a fixpoint.      *)
LEMMA StrataOfShape ==
    ASSUME MergeInv, HeadsTogether(Len(rules) + 1), NEW k \in 1 .. Len(comps)
    PROVE  Pieces(comps[k], StrataOf(comps[k]))
<1> DEFINE c == comps[k]
           loop == {i \in RulesFor(c) : BodyRelations(i) \cap c # {}}
           once == RulesFor(c) \ loop
           S1 == Stratum(FALSE, c, once)
           S2 == Stratum(TRUE, c, loop)
           new == StrataOf(c)
<1> SUFFICES Pieces(c, new)
  OBVIOUS
<1>1. c \in SUBSET Idb /\ RulesFor(c) \in SUBSET DOMAIN rules /\ loop \in SUBSET DOMAIN rules
      /\ once \in SUBSET DOMAIN rules
  BY PassFacts DEF MergeInv, RulesFor
<1>2. CASE Recursive(c)
  <2>1. new = S1 \o S2
    BY <1>2 DEF StrataOf
  <2>2. /\ S1 \in Seq(StratumType) /\ S2 \in Seq(StratumType)
        /\ once = {} => Len(S1) = 0
        /\ once # {} => Len(S1) = 1 /\ ~S1[1].recursive /\ S1[1].members = c /\ S1[1].rules = once
        /\ loop = {} => Len(S2) = 0
        /\ loop # {} => Len(S2) = 1 /\ S2[1].recursive /\ S2[1].members = c /\ S2[1].rules = loop
    <3> HIDE DEF c, loop, once
    <3>1. c \in SUBSET Idb /\ loop \in SUBSET DOMAIN rules /\ once \in SUBSET DOMAIN rules
      BY <1>1
    <3>2. S1 \in Seq(StratumType) /\ S2 \in Seq(StratumType)
      BY <3>1, StratumShape
    <3>3. (once = {} => Len(S1) = 0) /\ (loop = {} => Len(S2) = 0)
      BY DEF Stratum
    <3>4. once # {} => Len(S1) = 1 /\ ~S1[1].recursive /\ S1[1].members = c /\ S1[1].rules = once
      BY DEF Stratum
    <3>5. loop # {} => Len(S2) = 1 /\ S2[1].recursive /\ S2[1].members = c /\ S2[1].rules = loop
      BY DEF Stratum
    <3> QED
      BY <3>2, <3>3, <3>4, <3>5
  <2>3. \A i \in loop : BodyRelations(i) \cap c # {}
    OBVIOUS
  <2>4. \A i \in once : BodyRelations(i) \cap c = {}
    OBVIOUS
  <2>5. RulesFor(c) = once \cup loop /\ once \cap loop = {}
    OBVIOUS
  <2> HIDE DEF c, loop, once, S1, S2, new
  <2>6. /\ new \in Seq(StratumType) /\ Len(new) = Len(S1) + Len(S2)
        /\ \A i \in 1 .. Len(S1) : new[i] = S1[i]
        /\ \A i \in 1 .. Len(S2) : new[Len(S1) + i] = S2[i]
    BY <2>1, <2>2, ConcatProperties
  <2>7. CASE once = {} /\ loop = {}
    <3>1. Len(new) = 0 /\ RulesFor(c) = {}
      BY <2>2, <2>5, <2>6, <2>7
    <3>2. \A s : s \notin 1 .. Len(new)
      BY <3>1
    <3> QED
      BY <2>6, <3>1, <3>2 DEF Pieces
  <2>8. CASE once # {} /\ loop = {}
    <3>1. Len(new) = 1 /\ ~new[1].recursive /\ new[1].members = c /\ new[1].rules = once
      BY <2>2, <2>6, <2>8
    <3>2. \A s : s \in 1 .. Len(new) <=> s = 1
      BY <3>1
    <3> QED
      BY <2>4, <2>5, <2>6, <2>8, <3>1, <3>2 DEF Pieces
  <2>9. CASE once = {} /\ loop # {}
    <3>1. Len(new) = 1 /\ new[1].recursive /\ new[1].members = c /\ new[1].rules = loop
      BY <2>2, <2>6, <2>9
    <3>2. \A s : s \in 1 .. Len(new) <=> s = 1
      BY <3>1
    <3> QED
      BY <2>3, <2>5, <2>6, <2>9, <3>1, <3>2 DEF Pieces
  <2>10. CASE once # {} /\ loop # {}
    <3>1. /\ Len(new) = 2
          /\ ~new[1].recursive /\ new[1].members = c /\ new[1].rules = once
          /\ new[2].recursive /\ new[2].members = c /\ new[2].rules = loop
      BY SMTT(30), <2>2, <2>6, <2>10
    <3>2. \A s : s \in 1 .. Len(new) <=> s = 1 \/ s = 2
      BY <3>1
    <3> QED
      BY SMTT(30), <2>3, <2>4, <2>5, <2>6, <3>1, <3>2 DEF Pieces
  <2> QED
    BY <2>7, <2>8, <2>9, <2>10
<1>3. CASE ~Recursive(c)
  <2>1. new = Stratum(FALSE, c, RulesFor(c))
    BY <1>3 DEF StrataOf
  <2>2. ASSUME NEW i \in RulesFor(c)
        PROVE  BodyRelations(i) \cap c = {}
    <3> SUFFICES ASSUME NEW b \in BodyRelations(i), b \in c
                 PROVE  FALSE
      OBVIOUS
    <3>1. PICK h \in HeadsOf(i) : h \in c
      BY DEF RulesFor
    <3>2. h = b
      <4>1. IsFiniteSet(c)
        BY <1>1, GraphTypes, FS_Subset DEF MergeInv, PassTypes
      <4>2. Cardinality(c) \in Nat /\ Cardinality(c) <= 1
        BY <1>3, <4>1, FS_CardinalityType DEF Recursive
      <4>3. {h, b} \in SUBSET c
        BY <3>1
      <4>5. h # b => Cardinality({h, b}) = 2
        <5>1. IsFiniteSet({h}) /\ Cardinality({h}) = 1
          BY FS_Singleton
        <5>2. Cardinality({h, b}) = Cardinality({h} \cup {b})
          <6>1. {h, b} = {h} \cup {b}
            OBVIOUS
          <6> QED
            BY <6>1, Zenon
        <5>3. h # b => Cardinality({h} \cup {b}) = Cardinality({h}) + 1
          BY <5>1, FS_AddElement
        <5>4. Cardinality({h}) + 1 = 2
          BY <5>1
        <5> QED
          BY <5>2, <5>3, <5>4, Zenon
      <4>4. Cardinality({h, b}) <= Cardinality(c)
        BY <4>1, <4>3, FS_Subset
      <4> QED
        BY <4>2, <4>4, <4>5
    <3>3. b \in Idb /\ i \in DOMAIN rules
      BY <1>1 DEF RulesFor
    <3>4. b \in DependsOn(b)
      BY <3>1, <3>2, <3>3 DEF DependsOn
    <3> QED
      BY <1>3, <3>4 DEF Recursive
  <2> HIDE DEF c, new
  <2>3. new \in Seq(StratumType)
    BY <1>1, <2>1, StratumShape
  <2>8. RulesFor(c) = {} => Len(new) = 0
    BY <2>1 DEF Stratum
  <2>9. RulesFor(c) # {} => Len(new) = 1
    BY <2>1 DEF Stratum
  <2>10. RulesFor(c) # {} => ~new[1].recursive /\ new[1].members = c /\ new[1].rules = RulesFor(c)
    BY <2>1 DEF Stratum
  <2>4. \A s : s \in 1 .. Len(new) => s = 1 /\ RulesFor(c) # {}
    <3> SUFFICES ASSUME NEW s \in 1 .. Len(new)
                 PROVE  s = 1 /\ RulesFor(c) # {}
      OBVIOUS
    <3>1. CASE RulesFor(c) = {}
      BY <2>8, <3>1
    <3>2. CASE RulesFor(c) # {}
      <4>1. Len(new) = 1
        BY <2>9, <3>2, Zenon
      <4> QED
        BY <3>2, <4>1
    <3> QED
      BY <3>1, <3>2
  <2>5. RulesFor(c) # {} => 1 \in 1 .. Len(new)
    BY <2>9
  <2>6. Len(new) \in 0 .. 2
    BY <2>8, <2>9
  <2>7. Pieces(c, new)
    BY <2>2, <2>3, <2>4, <2>5, <2>6, <2>10 DEF Pieces
  <2> QED
    BY <2>7
<1> QED
  BY <1>2, <1>3

(* The strata grow by those of one component.                              *)
LEMMA SplitShape ==
    ASSUME SplitInv, SplitComponent
    PROVE  \E c \in SUBSET Idb, new \in Seq(StratumType) :
              /\ next \in 1 .. Len(comps) /\ c = comps[next] /\ Pieces(c, new)
              /\ strata' \in Seq(StratumType) /\ Len(strata') = Len(strata) + Len(new)
              /\ \A s \in 1 .. Len(strata) : strata'[s] = strata[s]
              /\ \A s \in 1 .. Len(new) : strata'[Len(strata) + s] = new[s]
<1>1. next \in 1 .. Len(comps) /\ strata' = strata \o StrataOf(comps[next])
  BY PassFacts DEF SplitComponent, SplitInv, MergeInv
<1>2. comps[next] \in SUBSET Idb
  BY <1>1, PassFacts DEF SplitInv, MergeInv
<1>3. Pieces(comps[next], StrataOf(comps[next]))
  BY <1>1, StrataOfShape DEF SplitInv
<1>4. strata \in Seq(StratumType)
  BY DEF SplitInv, MergeInv, PassTypes, StratumType
<1> DEFINE new == StrataOf(comps[next])
<1>5. new \in Seq(StratumType)
  BY <1>3 DEF Pieces
<1>6. strata' = strata \o new
  BY <1>1
<1>7. Pieces(comps[next], new)
  BY <1>3
<1> HIDE DEF new
<1>8. /\ strata' \in Seq(StratumType) /\ Len(strata') = Len(strata) + Len(new)
      /\ \A s \in 1 .. Len(strata) : strata'[s] = strata[s]
      /\ \A s \in 1 .. Len(new) : strata'[Len(strata) + s] = new[s]
  <2>1. Len(strata) \in Nat /\ Len(new) \in Nat
    BY <1>4, <1>5, LenProperties
  <2>2. /\ strata' \in Seq(StratumType) /\ Len(strata') = Len(strata) + Len(new)
        /\ \A i \in 1 .. Len(strata) + Len(new) :
              strata'[i] = IF i <= Len(strata) THEN strata[i] ELSE new[i - Len(strata)]
    BY <1>4, <1>5, <1>6, ConcatProperties
  <2> QED
    BY SMTT(30), <2>1, <2>2
<1> QED
  BY <1>1, <1>2, <1>5, <1>7, <1>8

(* The strata of the next component go after those of the others.          *)
LEMMA SplitKeeps ==
    ASSUME SplitInv, SplitComponent
    PROVE  SplitInv'
<1>a. /\ MergeInv /\ HeadsTogether(Len(rules) + 1) /\ PassTypes /\ RulesApart
      /\ Supported => StrataLayered
  BY DEF SplitInv, MergeInv
<1>b. UNCHANGED <<rules, phase, comps>> /\ next' = next + 1
  BY DEF SplitComponent
<1>c. PICK c \in SUBSET Idb, new \in Seq(StratumType) :
              /\ next \in 1 .. Len(comps) /\ c = comps[next] /\ Pieces(c, new)
              /\ strata' \in Seq(StratumType) /\ Len(strata') = Len(strata) + Len(new)
              /\ \A s \in 1 .. Len(strata) : strata'[s] = strata[s]
              /\ \A s \in 1 .. Len(new) : strata'[Len(strata) + s] = new[s]
  BY SplitShape
<1>d. /\ Idb' = Idb /\ Supported' = Supported
      /\ \A r : Reach(r)' = Reach(r) /\ ReachTogether(r)' = ReachTogether(r)
      /\ \A i : HeadsOf(i)' = HeadsOf(i)
      /\ DOMAIN rules' = DOMAIN rules /\ Len(rules') = Len(rules) /\ rules' = rules
  BY <1>b, GraphUnmoved
<1>f. PICK n \in 1 .. Len(comps) : n = next
  BY <1>c
<1>g. PICK L \in Nat : L = Len(strata)
  BY <1>a, PassFacts
<1>h. PICK P \in 0 .. 2 : P = Len(new)
  BY <1>c DEF Pieces
<1>i. Len(comps) \in Nat /\ n \in Nat
  BY <1>a, PassFacts
<1>1. /\ Len(strata') = L + P
      /\ \A s \in 1 .. L : strata'[s] = strata[s]
      /\ \A s \in 1 .. P : strata'[L + s] = new[s]
      /\ c = comps[n]
  BY <1>c, <1>f, <1>g, <1>h
<1>2. ASSUME NEW s \in 1 .. L + P
      PROVE  s \in 1 .. L \/ \E x \in 1 .. P : s = L + x
  <2>1. s > L => s - L \in 1 .. P /\ s = L + (s - L)
    BY <1>g, <1>h
  <2> QED
    BY SMTT(30), <2>1, <1>g, <1>h
<1>3. /\ \A s \in 1 .. P : new[s].members = c /\ new[s].rules \subseteq RulesFor(c)
      /\ \A i \in RulesFor(c) : \E s \in 1 .. P : i \in new[s].rules
      /\ \A s, t \in 1 .. P : s # t => new[s].rules \cap new[t].rules = {}
      /\ \A s \in 1 .. P : \A i \in new[s].rules :
            /\ IF new[s].recursive THEN BodyRelations(i) \cap c # {} ELSE BodyRelations(i) \cap c = {}
            /\ \A t \in 1 .. P : s < t => BodyRelations(i) \cap c = {}
  BY <1>c, <1>h DEF Pieces
<1>4. \A s \in 1 .. L : \E k \in 1 .. n - 1 :
          /\ k \in 1 .. Len(comps)
          /\ strata[s].members = comps[k]
          /\ strata[s].rules \subseteq RulesFor(comps[k])
  BY <1>f, <1>g DEF SplitInv
<1>5. \A k \in 1 .. Len(comps) : k < n =>
          \A i \in RulesFor(comps[k]) : \E s \in 1 .. L : i \in strata[s].rules
  BY <1>f, <1>g DEF SplitInv
<1>6. MergeInv' /\ HeadsTogether(Len(rules) + 1)'
  <2>1. PassTypes'
    <3>1. StratumType' = StratumType
      BY <1>d DEF StratumType
    <3> QED
      BY <1>a, <1>b, <1>c, <1>d, <3>1 DEF PassTypes, StratumType
  <2>2. Covered' /\ Disjoint' /\ HeadsTogether(Len(rules) + 1)'
    BY <1>a, <1>b, <1>d DEF MergeInv, Covered, Disjoint, HeadsTogether
  <2>3. Tied'
    BY <1>a, <1>b, <1>d DEF MergeInv, Tied, TiedTo
  <2>4. Supported => Ordered' /\ SameBelow'
    BY <1>a, <1>b, <1>d DEF MergeInv, Ordered, SameBelow, Upto
  <2> QED
    BY <1>d, <2>1, <2>2, <2>3, <2>4 DEF MergeInv
<1>7. \A s \in 1 .. L + P : \E k \in 1 .. n :
          /\ k \in 1 .. Len(comps)
          /\ strata'[s].members = comps[k]
          /\ strata'[s].rules \subseteq RulesFor(comps[k])
  <2> SUFFICES ASSUME NEW s \in 1 .. L + P
               PROVE  \E k \in 1 .. n : /\ k \in 1 .. Len(comps)
                                        /\ strata'[s].members = comps[k]
                                        /\ strata'[s].rules \subseteq RulesFor(comps[k])
    OBVIOUS
  <2>1. CASE s \in 1 .. L
    <3>1. PICK k \in 1 .. n - 1 : /\ k \in 1 .. Len(comps)
                                  /\ strata[s].members = comps[k]
                                  /\ strata[s].rules \subseteq RulesFor(comps[k])
      BY <1>4, <2>1
    <3>2. k \in 1 .. n /\ strata'[s] = strata[s]
      BY <1>1, <1>i, <2>1
    <3> QED
      BY <3>1, <3>2
  <2>2. ASSUME NEW x \in 1 .. P, s = L + x
        PROVE  strata'[s].members = comps[n] /\ strata'[s].rules \subseteq RulesFor(comps[n])
    BY <1>1, <1>3, <2>2
  <2>3. n \in 1 .. n
    BY <1>i
  <2> QED
    BY <1>2, <2>1, <2>2, <2>3
<1>8. \A k \in 1 .. Len(comps) : k < n + 1 =>
          \A i \in RulesFor(comps[k]) : \E s \in 1 .. L + P : i \in strata'[s].rules
  <2> SUFFICES ASSUME NEW k \in 1 .. Len(comps), k < n + 1, NEW i \in RulesFor(comps[k])
               PROVE  \E s \in 1 .. L + P : i \in strata'[s].rules
    OBVIOUS
  <2>1. CASE k < n
    <3>1. PICK s \in 1 .. L : i \in strata[s].rules
      BY <1>5, <2>1
    <3> QED
      BY <1>1, <1>g, <1>h, <3>1
  <2>2. CASE k = n
    <3>1. PICK x \in 1 .. P : i \in new[x].rules
      BY <1>1, <1>3, <2>2
    <3>2. L + x \in 1 .. L + P /\ i \in strata'[L + x].rules
      BY <1>1, <1>g, <1>h, <3>1
    <3> QED
      BY <3>2
  <2> QED
    BY <1>i, <2>1, <2>2
<1>9. ASSUME NEW s \in 1 .. L, NEW i \in strata[s].rules
      PROVE  /\ i \notin RulesFor(c)
             /\ Supported => BodyRelations(i) \cap c = {}
  <2>1. PICK k \in 1 .. n - 1 : k \in 1 .. Len(comps) /\ i \in RulesFor(comps[k])
    BY <1>4
  <2>2. n # k /\ k < n
    BY <1>i
  <2> QED
    BY <1>1, <1>a, <2>1, <2>2, RulesFit
<1>10. RulesApart'
  <2> SUFFICES ASSUME NEW s \in 1 .. L + P, NEW t \in 1 .. L + P, s # t
               PROVE  strata'[s].rules \cap strata'[t].rules = {}
    BY <1>1 DEF RulesApart
  <2>1. CASE s \in 1 .. L /\ t \in 1 .. L
    BY <1>1, <1>a, <1>g, <2>1 DEF RulesApart
  <2>2. ASSUME s \in 1 .. L, NEW x \in 1 .. P, t = L + x
        PROVE  strata'[s].rules \cap strata'[t].rules = {}
    BY <1>1, <1>3, <1>9, <2>2
  <2>3. ASSUME t \in 1 .. L, NEW x \in 1 .. P, s = L + x
        PROVE  strata'[s].rules \cap strata'[t].rules = {}
    BY <1>1, <1>3, <1>9, <2>3
  <2>4. ASSUME NEW x \in 1 .. P, NEW y \in 1 .. P, s = L + x, t = L + y
        PROVE  strata'[s].rules \cap strata'[t].rules = {}
    <3>1. strata'[s] = new[x] /\ strata'[t] = new[y] /\ x # y
      BY <1>1, <2>4
    <3> QED
      BY <1>3, <3>1
  <2> QED
    BY <1>2, <2>1, <2>2, <2>3, <2>4
<1>11. ASSUME Supported, NEW x \in 1 .. P, NEW i \in new[x].rules
       PROVE  /\ HeadsOf(i) \subseteq c /\ rules[i].neg \cap c = {}
              /\ IF new[x].recursive THEN rules[i].pos \cap c # {} ELSE rules[i].pos \cap c = {}
              /\ \A y \in 1 .. P : x < y => rules[i].pos \cap c = {}
  <2>1. i \in RulesFor(comps[n]) /\ c = comps[n] /\ n <= n
    BY <1>1, <1>3, <1>i
  <2>2. HeadsOf(i) \subseteq c /\ rules[i].neg \cap c = {}
    BY <1>11, <1>a, <2>1, RulesFit
  <2>3. /\ IF new[x].recursive THEN BodyRelations(i) \cap c # {} ELSE BodyRelations(i) \cap c = {}
        /\ \A y \in 1 .. P : x < y => BodyRelations(i) \cap c = {}
    BY <1>3
  <2>4. BodyRelations(i) \cap c = rules[i].pos \cap c
    BY <2>2 DEF BodyRelations
  <2> QED
    BY <2>2, <2>3, <2>4
<1>12. ASSUME Supported
       PROVE  StrataLayered'
  <2> SUFFICES ASSUME NEW s \in 1 .. L + P, NEW i \in strata'[s].rules
               PROVE  /\ HeadsOf(i) \subseteq strata'[s].members
                      /\ IF strata'[s].recursive THEN rules[i].pos \cap strata'[s].members # {}
                         ELSE rules[i].pos \cap strata'[s].members = {}
                      /\ \A t \in 1 .. L + P :
                            /\ s < t => rules[i].pos \cap strata'[t].members = {}
                            /\ s <= t => rules[i].neg \cap strata'[t].members = {}
    BY <1>1, <1>d DEF StrataLayered, Kind, Fits
  <2>1. CASE s \in 1 .. L
    <3>1. strata'[s] = strata[s] /\ i \in strata[s].rules
      BY <1>1, <2>1
    <3>2. /\ Kind(i, strata[s])
          /\ \A t \in 1 .. L : Fits(i, s, t)
      BY <1>12, <1>a, <1>g, <2>1, <3>1 DEF StrataLayered
    <3>3. BodyRelations(i) \cap c = {}
      BY <1>9, <1>12, <2>1, <3>1
    <3>4. ASSUME NEW t \in 1 .. L + P
          PROVE  /\ s < t => rules[i].pos \cap strata'[t].members = {}
                 /\ s <= t => rules[i].neg \cap strata'[t].members = {}
      <4>1. CASE t \in 1 .. L
        BY <1>1, <3>2, <4>1 DEF Fits
      <4>2. ASSUME NEW y \in 1 .. P, t = L + y
            PROVE  /\ rules[i].pos \cap strata'[t].members = {}
                   /\ rules[i].neg \cap strata'[t].members = {}
        <5>0. strata'[t] = new[y]
          BY <1>1, <4>2
        <5>1. strata'[t].members = c
          BY <1>3, <5>0
        <5> QED
          BY <3>3, <5>1 DEF BodyRelations
      <4> QED
        BY <1>2, <4>1, <4>2
    <3> QED
      BY <3>1, <3>2, <3>4 DEF Kind
  <2>2. ASSUME NEW x \in 1 .. P, s = L + x
        PROVE  /\ HeadsOf(i) \subseteq strata'[s].members
               /\ IF strata'[s].recursive THEN rules[i].pos \cap strata'[s].members # {}
                  ELSE rules[i].pos \cap strata'[s].members = {}
               /\ \A t \in 1 .. L + P :
                     /\ s < t => rules[i].pos \cap strata'[t].members = {}
                     /\ s <= t => rules[i].neg \cap strata'[t].members = {}
    <3>1. strata'[s] = new[x] /\ i \in new[x].rules /\ new[x].members = c
      BY <1>1, <1>3, <2>2
    <3>2. /\ HeadsOf(i) \subseteq c /\ rules[i].neg \cap c = {}
          /\ IF new[x].recursive THEN rules[i].pos \cap c # {} ELSE rules[i].pos \cap c = {}
          /\ \A y \in 1 .. P : x < y => rules[i].pos \cap c = {}
      BY <1>11, <1>12, <3>1
    <3>3. ASSUME NEW t \in 1 .. L + P
          PROVE  /\ s < t => rules[i].pos \cap strata'[t].members = {}
                 /\ s <= t => rules[i].neg \cap strata'[t].members = {}
      <4>1. CASE t \in 1 .. L
        BY <2>2, <4>1, <1>g, <1>h
      <4>2. ASSUME NEW y \in 1 .. P, t = L + y
            PROVE  /\ s < t => rules[i].pos \cap strata'[t].members = {}
                   /\ s <= t => rules[i].neg \cap strata'[t].members = {}
        <5>0. strata'[t] = new[y]
          BY <1>1, <4>2
        <5>1. strata'[t].members = c
          BY <1>3, <5>0
        <5>2. s < t => x < y
          BY <2>2, <4>2, <1>g, <1>h
        <5> QED
          BY <3>2, <5>1, <5>2
      <4> QED
        BY <1>2, <4>1, <4>2
    <3> QED
      BY <3>1, <3>2, <3>3
  <2> QED
    BY <1>2, <2>1, <2>2
<1>13. next' - 1 = n
  BY <1>b, <1>f, <1>i
<1> QED
  <2>1. \A s \in 1 .. Len(strata') : \E k \in 1 .. next' - 1 :
          /\ k \in 1 .. Len(comps')
          /\ strata'[s].members = comps'[k]
          /\ strata'[s].rules \subseteq RulesFor(comps'[k])
    BY <1>1, <1>7, <1>13, <1>b
  <2>2. \A k \in 1 .. Len(comps') : k < next' =>
          \A i \in RulesFor(comps'[k]) : \E s \in 1 .. Len(strata') : i \in strata'[s].rules
    BY <1>1, <1>8, <1>f, <1>b
  <2>3. \A s \in 1 .. Len(strata') : \E k \in 1 .. next' - 1 :
          /\ k \in 1 .. Len(comps')
          /\ strata'[s].members = comps'[k]
          /\ strata'[s].rules \subseteq RulesFor(comps[k])'
    BY <1>b, <1>d, <2>1 DEF RulesFor
  <2>4. \A k \in 1 .. Len(comps') : k < next' =>
          \A i \in RulesFor(comps[k])' : \E s \in 1 .. Len(strata') : i \in strata'[s].rules
    BY <1>b, <1>d, <2>2 DEF RulesFor
  <2> QED
    BY <1>6, <1>10, <1>12, <1>d, <2>3, <2>4 DEF SplitInv

(* After the last component every rule is in a stratum.                    *)
LEMMA EndSplitMakes ==
    ASSUME SplitInv, EndSplit
    PROVE  phase' = "fuse" /\ StrataInv'
<1>1. /\ phase' = "fuse" /\ next' = 1 /\ UNCHANGED <<rules, comps, strata>>
      /\ next \notin 1 .. Len(comps)
  BY PassFacts DEF EndSplit, Pass, SplitInv, MergeInv
<1>2. Idb' = Idb /\ Supported' = Supported /\ \A i : HeadsOf(i)' = HeadsOf(i)
  BY <1>1, GraphUnmoved
<1>3. PassTypes /\ Covered /\ RulesApart /\ (Supported => StrataLayered)
      /\ next \in Nat \ {0} /\ Len(comps) \in Nat /\ rules \in Programs
  BY PassFacts DEF SplitInv, MergeInv, PassTypes
<1>4. PassTypes' /\ RulesApart'
  BY <1>1, <1>2, <1>3 DEF PassTypes, RulesApart
<1>5. Supported => StrataLayered'
  BY <1>1, <1>2, <1>3 DEF StrataLayered, Kind, Fits
<1>6. ASSUME NEW i \in DOMAIN rules
      PROVE  \E s \in 1 .. Len(strata) : i \in strata[s].rules
  <2>1. PICK h \in HeadsOf(i) : h \in Idb
    BY <1>3, GraphTypes
  <2>2. PICK k \in 1 .. Len(comps) : h \in comps[k]
    BY <1>3, <2>1 DEF Covered
  <2>3. i \in RulesFor(comps[k]) /\ k < next
    BY <1>1, <1>3, <2>1, <2>2 DEF RulesFor
  <2> QED
    BY <2>3 DEF SplitInv
<1> QED
  BY <1>1, <1>2, <1>4, <1>5, <1>6 DEF StrataInv

(* Stratum a of the fused ones is, or is fused from, stratum b.            *)
From(n, a, b) ==
    \/ a < n /\ b = a
    \/ a = n /\ b \in {n, n + 1}
    \/ a > n /\ b = a + 1

(* Two strata have become one, and those after them moved down.            *)
LEMMA FusedShape ==
    ASSUME PassTypes, FuseStrata, strata' # strata
    PROVE  \E n, L \in Nat :
              /\ L = Len(strata) /\ n = next /\ n \in 1 .. L /\ n + 1 \in 1 .. L
              /\ strata' \in Seq(StratumType) /\ Len(strata') = L - 1
              /\ next' = next
              /\ ~strata[n].recursive /\ ~strata[n + 1].recursive
              /\ ~Reads(strata[n + 1], strata[n].members)
              /\ \A a \in 1 .. L - 1 :
                    /\ a < n => strata'[a] = strata[a]
                    /\ a > n => strata'[a] = strata[a + 1]
              /\ ~strata'[n].recursive
              /\ strata'[n].members = strata[n].members \cup strata[n + 1].members
              /\ strata'[n].rules = strata[n].rules \cup strata[n + 1].rules
<1>1. PICK n \in Nat : n = next /\ n # 0
  BY DEF PassTypes
<1>2. PICK L \in Nat : L = Len(strata)
  BY PassFacts
<1> DEFINE s == strata[n]
           t == strata[n + 1]
           f == Fused(s, t)
<1>3. n + 1 \in 1 .. L /\ n \in 1 .. L /\ n \in 1 .. L - 1
  BY <1>1, <1>2, PassFacts DEF FuseStrata
<1>4. /\ Fusable(s) /\ Fusable(t) /\ ~Reads(t, s.members) /\ next' = next
      /\ strata' = [k \in 1 .. L - 1 |->
                        IF k < n THEN strata[k] ELSE IF k = n THEN f ELSE strata[k + 1]]
  BY <1>1, <1>2 DEF FuseStrata
<1>5. ~s.recursive /\ ~t.recursive
  BY <1>4 DEF Fusable
<1>6. s \in StratumType /\ t \in StratumType
  BY <1>2, <1>3, PassFacts DEF StratumType
<1>7. f \in StratumType /\ f.recursive = s.recursive
      /\ f.members = s.members \cup t.members /\ f.rules = s.rules \cup t.rules
  BY <1>6 DEF Fused, StratumType
<1> HIDE DEF f, s, t
<1>8. \A k \in 1 .. L : strata[k] \in StratumType
  BY <1>2, PassFacts DEF StratumType
<1>9. \A k \in 1 .. L - 1 : k \in 1 .. L /\ k + 1 \in 1 .. L
  BY <1>2
<1>10. strata' \in [1 .. L - 1 -> StratumType]
  BY <1>4, <1>7, <1>8, <1>9
<1>11. L - 1 \in Nat
  BY <1>3
<1>12. strata' \in Seq(StratumType) /\ Len(strata') = L - 1
  BY <1>10, <1>11
<1>13. /\ strata'[n] = f
       /\ \A a \in 1 .. L - 1 :
             /\ a < n => strata'[a] = strata[a]
             /\ a > n => strata'[a] = strata[a + 1]
  BY <1>1, <1>3, <1>4
<1>14. ~strata'[n].recursive /\ strata'[n].members = s.members \cup t.members
       /\ strata'[n].rules = s.rules \cup t.rules
  BY <1>5, <1>7, <1>13
<1> QED
  BY <1>1, <1>2, <1>3, <1>4, <1>5, <1>12, <1>13, <1>14 DEF s, t

(* Fusing two strata, or going on to the next, keeps the strata in order.  *)
LEMMA FuseKeeps ==
    ASSUME StrataInv, FuseStrata
    PROVE  StrataInv'
<1>a. /\ PassTypes /\ RulesApart /\ (Supported => StrataLayered)
      /\ \A i \in DOMAIN rules : \E s \in 1 .. Len(strata) : i \in strata[s].rules
  BY DEF StrataInv
<1>b. UNCHANGED <<rules, comps>>
  BY DEF FuseStrata
<1>c. Idb' = Idb /\ Supported' = Supported /\ StratumType' = StratumType
      /\ \A i : HeadsOf(i)' = HeadsOf(i)
  BY <1>b, GraphUnmoved DEF StratumType
<1>1. CASE strata' = strata
  <2>1. next' \in Nat \ {0}
    BY <1>a DEF PassTypes, FuseStrata
  <2>2. PassTypes' /\ RulesApart'
    BY <1>1, <1>a, <1>b, <1>c, <2>1 DEF PassTypes, RulesApart
  <2>3. Supported => StrataLayered'
    BY <1>1, <1>a, <1>b, <1>c DEF StrataLayered, Kind, Fits
  <2> QED
    BY <1>1, <1>a, <1>b, <1>c, <2>2, <2>3 DEF StrataInv
<1>2. CASE strata' # strata
  <2>1. PICK n \in Nat, L \in Nat :
              /\ L = Len(strata) /\ n = next /\ n \in 1 .. L /\ n + 1 \in 1 .. L
              /\ strata' \in Seq(StratumType) /\ Len(strata') = L - 1
              /\ next' = next
              /\ ~strata[n].recursive /\ ~strata[n + 1].recursive
              /\ ~Reads(strata[n + 1], strata[n].members)
              /\ \A a \in 1 .. L - 1 :
                    /\ a < n => strata'[a] = strata[a]
                    /\ a > n => strata'[a] = strata[a + 1]
              /\ ~strata'[n].recursive
              /\ strata'[n].members = strata[n].members \cup strata[n + 1].members
              /\ strata'[n].rules = strata[n].rules \cup strata[n + 1].rules
    BY <1>2, <1>a, FusedShape
  <2>2. PassTypes'
    BY <1>a, <1>b, <1>c, <2>1 DEF PassTypes, StratumType
  <2>3. ASSUME NEW a \in 1 .. L - 1
        PROVE  /\ \A i : i \in strata'[a].rules <=> \E b \in 1 .. L : From(n, a, b) /\ i \in strata[b].rules
               /\ \A q : q \in strata'[a].members <=> \E b \in 1 .. L : From(n, a, b) /\ q \in strata[b].members
    <3>1. CASE a < n
      <4>1. strata'[a] = strata[a] /\ \A b \in 1 .. L : From(n, a, b) <=> b = a
        BY <2>1, <3>1 DEF From
      <4>2. a \in 1 .. L
        BY <2>1
      <4> QED
        BY <4>1, <4>2
    <3>2. CASE a > n
      <4>1. strata'[a] = strata[a + 1] /\ \A b \in 1 .. L : From(n, a, b) <=> b = a + 1
        BY <2>1, <3>2 DEF From
      <4>2. a + 1 \in 1 .. L
        BY <2>1
      <4> QED
        BY <4>1, <4>2
    <3>3. CASE a = n
      <4>1. \A b \in 1 .. L : From(n, a, b) <=> b = n \/ b = n + 1
        BY <2>1, <3>3 DEF From
      <4>2. strata'[a].rules = strata[n].rules \cup strata[n + 1].rules
            /\ strata'[a].members = strata[n].members \cup strata[n + 1].members
            /\ n \in 1 .. L /\ n + 1 \in 1 .. L
        BY <2>1, <3>3
      <4> QED
        BY <4>1, <4>2
    <3> QED
      BY <2>1, <3>1, <3>2, <3>3
  <2>4. \A b \in 1 .. L : \E a \in 1 .. L - 1 : From(n, a, b)
    <3> SUFFICES ASSUME NEW b \in 1 .. L
                 PROVE  \E a \in 1 .. L - 1 : From(n, a, b)
      OBVIOUS
    <3>1. CASE b <= n
      BY <2>1, <3>1 DEF From
    <3>2. CASE b > n
      <4>1. b - 1 \in 1 .. L - 1 /\ From(n, b - 1, b)
        BY <2>1, <3>2 DEF From
      <4> QED
        BY <4>1
    <3> QED
      BY <2>1, <3>1, <3>2
  <2>5. \A a, c \in 1 .. L - 1 : \A b, d \in 1 .. L :
            From(n, a, b) /\ From(n, c, d) => (a < c => b < d) /\ (a # c => b # d)
    BY <2>1 DEF From
  <2>6. \A i \in DOMAIN rules : \E s \in 1 .. L - 1 : i \in strata'[s].rules
    <3> SUFFICES ASSUME NEW i \in DOMAIN rules
                 PROVE  \E s \in 1 .. L - 1 : i \in strata'[s].rules
      OBVIOUS
    <3>1. PICK b \in 1 .. L : i \in strata[b].rules
      BY <1>a, <2>1
    <3>2. PICK a \in 1 .. L - 1 : From(n, a, b)
      BY <2>4
    <3> QED
      BY <2>3, <3>1, <3>2
  <2>7. RulesApart'
    <3> SUFFICES ASSUME NEW a \in 1 .. L - 1, NEW c \in 1 .. L - 1, a # c,
                        NEW i \in strata'[a].rules, i \in strata'[c].rules
                 PROVE  FALSE
      BY <2>1 DEF RulesApart
    <3>1. PICK b \in 1 .. L : From(n, a, b) /\ i \in strata[b].rules
      BY <2>3
    <3>2. PICK d \in 1 .. L : From(n, c, d) /\ i \in strata[d].rules
      BY <2>3
    <3>3. b # d
      BY <2>5, <3>1, <3>2
    <3> QED
      BY <1>a, <2>1, <3>1, <3>2, <3>3 DEF RulesApart
  <2>8. ASSUME Supported
        PROVE  StrataLayered'
    <3>0. /\ Len(strata) = L
          /\ \A s \in 1 .. L : \A i \in strata[s].rules :
                /\ Kind(i, strata[s])
                /\ \A t \in 1 .. L : Fits(i, s, t)
      BY <1>a, <2>1, <2>8 DEF StrataLayered
    <3> SUFFICES ASSUME NEW a \in 1 .. L - 1, NEW i \in strata'[a].rules
                 PROVE  /\ HeadsOf(i) \subseteq strata'[a].members
                        /\ IF strata'[a].recursive THEN rules[i].pos \cap strata'[a].members # {}
                           ELSE rules[i].pos \cap strata'[a].members = {}
                        /\ \A c \in 1 .. L - 1 :
                              /\ a < c => rules[i].pos \cap strata'[c].members = {}
                              /\ a <= c => rules[i].neg \cap strata'[c].members = {}
      BY <1>b, <1>c, <2>1 DEF StrataLayered, Kind, Fits
    <3>1. PICK b \in 1 .. L : From(n, a, b) /\ i \in strata[b].rules
      BY <2>3
    <3>2. Kind(i, strata[b]) /\ \A d \in 1 .. L : Fits(i, b, d)
      BY <3>0, <3>1
    <3>3. HeadsOf(i) \subseteq strata'[a].members
      BY <2>3, <3>1, <3>2 DEF Kind
    <3>4. ASSUME NEW c \in 1 .. L - 1, a < c
          PROVE  rules[i].pos \cap strata'[c].members = {} /\ rules[i].neg \cap strata'[c].members = {}
      <4> SUFFICES ASSUME NEW q \in strata'[c].members
                   PROVE  q \notin rules[i].pos /\ q \notin rules[i].neg
        OBVIOUS
      <4>1. PICK d \in 1 .. L : From(n, c, d) /\ q \in strata[d].members
        BY <2>3
      <4>2. b < d /\ b <= d
        BY <2>5, <3>1, <3>4, <4>1
      <4> QED
        BY <3>2, <4>1, <4>2 DEF Fits
    <3>5. CASE a # n
      <4>1. strata'[a] = strata[b]
        BY <2>1, <3>1, <3>5 DEF From
      <4>2. rules[i].neg \cap strata'[a].members = {}
        BY <3>2, <4>1 DEF Fits
      <4> QED
        BY <3>2, <3>4, <4>1, <4>2 DEF Kind
    <3>6. CASE a = n
      <4>1. b = n \/ b = n + 1
        BY <2>1, <3>1, <3>6 DEF From
      <4>2. BodyRelations(i) \cap strata[n].members = {}
        <5>1. CASE b = n
          BY <2>1, <3>2, <5>1 DEF Fits, Kind, BodyRelations
        <5>2. CASE b = n + 1
          BY <2>1, <3>1, <5>2 DEF Reads
        <5> QED
          BY <4>1, <5>1, <5>2
      <4>3. BodyRelations(i) \cap strata[n + 1].members = {}
        <5>1. CASE b = n
          BY <2>1, <3>2, <5>1 DEF Fits, BodyRelations
        <5>2. CASE b = n + 1
          BY <2>1, <3>2, <5>2 DEF Fits, Kind, BodyRelations
        <5> QED
          BY <4>1, <5>1, <5>2
      <4>4. rules[i].pos \cap strata'[a].members = {} /\ rules[i].neg \cap strata'[a].members = {}
        BY <2>1, <3>6, <4>2, <4>3 DEF BodyRelations
      <4>5. ~strata'[a].recursive
        BY <2>1, <3>6
      <4> QED
        BY <3>3, <3>4, <4>4, <4>5
    <3> QED
      BY <3>5, <3>6
  <2> QED
    BY <1>b, <1>c, <2>1, <2>2, <2>6, <2>7, <2>8 DEF StrataInv
<1> QED
  BY <1>1, <1>2

(* The end of the last pass changes no stratum.                            *)
LEMMA EndFuseMakes ==
    ASSUME StrataInv, EndFuse
    PROVE  phase' = "done" /\ StrataInv'
<1>1. phase' = "done" /\ next' = 1 /\ UNCHANGED <<rules, comps, strata>>
  BY DEF EndFuse, Pass
<1>2. Idb' = Idb /\ Supported' = Supported /\ \A i : HeadsOf(i)' = HeadsOf(i)
  BY <1>1, GraphUnmoved
<1>3. PassTypes' /\ RulesApart'
  BY <1>1, <1>2 DEF StrataInv, PassTypes, RulesApart
<1>4. Supported => StrataLayered'
  BY <1>1, <1>2 DEF StrataInv, StrataLayered, Kind, Fits
<1> QED
  BY <1>1, <1>2, <1>3, <1>4 DEF StrataInv

-----------------------------------------------------------------------------
(***************************************************************************)
(* The four passes together                                                *)
(***************************************************************************)
Inv ==
    \/ phase = "search" /\ SearchInv
    \/ phase = "merge" /\ MergeInv /\ HeadsTogether(next) /\ strata = <<>>
    \/ phase = "split" /\ SplitInv
    \/ phase = "fuse" /\ StrataInv
    \/ phase = "done" /\ StrataInv

(* A step that changes nothing.                                            *)
LEMMA Unmoved == Inv /\ UNCHANGED vars => Inv'
<1> SUFFICES ASSUME Inv, UNCHANGED vars
             PROVE  Inv'
  OBVIOUS
<1>a. /\ rules' = rules /\ phase' = phase /\ index' = index /\ lowlink' = lowlink
      /\ stack' = stack /\ frames' = frames /\ comps' = comps /\ next' = next
      /\ strata' = strata
  BY DEF vars
<1>b. /\ Idb' = Idb /\ Supported' = Supported
      /\ \A q : DependsOn(q)' = DependsOn(q) /\ Reach(q)' = Reach(q)
      /\ \A q : ReachTogether(q)' = ReachTogether(q) /\ Component(q)' = Component(q)
      /\ \A q, r : ReachesOrIs(q, r)' = ReachesOrIs(q, r)
      /\ \A i : HeadsOf(i)' = HeadsOf(i)
  BY <1>a, GraphUnmoved
<1>c. Reached' = Reached /\ OnStack' = OnStack /\ Done' = Done
      /\ \A k : Upto(k)' = Upto(k)
  BY <1>a DEF Reached, OnStack, Done, Upto
<1>d. PassTypes' = PassTypes /\ Covered' = Covered /\ Disjoint' = Disjoint
  BY <1>a, <1>b DEF PassTypes, Covered, Disjoint
<1>e. Tied' = Tied /\ Ordered' = Ordered /\ SameBelow' = SameBelow
      /\ RulesApart' = RulesApart
  BY <1>a, <1>b, <1>c DEF Tied, TiedTo, Ordered, SameBelow, RulesApart
<1>f. MergeInv' = MergeInv
  BY <1>b, <1>d, <1>e DEF MergeInv
<1>g. StrataLayered' = StrataLayered
  BY <1>a, <1>b DEF StrataLayered, Kind, Fits
<1>i. HeadsTogether(next)' = HeadsTogether(next)
      /\ HeadsTogether(Len(rules) + 1)' = HeadsTogether(Len(rules) + 1)
  BY <1>a, <1>b DEF HeadsTogether
<1>1. CASE phase = "search" /\ SearchInv
  <2>1. SearchTypes' /\ Numbered' /\ Partitioned' /\ Calls' /\ Explored'
    BY <1>1, <1>a, <1>b, <1>c
    DEF SearchInv, SearchTypes, Numbered, Partitioned, Calls, Explored, Call
  <2>2. LowReached' /\ Descends' /\ Ascends' /\ LowEnough' /\ BottomUp'
    BY <1>1, <1>a, <1>b, <1>c
    DEF SearchInv, LowReached, Descends, Ascends, LowEnough, Segment, BottomUp
  <2> QED
    BY <1>1, <1>a, <2>1, <2>2 DEF Inv, SearchInv
<1>2. CASE phase = "merge" /\ MergeInv /\ HeadsTogether(next) /\ strata = <<>>
  BY <1>2, <1>a, <1>f, <1>i DEF Inv
<1>3. CASE phase = "split" /\ SplitInv
  <2>1. /\ \A s \in 1 .. Len(strata') : \E k \in 1 .. next' - 1 :
              /\ k \in 1 .. Len(comps')
              /\ strata'[s].members = comps'[k]
              /\ strata'[s].rules \subseteq RulesFor(comps[k])'
        /\ \A k \in 1 .. Len(comps') : k < next' =>
              \A i \in RulesFor(comps[k])' : \E s \in 1 .. Len(strata') : i \in strata'[s].rules
    BY <1>3, <1>a, <1>b DEF SplitInv, RulesFor
  <2>2. SplitInv'
    BY <1>3, <1>b, <1>e, <1>f, <1>g, <1>i, <2>1 DEF SplitInv
  <2> QED
    BY <1>3, <1>a, <2>2 DEF Inv
<1>4. CASE phase \in {"fuse", "done"} /\ StrataInv
  BY <1>4, <1>a, <1>b, <1>d, <1>e, <1>g DEF Inv, StrataInv
<1> QED
  BY <1>1, <1>2, <1>3, <1>4 DEF Inv

(* Every step keeps the invariant of the pass at hand, or makes that of    *)
(* the next.                                                               *)
LEMMA InvKept == Inv /\ [Next]_vars => Inv'
<1> SUFFICES ASSUME Inv, [Next]_vars
             PROVE  Inv'
  OBVIOUS
<1>1. CASE StartSearch
  BY <1>1, StartSearchKeeps DEF Inv, StartSearch
<1>2. CASE Descend
  BY <1>2, DescendKeeps DEF Inv, Descend
<1>3. CASE MeetAgain
  BY <1>3, MeetAgainKeeps DEF Inv, MeetAgain
<1>4. CASE Return
  BY <1>4, ReturnKeeps DEF Inv, Return
<1>5. CASE EndSearch
  BY <1>5, EndSearchMakes DEF Inv, EndSearch, Pass
<1>6. CASE MergeComponents
  BY <1>6, MergeKeeps DEF Inv, MergeComponents
<1>7. CASE EndMerge
  BY <1>7, EndMergeMakes DEF Inv, EndMerge, Pass
<1>8. CASE SplitComponent
  BY <1>8, SplitKeeps DEF Inv, SplitComponent
<1>9. CASE EndSplit
  BY <1>9, EndSplitMakes DEF Inv, EndSplit, Pass
<1>10. CASE FuseStrata
  BY <1>10, FuseKeeps DEF Inv, FuseStrata
<1>11. CASE EndFuse
  BY <1>11, EndFuseMakes DEF Inv, EndFuse, Pass
<1>12. CASE UNCHANGED vars
  BY <1>12, Unmoved
<1> QED
  BY <1>1, <1>2, <1>3, <1>4, <1>5, <1>6, <1>7, <1>8, <1>9, <1>10, <1>11, <1>12
  DEF Next, Terminated

(* In every pass of the stratifier over any program its invariant holds:   *)
(* Tarjan's numbers and lowlinks, then the order of the components, then   *)
(* that of the strata.                                                     *)
THEOREM InvHolds == Spec => []Inv
<1>1. Init => Inv
  BY SearchStarts DEF Inv, Init
<1> QED
  BY <1>1, InvKept, PTL DEF Spec

(* The components Tarjan's search has found are, at any time, maximal,     *)
(* disjoint and bottom-up: stratify.py's strongconnect is correct for any  *)
(* program, whatever the order of its rules and heads.                     *)
THEOREM SearchIsCorrect == Spec => []ComponentsBottomUp
<1>1. Inv => ComponentsBottomUp
  <2> SUFFICES ASSUME SearchInv, NEW k \in DOMAIN comps
               PROVE  /\ \A q \in comps[k] :
                            /\ comps[k] = Component(q)
                            /\ Reach(q) \subseteq Upto(k)
                      /\ \A j \in 1 .. k - 1 : comps[j] \cap comps[k] = {}
    BY DEF Inv, ComponentsBottomUp, Upto
  <2>1. k \in 1 .. Len(comps)
    BY SearchFacts DEF SearchInv
  <2> QED
    BY <2>1, BelowFound DEF SearchInv, BottomUp
<1> QED
  BY <1>1, InvHolds, PTL

(* Every rule of a program ends in one stratum, and in one only: merging,  *)
(* splitting and fusing lose none and double none.                         *)
THEOREM EveryRuleInOneStratum == Spec => []RulesPartitioned
<1>1. Inv => RulesPartitioned
  <2> SUFFICES ASSUME StrataInv, NEW i \in DOMAIN rules
               PROVE  Cardinality({s \in DOMAIN strata : i \in strata[s].rules}) = 1
    BY DEF Inv, RulesPartitioned
  <2>1. DOMAIN strata = 1 .. Len(strata)
    BY PassFacts DEF StrataInv
  <2>2. PICK s \in 1 .. Len(strata) : i \in strata[s].rules
    BY DEF StrataInv
  <2>3. {t \in DOMAIN strata : i \in strata[t].rules} = {s}
    BY <2>1, <2>2 DEF StrataInv, RulesApart
  <2> QED
    BY <2>3, FS_Singleton
<1> QED
  BY <1>1, InvHolds, PTL

(* Of a supported program the stratifier delivers what the proofs about    *)
(* the runner assume of the strata: SemiNaive's assumption Stratified is a *)
(* theorem about the compiler.                                             *)
THEOREM StrataAreLayered == Spec => []RunnerAssumption
<1>1. Inv => RunnerAssumption
  <2> SUFFICES ASSUME StrataInv, StrataLayered
               PROVE  Delivered!Layered
    BY DEF Inv, RunnerAssumption, StrataInv
  <2>1. DOMAIN rules = 1 .. Len(rules) /\ Len(strata) \in Nat
        /\ \A s \in 1 .. Len(strata) : strata[s].rules \subseteq DOMAIN rules
    BY PassFacts DEF StrataInv
  <2> DEFINE Body == [i \in DOMAIN rules |-> SetToSeq(rules[i].pos)]
             Negated == [i \in DOMAIN rules |-> rules[i].neg]
             Heads == [i \in DOMAIN rules |-> HeadsOf(i)]
  <2> SUFFICES ASSUME NEW s \in 1 .. Len(strata), NEW i \in strata[s].rules
               PROVE  /\ Heads[i] \subseteq strata[s].members
                      /\ \A t \in 1 .. Len(strata) : t > s =>
                            \A k \in DOMAIN Body[i] : Body[i][k] \notin strata[t].members
                      /\ \A t \in 1 .. Len(strata) : t >= s =>
                            Negated[i] \cap strata[t].members = {}
                      /\ IF strata[s].recursive
                         THEN {k \in DOMAIN Body[i] : Body[i][k] \in strata[s].members} # {}
                         ELSE \A k \in DOMAIN Body[i] : Body[i][k] \notin strata[s].members
    BY Zenon DEF Delivered!Layered, Delivered!Level, Delivered!RulesOf, Delivered!Members,
                 Delivered!Recursive, Delivered!SccClauses
  <2> DEFINE body == SetToSeq(rules[i].pos)
  <2>0. i \in DOMAIN rules /\ Heads[i] = HeadsOf(i) /\ Body[i] = body /\ Negated[i] = rules[i].neg
    BY <2>1
  <2> HIDE DEF Heads, Body, Negated
  <2>2. IsFiniteSet(rules[i].pos)
    BY <2>1, GraphTypes, FS_Subset DEF StrataInv, PassTypes
  <2>3. /\ \A k \in DOMAIN body : body[k] \in rules[i].pos
        /\ \A x \in rules[i].pos : \E k \in DOMAIN body : body[k] = x
    BY <2>2, ElementsInSequence
  <2>4. Kind(i, strata[s]) /\ \A t \in 1 .. Len(strata) : Fits(i, s, t)
    BY DEF StrataLayered
  <2> HIDE DEF body
  <2>5. \A t \in 1 .. Len(strata) : t > s =>
            \A k \in DOMAIN body : body[k] \notin strata[t].members
    BY <2>3, <2>4 DEF Fits
  <2>6. \A t \in 1 .. Len(strata) : t >= s => rules[i].neg \cap strata[t].members = {}
    BY <2>4 DEF Fits
  <2>7. HeadsOf(i) \subseteq strata[s].members
    BY <2>4 DEF Kind
  <2>8. CASE strata[s].recursive
    <3>1. rules[i].pos \cap strata[s].members # {}
      BY <2>4, <2>8 DEF Kind
    <3>2. {k \in DOMAIN body : body[k] \in strata[s].members} # {}
      BY <2>3, <3>1
    <3> QED
      BY <2>0, <2>5, <2>6, <2>7, <2>8, <3>2
  <2>9. CASE ~strata[s].recursive
    <3>1. rules[i].pos \cap strata[s].members = {}
      BY <2>4, <2>9 DEF Kind
    <3>2. \A k \in DOMAIN body : body[k] \notin strata[s].members
      BY <2>3, <3>1
    <3> QED
      BY <2>0, <2>5, <2>6, <2>7, <2>9, <3>2
  <2> QED
    BY <2>8, <2>9
<1> QED
  BY <1>1, InvHolds, PTL
=============================================================================
