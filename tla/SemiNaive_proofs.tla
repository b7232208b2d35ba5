-------------------------- MODULE SemiNaive_proofs --------------------------
(***************************************************************************)
(* Proofs about SemiNaive, for every program that DatalogProgram admits.   *)
(***************************************************************************)
EXTENDS SemiNaive, TLAPS

-----------------------------------------------------------------------------
(***************************************************************************)
(* The program                                                             *)
(***************************************************************************)

(* The parts of a stratum.                                                 *)
LEMMA StratumParts ==
    ASSUME NEW s \in Level
    PROVE  /\ RulesOf(s) \subseteq Rule
           /\ Members(s) \subseteq Relation
           /\ Recursive(s) \in BOOLEAN
<1> DEFINE Record == [recursive : BOOLEAN, members : SUBSET Relation, rules : SUBSET Rule]
<1>1. Strata \in Seq(Record)
  BY ProgramOK
<1>2. Strata[s] \in Record
  <2> HIDE DEF Record
  <2> QED
    BY <1>1 DEF Level
<1> QED
  BY <1>2 DEF RulesOf, Members, Recursive

(* The parts of a ground instance, and how they match its rule.            *)
LEMMA InstanceParts ==
    ASSUME NEW g \in Ground
    PROVE  /\ g.rule \in Rule
           /\ g.heads \subseteq Fact
           /\ DOMAIN g.pos = DOMAIN Body[g.rule]
           /\ DOMAIN g.pos \subseteq Nat \ {0}
           /\ \A i \in DOMAIN g.pos : g.pos[i] \in Fact /\ RelOf[g.pos[i]] = Body[g.rule][i]
           /\ \A f \in g.neg : RelOf[f] \in Negated[g.rule]
           /\ \A f \in g.heads : RelOf[f] \in Heads[g.rule]
<1>1. /\ g.rule \in Rule
      /\ g.heads \subseteq Fact
      /\ g.pos \in Seq(Fact)
  BY ProgramOK
<1>2. /\ Len(g.pos) = Len(Body[g.rule])
      /\ \A i \in DOMAIN g.pos : RelOf[g.pos[i]] = Body[g.rule][i]
      /\ \A f \in g.neg : RelOf[f] \in Negated[g.rule]
      /\ \A f \in g.heads : RelOf[f] \in Heads[g.rule]
  BY ProgramOK
<1>3. Body[g.rule] \in Seq(Relation)
  BY <1>1, ProgramOK
<1>4. DOMAIN g.pos = 1 .. Len(g.pos) /\ DOMAIN Body[g.rule] = 1 .. Len(Body[g.rule])
  BY <1>1, <1>3
<1> QED
  BY <1>1, <1>2, <1>4

(* A maintenance block maintains a relation of its stratum, a relation of  *)
(* a recursive stratum has one block only, and every head has a block.     *)
LEMMA BlocksOfStratum ==
    ASSUME NEW s \in Level
    PROVE  /\ \A b \in Blocks(s) : b.rel \in Members(s)
           /\ Recursive(s) => \A b, c \in Blocks(s) : b.rel = c.rel => b = c
           /\ \A r \in RulesOf(s) : \A q \in Heads[r] : \E b \in Blocks(s) : b.rel = q
<1>1. \A r \in RulesOf(s) : Heads[r] \subseteq Members(s)
  BY Stratified DEF Layered
<1>2. CASE Recursive(s)
  <2>1. Blocks(s) = {[by |-> "loop", rel |-> q] : q \in Members(s)}
    BY <1>2 DEF Blocks
  <2>2. ASSUME NEW b \in Blocks(s)
        PROVE  b.rel \in Members(s) /\ b = [by |-> "loop", rel |-> b.rel]
    BY <2>1
  <2>3. ASSUME NEW q \in Members(s)
        PROVE  \E b \in Blocks(s) : b.rel = q
    <3>1. [by |-> "loop", rel |-> q] \in Blocks(s)
      BY <2>1
    <3>2. [by |-> "loop", rel |-> q].rel = q
      OBVIOUS
    <3> QED
      BY <3>1, <3>2
  <2>4. \A b, c \in Blocks(s) : b.rel = c.rel => b = c
    BY <2>2
  <2> QED
    BY <1>1, <2>2, <2>3, <2>4
<1>3. CASE ~Recursive(s)
  <2>1. Blocks(s) = UNION {{[by |-> r, rel |-> q] : q \in Heads[r]} : r \in RulesOf(s)}
    BY <1>3 DEF Blocks
  <2>2. ASSUME NEW r \in RulesOf(s), NEW q \in Heads[r]
        PROVE  \E b \in Blocks(s) : b.rel = q
    <3>1. [by |-> r, rel |-> q] \in Blocks(s)
      BY <2>1
    <3>2. [by |-> r, rel |-> q].rel = q
      OBVIOUS
    <3> QED
      BY <3>1, <3>2
  <2>3. ASSUME NEW b \in Blocks(s)
        PROVE  b.rel \in Members(s)
    <3>1. PICK r \in RulesOf(s) : b \in {[by |-> r, rel |-> q] : q \in Heads[r]}
      BY <2>1
    <3> QED
      BY <1>1, <3>1
  <2> QED
    BY <1>3, <2>2, <2>3
<1> QED
  BY <1>2, <1>3

(* The pipelines of a stratum, and the clause each one reads as DELTA.     *)
LEMMA VariantsOfStratum ==
    ASSUME NEW s \in Level
    PROVE  /\ \A v \in Variants(s) : v.rule \in RulesOf(s)
           /\ \A r \in RulesOf(s) : \A i \in SccClauses(s, r) :
                 [rule |-> r, clause |-> i] \in Variants(s)
           /\ ~Recursive(s) => \A r \in RulesOf(s) : [rule |-> r, clause |-> 0] \in Variants(s)
<1>1. CASE Recursive(s)
  <2>1. Variants(s) = UNION {{[rule |-> r, clause |-> i] : i \in SccClauses(s, r)} : r \in RulesOf(s)}
    BY <1>1 DEF Variants
  <2>2. ASSUME NEW r \in RulesOf(s), NEW i \in SccClauses(s, r)
        PROVE  [rule |-> r, clause |-> i] \in Variants(s)
    BY <2>1
  <2>3. ASSUME NEW v \in Variants(s)
        PROVE  v.rule \in RulesOf(s)
    <3>1. PICK r \in RulesOf(s) : v \in {[rule |-> r, clause |-> i] : i \in SccClauses(s, r)}
      BY <2>1
    <3> QED
      BY <3>1
  <2> QED
    BY <1>1, <2>2, <2>3
<1>2. CASE ~Recursive(s)
  BY <1>2 DEF Variants, SccClauses
<1> QED
  BY <1>1, <1>2

(* Facts of a stratum's relations enable no instance of an earlier one.    *)
LEMMA EarlierUnaffected ==
    ASSUME NEW s \in Level, NEW t \in Level, t > s,
           NEW g \in GroundOf(s), NEW F, NEW X,
           \A f \in X : RelOf[f] \in Members(t),
           Fires(g, F \cup X)
    PROVE  Fires(g, F)
<1>1. g \in Ground /\ g.rule \in RulesOf(s)
  BY DEF GroundOf
<1>2. \A i \in DOMAIN g.pos : RelOf[g.pos[i]] \notin Members(t)
  BY <1>1, InstanceParts, Stratified DEF Layered
<1> QED
  BY <1>2 DEF Fires

(* A stratum does not negate its own relations, so what it adds takes no   *)
(* consequence away.                                                       *)
LEMMA ConsequenceGrows ==
    ASSUME NEW s \in Level, NEW F, NEW X,
           \A f \in X : RelOf[f] \in Members(s)
    PROVE  Consequence(s, F) \subseteq Consequence(s, F \cup X)
<1> SUFFICES ASSUME NEW g \in GroundOf(s), Fires(g, F)
             PROVE  Fires(g, F \cup X)
  BY DEF Consequence
<1>1. g \in Ground /\ g.rule \in RulesOf(s)
  BY DEF GroundOf
<1>2. s >= s
  BY DEF Level
<1>3. Negated[g.rule] \cap Members(s) = {}
  BY <1>1, <1>2, Stratified DEF Layered
<1>4. \A f \in g.neg : RelOf[f] \in Negated[g.rule]
  BY <1>1, InstanceParts
<1> QED
  BY <1>3, <1>4 DEF Fires

(* A consequence belongs to a relation of the stratum that has a block.    *)
LEMMA ConsequenceHasBlock ==
    ASSUME NEW s \in Level, NEW F, NEW f \in Consequence(s, F)
    PROVE  /\ f \in Fact
           /\ RelOf[f] \in Members(s)
           /\ \E b \in Blocks(s) : b.rel = RelOf[f]
<1>1. PICK g \in GroundOf(s) : f \in g.heads
  BY DEF Consequence
<1>2. g \in Ground /\ g.rule \in RulesOf(s)
  BY DEF GroundOf
<1>3. RelOf[f] \in Heads[g.rule]
  BY <1>1, <1>2, InstanceParts
<1> QED
  BY <1>2, <1>3, BlocksOfStratum, Stratified DEF Layered, Consequence

-----------------------------------------------------------------------------
(***************************************************************************)
(* Type correctness                                                        *)
(***************************************************************************)

(* Every variable keeps its type, and no pipeline or block of one stratum  *)
(* is ever pending in another.                                             *)
LEMMA TypeInit == Init => TypeOK
<1> SUFFICES ASSUME Init
             PROVE  TypeOK
  OBVIOUS
<1>1. open \in BOOLEAN /\ live \in BOOLEAN /\ exact \in BOOLEAN
  BY Zenon DEF Init
<1> QED
  BY <1>1 DEF Init, TypeOK

LEMMA FirstLevel == 1 \in Level /\ Len(Strata) \in Nat
<1>1. Strata \in Seq([recursive : BOOLEAN, members : SUBSET Relation, rules : SUBSET Rule])
      /\ Len(Strata) > 0
  BY ProgramOK
<1> QED
  BY <1>1 DEF Level

LEMMA NextStratumType ==
    ASSUME TypeOK, phase = "check", NextStratum, exact' \in BOOLEAN
    PROVE  TypeOK'
  BY FirstLevel DEF TypeOK, NextStratum, Level

LEMMA TypeNext == TypeOK /\ [Next]_vars => TypeOK'
<1> SUFFICES ASSUME TypeOK, [Next]_vars
             PROVE  TypeOK'
  OBVIOUS
<1>1. CASE UNCHANGED vars
  BY <1>1 DEF TypeOK, vars
<1>2. ASSUME NEW file \in Files \cup {{}}, Load(file)
      PROVE  TypeOK'
  BY <1>2, ProgramOK DEF TypeOK, Load
<1>3. ASSUME NEW max \in MaxIters, Run(max)
      PROVE  TypeOK'
  BY <1>3, ProgramOK, FirstLevel DEF TypeOK, Run
<1>4. CASE RunFails
  BY <1>4 DEF TypeOK, RunFails
<1>5. CASE Shutdown
  BY <1>5 DEF TypeOK, Shutdown
<1>6. CASE StartIteration
  BY <1>6 DEF TypeOK, StartIteration, caller
<1>7. ASSUME NEW v \in todo, Execute(v)
      PROVE  TypeOK'
  <2>1. Produced(v) \subseteq Fact
    BY InstanceParts DEF Produced, Outputs
  <2> QED
    BY <1>7, <2>1 DEF TypeOK, Execute, caller
<1>8. CASE StartMaintenance
  BY <1>8 DEF TypeOK, StartMaintenance, caller
<1>9. ASSUME NEW b \in todo, Maintain(b)
      PROVE  TypeOK'
  BY <1>9 DEF TypeOK, Maintain, Fresh, In, caller
<1>10. CASE EndIteration
  BY <1>10 DEF TypeOK, EndIteration, caller
<1>11. CASE Finish
  BY <1>11, NextStratumType DEF Finish, TypeOK
<1>12. CASE Converge
  BY <1>12, NextStratumType DEF Converge, TypeOK
<1>13. CASE CutOff
  BY <1>13, NextStratumType DEF CutOff, TypeOK, NoDelta
<1>14. CASE Abort
  BY <1>14 DEF TypeOK, Abort
<1> QED
  BY <1>1, <1>2, <1>3, <1>4, <1>5, <1>6, <1>7, <1>8, <1>9, <1>10, <1>11, <1>12,
     <1>13, <1>14 DEF Next, Step

(* The runner keeps the types of its state and the pending work of each    *)
(* phase within the stratum being executed.                                *)
THEOREM TypeCorrect == Spec => []TypeOK
  BY TypeInit, TypeNext, PTL DEF Spec

-----------------------------------------------------------------------------
(***************************************************************************)
(* The three versions stay consistent                                      *)
(***************************************************************************)

(* What one maintenance block does to its relation.                        *)
LEMMA BlockEffect ==
    ASSUME TypeOK, NEW b \in todo, Maintain(b)
    PROVE  /\ stratum \in Level
           /\ b \in Blocks(stratum)
           /\ b.rel \in Members(stratum)
           /\ \A f \in Fresh(b.rel) : RelOf[f] = b.rel /\ f \in newt /\ f \notin full
           /\ \A f \in newt : f \in newt' \/ f \in full'
           /\ newt' \subseteq newt
           /\ \A f \in newt' : RelOf[f] # b.rel
           /\ \A f \in delta : RelOf[f] # b.rel => f \in delta'
<1>1. stratum \in Level /\ b \in Blocks(stratum)
  BY DEF TypeOK, Maintain
<1> QED
  BY <1>1, BlocksOfStratum DEF Maintain, Fresh, In

(* A pipeline produces only consequences of FULL under its stratum: DELTA  *)
(* is part of FULL, so reading DELTA in place of FULL adds nothing.        *)
LEMMA ProducedSound ==
    ASSUME TypeOK, VersionsConsistent, phase = "run", NEW v \in todo
    PROVE  Produced(v) \subseteq Consequence(stratum, full)
<1> SUFFICES ASSUME NEW g \in Ground, g.rule = v.rule, Matches(g, v.clause)
             PROVE  g \in GroundOf(stratum) /\ Fires(g, full)
  BY InstanceParts DEF Produced, Outputs, Matches, Consequence
<1>1. stratum \in Level /\ v \in Variants(stratum)
  BY DEF TypeOK
<1>2. v.rule \in RulesOf(stratum)
  BY <1>1, VariantsOfStratum
<1>3. DeltaSource \subseteq full
  BY DEF VersionsConsistent, DeltaSource
<1>4. Fires(g, full)
  BY <1>3 DEF Matches, MatchesIn, Fires
<1> QED
  BY <1>2, <1>4 DEF GroundOf

LEMMA VersionsMaintain ==
    ASSUME TypeOK, VersionsConsistent, NEW b \in todo, Maintain(b)
    PROVE  VersionsConsistent'
<1>1. phase = "maintain" /\ phase' = "maintain" /\ stratum' = stratum /\ todo' = todo \ {b}
  BY DEF Maintain, caller
<1>2. delta' \subseteq full'
  BY <1>1 DEF Maintain, VersionsConsistent, Fresh, In
<1>3. newt \subseteq Consequence(stratum, full)
  BY <1>1 DEF VersionsConsistent
<1>4. Consequence(stratum, full) \subseteq Consequence(stratum, full \cup Fresh(b.rel))
  BY BlockEffect, ConsequenceGrows
<1>5. full' = full \cup Fresh(b.rel)
  BY DEF Maintain
<1>6. newt' \subseteq Consequence(stratum, full')
  BY <1>3, <1>4, <1>5, BlockEffect
<1>7. \A f \in newt' : \E c \in todo' : c.rel = RelOf[f]
  BY <1>1, BlockEffect DEF VersionsConsistent
<1>8. newt' \subseteq Consequence(stratum', full')
  BY <1>1, <1>6
<1> QED
  BY <1>1, <1>2, <1>7, <1>8 DEF VersionsConsistent, Consequence

LEMMA VersionsInit == Init => VersionsConsistent
  BY DEF Init, VersionsConsistent

LEMMA VersionsNext == TypeOK /\ VersionsConsistent /\ [Next]_vars => VersionsConsistent'
<1> SUFFICES ASSUME TypeOK, VersionsConsistent, [Next]_vars
             PROVE  VersionsConsistent'
  OBVIOUS
<1>1. CASE UNCHANGED vars
  BY <1>1 DEF VersionsConsistent, Consequence, vars
<1>2. ASSUME NEW file \in Files \cup {{}}, Load(file)
      PROVE  VersionsConsistent'
  BY <1>2 DEF VersionsConsistent, Load
<1>3. ASSUME NEW max \in MaxIters, Run(max)
      PROVE  VersionsConsistent'
  BY <1>3 DEF VersionsConsistent, Run
<1>4. CASE RunFails
  BY <1>4 DEF VersionsConsistent, RunFails
<1>5. CASE Shutdown
  BY <1>5 DEF VersionsConsistent, Shutdown
<1>6. CASE StartIteration
  BY <1>6 DEF VersionsConsistent, StartIteration, caller, Consequence
<1>7. ASSUME NEW v \in todo, Execute(v)
      PROVE  VersionsConsistent'
  <2>1. Produced(v) \subseteq Consequence(stratum, full)
    BY <1>7, ProducedSound DEF Execute
  <2> QED
    BY <1>7, <2>1 DEF VersionsConsistent, Execute, caller, Consequence
<1>8. CASE StartMaintenance
  <2>1. stratum \in Level /\ newt \subseteq Consequence(stratum, full)
    BY <1>8 DEF TypeOK, VersionsConsistent, StartMaintenance
  <2>2. \A f \in newt : \E b \in Blocks(stratum) : b.rel = RelOf[f]
    BY <2>1, ConsequenceHasBlock
  <2> QED
    BY <1>8, <2>2 DEF VersionsConsistent, StartMaintenance, caller, Consequence
<1>9. ASSUME NEW b \in todo, Maintain(b)
      PROVE  VersionsConsistent'
  BY <1>9, VersionsMaintain
<1>10. CASE EndIteration
  BY <1>10 DEF VersionsConsistent, EndIteration, caller, Consequence
<1>11. CASE Finish
  BY <1>11 DEF VersionsConsistent, Finish, NextStratum
<1>12. CASE Converge
  BY <1>12 DEF VersionsConsistent, Converge, NextStratum
<1>13. CASE CutOff
  BY <1>13 DEF VersionsConsistent, CutOff, NextStratum
<1>14. CASE Abort
  BY <1>14 DEF VersionsConsistent, Abort
<1> QED
  BY <1>1, <1>2, <1>3, <1>4, <1>5, <1>6, <1>7, <1>8, <1>9, <1>10, <1>11, <1>12,
     <1>13, <1>14 DEF Next, Step

-----------------------------------------------------------------------------
(***************************************************************************)
(* Semi-naive evaluation skips nothing                                     *)
(***************************************************************************)

(* When an iteration starts, an instance that fires and is not derived yet *)
(* is matched by one of the pipelines: in the first iteration by any       *)
(* pipeline of its rule, later by the one whose delta clause is new.       *)
LEMMA PipelineForInstance ==
    ASSUME TypeOK, NothingSkipped, StartIteration,
           NEW g \in GroundOf(stratum), Fires(g, full), ~(g.heads \subseteq full)
    PROVE  \E v \in Variants(stratum) : v.rule = g.rule /\ Matches(g, v.clause)
<1>1. phase = "check" /\ stratum \in Level
  BY DEF TypeOK, StartIteration
<1>2. g \in Ground /\ g.rule \in RulesOf(stratum)
  BY DEF GroundOf
<1>3. iter = 0 \/ DeltaClause(g, delta)
  BY <1>1 DEF NothingSkipped
<1>4. CASE Recursive(stratum)
  <2>1. PICK i \in SccClauses(stratum, g.rule) : iter = 0 \/ g.pos[i] \in delta
    BY <1>1, <1>2, <1>3, <1>4, Stratified DEF Layered, DeltaClause
  <2>2. Matches(g, i)
    BY <2>1 DEF Matches, MatchesIn, Fires, DeltaSource
  <2>3. [rule |-> g.rule, clause |-> i] \in Variants(stratum)
    BY <1>1, <1>2, <2>1, VariantsOfStratum
  <2> QED
    BY <2>2, <2>3
<1>5. CASE ~Recursive(stratum)
  <2>1. Matches(g, 0)
    BY <1>2, InstanceParts DEF Matches, MatchesIn, Fires
  <2>2. [rule |-> g.rule, clause |-> 0] \in Variants(stratum)
    BY <1>1, <1>2, <1>5, VariantsOfStratum
  <2> QED
    BY <2>1, <2>2
<1> QED
  BY <1>4, <1>5

LEMMA SkippedStart ==
    ASSUME TypeOK, NothingSkipped, StartIteration
    PROVE  NothingSkipped'
<1> SUFFICES ASSUME NEW g \in GroundOf(stratum), Fires(g, full), ~(g.heads \subseteq full)
             PROVE  \E v \in todo' : v.rule = g.rule /\ Matches(g, v.clause)'
  BY DEF NothingSkipped, StartIteration, caller, GroundOf, Fires
<1>1. PICK v \in Variants(stratum) : v.rule = g.rule /\ Matches(g, v.clause)
  BY PipelineForInstance
<1>2. v \in todo' /\ Matches(g, v.clause)'
  BY <1>1 DEF StartIteration, Matches, MatchesIn, DeltaSource
<1> QED
  BY <1>1, <1>2

LEMMA SkippedExecute ==
    ASSUME TypeOK, NothingSkipped, NEW v \in todo, Execute(v)
    PROVE  NothingSkipped'
<1>1. phase = "run" /\ phase' = "run" /\ stratum' = stratum /\ full' = full
  BY DEF Execute, caller
<1> SUFFICES ASSUME NEW g \in GroundOf(stratum), Fires(g, full)
             PROVE  \/ g.heads \subseteq full'
                    \/ g.heads \subseteq full' \cup newt'
                    \/ \E w \in todo' : w.rule = g.rule /\ Matches(g, w.clause)'
  BY <1>1 DEF NothingSkipped, GroundOf, Fires
<1>2. \A i : Matches(g, i)' <=> Matches(g, i)
  BY DEF Execute, Matches, MatchesIn, DeltaSource
<1>3. newt' = newt \cup Produced(v) /\ todo' = todo \ {v}
  BY DEF Execute
<1>4. \/ g.heads \subseteq full \cup newt
      \/ \E w \in todo : w.rule = g.rule /\ Matches(g, w.clause)
  BY <1>1 DEF NothingSkipped
<1>5. ASSUME g.rule = v.rule, Matches(g, v.clause)
      PROVE  g.heads \subseteq newt'
  <2>1. g \in Ground /\ g.heads \subseteq Fact
    BY InstanceParts DEF GroundOf
  <2> QED
    BY <1>3, <1>5, <2>1 DEF Produced, Outputs, Matches
<1> QED
  BY <1>1, <1>2, <1>3, <1>4, <1>5

(* One block.  An instance that fired before is still covered; one that    *)
(* fires only now has a clause fact among those just moved to DELTA, in a  *)
(* relation that has no block left.                                        *)
LEMMA SkippedMaintain ==
    ASSUME TypeOK, NothingSkipped, NEW b \in todo, Maintain(b)
    PROVE  NothingSkipped'
<1>1. phase = "maintain" /\ phase' = "maintain" /\ stratum' = stratum /\ todo' = todo \ {b}
  BY DEF Maintain, caller
<1>2. full' = full \cup Fresh(b.rel) /\ Fresh(b.rel) \subseteq delta'
  BY DEF Maintain
<1> DEFINE Moved == {f \in delta : \A c \in todo : c.rel # RelOf[f]}
           MovedNext == {f \in delta' : \A c \in todo' : c.rel # RelOf[f]}
<1> SUFFICES ASSUME NEW g \in GroundOf(stratum), Fires(g, full')
             PROVE  \/ g.heads \subseteq full' \cup newt'
                    \/ DeltaClause(g, MovedNext)
  BY <1>1 DEF NothingSkipped, GroundOf, Fires, DeltaClause
<1>3. g \in Ground /\ g.rule \in RulesOf(stratum)
  BY DEF GroundOf
<1>4. Moved \subseteq MovedNext
  BY <1>1, BlockEffect
<1>5. CASE Fires(g, full)
  <2>1. g.heads \subseteq full \cup newt \/ DeltaClause(g, Moved)
    BY <1>1, <1>5 DEF NothingSkipped
  <2>2. full \cup newt \subseteq full' \cup newt'
    BY <1>2, BlockEffect
  <2> QED
    BY <1>4, <2>1, <2>2 DEF DeltaClause
<1>6. CASE ~Fires(g, full)
  <2>1. PICK k \in DOMAIN g.pos : g.pos[k] \in Fresh(b.rel)
    BY <1>2, <1>6 DEF Fires
  <2>2. RelOf[g.pos[k]] = b.rel /\ Body[g.rule][k] = b.rel /\ k \in DOMAIN Body[g.rule]
    BY <1>3, <2>1, BlockEffect, InstanceParts
  <2>3. Recursive(stratum) /\ k \in SccClauses(stratum, g.rule)
    BY <1>3, <2>2, BlockEffect, Stratified DEF Layered, SccClauses
  <2>4. \A c \in todo' : c.rel # b.rel
    <3>1. todo \subseteq Blocks(stratum)
      BY <1>1 DEF TypeOK
    <3> QED
      BY <1>1, <2>3, <3>1, BlockEffect, BlocksOfStratum
  <2>5. g.pos[k] \in MovedNext
    BY <1>2, <2>1, <2>2, <2>4
  <2> QED
    BY <1>1, <2>3, <2>5 DEF DeltaClause
<1> QED
  BY <1>5, <1>6

LEMMA SkippedInit == Init => NothingSkipped
  BY DEF Init, NothingSkipped

LEMMA SkippedNext ==
    TypeOK /\ VersionsConsistent /\ NothingSkipped /\ [Next]_vars => NothingSkipped'
<1> SUFFICES ASSUME TypeOK, VersionsConsistent, NothingSkipped, [Next]_vars
             PROVE  NothingSkipped'
  OBVIOUS
<1>1. CASE UNCHANGED vars
  BY <1>1 DEF NothingSkipped, GroundOf, Fires, DeltaClause, Matches, MatchesIn, DeltaSource, vars
<1>2. ASSUME NEW file \in Files \cup {{}}, Load(file)
      PROVE  NothingSkipped'
  BY <1>2 DEF NothingSkipped, Load
<1>3. ASSUME NEW max \in MaxIters, Run(max)
      PROVE  NothingSkipped'
  BY <1>3 DEF NothingSkipped, Run
<1>4. CASE RunFails
  BY <1>4 DEF NothingSkipped, RunFails
<1>5. CASE Shutdown
  BY <1>5 DEF NothingSkipped, Shutdown
<1>6. CASE StartIteration
  BY <1>6, SkippedStart
<1>7. ASSUME NEW v \in todo, Execute(v)
      PROVE  NothingSkipped'
  BY <1>7, SkippedExecute
<1>8. CASE StartMaintenance
  BY <1>8 DEF NothingSkipped, StartMaintenance, caller, GroundOf, Fires
<1>9. ASSUME NEW b \in todo, Maintain(b)
      PROVE  NothingSkipped'
  BY <1>9, SkippedMaintain
<1>10. CASE EndIteration
  BY <1>10 DEF NothingSkipped, VersionsConsistent, EndIteration, caller, GroundOf,
     Fires, DeltaClause
<1>11. CASE Finish
  BY <1>11 DEF NothingSkipped, Finish, NextStratum, TypeOK
<1>12. CASE Converge
  BY <1>12 DEF NothingSkipped, Converge, NextStratum, TypeOK
<1>13. CASE CutOff
  BY <1>13 DEF NothingSkipped, CutOff, NextStratum, TypeOK
<1>14. CASE Abort
  BY <1>14 DEF NothingSkipped, Abort
<1> QED
  BY <1>1, <1>2, <1>3, <1>4, <1>5, <1>6, <1>7, <1>8, <1>9, <1>10, <1>11, <1>12,
     <1>13, <1>14 DEF Next, Step

-----------------------------------------------------------------------------
(***************************************************************************)
(* Completed strata stay closed                                            *)
(***************************************************************************)

(* A stratum that ends with no delta left is closed under its rules.       *)
LEMMA EndIsClosed ==
    ASSUME TypeOK, NothingSkipped, phase = "check", iter > 0,
           Recursive(stratum) => NoDelta
    PROVE  Closed(stratum, full)
<1> SUFFICES ASSUME NEW g \in GroundOf(stratum), Fires(g, full)
             PROVE  ~DeltaClause(g, delta)
  BY DEF Closed, NothingSkipped, TypeOK
<1>1. g \in Ground /\ g.rule \in RulesOf(stratum)
  BY DEF GroundOf
<1> QED
  BY <1>1, InstanceParts DEF DeltaClause, SccClauses, NoDelta, In

LEMMA ClosedNextStratum ==
    ASSUME TypeOK, CompletedClosed, phase = "check", NextStratum,
           exact' => exact /\ Closed(stratum, full)
    PROVE  CompletedClosed'
<1>1. stratum \in Level /\ full' = full /\ Len(Strata) \in Nat
  BY FirstLevel DEF TypeOK, NextStratum
<1> SUFFICES ASSUME exact', NEW s \in Level,
                    s < stratum' \/ (stratum' = 0 /\ status' = "ok")
             PROVE  Closed(s, full)
  BY <1>1 DEF CompletedClosed, Closed, Fires
<1>2. s < stratum \/ s = stratum
  BY <1>1 DEF NextStratum, Level
<1> QED
  BY <1>2 DEF CompletedClosed

(* What the current stratum adds triggers no rule of a completed one.      *)
LEMMA ClosedMaintain ==
    ASSUME TypeOK, CompletedClosed, NEW b \in todo, Maintain(b)
    PROVE  CompletedClosed'
<1>1. stratum \in Level /\ stratum' = stratum /\ exact' = exact /\ full' = full \cup Fresh(b.rel)
  BY BlockEffect DEF Maintain, caller
<1> SUFFICES ASSUME exact, NEW s \in Level, s < stratum,
                    NEW g \in GroundOf(s), Fires(g, full')
             PROVE  g.heads \subseteq full'
  BY <1>1 DEF CompletedClosed, Closed, Fires, Level
<1>2. Closed(s, full)
  BY DEF CompletedClosed
<1>3. \A f \in Fresh(b.rel) : RelOf[f] \in Members(stratum)
  BY BlockEffect
<1>4. stratum > s
  BY <1>1 DEF Level
<1>5. Fires(g, full)
  BY <1>1, <1>3, <1>4, EarlierUnaffected
<1> QED
  BY <1>1, <1>2, <1>5 DEF Closed

LEMMA ClosedInit == Init => CompletedClosed
  BY DEF Init, CompletedClosed, Level

LEMMA ClosedNext ==
    TypeOK /\ NothingSkipped /\ CompletedClosed /\ [Next]_vars => CompletedClosed'
<1> SUFFICES ASSUME TypeOK, NothingSkipped, CompletedClosed, [Next]_vars
             PROVE  CompletedClosed'
  OBVIOUS
<1>0. ASSUME full' = full, stratum' = stratum, status' = status, exact' = exact
      PROVE  CompletedClosed'
  BY <1>0 DEF CompletedClosed, Closed, Fires
<1>1. CASE UNCHANGED vars
  BY <1>0, <1>1 DEF vars
<1>2. ASSUME NEW file \in Files \cup {{}}, Load(file)
      PROVE  CompletedClosed'
  BY <1>0, <1>2 DEF Load
<1>3. ASSUME NEW max \in MaxIters, Run(max)
      PROVE  CompletedClosed'
  BY <1>3 DEF CompletedClosed, Run, Level
<1>4. CASE RunFails
  BY <1>4 DEF CompletedClosed, RunFails, TypeOK, Level
<1>5. CASE Shutdown
  BY <1>5 DEF CompletedClosed, Shutdown, TypeOK, Level
<1>6. CASE StartIteration
  BY <1>0, <1>6 DEF StartIteration, caller
<1>7. ASSUME NEW v \in todo, Execute(v)
      PROVE  CompletedClosed'
  BY <1>0, <1>7 DEF Execute, caller
<1>8. CASE StartMaintenance
  BY <1>0, <1>8 DEF StartMaintenance, caller
<1>9. ASSUME NEW b \in todo, Maintain(b)
      PROVE  CompletedClosed'
  BY <1>9, ClosedMaintain
<1>10. CASE EndIteration
  BY <1>0, <1>10 DEF EndIteration, caller
<1>11. CASE Finish
  BY <1>11, EndIsClosed, ClosedNextStratum DEF Finish
<1>12. CASE Converge
  BY <1>12, EndIsClosed, ClosedNextStratum DEF Converge
<1>13. CASE CutOff
  <2>1. iter > 0
    BY <1>13 DEF CutOff, TypeOK
  <2> QED
    BY <1>13, <2>1, EndIsClosed, ClosedNextStratum DEF CutOff
<1>14. CASE Abort
  BY <1>14 DEF CompletedClosed, Abort, Level
<1> QED
  BY <1>1, <1>2, <1>3, <1>4, <1>5, <1>6, <1>7, <1>8, <1>9, <1>10, <1>11, <1>12,
     <1>13, <1>14 DEF Next, Step

-----------------------------------------------------------------------------
(***************************************************************************)
(* The inductive invariant                                                 *)
(***************************************************************************)
IInv == TypeOK /\ VersionsConsistent /\ NothingSkipped /\ CompletedClosed

LEMMA IInvInit == Init => IInv
  BY TypeInit, VersionsInit, SkippedInit, ClosedInit DEF IInv

LEMMA IInvNext == IInv /\ [Next]_vars => IInv'
  BY TypeNext, VersionsNext, SkippedNext, ClosedNext DEF IInv

LEMMA IInvAlways == Spec => []IInv
  BY IInvInit, IInvNext, PTL DEF Spec

(* Throughout a run the three versions of every relation fit together.     *)
THEOREM Versions == Spec => []VersionsConsistent
  BY IInvAlways, PTL DEF IInv

(* No iteration skips a derivation, whatever the program and its data.     *)
THEOREM SemiNaiveComplete == Spec => []NothingSkipped
  BY IInvAlways, PTL DEF IInv

(* FULL is closed under every completed stratum, so a run that succeeds    *)
(* without reaching its iteration limit ends in a model of all rules.      *)
THEOREM Closure == Spec => []CompletedClosed
  BY IInvAlways, PTL DEF IInv

-----------------------------------------------------------------------------
(***************************************************************************)
(* Loaded facts, fresh deltas                                              *)
(***************************************************************************)
LEMMA InputNext == InputKept /\ [Next]_vars => InputKept'
<1> SUFFICES ASSUME InputKept, [Next]_vars
             PROVE  InputKept'
  OBVIOUS
<1>1. CASE Step
  BY <1>1 DEF InputKept, Step, StartIteration, Execute, StartMaintenance, Maintain,
     EndIteration, Finish, Converge, CutOff, NextStratum, caller
<1> QED
  BY <1>1 DEF InputKept, Next, vars, Load, Run, RunFails, Shutdown, Abort

(* A run never loses a fact it was given.                                  *)
THEOREM InputPreserved == Spec => []InputKept
<1>1. Init => InputKept
  BY DEF Init, InputKept
<1> QED
  BY <1>1, InputNext, PTL DEF Spec

LEMMA FreshStep == [Next]_vars => delta' \ delta \subseteq full' \ full
<1> SUFFICES ASSUME [Next]_vars
             PROVE  delta' \ delta \subseteq full' \ full
  OBVIOUS
<1>1. CASE Step
  BY <1>1 DEF Step, StartIteration, Execute, StartMaintenance, Maintain, Fresh,
     EndIteration, Finish, Converge, CutOff, NextStratum, caller
<1> QED
  BY <1>1 DEF Next, vars, Load, Run, RunFails, Shutdown, Abort

(* Only facts that are new to FULL ever enter DELTA.                       *)
THEOREM FreshDelta == Spec => DeltaIsFresh
  BY FreshStep, PTL DEF Spec, DeltaIsFresh

-----------------------------------------------------------------------------
(***************************************************************************)
(* Refinement of StratifiedDatalog                                         *)
(***************************************************************************)
LEMMA AbstractInit == Init => Abstract!Init
  BY DEF Init, Abstract!Init

LEMMA AbstractNextStratum ==
    ASSUME TypeOK, phase = "check", NextStratum,
           \/ Closed(stratum, full) /\ exact' = exact
           \/ Recursive(stratum) /\ exact' = FALSE
    PROVE  Abstract!Advance
<1>1. stratum > 0
  BY DEF TypeOK, Level
<1>2. Closed(stratum, full) <=> Abstract!Closed(stratum, full)
  BY DEF Closed, Abstract!Closed, GroundOf, Abstract!GroundOf, Fires, Abstract!Fires,
     RulesOf, Abstract!RulesOf
<1>3. Recursive(stratum) <=> Abstract!Recursive(stratum)
  BY DEF Recursive, Abstract!Recursive
<1>4. \/ Abstract!Closed(stratum, full) /\ exact' = exact
      \/ Abstract!Recursive(stratum) /\ exact' = FALSE
  BY <1>2, <1>3, Zenon
<1> QED
  BY <1>1, <1>4, Zenon DEF NextStratum, Abstract!Advance

(* A block moves only consequences of FULL into FULL; the other steps of   *)
(* an iteration do not touch what the caller can see.                      *)
LEMMA AbstractNext ==
    IInv /\ [Next]_vars => [Abstract!Next]_(Abstract!vars)
<1> SUFFICES ASSUME IInv, [Next]_vars
             PROVE  Abstract!Next \/ UNCHANGED Abstract!vars
  OBVIOUS
<1> USE DEF IInv
<1>1. CASE UNCHANGED vars
  BY <1>1 DEF vars, Abstract!vars
<1>2. ASSUME NEW file \in Files \cup {{}}, Load(file)
      PROVE  Abstract!Load(file)
  BY <1>2 DEF Load, Abstract!Load, TypeOK
<1>3. ASSUME NEW max \in MaxIters, Run(max)
      PROVE  Abstract!Start
  BY <1>3 DEF Run, Abstract!Start, TypeOK
<1>4. CASE RunFails
  BY <1>4 DEF RunFails, Abstract!FailStarting, Abstract!Next, TypeOK
<1>5. CASE Shutdown
  BY <1>5 DEF Shutdown, Abstract!Shutdown, Abstract!Next, TypeOK
<1>6. CASE StartIteration
  BY <1>6 DEF StartIteration, caller, Abstract!vars
<1>7. ASSUME NEW v \in todo, Execute(v)
      PROVE  UNCHANGED Abstract!vars
  BY <1>7 DEF Execute, caller, Abstract!vars
<1>8. CASE StartMaintenance
  BY <1>8 DEF StartMaintenance, caller, Abstract!vars
<1>9. ASSUME NEW b \in todo, Maintain(b)
      PROVE  Abstract!Derive
  <2>1. Fresh(b.rel) \subseteq Consequence(stratum, full)
    BY <1>9, BlockEffect DEF VersionsConsistent, Maintain
  <2>2. Consequence(stratum, full) = Abstract!Consequence(stratum, full)
    BY DEF Consequence, Abstract!Consequence, GroundOf, Abstract!GroundOf, Fires,
       Abstract!Fires, RulesOf, Abstract!RulesOf
  <2>3. stratum > 0
    BY <1>9, BlockEffect DEF Level
  <2> QED
    BY <1>9, <2>1, <2>2, <2>3 DEF Maintain, caller, Abstract!Derive
<1>10. CASE EndIteration
  BY <1>10 DEF EndIteration, caller, Abstract!vars
<1>11. CASE Finish
  <2>1. phase = "check" /\ NextStratum /\ Closed(stratum, full)
    BY <1>11, EndIsClosed DEF Finish
  <2>2. exact' = exact
    BY <1>11, Zenon DEF Finish
  <2> QED
    BY <2>1, <2>2, AbstractNextStratum, Zenon DEF Abstract!Next
<1>12. CASE Converge
  BY <1>12, EndIsClosed, AbstractNextStratum DEF Converge, Abstract!Next
<1>13. CASE CutOff
  <2>1. iter > 0 /\ phase = "check" /\ Recursive(stratum) /\ NextStratum
    BY <1>13 DEF CutOff, TypeOK
  <2>2. NoDelta => Closed(stratum, full)
    BY <2>1, EndIsClosed
  <2>3. exact' = (exact /\ NoDelta) /\ exact \in BOOLEAN
    BY <1>13 DEF CutOff, TypeOK
  <2>4. (exact' = exact /\ NoDelta) \/ exact' = FALSE
    BY <2>3, Zenon
  <2> QED
    BY <2>1, <2>2, <2>4, AbstractNextStratum DEF Abstract!Next
<1>14. CASE Abort
  <2>1. stratum > 0
    BY <1>14 DEF Abort, TypeOK, Level
  <2> QED
    BY <1>14, <2>1 DEF Abort, Abstract!FailRunning, Abstract!Next
<1> QED
  BY <1>1, <1>2, <1>3, <1>4, <1>5, <1>6, <1>7, <1>8, <1>9, <1>10, <1>11, <1>12,
     <1>13, <1>14 DEF Next, Step, Abstract!Next

(* The runner implements the promise made to its caller: every step is a   *)
(* step of StratifiedDatalog or changes nothing the caller can see.        *)
THEOREM Refinement == Spec => Implements
  BY AbstractInit, AbstractNext, IInvAlways, PTL DEF Spec, Implements, Abstract!Spec

-----------------------------------------------------------------------------
(***************************************************************************)
(* The perfect model                                                       *)
(***************************************************************************)
Promise == INSTANCE StratifiedDatalog_proofs WITH level <- stratum, facts <- full

LEMMA PromiseSpec == Abstract!Spec => Promise!Spec
<1>1. Abstract!Init => Promise!Init
  BY DEF Abstract!Init, Promise!Init
<1>2. [Abstract!Next]_(Abstract!vars) => [Promise!Next]_(Promise!vars)
  BY DEF Abstract!Next, Promise!Next, Abstract!vars, Promise!vars, Abstract!Load, Promise!Load,
     Abstract!Start, Promise!Start, Abstract!Derive, Promise!Derive, Abstract!Advance,
     Promise!Advance, Abstract!FailRunning, Promise!FailRunning, Abstract!FailStarting,
     Promise!FailStarting, Abstract!Shutdown, Promise!Shutdown, Abstract!Consequence,
     Promise!Consequence, Abstract!Closed, Promise!Closed, Abstract!GroundOf, Promise!GroundOf,
     Abstract!Fires, Promise!Fires, Abstract!RulesOf, Promise!RulesOf, Abstract!Recursive,
     Promise!Recursive
<1> QED
  BY <1>1, <1>2, PTL DEF Abstract!Spec, Promise!Spec

(* A run that succeeds without being cut short ends with FULL the perfect  *)
(* model of the facts it started from.                                     *)
THEOREM RunnerReachesModel == Spec => []Promise!EndsInPerfectModel
<1>1. Promise!Stratified
  BY Stratified DEF Layered, Promise!Layered, Level, Promise!Level, Members, Promise!Members,
     RulesOf, Promise!RulesOf, Recursive, Promise!Recursive, SccClauses, Promise!SccClauses
<1>2. Promise!ProgramOK
  BY ProgramOK
<1>3. Promise!Spec => []Promise!EndsInPerfectModel
  BY <1>1, <1>2, Promise!PerfectModelReached
<1> QED
  BY <1>3, Refinement, PromiseSpec, PTL DEF Implements
=============================================================================
