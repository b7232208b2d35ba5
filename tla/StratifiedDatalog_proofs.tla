---------------------- MODULE StratifiedDatalog_proofs ----------------------
(***************************************************************************)
(* What is promised to the caller of a compiled program is the perfect     *)
(* model: every run that is not cut short ends with it, for every program  *)
(* that is stratified and every database.  The argument is a sandwich:     *)
(* while stratum s is evaluated the known facts lie between layer s - 1    *)
(* and layer s of the model.  They cannot leave it above, as a rule that   *)
(* fires on them fires on layer s too: what it negates is of lower strata, *)
(* where both agree.  When they are closed they are no less than layer s.  *)
(***************************************************************************)
EXTENDS StratifiedDatalog, TLAPS

TypeOK ==
    /\ host \subseteq Fact /\ input \subseteq Fact /\ facts \subseteq Fact
    /\ level \in 0 .. Len(Strata)
    /\ level > 0 <=> status = "running"

Sandwich ==
    \A M \in Layers : PerfectModelOver(input, M) /\ exact =>
        /\ level > 0 => M[level - 1] \subseteq facts /\ facts \subseteq M[level]
        /\ level = 0 /\ status = "ok" => facts = M[Len(Strata)]

LEMMA StrataType == Len(Strata) \in Nat \ {0} /\ Level = 1 .. Len(Strata)
  BY ProgramOK DEF Level

(* A rule of stratum s negates nothing that stratum s adds.                *)
LEMMA NegatedBelow ==
    ASSUME NEW s \in Level, NEW F, NEW G, Extension(s, F, G),
           NEW g \in GroundOf(s)
    PROVE  g.neg \cap G \subseteq F
<1>1. g \in Ground /\ g.rule \in RulesOf(s)
  BY DEF GroundOf
<1>2. \A f \in g.neg : RelOf[f] \in Negated[g.rule]
  BY <1>1, ProgramOK
<1>3. s >= s
  BY DEF Level
<1>4. Negated[g.rule] \cap Members(s) = {}
  BY <1>1, <1>3, Stratified DEF Layered
<1> QED
  BY <1>2, <1>4 DEF Extension

(* Facts between F and an extension G derive nothing outside G.            *)
LEMMA ConsequenceWithin ==
    ASSUME NEW s \in Level, NEW F, NEW G, NEW H,
           Extension(s, F, G), F \subseteq H, H \subseteq G
    PROVE  Consequence(s, H) \subseteq G
<1> SUFFICES ASSUME NEW g \in GroundOf(s), Fires(g, H)
             PROVE  g.heads \subseteq G
  BY DEF Consequence
<1>1. g.neg \cap G \subseteq F
  BY NegatedBelow
<1>2. Fires(g, G)
  BY <1>1 DEF Fires
<1> QED
  BY <1>2 DEF Extension, Closed

(* Facts that are closed are no less than the least extension.             *)
LEMMA ClosedIsLeast ==
    ASSUME NEW s \in Level, NEW F, NEW G, NEW H \in SUBSET Fact,
           LeastExtension(s, F, G), F \subseteq H, H \subseteq G, Closed(s, H)
    PROVE  H = G
<1>1. Extension(s, F, H)
  BY DEF LeastExtension, Extension
<1> QED
  BY <1>1 DEF LeastExtension

(* Every stratum has a least extension: the intersection of all of them,   *)
(* of which there is one, that with every fact of the stratum.             *)
LEMMA LeastExtensionExists ==
    ASSUME NEW s \in Level, NEW F \in SUBSET Fact
    PROVE  \E G \in SUBSET Fact : LeastExtension(s, F, G)
<1> DEFINE All == F \cup {f \in Fact : RelOf[f] \in Members(s)}
           Least == {f \in All : \A H \in SUBSET Fact : Extension(s, F, H) => f \in H}
<1>1. Extension(s, F, All)
  <2>1. ASSUME NEW g \in GroundOf(s)
        PROVE  g.heads \subseteq All
    <3>1. g \in Ground /\ g.rule \in RulesOf(s)
      BY DEF GroundOf
    <3>2. g.heads \subseteq Fact /\ \A f \in g.heads : RelOf[f] \in Heads[g.rule]
      BY <3>1, ProgramOK
    <3>3. Heads[g.rule] \subseteq Members(s)
      BY <3>1, Stratified DEF Layered
    <3> QED
      BY <3>2, <3>3
  <2> QED
    BY <2>1 DEF Extension, Closed
<1>2. ASSUME NEW H \in SUBSET Fact, Extension(s, F, H)
      PROVE  Least \subseteq H
  BY <1>2
<1>3. F \subseteq Least /\ \A f \in Least \ F : RelOf[f] \in Members(s)
  BY DEF Extension
<1>4. ASSUME NEW g \in GroundOf(s), Fires(g, Least)
      PROVE  g.heads \subseteq Least
  <2>1. ASSUME NEW H \in SUBSET Fact, Extension(s, F, H)
        PROVE  g.heads \subseteq H
    <3>1. Least \subseteq H
      BY <1>2, <2>1
    <3>2. g.neg \cap H \subseteq F
      BY <2>1, NegatedBelow
    <3>3. Fires(g, H)
      BY <1>3, <1>4, <3>1, <3>2 DEF Fires
    <3> QED
      BY <2>1, <3>3 DEF Extension, Closed
  <2>2. All \in SUBSET Fact
    OBVIOUS
  <2>3. g.heads \subseteq All
    BY <1>1, <2>1, <2>2
  <2> QED
    BY <2>1, <2>3
<1>5. Extension(s, F, Least)
  BY <1>3, <1>4 DEF Extension, Closed
<1>6. Least \in SUBSET Fact
  OBVIOUS
<1> QED
  BY <1>2, <1>5, <1>6 DEF LeastExtension

-----------------------------------------------------------------------------
LEMMA TypeInit == Init => TypeOK
  BY StrataType DEF Init, TypeOK

LEMMA TypeNext == TypeOK /\ [Next]_vars => TypeOK'
<1> SUFFICES ASSUME TypeOK, [Next]_vars
             PROVE  TypeOK'
  OBVIOUS
<1> USE StrataType DEF TypeOK
<1>1. ASSUME NEW file \in Files \cup {{}}, Load(file)
      PROVE  TypeOK'
  BY <1>1, ProgramOK DEF Load
<1>2. CASE Start
  BY <1>2 DEF Start
<1>3. CASE Derive
  BY <1>3 DEF Derive, Consequence
<1>4. CASE Advance
  BY <1>4 DEF Advance
<1>5. CASE FailRunning
  BY <1>5 DEF FailRunning
<1>6. CASE FailStarting
  BY <1>6 DEF FailStarting
<1>7. CASE Shutdown
  BY <1>7 DEF Shutdown
<1>8. CASE UNCHANGED vars
  BY <1>8 DEF vars
<1> QED
  BY <1>1, <1>2, <1>3, <1>4, <1>5, <1>6, <1>7, <1>8 DEF Next

LEMMA SandwichInit == Init => Sandwich
  BY DEF Init, Sandwich

(* When the facts are closed they are layer s, and below layer s + 1.      *)
LEMMA AdvanceInside ==
    ASSUME TypeOK, Advance, NEW M \in Layers, PerfectModelOver(input, M), exact',
           exact => M[level - 1] \subseteq facts /\ facts \subseteq M[level]
    PROVE  /\ level' > 0 => M[level' - 1] \subseteq facts' /\ facts' \subseteq M[level']
           /\ level' = 0 => facts' = M[Len(Strata)]
<1>1. level \in Level /\ exact /\ Closed(level, facts)
  <2>1. exact /\ Closed(level, facts)
    BY Zenon DEF Advance
  <2> QED
    BY <2>1, StrataType DEF Advance, TypeOK
<1>2. LeastExtension(level, M[level - 1], M[level])
  BY <1>1 DEF PerfectModelOver
<1>3. facts = M[level]
  BY <1>1, <1>2, ClosedIsLeast DEF TypeOK
<1>4. CASE level = Len(Strata)
  BY <1>3, <1>4 DEF Advance
<1>5. CASE level # Len(Strata)
  <2>1. level' = level + 1 /\ facts' = facts /\ level' \in Level
    BY <1>1, <1>5, StrataType DEF Advance
  <2>2. level' - 1 = level
    BY <1>1, <2>1, StrataType
  <2>3. LeastExtension(level', M[level], M[level'])
    BY <2>1, <2>2 DEF PerfectModelOver
  <2>4. M[level] \subseteq M[level']
    BY <2>3 DEF LeastExtension, Extension
  <2>5. level' # 0
    BY <1>1, <2>1, StrataType
  <2> QED
    BY <1>3, <2>1, <2>2, <2>4, <2>5
<1> QED
  BY <1>4, <1>5

LEMMA SandwichNext == TypeOK /\ Sandwich /\ [Next]_vars => Sandwich'
<1> SUFFICES ASSUME TypeOK, Sandwich, [Next]_vars,
                    NEW M \in Layers, PerfectModelOver(input', M), exact'
             PROVE  /\ level' > 0 => M[level' - 1] \subseteq facts' /\ facts' \subseteq M[level']
                    /\ level' = 0 /\ status' = "ok" => facts' = M[Len(Strata)]
  BY DEF Sandwich, Layers, PerfectModelOver
<1> USE DEF Sandwich, TypeOK
<1>1. ASSUME NEW file \in Files \cup {{}}, Load(file)
      PROVE  level' = level /\ facts' = facts /\ status' = status /\ exact' = exact /\ input' = input
  BY <1>1 DEF Load
<1>2. CASE Start
  <2>1. 1 \in Level
    BY StrataType
  <2>2. M[0] = facts' /\ LeastExtension(1, M[0], M[1])
    BY <1>2, <2>1 DEF PerfectModelOver, Start
  <2>3. M[0] \subseteq M[1]
    BY <2>2 DEF LeastExtension, Extension
  <2> QED
    BY <1>2, <2>2, <2>3 DEF Start
<1>3. CASE Derive
  <2>1. level \in Level /\ level' = level /\ exact /\ input' = input
    BY <1>3, StrataType DEF Derive
  <2>2. M[level - 1] \subseteq facts /\ facts \subseteq M[level]
    BY <2>1, StrataType
  <2>3. Extension(level, M[level - 1], M[level])
    BY <2>1 DEF PerfectModelOver, LeastExtension
  <2>4. Consequence(level, facts) \subseteq M[level]
    BY <2>1, <2>2, <2>3, ConsequenceWithin
  <2> QED
    BY <1>3, <2>1, <2>2, <2>4, StrataType DEF Derive
<1>4. CASE Advance
  <2>1. input' = input /\ level > 0
    BY <1>4 DEF Advance
  <2> QED
    BY <1>4, <2>1, AdvanceInside
<1>5. CASE FailRunning
  BY <1>5 DEF FailRunning
<1>6. CASE FailStarting
  BY <1>6 DEF FailStarting
<1>7. CASE Shutdown
  BY <1>7 DEF Shutdown
<1>8. CASE UNCHANGED vars
  BY <1>8 DEF vars
<1> QED
  BY <1>1, <1>2, <1>3, <1>4, <1>5, <1>6, <1>7, <1>8 DEF Next

(* Every run that succeeds without being cut short ends with the perfect   *)
(* model of the facts it started from.                                     *)
THEOREM PerfectModelReached == Spec => []EndsInPerfectModel
<1>1. TypeOK /\ Sandwich => EndsInPerfectModel
  <2> SUFFICES ASSUME TypeOK, Sandwich, NEW M \in Layers, PerfectModelOver(input, M),
                      status = "ok", exact
               PROVE  facts = M[Len(Strata)]
    BY DEF EndsInPerfectModel
  <2>1. level = 0
    BY DEF TypeOK
  <2> QED
    BY <2>1 DEF Sandwich
<1> QED
  BY <1>1, TypeInit, TypeNext, SandwichInit, SandwichNext, PTL DEF Spec
=============================================================================
