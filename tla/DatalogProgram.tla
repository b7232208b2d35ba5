--------------------------- MODULE DatalogProgram ---------------------------
(***************************************************************************)
(* A compiled Datalog program, as the generated runner sees it: relations, *)
(* rules with the relations of their body clauses and heads, the strata    *)
(* the compiler put them in, and the ground instances of the rules over a  *)
(* finite universe of facts.  What a join computes is abstracted to        *)
(* "which ground instances have all their positive facts in the versions   *)
(* the pipeline reads and none of their negated facts in FULL".            *)
(***************************************************************************)
EXTENDS Naturals, Sequences

CONSTANTS
    Relation,   \* the declared relations
    Fact,       \* the ground facts of all relations
    RelOf,      \* RelOf[f] is the relation fact f belongs to
    Rule,       \* the rules of the program
    Body,       \* Body[r] is the sequence of relations of the positive clauses
    Negated,    \* Negated[r] is the set of relations r negates
    Heads,      \* Heads[r] is the set of relations of the heads of r
    Ground,     \* ground instances: records [rule, heads, pos, neg]
    Strata,     \* sequence of records [recursive, members, rules]
    Files,      \* the contents a CSV file may have: sets of facts
    MaxIters    \* the iteration limits a caller may pass to srdatalog_run

Level == 1 .. Len(Strata)

RulesOf(s)   == Strata[s].rules
Members(s)   == Strata[s].members
Recursive(s) == Strata[s].recursive

ASSUME ProgramOK ==
    /\ RelOf \in [Fact -> Relation]
    /\ Body \in [Rule -> Seq(Relation)]
    /\ Negated \in [Rule -> SUBSET Relation]
    /\ Heads \in [Rule -> SUBSET Relation]
    /\ Strata \in Seq([recursive : BOOLEAN,
                       members : SUBSET Relation,
                       rules : SUBSET Rule])
    /\ Len(Strata) > 0
    /\ Ground \subseteq [rule : Rule, heads : SUBSET Fact,
                         pos : Seq(Fact), neg : SUBSET Fact]
    /\ \A g \in Ground :
          /\ Len(g.pos) = Len(Body[g.rule])
          /\ \A i \in DOMAIN g.pos : RelOf[g.pos[i]] = Body[g.rule][i]
          /\ \A f \in g.neg : RelOf[f] \in Negated[g.rule]
          /\ \A f \in g.heads : RelOf[f] \in Heads[g.rule]
    /\ Files \subseteq SUBSET Fact
    /\ MaxIters \subseteq Nat \ {0}

(* Positions of the positive clauses of r over relations being computed by *)
(* stratum s: the clauses that get a delta variant.                        *)
SccClauses(s, r) ==
    IF Recursive(s) THEN {i \in DOMAIN Body[r] : Body[r][i] \in Members(s)} ELSE {}

(***************************************************************************)
(* What stratification has to deliver for the runner to be correct.  It is *)
(* an assumption here: whether the compiler's stratifier delivers it is a  *)
(* question about the stratifier, not about the runner.                    *)
(***************************************************************************)
Layered ==
    \A s \in Level : \A r \in RulesOf(s) :
        /\ Heads[r] \subseteq Members(s)
        /\ \A t \in Level : t > s =>
              \A i \in DOMAIN Body[r] : Body[r][i] \notin Members(t)
        /\ \A t \in Level : t >= s => Negated[r] \cap Members(t) = {}
        /\ IF Recursive(s)
           THEN SccClauses(s, r) # {}
           ELSE \A i \in DOMAIN Body[r] : Body[r][i] \notin Members(s)

ASSUME Stratified == Layered

(* Ground instance g is satisfied by the set of facts F.                   *)
Fires(g, F) ==
    /\ \A i \in DOMAIN g.pos : g.pos[i] \in F
    /\ g.neg \cap F = {}

GroundOf(s) == {g \in Ground : g.rule \in RulesOf(s)}

(* The facts one application of the rules of stratum s derives from F.     *)
Consequence(s, F) ==
    {f \in Fact : \E g \in GroundOf(s) : Fires(g, F) /\ f \in g.heads}

(* F is closed under the rules of stratum s.                               *)
Closed(s, F) == \A g \in GroundOf(s) : Fires(g, F) => g.heads \subseteq F

(* What G adds to F are facts of stratum s, and G is closed under s.       *)
Extension(s, F, G) ==
    /\ F \subseteq G
    /\ \A f \in G \ F : RelOf[f] \in Members(s)
    /\ Closed(s, G)

LeastExtension(s, F, G) ==
    Extension(s, F, G) /\ \A H \in SUBSET Fact : Extension(s, F, H) => G \subseteq H

(* M is the perfect model of the program over F, one layer per stratum.    *)
PerfectModelOver(F, M) ==
    /\ M[0] = F
    /\ \A s \in Level : LeastExtension(s, M[s - 1], M[s])

(* The facts of relation q in a set of facts.                              *)
In(F, q) == {f \in F : RelOf[f] = q}
=============================================================================
