------------------------------ MODULE Stratify ------------------------------
(***************************************************************************)
(* The compiler's stratification: rules in, strata out.  Relations that    *)
(* are heads depend on the relations their rules read.  Tarjan's algorithm *)
(* finds the strongly connected components of that graph; components that  *)
(* share a rule with several heads are merged; a recursive component       *)
(* becomes a stratum of the rules that do not read it, run once, and one   *)
(* of the rules that do, run as a fixpoint; neighbouring strata without    *)
(* recursion are fused.  Relations that are no heads play no role.         *)
(*                                                                         *)
(* Tarjan's algorithm is a machine here, with the frames of its recursive  *)
(* procedure on a stack; in the passes after it, a turn of a loop over     *)
(* rules, components or strata is an action.                               *)
(*                                                                         *)
(* D_Fault is definition D with a plausible mistake, see SemiNaive.        *)
(***************************************************************************)
EXTENDS Integers, Sequences, FiniteSets, SequencesExt, FiniteSetsExt

CONSTANTS
    Rel,       \* relations, as numbers: their alphabetical order
    Programs   \* sequences of rules [heads, pos, neg]; an aggregate is in neg

ASSUME ProgramsOK ==
    /\ Rel \subseteq Nat /\ IsFiniteSet(Rel)
    /\ Programs \subseteq Seq([heads : Seq(Rel), pos : SUBSET Rel, neg : SUBSET Rel])
    /\ \A rules \in Programs : \A i \in DOMAIN rules : rules[i].heads # <<>>

VARIABLES
    rules,    \* the program
    phase,    \* the pass at hand
    index,    \* index[q]: when q was reached; its domain is what was
    lowlink,  \* lowlink[q]: the lowest index known to be reachable from q
    stack,    \* relations reached and not yet in a component
    frames,   \* calls in progress: [rel, left]
    comps,    \* components found so far, in order
    next,     \* the rule, component or stratum a pass is at
    strata    \* result: sequence of [recursive, members, rules]

vars == <<rules, phase, index, lowlink, stack, frames, comps, next, strata>>
tarjan == <<index, lowlink, stack, frames>>

HeadsOf(i) == ToSet(rules[i].heads)
Idb == UNION {HeadsOf(i) : i \in DOMAIN rules}
BodyRelations(i) == rules[i].pos \cup rules[i].neg

DependsOn(q) ==
    Idb \cap UNION {BodyRelations(i) : i \in {k \in DOMAIN rules : q \in HeadsOf(k)}}

-----------------------------------------------------------------------------
Init ==
    /\ rules \in Programs
    /\ phase = "search"
    /\ index = <<>> /\ lowlink = <<>> /\ stack = <<>> /\ frames = <<>>
    /\ comps = <<>> /\ strata = <<>> /\ next = 1

Reached == DOMAIN index

(* A call of strongconnect: q gets the next index and goes on the stack.   *)
Enter(q) ==
    /\ index' = [r \in Reached \cup {q} |-> IF r = q THEN Cardinality(Reached) ELSE index[r]]
    /\ lowlink' = [r \in Reached \cup {q} |-> IF r = q THEN Cardinality(Reached) ELSE lowlink[r]]
    /\ stack' = Append(stack, q)

Frame(q) == [rel |-> q, left |-> DependsOn(q)]

(* The next head, in the order of the rules, that was not reached yet.     *)
Unreached(i) == {k \in DOMAIN rules[i].heads : rules[i].heads[k] \notin Reached}
WithRoots == {i \in DOMAIN rules : Unreached(i) # {}}
Root == LET i == Min(WithRoots) IN rules[i].heads[Min(Unreached(i))]

StartSearch ==
    /\ phase = "search" /\ frames = <<>>
    /\ WithRoots # {}
    /\ Enter(Root)
    /\ frames' = <<Frame(Root)>>
    /\ UNCHANGED <<rules, phase, comps, next, strata>>

Caller == Last(frames).rel
Neighbour == Min(Last(frames).left)
Resumed == Append(Front(frames), [Last(frames) EXCEPT !.left = @ \ {Neighbour}])

Least(a, b) == IF a < b THEN a ELSE b

Descend ==
    /\ phase = "search" /\ frames # <<>> /\ Last(frames).left # {}
    /\ Neighbour \notin Reached
    /\ Enter(Neighbour)
    /\ frames' = Append(Resumed, Frame(Neighbour))
    /\ UNCHANGED <<rules, phase, comps, next, strata>>

MeetAgain_EvenIfDone ==
    /\ phase = "search" /\ frames # <<>> /\ Last(frames).left # {}
    /\ Neighbour \in Reached
    /\ lowlink' = [lowlink EXCEPT ![Caller] = Least(@, index[Neighbour])]
    /\ frames' = Resumed
    /\ UNCHANGED <<rules, phase, index, stack, comps, next, strata>>

(* A neighbour that was reached before counts only while on the stack.     *)
MeetAgain ==
    /\ phase = "search" /\ frames # <<>> /\ Last(frames).left # {}
    /\ Neighbour \in Reached
    /\ lowlink' = IF Neighbour \in ToSet(stack)
                  THEN [lowlink EXCEPT ![Caller] = Least(@, index[Neighbour])]
                  ELSE lowlink
    /\ frames' = Resumed
    /\ UNCHANGED <<rules, phase, index, stack, comps, next, strata>>

(* The end of a call: the root of a component and what is above it on the  *)
(* stack are that component; the caller's lowlink is lowered.              *)
Return ==
    /\ phase = "search" /\ frames # <<>> /\ Last(frames).left = {}
    /\ LET root == CHOOSE k \in DOMAIN stack : stack[k] = Caller
       IN  IF lowlink[Caller] = index[Caller]
           THEN /\ comps' = Append(comps, {stack[k] : k \in root .. Len(stack)})
                /\ stack' = SubSeq(stack, 1, root - 1)
           ELSE UNCHANGED <<comps, stack>>
    /\ frames' = Front(frames)
    /\ lowlink' = IF Len(frames) = 1 THEN lowlink
                  ELSE LET parent == frames[Len(frames) - 1].rel
                       IN  [lowlink EXCEPT ![parent] = Least(@, lowlink[Caller])]
    /\ UNCHANGED <<rules, phase, index, next, strata>>

Pass(from, to) == phase = from /\ phase' = to /\ next' = 1

EndSearch ==
    /\ Pass("search", "merge") /\ frames = <<>> /\ WithRoots = {}
    /\ UNCHANGED <<rules, tarjan, comps, strata>>

MergeComponents_Forgotten ==
    /\ phase = "merge" /\ next \in DOMAIN rules
    /\ next' = next + 1
    /\ UNCHANGED <<rules, phase, tarjan, comps, strata>>

(* The components of the heads of one rule become one, in the place of the *)
(* first of them.  The others are left empty, and give no stratum.         *)
MergeComponents ==
    /\ phase = "merge" /\ next \in DOMAIN rules
    /\ LET hit == {k \in DOMAIN comps : comps[k] \cap HeadsOf(next) # {}}
       IN  comps' = [k \in DOMAIN comps |->
                        IF k \notin hit THEN comps[k]
                        ELSE IF k = Min(hit) THEN UNION {comps[j] : j \in hit} ELSE {}]
    /\ next' = next + 1
    /\ UNCHANGED <<rules, phase, tarjan, strata>>

EndMerge ==
    /\ Pass("merge", "split") /\ next \notin DOMAIN rules
    /\ UNCHANGED <<rules, tarjan, comps, strata>>

Recursive(c) == Cardinality(c) > 1 \/ \E q \in c : q \in DependsOn(q)

(* A stratum, if it has rules.                                             *)
Stratum(recursive, c, is) ==
    IF is = {} THEN <<>> ELSE <<[recursive |-> recursive, members |-> c, rules |-> is]>>

RulesFor(c) == {i \in DOMAIN rules : HeadsOf(i) \cap c # {}}

(* A recursive component gives the rules that do not read it a stratum of  *)
(* their own, before the fixpoint.                                         *)
StrataOf(c) ==
    LET loop == {i \in RulesFor(c) : BodyRelations(i) \cap c # {}}
    IN  IF Recursive(c) THEN Stratum(FALSE, c, RulesFor(c) \ loop) \o Stratum(TRUE, c, loop)
                        ELSE Stratum(FALSE, c, RulesFor(c))

SplitComponent ==
    /\ phase = "split" /\ next \in DOMAIN comps
    /\ strata' = strata \o StrataOf(comps[next])
    /\ next' = next + 1
    /\ UNCHANGED <<rules, phase, tarjan, comps>>

EndSplit ==
    /\ Pass("split", "fuse") /\ next \notin DOMAIN comps
    /\ UNCHANGED <<rules, tarjan, comps, strata>>

InLoops == UNION {s.members : s \in {t \in ToSet(strata) : t.recursive}}

(* The base stratum of a recursive component is not fused with others.     *)
Fusable(s) == ~s.recursive /\ s.members \cap InLoops = {}

Reads_PositiveOnly(s, produced) == \E i \in s.rules : rules[i].pos \cap produced # {}

Reads(s, produced) == \E i \in s.rules : BodyRelations(i) \cap produced # {}

Fused(s, t) == [s EXCEPT !.members = @ \cup t.members, !.rules = @ \cup t.rules]

(* A stratum takes in the next one, and stays where it is, or is done.     *)
FuseStrata ==
    /\ phase = "fuse" /\ next + 1 \in DOMAIN strata
    /\ LET s == strata[next]
           t == strata[next + 1]
       IN  IF Fusable(s) /\ Fusable(t) /\ ~Reads(t, s.members)
           THEN /\ strata' = [k \in 1 .. Len(strata) - 1 |->
                                  IF k < next THEN strata[k]
                                  ELSE IF k = next THEN Fused(s, t) ELSE strata[k + 1]]
                /\ UNCHANGED next
           ELSE next' = next + 1 /\ UNCHANGED strata
    /\ UNCHANGED <<rules, phase, tarjan, comps>>

EndFuse ==
    /\ Pass("fuse", "done") /\ next + 1 \notin DOMAIN strata
    /\ UNCHANGED <<rules, tarjan, comps, strata>>

Terminated == phase = "done" /\ UNCHANGED vars

Next ==
    \/ StartSearch
    \/ Descend
    \/ MeetAgain
    \/ Return
    \/ EndSearch
    \/ MergeComponents
    \/ EndMerge
    \/ SplitComponent
    \/ EndSplit
    \/ FuseStrata
    \/ EndFuse
    \/ Terminated

Spec == Init /\ [][Next]_vars

-----------------------------------------------------------------------------
(***************************************************************************)
(* Properties                                                              *)
(***************************************************************************)

(* Reference: what a relation depends on, directly or not, is the least    *)
(* set with what it depends on that is closed under dependencies.          *)
ClosedFor(S, D(_)) == \A r \in S : D(r) \subseteq S
LeastClosed(q, D(_)) ==
    {r \in Idb : \A S \in SUBSET Idb : D(q) \subseteq S /\ ClosedFor(S, D) => r \in S}

Reach(q) == LeastClosed(q, DependsOn)
Component(q) == {q} \cup {r \in Reach(q) : q \in Reach(r)}

(* Tarjan's search has found, at any time, components that are maximal,    *)
(* disjoint and bottom-up, in any order of rules and heads.                *)
ComponentsBottomUp ==
    phase = "search" => \A k \in DOMAIN comps :
        /\ \A q \in comps[k] :
              /\ comps[k] = Component(q)
              /\ Reach(q) \subseteq UNION {comps[j] : j \in 1 .. k}
        /\ \A j \in 1 .. k - 1 : comps[j] \cap comps[k] = {}

(* Every rule is in exactly one stratum, also a rule with several heads.   *)
RulesPartitioned ==
    phase = "done" => \A i \in DOMAIN rules :
        Cardinality({s \in DOMAIN strata : i \in strata[s].rules}) = 1

(* Programs the stratifier is made for.  The heads of a rule are computed  *)
(* together, so each depends on the others.  Taking that into account, no  *)
(* head depends on itself through a negation; and the heads of a rule      *)
(* depend on the same other relations.                                     *)
ComputedWith(q) ==
    DependsOn(q) \cup UNION {HeadsOf(i) : i \in {k \in DOMAIN rules : q \in HeadsOf(k)}}

Supported == \A i \in DOMAIN rules : \A q \in HeadsOf(i) :
    /\ \A r \in rules[i].neg : q # r /\ q \notin LeastClosed(r, ComputedWith)
    /\ \A r \in HeadsOf(i) : Reach(q) \ HeadsOf(i) = Reach(r) \ HeadsOf(i)

(* What stratification delivers is what the runner assumes: the assumption *)
(* Stratified of DatalogProgram holds of its result.  A rule reads and     *)
(* negates nothing that is computed later, negates nothing that is         *)
(* computed with it, and has a delta clause if it is in a fixpoint.        *)
Delivered == INSTANCE DatalogProgram WITH
    Relation <- Rel, Fact <- {}, RelOf <- <<>>, Rule <- DOMAIN rules,
    Body <- [i \in DOMAIN rules |-> SetToSeq(rules[i].pos)],
    Negated <- [i \in DOMAIN rules |-> rules[i].neg],
    Heads <- [i \in DOMAIN rules |-> HeadsOf(i)],
    Ground <- {}, Strata <- strata, Files <- {}, MaxIters <- {}

RunnerAssumption == phase = "done" /\ Supported => Delivered!Layered
=============================================================================
