---------------------------- MODULE MCSemiNaive ----------------------------
(***************************************************************************)
(* A program over the nodes of a small graph that has every shape of       *)
(* stratum the runner distinguishes: a base stratum feeding a recursive    *)
(* one, mutual recursion with one and with two delta clauses per rule, and *)
(* a final stratum with a negation and a rule with two heads.              *)
(*                                                                         *)
(*    Odd(x,y)  <- Edge(x,y)                              seed             *)
(*    Even(x,z) <- Odd(x,y), Edge(y,z)                    even             *)
(*    Odd(x,z)  <- Even(x,y), Odd(y,z)                    odd              *)
(*    Only(x,y), Src(x) <- Odd(x,y), !Even(x,y)           only             *)
(***************************************************************************)
EXTENDS SemiNaive, FiniteSets

CONSTANTS Node

Pair(q) == {<<q, x, y>> : x \in Node, y \in Node}

MCRelation == {"Edge", "Odd", "Even", "Only", "Src"}
MCFact == Pair("Edge") \cup Pair("Odd") \cup Pair("Even") \cup Pair("Only")
             \cup {<<"Src", x, x>> : x \in Node}
MCRelOf == [f \in MCFact |-> f[1]]
MCRule == {"seed", "even", "odd", "only"}
MCBody == [r \in MCRule |->
    CASE r = "seed" -> <<"Edge">>
      [] r = "even" -> <<"Odd", "Edge">>
      [] r = "odd"  -> <<"Even", "Odd">>
      [] r = "only" -> <<"Odd">>]
MCNegated == [r \in MCRule |-> IF r = "only" THEN {"Even"} ELSE {}]
MCHeads == [r \in MCRule |->
    CASE r = "seed" -> {"Odd"}
      [] r = "even" -> {"Even"}
      [] r = "odd"  -> {"Odd"}
      [] r = "only" -> {"Only", "Src"}]

Inst(r, heads, pos, neg) == [rule |-> r, heads |-> heads, pos |-> pos, neg |-> neg]

MCGround ==
    {Inst("seed", {<<"Odd", x, y>>}, <<<<"Edge", x, y>>>>, {})
        : x \in Node, y \in Node}
    \cup {Inst("even", {<<"Even", x, z>>}, <<<<"Odd", x, y>>, <<"Edge", y, z>>>>, {})
        : x \in Node, y \in Node, z \in Node}
    \cup {Inst("odd", {<<"Odd", x, z>>}, <<<<"Even", x, y>>, <<"Odd", y, z>>>>, {})
        : x \in Node, y \in Node, z \in Node}
    \cup {Inst("only", {<<"Only", x, y>>, <<"Src", x, x>>}, <<<<"Odd", x, y>>>>,
               {<<"Even", x, y>>})
        : x \in Node, y \in Node}

MCStrata == <<
    [recursive |-> FALSE, members |-> {"Odd", "Even"}, rules |-> {"seed"}],
    [recursive |-> TRUE, members |-> {"Odd", "Even"}, rules |-> {"even", "odd"}],
    [recursive |-> FALSE, members |-> {"Only", "Src"}, rules |-> {"only"}] >>

Edges(E) == {<<"Edge", e[1], e[2]>> : e \in E}

(* A path, the edge that closes it to a cycle, and a shortcut.             *)
MCFiles == {Edges({<<1, 2>>, <<2, 3>>}), Edges({<<3, 1>>}), Edges({<<1, 3>>, <<1, 2>>})}

MCMaxIters == {1, 2, 20}

-----------------------------------------------------------------------------
(* The perfect model of the program over the facts F: naive evaluation of  *)
(* each stratum to its fixpoint, in order.                                 *)
RECURSIVE Fixpoint(_, _)
Fixpoint(s, F) ==
    LET G == F \cup Consequence(s, F) IN IF G = F THEN F ELSE Fixpoint(s, G)

RECURSIVE Evaluate(_, _)
Evaluate(s, F) == IF s > Len(Strata) THEN F ELSE Evaluate(s + 1, Fixpoint(s, F))

PerfectModel == [E \in {UNION S : S \in SUBSET Files} |-> Evaluate(1, E)]

(* A run that succeeds without being cut short computes exactly the        *)
(* perfect model of the facts it was given; one that is cut short or fails *)
(* computes nothing that is not in it, up to the strata with negation.     *)
ResultIsPerfectModel ==
    /\ status = "ok" /\ exact => full = PerfectModel[input]
    /\ {f \in full : f[1] \in {"Edge", "Odd", "Even"}} \subseteq PerfectModel[input]
=============================================================================
