-------------------------- MODULE MCIndexedRunner --------------------------
(***************************************************************************)
(* A program whose strata read the same relations through different        *)
(* indexes, so that some indexes are maintained in one stratum and stale   *)
(* in the next.  The access patterns are those the compiler's planner      *)
(* chooses for it; 0 is column order (0, 1) and 1 is (1, 0); Src has one   *)
(* column and only index 0.                                                *)
(*                                                                         *)
(*    Path(x,y) <- Edge(x,y)                 base                          *)
(*    Path(x,z) <- Path(x,y), Edge(y,z)      tc       fixpoint, join       *)
(*    Conn(x,y) <- Edge(x,y)                 conn                          *)
(*    Conn(y,x) <- Conn(x,y)                 sym      fixpoint, scan       *)
(*    Back(x,y) <- Path(y,x), Edge(x,y)      back                          *)
(*    Back(x,y) <- Conn(x,y), !Path(x,y)     anti                          *)
(*    Odd(x,y)  <- Edge(x,y)                 seed                          *)
(*    Even(x,z) <- Odd(x,y), Odd(y,z)        even     one fixpoint with    *)
(*    Odd(x,z)  <- Even(x,y), Odd(y,z), !Conn(z,x)                odd      *)
(*    Only(x,y), Src(x) <- Odd(x,y), !Even(x,y)       only                 *)
(*                                                                         *)
(* In the last fixpoint every clause is a delta.  Odd is read through two  *)
(* indexes in both versions, so both are merged; Even's second index is    *)
(* first read after the fixpoint, by a negation; the negation in that      *)
(* fixpoint reads Conn through an index the fixpoint of Conn left behind.  *)
(***************************************************************************)
EXTENDS IndexedRunner

CONSTANTS Node

Pair(q) == {<<q, x, y>> : x \in Node, y \in Node}

MCRelation == {"Edge", "Path", "Conn", "Back", "Odd", "Even", "Only", "Src"}
MCFact == UNION {Pair(q) : q \in MCRelation \ {"Src"}} \cup {<<"Src", x, x>> : x \in Node}
MCRelOf == [f \in MCFact |-> f[1]]

MCBody == [base |-> <<"Edge">>, tc |-> <<"Path", "Edge">>, conn |-> <<"Edge">>,
           sym |-> <<"Conn">>, back |-> <<"Path", "Edge">>, anti |-> <<"Conn">>,
           seed |-> <<"Edge">>, even |-> <<"Odd", "Odd">>, odd |-> <<"Even", "Odd">>,
           only |-> <<"Odd">>]
MCRule == DOMAIN MCBody
MCNegated == [r \in MCRule |->
    CASE r = "anti" -> {"Path"} [] r = "odd" -> {"Conn"} [] r = "only" -> {"Even"} [] OTHER -> {}]
MCHeads == [base |-> {"Path"}, tc |-> {"Path"}, conn |-> {"Conn"}, sym |-> {"Conn"},
            back |-> {"Back"}, anti |-> {"Back"}, seed |-> {"Odd"}, even |-> {"Even"},
            odd |-> {"Odd"}, only |-> {"Only", "Src"}]

Inst(r, heads, pos, neg) == [rule |-> r, heads |-> heads, pos |-> pos, neg |-> neg]

MCGround ==
    UNION {{Inst("base", {<<"Path", x, y>>}, <<<<"Edge", x, y>>>>, {}),
            Inst("conn", {<<"Conn", x, y>>}, <<<<"Edge", x, y>>>>, {}),
            Inst("sym", {<<"Conn", y, x>>}, <<<<"Conn", x, y>>>>, {}),
            Inst("back", {<<"Back", x, y>>}, <<<<"Path", y, x>>, <<"Edge", x, y>>>>, {}),
            Inst("anti", {<<"Back", x, y>>}, <<<<"Conn", x, y>>>>, {<<"Path", x, y>>}),
            Inst("seed", {<<"Odd", x, y>>}, <<<<"Edge", x, y>>>>, {}),
            Inst("only", {<<"Only", x, y>>, <<"Src", x, x>>}, <<<<"Odd", x, y>>>>,
                 {<<"Even", x, y>>})}
           : x \in Node, y \in Node}
    \cup
    UNION {{Inst("tc", {<<"Path", x, z>>}, <<<<"Path", x, y>>, <<"Edge", y, z>>>>, {}),
            Inst("even", {<<"Even", x, z>>}, <<<<"Odd", x, y>>, <<"Odd", y, z>>>>, {}),
            Inst("odd", {<<"Odd", x, z>>}, <<<<"Even", x, y>>, <<"Odd", y, z>>>>,
                 {<<"Conn", z, x>>})}
           : x \in Node, y \in Node, z \in Node}

Stratum(recursive, members, rules) ==
    [recursive |-> recursive, members |-> members, rules |-> rules]

MCStrata == <<
    Stratum(FALSE, {"Path"}, {"base"}), Stratum(TRUE, {"Path"}, {"tc"}),
    Stratum(FALSE, {"Conn"}, {"conn"}), Stratum(TRUE, {"Conn"}, {"sym"}),
    Stratum(FALSE, {"Back"}, {"back", "anti"}),
    Stratum(FALSE, {"Odd", "Even"}, {"seed"}), Stratum(TRUE, {"Odd", "Even"}, {"even", "odd"}),
    Stratum(FALSE, {"Only", "Src"}, {"only"}) >>

(* The clause with the delta version comes first and the other one is      *)
(* joined on the shared variable; a negation is looked up in the order in  *)
(* which its variables are bound.                                          *)
Variant(r, i) == [rule |-> r, clause |-> i]
MCVariants == {Variant(r, 0) : r \in {"base", "conn", "back", "anti", "seed", "only"}}
    \cup {Variant("tc", 1), Variant("sym", 1)}
    \cup {Variant(r, i) : r \in {"even", "odd"}, i \in {1, 2}}

MCAccess == [v \in MCVariants |->
    CASE v.rule \in {"tc", "even", "odd"} -> <<1, 0>> [] v.rule = "back" -> <<0, 1>>
      [] OTHER -> <<0>>]
MCNegAccess == [v \in MCVariants |-> [q \in MCNegated[v.rule] |->
    IF v = Variant("odd", 1) THEN 1 ELSE 0]]

Block(by, q) == [by |-> by, rel |-> q]
MCBlockOrder == <<
    <<Block("base", "Path")>>, <<Block("loop", "Path")>>, <<Block("conn", "Conn")>>,
    <<Block("loop", "Conn")>>, <<Block("back", "Back"), Block("anti", "Back")>>,
    <<Block("seed", "Odd")>>, <<Block("loop", "Even"), Block("loop", "Odd")>>,
    <<Block("only", "Only"), Block("only", "Src")>> >>

MCFiles == {{<<"Edge", 1, 2>>, <<"Edge", 2, 3>>}, {<<"Edge", 3, 1>>, <<"Edge", 3, 4>>}}

(* This program is one the theorems speak of.                              *)
ASSUME ProgramIsSupported == IndexedSupported
=============================================================================
