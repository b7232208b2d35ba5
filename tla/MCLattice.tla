------------------------------ MODULE MCLattice ------------------------------
(***************************************************************************)
(* Rules that copy, weaken and combine values around a cycle of keys, read *)
(* through two indexes, over intervals and over ranked witnesses.          *)
(***************************************************************************)
EXTENDS LatticeFixpoint

Copy(from, via, to) ==
    [reads |-> <<from>>, via |-> <<via>>, to |-> to,
     value |-> [a \in {<<v>> : v \in Value} |-> a[1]]]
Weaken(from, via, to) ==
    [reads |-> <<from>>, via |-> <<via>>, to |-> to,
     value |-> [a \in {<<v>> : v \in Interval} |-> <<IF a[1][1] = 0 THEN 0 ELSE a[1][1] - 1, a[1][2]>>]]
Both(one, via1, two, via2, to) ==
    [reads |-> <<one, two>>, via |-> <<via1, via2>>, to |-> to,
     value |-> [a \in Interval \X Interval |-> IntervalMeetTuple(a[1], a[2])]]
Either(one, via1, two, via2, to) ==
    [reads |-> <<one, two>>, via |-> <<via1, via2>>, to |-> to,
     value |-> [a \in RankedPair \X RankedPair |-> MaxLowerFirstRankTuple(a[1], a[2])]]

OverIntervals == <<Copy(1, "by_node", 2), Weaken(2, "canonical", 3), Copy(3, "by_node", 1),
                   Both(3, "by_node", 1, "canonical", 2), Both(2, "canonical", 4, "by_node", 3)>>
OverRanks == <<Copy(1, "by_node", 2), Copy(2, "canonical", 3), Copy(3, "by_node", 1),
               Either(2, "by_node", 4, "canonical", 1)>>

(* The last one is a cycle read in version DELTA only.                     *)
MCPrograms == <<OverIntervals, OverRanks, <<Copy(1, "by_node", 2), Copy(2, "by_node", 1)>>>>

Assignments(keys, values) == {{<<k, f[k]>> : k \in keys} : f \in [keys -> values]}

MCProblems ==
    {[program |-> 1, rows |-> rows] :
        rows \in UNION {Assignments(keys, {<<0, 2>>, <<1, 2>>, <<2, 2>>, <<0, 1>>}) :
                            keys \in {{}, {1}, {1, 2}, {1, 3}, {2, 4}, {1, 3, 4}}}}
    \cup {[program |-> 2, rows |-> rows] :
        rows \in UNION {Assignments(keys, {<<0, 1, 2>>, <<1, 2, 2>>, <<2, 1, 1>>}) :
                            keys \in {{1}, {1, 2}, {1, 2, 4}}}}

DeltaOnly == {[program |-> 3,
               rows |-> {<<1, <<0, 1>>>>, <<2, <<1, 2>>>>}]}
=============================================================================
