----------------------------- MODULE MCIndexes -----------------------------
EXTENDS RelationIndexes

MCRow == {<<1, 2>>, <<2, 1>>, <<2, 2>>, <<3, 1>>}
Both == {<<1, 2>>, <<2, 1>>}

Stratum(builds, uses, c) == [builds |-> builds, uses |-> uses, canon |-> c]
Maintains(uses, c) == Stratum(uses, uses, c)
Reads(specs, c) == Stratum(specs, {}, c)
Derives(uses, c) == Stratum({}, uses, c)
Plan(kind, loads, strata) == [kind |-> kind, loads |-> loads, strata |-> strata]

(* Loaded rows, a fixpoint on two indexes, then a reader of the other one; *)
(* rows derived by a simple stratum first; the canonical index changing.   *)
MCPlans ==
    {Plan("sorted", 3, <<Maintains(Both, c), Reads(Both, c)>>) : c \in Both}
    \cup {Plan(kind, 0, <<Derives({c}, c), Maintains({d}, d), Reads({c}, c)>>) :
             kind \in {"sorted", "two_level"}, c \in Both, d \in Both}
    \cup {Plan("two_level", 2, <<Maintains(Both, c), Reads({c}, c)>>) : c \in Both}
=============================================================================
