----------------------------- MODULE MCStratify -----------------------------
(***************************************************************************)
(* All programs of three rules over three relations 1, 2, 3, each rule     *)
(* with one head or with two, and a body that reads at most two of them or *)
(* negates one.                                                            *)
(***************************************************************************)
EXTENDS Stratify

Rule(heads, pos, neg) == [heads |-> heads, pos |-> pos, neg |-> neg]

Bodies == {<<pos, {}>> : pos \in {S \in SUBSET Rel : Cardinality(S) <= 2}}
             \cup {<<{}, {q}>> : q \in Rel}

OneHead == {Rule(<<q>>, body[1], body[2]) : q \in Rel, body \in Bodies}
TwoHeads == {Rule(SetToSortSeq(S, <), pos, {}) : S \in kSubset(2, Rel), pos \in {{}} \cup kSubset(1, Rel)}

AllPrograms == [1 .. 3 -> OneHead \cup TwoHeads]
=============================================================================
