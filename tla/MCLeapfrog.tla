----------------------------- MODULE MCLeapfrog -----------------------------
EXTENDS LeapfrogJoin

Ascending(n) == {d \in [1 .. n -> 1 .. 3] : SortedSpan(d)}
MCSpans == UNION {Ascending(n) : n \in 0 .. 5}

MCSearches ==
    [device |-> [lower |-> {"group", "exp", "linear"}, upper |-> {"exp", "linear", "scan"}],
     host |-> [lower |-> {"seq", "scan", "block"}, upper |-> {"skip"}]]
=============================================================================
