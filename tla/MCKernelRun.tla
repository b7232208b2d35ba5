---------------------------- MODULE MCKernelRun ----------------------------
EXTENDS KernelRun

MCHead(v) == (v + 1) \div 2
MCSlot(t) == 0
MCLeads(w) == TRUE

Mode(work, out) == [work |-> work, out |-> out]
MCModes ==
    {Mode("static", "counted"), Mode("static", "speculative"), Mode("static", "dedup"),
     Mode("queue", "chunked"), Mode("board", "coalesced"), Mode("fanout", "preassigned")}

Ascending(n) == {d \in [1 .. n -> 1 .. 3] : \A i, j \in 1 .. n : i < j => d[i] <= d[j]}
Upto(n) == [i \in 1 .. n |-> i]
MCColumnsFor(m) ==
    IF m.work = "queue" THEN Ascending(4)
    ELSE IF m.work = "fanout" THEN {Upto(n) : n \in 0 .. 3}
    ELSE IF m.work = "board" THEN {Upto(n) : n \in {0, 1, 6}}
    ELSE {Upto(n) : n \in 0 .. 4}

(* What the proof of Delivered assumes holds of these instances.           *)
ASSUME DedupAssumption == DedupSupported
=============================================================================
