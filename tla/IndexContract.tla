--------------------------- MODULE IndexContract ---------------------------
(***************************************************************************)
(* What the rest of the runner relies on, whatever kind of index a         *)
(* relation has: between two passes, a relation is a set of rows; a pass   *)
(* adds the rows of its batch and calls fresh exactly those that were not  *)
(* there.                                                                  *)
(***************************************************************************)
CONSTANT Row

VARIABLES
    held,   \* the rows of FULL
    fresh   \* the rows of DELTA

Init == held = {} /\ fresh = {}

Load(rows) ==
    /\ held' = held \cup rows
    /\ UNCHANGED fresh

Pass(batch) ==
    /\ fresh' = batch \ held
    /\ held' = held \cup batch

Settle ==
    /\ fresh' = {}
    /\ UNCHANGED held

Next == Settle \/ \E rows \in SUBSET Row : Load(rows) \/ Pass(rows)

Spec == Init /\ [][Next]_<<held, fresh>>
=============================================================================
