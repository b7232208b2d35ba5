---------------------------- MODULE LeapfrogJoin ----------------------------
(***************************************************************************)
(* The intersection of sorted spans by leapfrogging: whoever is behind the *)
(* largest value seeks it; when all are level, a value is found.  On the   *)
(* device this is IntersectView, on the host LeapfrogView over DedupRange  *)
(* iterators; every seek runs one of the searches of KeySearch.            *)
(***************************************************************************)
EXTENDS KeySearch, SequencesExt

CONSTANTS
    Spans,      \* the spans that may be intersected
    Sides,      \* "device", "host"
    Searches    \* the functions a side may seek with

ASSUME SpansAssumption ==
    \A d \in Spans : d \in Seq(0 .. Sentinel - 1) /\ SortedSpan(d)
ASSUME SidesAssumption == Sides \subseteq {"device", "host"}
ASSUME SearchesAssumption ==
    /\ Searches \in [Sides -> [{"lower", "upper"} ->
                     SUBSET {"seq", "group", "exp", "linear", "scan", "skip", "block"}]]
    /\ \A s \in Sides : "block" \notin Searches[s]["upper"]

VARIABLES
    side,
    span,       \* span[i]: the values of source i, ascending, with repetitions
    pos,        \* pos[i]: the position of source i
    pc,         \* "align" | "seek" | "step" | "found" | "end"
    target,     \* the largest value when alignment was last checked
    behind,     \* sources still to seek the target
    found       \* the values found so far, with the positions of the sources

vars == <<side, span, pos, pc, target, behind, found, searching>>

Source == DOMAIN span
Value(i) == span[i][pos[i] + 1]
SomeEnd(p) == \E i \in Source : p[i] >= Len(span[i])
Remaining(i) == SubSeq(span[i], pos[i] + 1, Len(span[i]))

Init ==
    /\ side \in Sides
    /\ span \in [1 .. 2 -> Spans]
    /\ pos = [i \in 1 .. 2 |-> 0]
    /\ pc = IF SomeEnd(pos) THEN "end" ELSE "align"
    /\ target = 0 /\ behind = {} /\ found = <<>>
    /\ how = "seq" /\ bound = "lower" /\ data = <<>> /\ key = 0
    /\ lo = 0 /\ hi = 0 /\ at = "idle" /\ result = 0

(* The largest of the current values; all level means a value is found.    *)
Align ==
    /\ pc = "align"
    /\ target' = Max({Value(i) : i \in Source})
    /\ behind' = {i \in Source : Value(i) < target'}
    /\ IF behind' = {}
       THEN /\ pc' = "found"
            /\ found' = Append(found, [value |-> target', pos |-> pos])
       ELSE pc' = "seek" /\ UNCHANGED found
    /\ UNCHANGED <<side, span, pos, searching>>

(* Sources behind seek in order.                                           *)
Seek(h) ==
    /\ pc = "seek" /\ at = "idle" /\ behind # {}
    /\ LET i == Min(behind)
       IN  IF h = "block" THEN BeginSeek(span[i], target, pos[i])
                          ELSE Begin(h, "lower", Remaining(i), target)
    /\ UNCHANGED <<side, span, pos, pc, target, behind, found>>

(* Where a search ended: a block seek counts from the column's start.      *)
Landed(i) == IF how = "block" THEN result ELSE pos[i] + result

Idle == at' = "idle" /\ UNCHANGED <<how, bound, data, key, lo, hi, result>>

Sought_Fault ==
    /\ pc = "seek" /\ at = "done"
    /\ LET i == Min(behind)
       IN  /\ pos' = [pos EXCEPT ![i] = Landed(i)]
           /\ behind' = behind \ {i}
           /\ pc' = IF behind' # {} THEN "seek"
                    ELSE IF SomeEnd(pos') THEN "end" ELSE "found"
           /\ found' = IF pc' = "found" THEN Append(found, [value |-> target, pos |-> pos'])
                                        ELSE found
    /\ Idle
    /\ UNCHANGED <<side, span, target>>

(* The device stops at the first source that ends, the host looks when     *)
(* all have sought.                                                        *)
Sought ==
    /\ pc = "seek" /\ at = "done"
    /\ LET i == Min(behind)
       IN  /\ pos' = [pos EXCEPT ![i] = Landed(i)]
           /\ behind' = behind \ {i}
           /\ pc' = IF behind' = {} \/ side = "device"
                    THEN IF SomeEnd(pos') THEN "end"
                         ELSE IF behind' = {} THEN "align" ELSE "seek"
                    ELSE "seek"
    /\ Idle
    /\ UNCHANGED <<side, span, target, found>>

(* operator++: the first source moves past all copies of the value: a      *)
(* search for the upper bound on the device, skip_duplicates on the host.  *)
Advance(h) ==
    /\ pc = "found" /\ at = "idle"
    /\ pc' = "step"
    /\ Begin(h, "upper", Remaining(1), Value(1))
    /\ UNCHANGED <<side, span, pos, target, behind, found>>

Advanced_Fault ==
    /\ pc = "step" /\ at = "done"
    /\ pos' = [i \in Source |-> pos[i] + 1]
    /\ pc' = IF SomeEnd(pos') THEN "end" ELSE "align"
    /\ Idle
    /\ UNCHANGED <<side, span, target, behind, found>>

(* The device moves the other sources by one element.                      *)
Advanced ==
    /\ pc = "step" /\ at = "done"
    /\ pos' = [i \in Source |-> IF i = 1 THEN pos[1] + result
                                ELSE IF side = "device" THEN pos[i] + 1 ELSE pos[i]]
    /\ pc' = IF SomeEnd(pos') THEN "end" ELSE "align"
    /\ Idle
    /\ UNCHANGED <<side, span, target, behind, found>>

Search ==
    /\ SearchStep
    /\ UNCHANGED <<side, span, pos, pc, target, behind, found>>

Terminated ==
    /\ pc = "end"
    /\ UNCHANGED vars

Next ==
    \/ Align \/ Sought \/ Advanced \/ Search \/ Terminated
    \/ \E h \in Searches[side]["lower"] : Seek(h)
    \/ \E h \in Searches[side]["upper"] : Advance(h)

Spec == Init /\ [][Next]_vars /\ WF_vars(Next)

-----------------------------------------------------------------------------
Common == ToSet(span[1]) \cap ToSet(span[2])
FoundValues == [n \in DOMAIN found |-> found[n].value]

(* Every common value is found, once, in ascending order; kernels emit one *)
(* match per value found, so a repetition would repeat derivations.        *)
FindsCommonOnce ==
    /\ ToSet(FoundValues) \subseteq Common
    /\ \A m, n \in DOMAIN found : m < n => found[m].value < found[n].value
    /\ pc = "end" => ToSet(FoundValues) = Common

(* child_range takes the position of a source as the first row of the      *)
(* value: a later position would lose rows.                                *)
PositionsAreFirst ==
    \A n \in DOMAIN found : \A i \in Source :
        found[n].pos[i] = FirstNotBelow(span[i], "lower", found[n].value)

(* Every intersection ends.                                                *)
Ends == <>(pc = "end")
=============================================================================
