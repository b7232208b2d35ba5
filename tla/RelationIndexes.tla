--------------------------- MODULE RelationIndexes --------------------------
(***************************************************************************)
(* One relation over several strata, with the arrays its indexes really    *)
(* are: loaded rows, indexes built when a stratum starts, the maintenance  *)
(* block at the end of every iteration, the columns written back when the  *)
(* stratum ends.  IndexedRunner says which indexes a compiled program      *)
(* maintains, and abstracts an index to a set; here that set is kept in    *)
(* one sorted array or, for relations with a two-level index, in two.      *)
(*                                                                         *)
(* D_Fault is definition D with a plausible mistake, see SemiNaive.        *)
(***************************************************************************)
EXTENDS Integers, Sequences, SequencesExt, FiniteSetsExt, TLC

(***************************************************************************)
(* A sorted array index on the device: rows in the column order of the     *)
(* index, sorted, and the distinct values of their first column, which the *)
(* kernels cut their work by.  The library algorithms the index calls      *)
(* (sort, unique, merge, set difference and union) do what they say; the   *)
(* loops the code has of its own are modelled as loops.                    *)
(*                                                                         *)
(*   rows   the rows, each a sequence of values, ascending                 *)
(*   roots  root_unique_values                                             *)
(*   seen   rows_processed: how many column rows it has processed          *)
(***************************************************************************)
CONSTANT SearchRatio    \* FULL has to be this many times larger for the probing set
                        \* difference: 8 in the code

LexLess(a, b) == \E i \in DOMAIN a :
    a[i] < b[i] /\ \A j \in 1 .. i - 1 : a[j] = b[j]

SortRows(rows) == SortSeq(rows, LexLess)

Unique(s) == [k \in 1 .. Cardinality({i \in DOMAIN s : i = 1 \/ s[i] # s[i - 1]}) |->
    s[CHOOSE i \in DOMAIN s :
         /\ i = 1 \/ s[i] # s[i - 1]
         /\ Cardinality({j \in 1 .. i : j = 1 \/ s[j] # s[j - 1]}) = k]]

FirstColumn(rows) == [i \in DOMAIN rows |-> rows[i][1]]

(* Of two sorted sequences: what thrust::merge, set_union and              *)
(* set_difference put out.                                                 *)
Merged(a, b) == SortRows(a \o b)
Union(a, b) == SetToSortSeq(ToSet(a) \cup ToSet(b), <)
Difference(a, b) == SelectSeq(a, LAMBDA row : row \notin ToSet(b))

SortedIndex(rows, roots, seen) == [rows |-> rows, roots |-> roots, seen |-> seen]
EmptyIndex == SortedIndex(<<>>, <<>>, 0)
Size(ix) == Len(ix.rows)

(* Rows of the columns as an index with another column order stores them.  *)
Ordered(spec, rows) == [i \in DOMAIN rows |-> [k \in DOMAIN spec |-> rows[i][spec[k]]]]
Position(spec, col) == CHOOSE k \in DOMAIN spec : spec[k] = col

(* Copy, sort, deduplicate and collect the root values.                    *)
Built(rows, seen) ==
    LET kept == Unique(SortRows(rows))
    IN  SortedIndex(kept, Unique(FirstColumn(kept)), seen)

BuildFromColumns(spec, columns) ==
    IF columns = <<>> THEN EmptyIndex ELSE Built(Ordered(spec, columns), Len(columns))

TakeColumns(spec, columns) ==
    IF columns = <<>> THEN EmptyIndex ELSE Built(Ordered(spec, columns), 0)

BuildFromIndex(source, target, ix) ==
    IF ix.rows = <<>> THEN EmptyIndex
    ELSE Built(Ordered([k \in DOMAIN target |-> Position(source, target[k])], ix.rows), 0)

(* The columns of the relation, from an index with all of them.            *)
ColumnsOf(spec, ix) ==
    Ordered([k \in DOMAIN spec |-> Position(spec, k)], ix.rows)

MergeRoots(roots, other) ==
    IF roots = <<>> THEN other ELSE IF other = <<>> THEN roots ELSE Union(roots, other)

(* merge: interleave two sorted arrays; nothing is deduplicated.           *)
MergeSorted(ix, other) ==
    IF other.rows = <<>> THEN ix
    ELSE IF ix.rows = <<>> THEN other
    ELSE SortedIndex(Merged(ix.rows, other.rows), MergeRoots(ix.roots, other.roots),
                     ix.seen + other.seen)

(* binary_search_in_full, with lo and hi counted from 0 as in the code.    *)

FoundIn(full, row) ==
    LET probe[lo \in 0 .. Len(full), hi \in 0 .. Len(full)] ==
            LET mid == lo + (hi - lo) \div 2
            IN  IF lo >= hi THEN FALSE
                ELSE IF LexLess(full[mid + 1], row) THEN probe[mid + 1, hi]
                ELSE IF LexLess(row, full[mid + 1]) THEN probe[lo, mid]
                ELSE TRUE
    IN  probe[0, Len(full)]

(* The fused anti-join: every thread probes one new row and claims a slot  *)
(* when it is in neither array.  The slots come in any order, so they are  *)
(* sorted, which is why the order is not modelled.                         *)
Survivors(new, full, head) ==
    SortRows(SelectSeq(new.rows, LAMBDA row : ~FoundIn(full.rows, row) /\ ~FoundIn(head.rows, row)))

DiffIndex(rows) == SortedIndex(rows, Unique(FirstColumn(rows)), Len(rows))

(* set_difference_update: probing when FULL is much larger than NEW.       *)
DifferenceFrom(new, full) ==
    IF new.rows = <<>> THEN EmptyIndex
    ELSE IF full.rows = <<>> THEN new
    ELSE IF Size(full) > SearchRatio * Size(new) THEN DiffIndex(Survivors(new, full, EmptyIndex))
    ELSE DiffIndex(Difference(new.rows, full.rows))

(* set_difference_update_dual.                                             *)
DifferenceFromBoth(new, full, head) ==
    IF new.rows = <<>> THEN EmptyIndex
    ELSE IF full.rows = <<>> /\ head.rows = <<>> THEN new
    ELSE DiffIndex(Survivors(new, full, head))

CONSTANTS
    Row,            \* rows, in declared column order
    Plans,          \* what the compiler may have decided for the relation, see plan
    MaxBatch,       \* bound on the rows one iteration derives, duplicates included
    CompactRatio    \* head may be full's size divided by this: 10 in the code

-----------------------------------------------------------------------------
(* Device2LevelIndex: a large sorted array `full` and a small one `head`   *)
(* that deltas are merged into; now and then head is merged into full.     *)
(* The plain sorted array index is the case in which merges go to full.    *)
Segments(full, head) == [full |-> full, head |-> head]
NoSegments == Segments(EmptyIndex, EmptyIndex)

AllRows(ix) == ToSet(ix.full.rows) \cup ToSet(ix.head.rows)
Seen(ix) == ix.full.seen + ix.head.seen
TotalSize(ix) == Size(ix.full) + Size(ix.head)

Compact(ix) ==
    IF ix.head.rows = <<>> THEN ix
    ELSE IF ix.full.rows = <<>> THEN Segments(ix.head, EmptyIndex)
    ELSE Segments(MergeSorted(ix.full, ix.head), EmptyIndex)

(* The build functions fill full and leave head as it is.                  *)
Rebuilt(ix, spec, columns) == [ix EXCEPT !.full = BuildFromColumns(spec, columns)]
TakenOver(ix, spec, columns) == [ix EXCEPT !.full = TakeColumns(spec, columns)]
RebuiltFromIndex(ix, source, target, from) ==
    [ix EXCEPT !.full = BuildFromIndex(source, target, Compact(from).full)]

DeltaOf_Fault(new, full) ==
    Segments(DifferenceFrom(Compact(new).full, full.full), EmptyIndex)

(* NEW minus both segments of FULL.                                        *)
DeltaOf(new, full) ==
    Segments(IF full.head.rows = <<>>
             THEN DifferenceFrom(Compact(new).full, full.full)
             ELSE DifferenceFromBoth(Compact(new).full, full.full, full.head), EmptyIndex)

TooLarge(ix) == Size(ix.head) > 0 /\ (Size(ix.full) = 0 \/ Size(ix.head) > Size(ix.full) \div CompactRatio)

(* merge_index_impl: into head, then compact if head got too large.        *)
MergeTwoLevel(ix, delta) ==
    LET grown == [ix EXCEPT !.head = MergeSorted(MergeSorted(@, delta.full), delta.head)]
    IN  IF TooLarge(grown) THEN Compact(grown) ELSE grown

(* The default of the customisation point: merge.                          *)
MergeOneLevel(ix, delta) == [ix EXCEPT !.full = MergeSorted(@, delta.full)]

-----------------------------------------------------------------------------
(* The relation.                                                           *)
VARIABLES
    plan,       \* [kind, loads, strata]: its index type, a bound on the loaded rows, and
                \* per stratum the indexes built first, those maintained, the canonical one
    columns,    \* the columns of FULL
    full,       \* the indexes of FULL: registered spec |-> segments
    delta,      \* the indexes of DELTA
    phase,      \* "idle" before the first and between strata, "begin" and then
                \* "iterate" in one
    stratum     \* strata started

vars == <<plan, columns, full, delta, phase, stratum>>

Batches == UNION {[1 .. n -> Row] : n \in 0 .. MaxBatch}

Now == plan.strata[stratum]
canon == Now.canon
Running == phase # "idle"

IndexOf(version, spec) == IF spec \in DOMAIN version THEN version[spec] ELSE NoSegments

(* ensure_index, with and without building.                                *)
EnsureIndex(version, spec) ==
    IF Seen(IndexOf(version, spec)) # Len(columns)
    THEN Rebuilt(IndexOf(version, spec), spec, columns)
    ELSE IndexOf(version, spec)

MergeIndex(ix, d) ==
    IF TotalSize(d) = 0 THEN ix
    ELSE IF plan.kind = "two_level" THEN MergeTwoLevel(ix, d) ELSE MergeOneLevel(ix, d)

Init ==
    /\ plan \in Plans
    /\ columns = <<>> /\ full = <<>> /\ delta = <<>>
    /\ phase = "idle" /\ stratum = 0

Load(row) ==
    /\ stratum = 0
    /\ Len(columns) < plan.loads
    /\ columns' = Append(columns, row)
    /\ UNCHANGED <<plan, full, delta, phase, stratum>>

(* A stratum builds the indexes it joins on, where the row counts differ.  *)
StartStratum ==
    /\ phase = "idle"
    /\ stratum < Len(plan.strata)
    /\ stratum' = stratum + 1
    /\ LET now == plan.strata[stratum + 1]
       IN  full' = [s \in DOMAIN full \cup now.builds \cup now.uses |->
                       IF s \in now.builds THEN EnsureIndex(full, s) ELSE IndexOf(full, s)]
    /\ phase' = "begin"
    /\ UNCHANGED <<plan, columns, delta>>

DeltaIndexes_Fault(d) == [s \in Now.uses |-> IF s = canon THEN d ELSE NoSegments]

(* The other indexes of DELTA, from the canonical one.                     *)
DeltaIndexes(d) ==
    [s \in Now.uses |-> IF s = canon \/ TotalSize(d) = 0 THEN d
                        ELSE RebuiltFromIndex(NoSegments, canon, s, d)]

(* The maintenance block: the derived rows become the canonical index of   *)
(* NEW, DELTA is NEW without FULL, NEW is cleared, DELTA goes into FULL.   *)
Iterate(batch) ==
    /\ Running
    /\ Now.uses # {}
    /\ LET new == TakenOver(NoSegments, canon, batch)
           d   == DeltaIndexes(DeltaOf(new, full[canon]))
       IN  /\ delta' = d
           /\ full' = [s \in DOMAIN full |->
                          IF s \in Now.uses THEN MergeIndex(full[s], d[s]) ELSE full[s]]
    /\ phase' = "iterate"
    /\ UNCHANGED <<plan, columns, stratum>>

EndStratum_Fault ==
    /\ Running
    /\ columns' = IF Now.uses = {} THEN columns ELSE ColumnsOf(canon, full[canon].full)
    /\ phase' = "idle"
    /\ UNCHANGED <<plan, full, delta, stratum>>

(* The columns of a maintained relation are written back from its          *)
(* canonical index, compacted first.                                       *)
EndStratum ==
    /\ Running
    /\ IF Now.uses = {} THEN UNCHANGED <<full, columns>>
       ELSE LET whole == Compact(full[canon])
            IN  /\ full' = [full EXCEPT ![canon] = whole]
                /\ columns' = ColumnsOf(canon, whole.full)
    /\ phase' = "idle"
    /\ UNCHANGED <<plan, delta, stratum>>

Next ==
    \/ \E row \in Row : Load(row)
    \/ StartStratum
    \/ \E batch \in Batches : Iterate(batch)
    \/ EndStratum

Spec == Init /\ [][Next]_vars

-----------------------------------------------------------------------------
(* Rows of an index, in declared column order.                             *)
RowsOf(spec, ix) ==
    ToSet(Ordered([k \in DOMAIN spec |-> Position(spec, k)], ix.full.rows \o ix.head.rows))

InUse == IF Running THEN Now.uses \cup Now.builds ELSE {}

(* Kernels iterate the two segments one after the other: a row that is     *)
(* twice in either or in both is matched twice, and compacting keeps it.   *)
NoRowTwice ==
    \A s \in InUse : TotalSize(full[s]) = Cardinality(AllRows(full[s]))

(* While a stratum runs, every index it uses holds the same rows.          *)
IndexesAgree ==
    Running => \A s, t \in InUse : RowsOf(s, full[s]) = RowsOf(t, full[t])

Held == IF Running /\ Now.uses # {} THEN RowsOf(canon, full[canon]) ELSE ToSet(columns)
Fresh == IF phase = "iterate" THEN RowsOf(canon, delta[canon]) ELSE {}

(* Whatever the arrays, the relation behaves as a set of rows with an      *)
(* exact difference.                                                       *)
Contract == INSTANCE IndexContract WITH held <- Held, fresh <- Fresh
ImplementsContract == Contract!Spec
=============================================================================
