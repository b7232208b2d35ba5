--------------------------- MODULE DeviceRelation ---------------------------
(***************************************************************************)
(* One version (FULL, DELTA or NEW) of a device relation: its interned     *)
(* columns and the sorted indexes registered for it.                       *)
(*                                                                         *)
(*   cols  the facts the columns hold                                      *)
(*   n     the number of rows of the columns, duplicates included          *)
(*   idx   a function from the registered index specs to the indexes       *)
(*                                                                         *)
(* An index holds rows without duplicates and remembers in `seen` how many *)
(* column rows it has processed: the relation compares that number with n  *)
(* to tell whether the index is out of date.  Sorting, permuting and       *)
(* deduplicating are abstracted to sets of facts: two indexes of the same  *)
(* facts differ only in their spec.                                        *)
(*                                                                         *)
(* D_Fault is definition D with a plausible mistake, see SemiNaive.        *)
(***************************************************************************)
EXTENDS Naturals, FiniteSets

Index(rows, seen) == [rows |-> rows, seen |-> seen]
NoRows == Index({}, 0)

Columns(facts, n) == [cols |-> facts, n |-> n, idx |-> [spec \in {} |-> NoRows]]
NoColumns == Columns({}, 0)

HasIndex(r, spec) == spec \in DOMAIN r.idx
Rows(r, spec) == IF HasIndex(r, spec) THEN r.idx[spec].rows ELSE {}

(* All facts a version holds, in its columns or in any index.              *)
Contents(r) == r.cols \cup UNION {r.idx[spec].rows : spec \in DOMAIN r.idx}

Put(r, spec, index) ==
    [r EXCEPT !.idx = [s \in DOMAIN r.idx \cup {spec} |-> IF s = spec THEN index ELSE r.idx[s]]]

Registered(r, spec) == IF HasIndex(r, spec) THEN r ELSE Put(r, spec, NoRows)

IsDirty(r, spec) == HasIndex(r, spec) => r.idx[spec].seen # r.n

(* Register the index if need be; build it from the columns if asked to    *)
(* and the row counts differ.                                              *)
EnsureIndex(r, spec, build) ==
    IF build /\ IsDirty(Registered(r, spec), spec)
    THEN Put(r, spec, Index(r.cols, r.n))
    ELSE Registered(r, spec)

(* Move the columns into the index, which then is the only holder of the   *)
(* rows; an empty relation leaves an empty index.                          *)
TakeOwnership(r, spec) ==
    [Put(r, spec, Index(r.cols, 0)) EXCEPT !.cols = {}, !.n = 0]

(* Columns and every index are emptied; the indexes stay registered.       *)
Clear(r) == [cols |-> {}, n |-> 0, idx |-> [spec \in DOMAIN r.idx |-> NoRows]]

AppendRows(r, facts, count) == [r EXCEPT !.cols = @ \cup facts, !.n = @ + count]

SetDifference_IgnoresFull(new, full) == new

(* The index of new rows that full does not have.  When full is empty the  *)
(* new index is swapped in as it is.                                       *)
SetDifference(new, full) ==
    IF new.rows = {} THEN NoRows
    ELSE IF full.rows = {} THEN new
    ELSE Index(new.rows \ full.rows, Cardinality(new.rows \ full.rows))

(* Merge other into index: the sorted arrays are interleaved, nothing is   *)
(* deduplicated.                                                           *)
MergeInto(index, other) ==
    IF other.rows = {} THEN index
    ELSE IF index.rows = {} THEN other
    ELSE Index(index.rows \cup other.rows, index.seen + other.seen)

(* Another index of the same version with the rows of index `from`.        *)
IndexFromIndex(r, from, spec) ==
    IF Rows(r, from) = {} THEN Registered(r, spec)
                          ELSE Put(r, spec, Index(Rows(r, from), 0))

Reconstruct_KeepsCount(r, spec) == [Registered(r, spec) EXCEPT !.cols = Rows(r, spec)]

(* Columns rewritten from an index.                                        *)
Reconstruct(r, spec) ==
    [Registered(r, spec) EXCEPT !.cols = Rows(r, spec), !.n = Cardinality(Rows(r, spec))]
=============================================================================
