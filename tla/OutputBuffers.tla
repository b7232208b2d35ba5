---------------------------- MODULE OutputBuffers ----------------------------
(***************************************************************************)
(* How the pipelines of a parallel group append to the NEW columns of      *)
(* their heads.  Every pipeline runs its join twice: a first kernel counts *)
(* what each thread will emit, the counts are turned into offsets by an    *)
(* exclusive scan, the columns are grown by the totals, and a second       *)
(* kernel writes each thread's rows at the thread's offset.  Pipelines     *)
(* with one head that write the same relation count into one shared        *)
(* buffer, so that one scan gives offsets across all of them.  The threads *)
(* of all launched kernels run in any order.                               *)
(*                                                                         *)
(* A block of threads is one thread here, and a block takes one root key;  *)
(* what a thread emits is an atomic step.  A group of one pipeline calls   *)
(* execute(), which does the same with its own buffer.                     *)
(*                                                                         *)
(* D_Fault is definition D with a plausible mistake, see SemiNaive.        *)
(***************************************************************************)
EXTENDS Integers, Sequences, FiniteSets, SequencesExt

CONSTANTS
    Rel,         \* relations
    Pipelines,   \* sequence of records [heads, countOnly, blockGroup, product]
    MinBlocks,   \* the least number of blocks of a kernel: num_sms * 8
    Sizes,       \* Sizes[p]: the pairs <<root keys, matches>> p may meet
    Garbage      \* what an uninitialised counter holds

ASSUME GroupOK ==
    /\ Pipelines \in Seq([heads : Seq(Rel), countOnly : BOOLEAN,
                          blockGroup : BOOLEAN, product : BOOLEAN])
    /\ \A p \in DOMAIN Pipelines : Pipelines[p].heads # <<>>
    /\ MinBlocks \in Nat \ {0} /\ Garbage \in Nat
    /\ DOMAIN Sizes = DOMAIN Pipelines
    /\ \A p \in DOMAIN Sizes : \A size \in Sizes[p] :
          size \in Nat \X Nat /\ (size[1] = 0 => size[2] = 0)

VARIABLES
    phase,     \* what the host does next
    keys,      \* keys[p]: root keys of pipeline p in this iteration
    matches,   \* matches[p]: results of the join of p in this iteration
    pending,   \* threads of the launched kernels that have not run
    counts,    \* per buffer: thread counts, then offsets
    total,     \* total[p]: what p emits, as read back
    old_size,  \* old_size[p][h]: where in the columns the rows for head h start
    rows,      \* rows[d]: the NEW columns of d
    recorded   \* recorded[p]: count results of p accumulated in this run

vars == <<phase, keys, matches, pending, counts, total, old_size, rows, recorded>>

Pipe == DOMAIN Pipelines
HeadsOf(p) == Pipelines[p].heads
CountOnly(p) == Pipelines[p].countOnly
Single(p) == Len(HeadsOf(p)) = 1

Old == <<0, 0, 0>>   \* a row that was there before
Junk == <<>>         \* a row nobody has written

(* The sum of f over S: a heap of f[x] counters for each x.                *)
Sum(f, S) == Cardinality(UNION {{x} \X (1 .. f[x]) : x \in S})

(***************************************************************************)
(* Grids: how many threads a kernel has, and which matches each of them    *)
(* finds.  A block-group pipeline cuts its work into contiguous slices,    *)
(* any other strides over its keys.                                        *)
(***************************************************************************)
CountGrid(p) == IF keys[p] > MinBlocks THEN keys[p] ELSE MinBlocks
WriteGrid(p) == IF Pipelines[p].blockGroup /\ matches[p] > 0 THEN MinBlocks ELSE CountGrid(p)

Share(p, t, grid) ==
    IF Pipelines[p].blockGroup
    THEN LET slice == (matches[p] + grid - 1) \div grid
         IN  {i \in 1 .. matches[p] : (t - 1) * slice < i /\ i <= t * slice}
    ELSE {i \in 1 .. matches[p] : i % grid = t - 1}

Threads(p, grid) == {<<p, t>> : t \in 1 .. grid}

(* Heads over the same relation share the output of the last of them; the  *)
(* count kernel counts for the first head and skips every later relation.  *)
OutputOf(p, h) ==
    CHOOSE k \in DOMAIN HeadsOf(p) :
        /\ HeadsOf(p)[k] = HeadsOf(p)[h]
        /\ \A j \in DOMAIN HeadsOf(p) : HeadsOf(p)[j] = HeadsOf(p)[h] => j <= k

Counted(p, t) == IF OutputOf(p, 1) = 1 THEN Cardinality(Share(p, t, CountGrid(p))) ELSE 0

(* The rows thread t of p writes for head k, in some order.                *)
RowsFor(p, t, k) ==
    {<<p, h, i>> : h \in {j \in DOMAIN HeadsOf(p) : OutputOf(p, j) = k},
                   i \in Share(p, t, WriteGrid(p))}

Emitted(p, t, k) == SetToSeq(RowsFor(p, t, k))

(***************************************************************************)
(* Count buffers.  A buffer is named by the pipelines that count into it.  *)
(***************************************************************************)
Sharing(d) == {p \in Pipe : Single(p) /\ HeadsOf(p)[1] = d}

BufferOf(p) == IF Single(p) THEN Sharing(HeadsOf(p)[1]) ELSE {p}
Buffers == {BufferOf(p) : p \in Pipe}

Grids == [p \in Pipe |-> CountGrid(p)]

Slots(b) == Sum(Grids, b)

Offset_Missing(p) == 0

Offset(p) == Sum(Grids, {q \in BufferOf(p) : q < p})

ExclusiveScan(c) == [k \in DOMAIN c |-> Sum(c, 1 .. k - 1)]

(* Totals are differences of offsets at the boundaries of the pipelines,   *)
(* the last boundary being the last slot, which no thread counts into.     *)
TotalOf(p) ==
    LET c == counts[BufferOf(p)] IN c[Offset(p) + CountGrid(p) + 1] - c[Offset(p) + 1]

(***************************************************************************)
(* Where the rows go.                                                      *)
(***************************************************************************)
(* Writes of d, a pipeline once for each of its heads over d.              *)
WritesOf(d) ==
    UNION {{<<p, h>> : h \in {k \in DOMAIN HeadsOf(p) : HeadsOf(p)[k] = d}} : p \in Pipe}

Skipped(d) == \A w \in WritesOf(d) : CountOnly(w[1])

TotalRead(W) == Sum([w \in W |-> total[w[1]]], W)

Earlier(v, w) == v[1] < w[1] \/ (v[1] = w[1] /\ v[2] < w[2])

Before_ForgetsShared(w, d) ==
    TotalRead({v \in WritesOf(d) : v[1] \notin Sharing(d) /\ Earlier(v, w)})

(* Rows of d that come before those of write w, when the offsets in the    *)
(* shared buffer of d do not already account for them.                     *)
Before(w, d) ==
    IF Cardinality(Sharing(d)) < 2 THEN TotalRead({v \in WritesOf(d) : Earlier(v, w)})
    ELSE IF w[1] \in Sharing(d) THEN 0
    ELSE TotalRead({v \in WritesOf(d) : v[1] \in Sharing(d) \/ Earlier(v, w)})

(* Of several heads over one relation only the first is given an offset,   *)
(* and it gets the one computed last.                                      *)
StartOf(p, h) ==
    LET d == HeadsOf(p)[h]
    IN  IF Skipped(d) \/ \E k \in 1 .. h - 1 : HeadsOf(p)[k] = d THEN 0
        ELSE Len(rows[d]) + Before(<<p, OutputOf(p, h)>>, d)

-----------------------------------------------------------------------------
Shared(b) == Cardinality(b) > 1

NoCounts == [b \in Buffers |-> <<>>]
NoTotals == [p \in Pipe |-> 0]
NoStarts == [p \in Pipe |-> [h \in DOMAIN HeadsOf(p) |-> 0]]

Init ==
    /\ phase = "setup"
    /\ keys = NoTotals /\ matches = NoTotals
    /\ pending = {} /\ counts = NoCounts
    /\ total = NoTotals /\ old_size = NoStarts
    /\ rows = [d \in Rel |-> <<Old>>]
    /\ recorded = NoTotals

(* Views and grids are set up, buffers allocated and the count kernels     *)
(* launched, each on its stream.  A shared buffer is not cleared.  Without *)
(* keys there is no kernel: the counters are set to zero, like those of a  *)
(* thread that finds nothing.                                              *)
Setup ==
    /\ phase = "setup"
    /\ keys' \in [Pipe -> {size[1] : size \in UNION Range(Sizes)}]
    /\ matches' \in [Pipe -> {size[2] : size \in UNION Range(Sizes)}]
    /\ \A p \in Pipe : <<keys'[p], matches'[p]>> \in Sizes[p]
    /\ counts' = [b \in Buffers |->
          [k \in 1 .. Slots(b)' + 1 |-> IF Shared(b) THEN Garbage ELSE 0]]
    /\ pending' = UNION {Threads(p, CountGrid(p)') : p \in Pipe}
    /\ phase' = "count"
    /\ UNCHANGED <<total, old_size, rows, recorded>>

(* A pipeline that is a plain product of relations, one of them empty: its *)
(* threads return before they store anything.                              *)
ReturnsEarly(p) == Pipelines[p].product /\ keys[p] > 0 /\ matches[p] = 0

CountThread(p, t) ==
    /\ phase = "count"
    /\ <<p, t>> \in pending
    /\ counts' = IF ReturnsEarly(p) THEN counts
                 ELSE [counts EXCEPT ![BufferOf(p)][Offset(p) + t] = Counted(p, t)]
    /\ pending' = pending \ {<<p, t>>}
    /\ UNCHANGED <<phase, keys, matches, total, old_size, rows, recorded>>

(* All streams are synchronised, then every buffer is scanned.             *)
ScanBuffers ==
    /\ phase = "count"
    /\ pending = {}
    /\ counts' = [b \in Buffers |-> ExclusiveScan(counts[b])]
    /\ phase' = "read"
    /\ UNCHANGED <<keys, matches, pending, total, old_size, rows, recorded>>

ReadTotals ==
    /\ phase = "read"
    /\ total' = [p \in Pipe |-> TotalOf(p)]
    /\ recorded' = [p \in Pipe |-> recorded[p] + (IF CountOnly(p) THEN total'[p] ELSE 0)]
    /\ phase' = "resize"
    /\ UNCHANGED <<keys, matches, pending, counts, old_size, rows>>

(* Each relation is grown once by the totals of all its pipelines, and the *)
(* write kernels of those that write anything are launched.                *)
Resize ==
    /\ phase = "resize"
    /\ old_size' = [p \in Pipe |-> [h \in DOMAIN HeadsOf(p) |-> StartOf(p, h)]]
    /\ rows' = [d \in Rel |->
          IF Skipped(d) THEN rows[d]
          ELSE rows[d] \o [k \in 1 .. TotalRead(WritesOf(d)) |-> Junk]]
    /\ pending' = UNION {Threads(p, WriteGrid(p)) :
                            p \in {q \in Pipe : ~CountOnly(q) /\ total[q] > 0}}
    /\ phase' = "write"
    /\ UNCHANGED <<keys, matches, counts, total, recorded>>

(* What a write past the end of the columns hits is not part of them.      *)
Overlay(columns, start, new) ==
    [k \in DOMAIN columns |->
        IF k > start /\ k <= start + Len(new) THEN new[k - start] ELSE columns[k]]

WriteThread(p, t) ==
    /\ phase = "write"
    /\ <<p, t>> \in pending
    /\ LET offset == counts[BufferOf(p)][Offset(p) + t]
       IN  rows' = [d \in Rel |->
              IF d \notin ToSet(HeadsOf(p)) THEN rows[d]
              ELSE LET k == OutputOf(p, CHOOSE h \in DOMAIN HeadsOf(p) : HeadsOf(p)[h] = d)
                   IN  Overlay(rows[d], old_size[p][k] + offset, Emitted(p, t, k))]
    /\ pending' = pending \ {<<p, t>>}
    /\ UNCHANGED <<phase, keys, matches, counts, total, old_size, recorded>>

(* The first maintenance instruction waits for the write kernels.          *)
Finish ==
    /\ phase = "write"
    /\ pending = {}
    /\ phase' = "done"
    /\ UNCHANGED <<keys, matches, pending, counts, total, old_size, rows, recorded>>

(* Maintenance empties NEW; LaunchParams and buffers of the group are gone *)
(* and counts recorded so far are given to the caller.                     *)
NextIteration ==
    /\ phase = "done"
    /\ phase' = "setup"
    /\ keys' = NoTotals /\ matches' = NoTotals /\ counts' = NoCounts
    /\ total' = NoTotals /\ old_size' = NoStarts /\ recorded' = NoTotals
    /\ rows' = [d \in Rel |-> <<>>]
    /\ UNCHANGED pending

Step ==
    \/ \E p \in Pipe : \E t \in 1 .. CountGrid(p) : CountThread(p, t)
    \/ ScanBuffers
    \/ ReadTotals
    \/ Resize
    \/ \E p \in Pipe : \E t \in 1 .. WriteGrid(p) : WriteThread(p, t)
    \/ Finish

Next == Setup \/ Step \/ NextIteration

Spec == Init /\ [][Next]_vars

-----------------------------------------------------------------------------
(***************************************************************************)
(* Properties                                                              *)
(***************************************************************************)

(* Groups the buffers are made for: a rule has one head over a relation, a *)
(* relation is counted or written, the keys of a block group fit the       *)
(* smallest grid, and no product that may meet an empty relation counts    *)
(* into a shared buffer, which still holds garbage when it returns.        *)
GroupSupported ==
    /\ \A p \in Pipe : \A h, k \in DOMAIN HeadsOf(p) :
          HeadsOf(p)[h] = HeadsOf(p)[k] => h = k
    /\ \A p, q \in Pipe : \A h \in DOMAIN HeadsOf(p), k \in DOMAIN HeadsOf(q) :
          HeadsOf(p)[h] = HeadsOf(q)[k] => CountOnly(p) = CountOnly(q)
    /\ \A p \in Pipe : Pipelines[p].blockGroup =>
          \A size \in Sizes[p] : size[2] > 0 => size[1] <= MinBlocks
    /\ \A p \in Pipe : Pipelines[p].product /\ Shared(BufferOf(p)) =>
          \A size \in Sizes[p] : size[1] > 0 => size[2] > 0

(* The rows pipeline p still has to write into d, as positions in columns. *)
Reserved(p, t, d) ==
    UNION {LET start == old_size[p][k] + counts[BufferOf(p)][Offset(p) + t]
           IN  start + 1 .. start + Len(Emitted(p, t, k))
           : k \in {h \in DOMAIN HeadsOf(p) : HeadsOf(p)[h] = d /\ OutputOf(p, h) = h}}

(* While the write kernels run, every unwritten row of a relation is       *)
(* reserved by exactly one thread that has not run, and no thread has      *)
(* reserved anything else: the counting and the writing kernel agree.      *)
ReservedOnce ==
    phase = "write" => \A d \in Rel :
        /\ {k \in DOMAIN rows[d] : rows[d][k] = Junk}
              = UNION {Reserved(w[1], w[2], d) : w \in pending}
        /\ \A v, w \in pending : v # w =>
              Reserved(v[1], v[2], d) \cap Reserved(w[1], w[2], d) = {}

Facts(p, h) == {<<p, h, i>> : i \in 1 .. matches[p]}

(* Once the group is done, NEW has what it had plus one row for each match *)
(* of each pipeline and head, and nothing else; a count-only pipeline has  *)
(* reported the number of its matches instead.                             *)
NewIsComplete ==
    /\ phase = "done" => \A p \in Pipe : CountOnly(p) => recorded[p] = matches[p]
    /\ phase = "done" => \A d \in Rel :
        LET added == UNION {UNION {IF HeadsOf(p)[h] = d /\ ~CountOnly(p) THEN Facts(p, h) ELSE {}
                                   : h \in DOMAIN HeadsOf(p)} : p \in Pipe}
        IN  /\ ToSet(rows[d]) \ {Old} = added
            /\ Cardinality({k \in DOMAIN rows[d] : rows[d][k] # Old}) = Cardinality(added)

=============================================================================
