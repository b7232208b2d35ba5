---------------------------- MODULE KernelMemory ----------------------------
(***************************************************************************)
(* What the warps of one kernel share.  An operation is one atomic step    *)
(* where the code has one atomic instruction that others can observe.      *)
(*                                                                         *)
(* D_Fault is definition D with a plausible mistake, see SemiNaive.        *)
(***************************************************************************)
EXTENDS Integers, Sequences, SequencesExt, FiniteSetsExt

(***************************************************************************)
(* How warps share out the rows they iterate: by a fixed stride, by a      *)
(* queue that idle warps take donated ranges from, by a board of ranges    *)
(* with shared cursors, or by the fan-out queue that an earlier kernel     *)
(* filled.  A range is [b, e): rows b .. e - 1, counted from 0.            *)
(***************************************************************************)
CONSTANTS
    QueueCapacity,  \* 1 << 20 slots in the code
    FanCapacity,    \* slots of a fan-out queue; it must hold every chunk
    BoardCapacity,  \* 4096 in the code
    GrabSize,       \* rows a warp takes from the board at a time
    FanChunk        \* flat rows of one fan-out task: 4096 in the code

VARIABLES
    column,     \* the column that is iterated, ascending
    queue,      \* [head, tail, tasks, ready]: slots count from 0
    board       \* [count, ranges]: ranges[s] = [cursor, end]

NoTask == [b |-> 0, e |-> 0, at |-> 0]
Task(b, e, at) == [b |-> b, e |-> e, at |-> at]

Slots == 0 .. Max({QueueCapacity, FanCapacity}) - 1
EmptyQueue == [head |-> 0, tail |-> 0, tasks |-> [s \in Slots |-> NoTask], ready |-> {}]
EmptyBoard == [count |-> 0, ranges |-> <<>>]

(* The end of the run of equal values that starts before row p + 1.        *)
RunEnd(p, e) == Min({q \in p .. e : q = e \/ column[q + 1] # column[p + 1]})

(* find_value_aligned_split: 0 when the range has a single value left of   *)
(* the middle's end.                                                       *)
ValueAlignedSplit(b, e) ==
    LET s == RunEnd(b + (e - b) \div 2, e)
    IN  IF e - b <= 1 \/ s <= b \/ s >= e THEN 0 ELSE s

Reserve_Fault(won) ==
    /\ won = (queue.tail < QueueCapacity)
    /\ queue' = [queue EXCEPT !.tail = @ + 1]

(* WCOJTaskQueue::push: a compare-and-swap loop that leaves tail alone     *)
(* when the queue is full; then the task, then its ready flag.             *)
Reserve(won) ==
    /\ won = (queue.tail < QueueCapacity)
    /\ queue' = IF won THEN [queue EXCEPT !.tail = @ + 1] ELSE queue

Fill(slot, task) == queue' = [queue EXCEPT !.tasks[slot] = task]

MakeReady(slot) == queue' = [queue EXCEPT !.ready = @ \cup {slot}]

(* pop: win the slot at head, then spin until it is ready.                 *)
TakeSlot(slot) ==
    /\ queue.head < queue.tail
    /\ slot = queue.head
    /\ queue' = [queue EXCEPT !.head = @ + 1]

IsReady(slot) == slot \in queue.ready

(* FanOutTaskQueue and RootTaskQueue: push and pop add blindly.            *)
BlindPush(task) ==
    queue' = [queue EXCEPT !.tail = @ + 1,
                           !.tasks = IF queue.tail < FanCapacity
                                     THEN [@ EXCEPT ![queue.tail] = task] ELSE @]

BlindPop == queue' = [queue EXCEPT !.head = @ + 1]
PoppedBlindly == queue.head < queue.tail

(***************************************************************************)
(* WCOJRangeBoard::publish counts a slot first and sets its range later;   *)
(* behind the last slot there is nothing to set.  Until then the slot      *)
(* holds what an earlier run left in it: nobody may read it, and Unset     *)
(* stands for it.  grab moves the cursor.                                  *)
(***************************************************************************)
Unset == [cursor |-> 0, end |-> 0]

AddRange ==
    board' = [count |-> board.count + 1,
              ranges |-> IF board.count < BoardCapacity
                         THEN Append(board.ranges, Unset) ELSE board.ranges]

SetRange(s, b, e) == board' = [board EXCEPT !.ranges[s] = [cursor |-> b, end |-> e]]

Grab_Fault(s) == board' = [board EXCEPT !.ranges[s].cursor = @ + GrabSize + 1]

Grab(s) == board' = [board EXCEPT !.ranges[s].cursor = @ + GrabSize]
Grabbed(s) ==
    LET r == board.ranges[s] IN Task(r.cursor, Min({r.cursor + GrabSize, r.end}), 0)
Exhausted(s) == board.ranges[s].cursor >= board.ranges[s].end

(***************************************************************************)
(* How a kernel puts rows into the NEW relation.                           *)
(*                                                                         *)
(*   counted      OutputContext: a first pass counts per thread, the host  *)
(*                scans, the second pass writes at the thread's offset     *)
(*   chunked      ChunkedOutputContext: rows are buffered, a full buffer   *)
(*                claims a block of positions and is written there         *)
(*   coalesced    WarpCoalescedOutputContext: the same without a buffer    *)
(*   speculative  SpeculativeOutputContext: no counting pass; a block that *)
(*                does not fit sets the overflow flag and is dropped       *)
(*   preassigned  fan-out: the position comes with the task                *)
(*   dedup        the generated DedupTable: the first thread to insert a   *)
(*                tuple's hash emits it                                    *)
(***************************************************************************)
CONSTANTS
    BufferSize,     \* rows a thread buffers: 64 or 16 in the code
    TableSize,      \* slots of the table, a power of two
    ProbeLimit,     \* 128 in the code
    Slot(_),        \* the slot a tuple's hash starts at; hashes do not collide
    Junk            \* what an unwritten row holds

VARIABLES
    rows,       \* the columns of NEW
    oldSize,    \* rows NEW had before
    writePos,   \* atomic_write_pos
    capacity,   \* rows reserved for a speculative run: prev_fused_total_
    overflow,   \* overflow_flag
    table       \* the hash stored in each slot, Junk for none

NoHashes == [s \in 0 .. TableSize - 1 |-> Junk]

(* resize_interned_columns keeps the first rows, new ones are junk.        *)
Resized(n) == [p \in 1 .. n |-> IF p <= Len(rows) THEN rows[p] ELSE Junk]

Stored_Fault(at, block) ==
    [p \in DOMAIN rows |->
        IF p - at \in DOMAIN block THEN block[p - at] ELSE rows[p]]

(* A block of tuples behind the old rows.                                  *)
Stored(at, block) ==
    [p \in DOMAIN rows |->
        IF p - oldSize - at \in DOMAIN block THEN block[p - oldSize - at] ELSE rows[p]]

FullBuffer(out, buffer) == out \in {"coalesced", "dedup"} \/ Len(buffer) = BufferSize

(* flush: the block is claimed first, and dropped if it does not fit.      *)
Fits(out, block) == out = "speculative" => writePos + Len(block) <= capacity

Claim(out, block) ==
    /\ writePos' = writePos + Len(block)
    /\ overflow' = (overflow \/ ~Fits(out, block))

Probed(tuple, n) == (Slot(tuple) + n) % TableSize

(* try_insert: one compare-and-swap per probe.                             *)
Insert(tuple, n) ==
    table' = IF table[Probed(tuple, n)] = Junk
             THEN [table EXCEPT ![Probed(tuple, n)] = tuple] ELSE table
Won(tuple, n) == table[Probed(tuple, n)] = Junk
Lost(tuple, n) == table[Probed(tuple, n)] = tuple
Exceeded(n) == n + 1 >= ProbeLimit
=============================================================================
