----------------------------- MODULE KernelRun -----------------------------
(***************************************************************************)
(* One run of a rule's kernels: warps that take rows from a work source    *)
(* and put tuples out through an output context, and the host between the  *)
(* counting and the writing pass.  The kernels' inner joins are left out   *)
(* (see KernelJoin): here a row of the column stands for a match.          *)
(***************************************************************************)
EXTENDS KernelMemory

CONSTANTS
    Warps,      \* 1 .. W; with output context dedup these are threads
    Leads(_),   \* the thread may write what it wins (the lane-0 guard)
    Modes,      \* pairs [work, out]: a work source with an output context
    ColumnsFor(_),  \* the columns tried with a mode
    HeadOf(_),  \* the tuple a value projects to
    FanDegree,  \* flat rows below each row, fan-out only
    Capacities  \* what earlier iterations may have left in prev_fused_total_

(* What the generator makes.                                               *)
Generated ==
    {[work |-> "static", out |-> "counted"], [work |-> "static", out |-> "speculative"],
     [work |-> "static", out |-> "dedup"]}

(* What the runtime library offers besides.  The generator refuses these   *)
(* kernels; expected outputs in the tests hold a kernel with a queue, and  *)
(* none for the board and the fan-out: what a warp does between the calls  *)
(* is the least that their operations ask for.                             *)
LibraryOnly ==
    {[work |-> "queue", out |-> "chunked"], [work |-> "board", out |-> "coalesced"],
     [work |-> "fanout", out |-> "preassigned"]}

Combinations == Generated \cup LibraryOnly

(* Rows are sorted.  Only a work queue shares out a column whose values    *)
(* recur, and a fan-out queue holds every chunk.                           *)
ChunksPerRow == (FanDegree + FanChunk - 1) \div FanChunk
Iterable(m, c) ==
    /\ c \in Seq(Int)
    /\ \A i, j \in 1 .. Len(c) : i < j => c[i] <= c[j]
    /\ m.work # "queue" => \A i, j \in 1 .. Len(c) : i # j => c[i] # c[j]
    /\ m.work = "fanout" => Len(c) * ChunksPerRow <= FanCapacity

ASSUME WarpsAssumption ==
    IsFiniteSet(Warps) /\ Warps # {} /\ Warps = 1 .. Cardinality(Warps)
ASSUME SizesAssumption ==
    /\ {QueueCapacity, BoardCapacity, FanCapacity} \subseteq Nat
    /\ {GrabSize, FanChunk, FanDegree} \subseteq Nat \ {0}
    /\ Capacities \subseteq Nat
ASSUME ModesAssumption ==
    Modes \subseteq Combinations /\ \A m \in Modes : \A c \in ColumnsFor(m) : Iterable(m, c)

VARIABLES
    mode,
    pass,       \* "count", "write", "done"
    warp,       \* the state of each warp, see Fresh
    base,       \* thread_offsets: the scanned counts
    total,      \* global_total of the fan-out
    visited     \* history: rows iterated in this pass

vars == <<column, queue, board, rows, oldSize, writePos, capacity, overflow, table,
          mode, pass, warp, base, total, visited>>

W == Cardinality(Warps)
Static == mode.work = "static" \/ (mode.work = "fanout" /\ pass = "count")

(* pc: "start", "run", "fill", "ready", "await", "donate", "probe",        *)
(* "flush", "store", "stop"; [b, e) is the range in hand.                  *)
Fresh == [pc |-> "start", b |-> 0, e |-> 0, give |-> NoTask, slot |-> 0, full |-> FALSE,
          buf |-> <<>>, count |-> 0, at |-> 0, n |-> 0]

Restarted == [w \in Warps |-> Fresh]

Init ==
    /\ mode \in Modes
    /\ column \in ColumnsFor(mode)
    /\ capacity \in IF mode.out = "speculative" THEN Capacities ELSE {0}
    /\ oldSize \in {0, 1}
    /\ rows = IF mode.out = "speculative"
              THEN [p \in 1 .. oldSize + capacity |-> IF p <= oldSize THEN 0 ELSE Junk]
              ELSE [p \in 1 .. oldSize |-> 0]
    /\ pass = IF mode.out = "speculative" THEN "write" ELSE "count"
    /\ queue = EmptyQueue /\ board = EmptyBoard /\ table = NoHashes
    /\ writePos = 0 /\ overflow = FALSE
    /\ warp = Restarted /\ base = [w \in Warps |-> 0] /\ total = 0 /\ visited = {}

At(w, pc) == warp[w].pc = pc /\ pass # "done"
Becomes(w, changed) == warp' = [warp EXCEPT ![w] = changed]

sources == <<column, queue, board>>
outputs == <<rows, oldSize, writePos, capacity, overflow, table>>
host == <<mode, pass, base>>

-----------------------------------------------------------------------------
(* Warps.                                                                  *)

(* publish, first step: the slot of warp w is warp[w].n, 0 for none yet.   *)
Announce(w) ==
    /\ At(w, "start")
    /\ mode.work = "board" /\ warp[w].n = 0
    /\ AddRange
    /\ Becomes(w, [warp[w] EXCEPT !.n = board.count + 1])
    /\ UNCHANGED <<column, queue, outputs, host, total, visited>>

Posting(w) == mode.work = "board" /\ warp[w].n <= BoardCapacity

(* A warp finds its share of the rows.  With a board it sets the range of  *)
(* its slot, and keeps the share when there was no slot left.              *)
Begin(w) ==
    /\ At(w, "start")
    /\ mode.work = "board" => warp[w].n > 0
    /\ LET L    == Len(column)
           part == CASE Static -> Task(w - 1, L, 0)
                     [] mode.work = "queue" -> IF w = 1 THEN Task(0, L, 0) ELSE NoTask
                     [] mode.work = "board" -> Task(((w - 1) * L) \div W, (w * L) \div W, 0)
                     [] OTHER -> NoTask
           kept == IF Posting(w) THEN NoTask ELSE part
       IN  /\ Becomes(w, [warp[w] EXCEPT !.pc = "run", !.b = kept.b, !.e = kept.e])
           /\ IF Posting(w) THEN SetRange(warp[w].n, part.b, part.e) ELSE UNCHANGED board
    /\ UNCHANGED <<column, queue, outputs, host, total, visited>>

InHand(w) == At(w, "run") /\ warp[w].b < warp[w].e
Drained(w) == At(w, "run") /\ warp[w].b >= warp[w].e

NextRow(w) ==
    CASE Static -> warp[w].b + W
      [] mode.work = "queue" -> RunEnd(warp[w].b, warp[w].e)
      [] OTHER -> warp[w].b + 1

Tuple(w) == IF mode.work = "fanout" THEN warp[w].b
            ELSE IF mode.out = "dedup" THEN HeadOf(column[warp[w].b + 1]) ELSE column[warp[w].b + 1]

(* Iterate one row, or one value of a value-aligned range, and emit.       *)
Visit(w) ==
    /\ InHand(w)
    /\ ~(mode.work = "fanout" /\ pass = "count")
    /\ LET next == [warp[w] EXCEPT !.b = NextRow(w), !.full = FALSE]
           full == FullBuffer(mode.out, Append(next.buf, Tuple(w)))
           kept == [next EXCEPT !.buf = Append(@, Tuple(w))]
       IN  /\ visited' = visited \cup IF Static THEN {warp[w].b} ELSE warp[w].b .. NextRow(w) - 1
           /\ IF pass = "count" /\ mode.out # "dedup"
              THEN Becomes(w, [next EXCEPT !.count = @ + 1]) /\ UNCHANGED rows
              ELSE CASE mode.out = "dedup" ->
                          Becomes(w, [next EXCEPT !.pc = "probe", !.buf = <<Tuple(w)>>, !.n = 0])
                          /\ UNCHANGED rows
                     [] mode.out = "counted" ->
                          /\ rows' = Stored(base[w] + next.count, <<Tuple(w)>>)
                          /\ Becomes(w, [next EXCEPT !.count = @ + 1])
                     [] mode.out = "preassigned" ->
                          /\ rows' = Stored(next.at, <<Tuple(w)>>)
                          /\ Becomes(w, [next EXCEPT !.at = @ + 1])
                     [] mode.out = "speculative" /\ overflow ->
                          Becomes(w, next) /\ UNCHANGED rows
                     [] OTHER ->
                          Becomes(w, IF full THEN [kept EXCEPT !.pc = "flush"] ELSE kept)
                          /\ UNCHANGED rows
    /\ UNCHANGED <<sources, oldSize, writePos, capacity, overflow, table, host, total>>

(* Fan-out, exploring: claim the output of a row's product, then push its  *)
(* chunks.                                                                 *)
Explore(w) ==
    /\ InHand(w)
    /\ mode.work = "fanout" /\ pass = "count"
    /\ total' = total + FanDegree
    /\ visited' = visited \cup {warp[w].b}
    /\ Becomes(w, [warp[w] EXCEPT !.pc = "donate", !.at = total, !.n = 0])
    /\ UNCHANGED <<sources, outputs, host>>

PushChunk(w) ==
    /\ At(w, "donate")
    /\ LET f == warp[w].b * FanDegree
           n == warp[w].n
           m == Min({n + FanChunk, FanDegree})
       IN  /\ BlindPush(Task(f + n, f + m, warp[w].at + n))
           /\ Becomes(w, IF m = FanDegree THEN [warp[w] EXCEPT !.pc = "run", !.b = @ + W]
                                         ELSE [warp[w] EXCEPT !.n = m])
    /\ UNCHANGED <<column, board, outputs, host, total, visited>>

PopChunk(w) ==
    /\ Drained(w)
    /\ mode.work = "fanout" /\ pass = "write"
    /\ BlindPop
    /\ LET task == queue.tasks[queue.head]
       IN  Becomes(w, IF PoppedBlindly
                      THEN [warp[w] EXCEPT !.b = task.b, !.e = task.e, !.at = task.at]
                      ELSE [warp[w] EXCEPT !.pc = "stop"])
    /\ UNCHANGED <<column, board, outputs, host, total, visited>>

(* Work stealing: give away the part after a value boundary; when the      *)
(* queue is full, go on alone.                                             *)
Donate(w) ==
    /\ InHand(w) /\ ~warp[w].full
    /\ mode.work = "queue"
    /\ LET s == ValueAlignedSplit(warp[w].b, warp[w].e)
       IN  /\ s # 0
           /\ \E won \in BOOLEAN :
                 /\ Reserve(won)
                 /\ Becomes(w, IF won THEN [warp[w] EXCEPT !.pc = "fill", !.slot = queue.tail,
                                               !.e = s, !.give = Task(s, warp[w].e, 0)]
                                      ELSE [warp[w] EXCEPT !.full = TRUE])
    /\ UNCHANGED <<column, board, outputs, host, total, visited>>

FillSlot(w) ==
    /\ At(w, "fill")
    /\ Fill(warp[w].slot, warp[w].give)
    /\ Becomes(w, [warp[w] EXCEPT !.pc = "ready"])
    /\ UNCHANGED <<column, board, outputs, host, total, visited>>

RaiseFlag(w) ==
    /\ At(w, "ready")
    /\ MakeReady(warp[w].slot)
    /\ Becomes(w, [warp[w] EXCEPT !.pc = "run", !.give = NoTask])
    /\ UNCHANGED <<column, board, outputs, host, total, visited>>

Steal(w) ==
    /\ Drained(w)
    /\ mode.work = "queue"
    /\ TakeSlot(queue.head)
    /\ Becomes(w, [warp[w] EXCEPT !.pc = "await", !.slot = queue.head])
    /\ UNCHANGED <<column, board, outputs, host, total, visited>>

TakeTask(w) ==
    /\ At(w, "await")
    /\ IsReady(warp[w].slot)
    /\ LET task == queue.tasks[warp[w].slot]
       IN  Becomes(w, [warp[w] EXCEPT !.pc = "run", !.b = task.b, !.e = task.e])
    /\ UNCHANGED <<sources, outputs, host, total, visited>>

(* A warp takes from one slot of the board after the other.  It must know  *)
(* that publish has returned a slot before it reads it: grab does not say, *)
(* and the count has been raised before.                                   *)
IsSet(s) == \A v \in Warps : At(v, "start") => warp[v].n # s

GrabRange(w) ==
    /\ Drained(w)
    /\ mode.work = "board"
    /\ warp[w].slot < Len(board.ranges)
    /\ LET s == warp[w].slot + 1
       IN  /\ IsSet(s)
           /\ Grab(s)
           /\ Becomes(w, IF Exhausted(s) THEN [warp[w] EXCEPT !.slot = s]
                         ELSE [warp[w] EXCEPT !.b = Grabbed(s).b, !.e = Grabbed(s).e])
    /\ UNCHANGED <<column, queue, outputs, host, total, visited>>

(* One probe of the deduplication table.                                   *)
Probe(w) ==
    /\ At(w, "probe")
    /\ LET t    == warp[w].buf[1]
           n    == warp[w].n
           none == [warp[w] EXCEPT !.pc = "run", !.buf = <<>>]
       IN  /\ Insert(t, n)
           /\ Becomes(w, IF Lost(t, n) THEN none
                         ELSE IF ~Won(t, n) /\ ~Exceeded(n) THEN [warp[w] EXCEPT !.n = n + 1]
                         ELSE IF ~Leads(w) THEN none
                         ELSE IF pass = "count" THEN [none EXCEPT !.count = @ + 1]
                         ELSE [warp[w] EXCEPT !.pc = "flush"])
    /\ UNCHANGED <<sources, rows, oldSize, writePos, capacity, overflow, host, total, visited>>

Flush(w) ==
    /\ At(w, "flush")
    /\ Claim(mode.out, warp[w].buf)
    /\ Becomes(w, IF Fits(mode.out, warp[w].buf)
                  THEN [warp[w] EXCEPT !.pc = "store", !.at = writePos]
                  ELSE [warp[w] EXCEPT !.pc = "run", !.buf = <<>>])
    /\ UNCHANGED <<sources, rows, oldSize, capacity, table, host, total, visited>>

Store(w) ==
    /\ At(w, "store")
    /\ rows' = Stored(warp[w].at, warp[w].buf)
    /\ Becomes(w, [warp[w] EXCEPT !.pc = "run", !.buf = <<>>])
    /\ UNCHANGED <<sources, oldSize, writePos, capacity, overflow, table, host, total, visited>>

(* Nothing is left to take, for a warp that has looked; what is buffered   *)
(* is flushed before it stops.  With a queue, others may go on and donate: *)
(* they take back what nobody else takes.                                  *)
NoWork(w) ==
    CASE Static -> TRUE
      [] mode.work = "queue" -> queue.head >= queue.tail
      [] mode.work = "board" -> /\ \A v \in Warps : warp[v].pc # "start"
                                /\ warp[w].slot >= Len(board.ranges)
      [] OTHER -> FALSE

Finish(w) ==
    /\ Drained(w) /\ NoWork(w)
    /\ Becomes(w, [warp[w] EXCEPT !.pc = IF warp[w].buf # <<>> THEN "flush" ELSE "stop"])
    /\ UNCHANGED <<sources, outputs, host, total, visited>>

-----------------------------------------------------------------------------
(* The host, when a kernel has returned.                                   *)
Returned == \A w \in Warps : warp[w].pc = "stop"

(* The sum of f over S: one element for each unit of each summand.         *)
SumOf(f, S) == Cardinality(UNION {{w} \X (1 .. f[w]) : w \in S})
Counts == [w \in Warps |-> warp[w].count]
Found == IF mode.out = "preassigned" THEN total ELSE SumOf(Counts, Warps)

EndCount_Fault ==
    /\ pass = "count" /\ Returned
    /\ pass' = IF Found = 0 THEN "done" ELSE "write"
    /\ rows' = Resized(oldSize + Found)
    /\ base' = [w \in Warps |-> SumOf(Counts, {v \in Warps : v < w})]
    /\ board' = EmptyBoard
    /\ queue' = IF mode.work = "fanout" THEN queue ELSE EmptyQueue
    /\ warp' = Restarted /\ visited' = {}
    /\ UNCHANGED <<column, table, oldSize, writePos, capacity, overflow, mode, total>>

(* Scan the counts, resize NEW once, reset the shared structures and       *)
(* start the writing kernel.                                               *)
EndCount ==
    /\ pass = "count" /\ Returned
    /\ pass' = IF Found = 0 THEN "done" ELSE "write"
    /\ rows' = Resized(oldSize + Found)
    /\ base' = [w \in Warps |-> SumOf(Counts, {v \in Warps : v < w})]
    /\ table' = NoHashes /\ board' = EmptyBoard
    /\ queue' = IF mode.work = "fanout" THEN queue ELSE EmptyQueue
    /\ warp' = Restarted /\ visited' = {}
    /\ UNCHANGED <<column, oldSize, writePos, capacity, overflow, mode, total>>

Counted == [work |-> "static", out |-> "counted"]

(* A speculative run keeps what it wrote, or discards it, remembers how    *)
(* much there was, and runs again with counting.                           *)
EndWrite ==
    /\ pass = "write" /\ Returned
    /\ IF overflow /\ mode.out = "speculative"
       THEN /\ rows' = Resized(oldSize)
            /\ capacity' = writePos * 4
            /\ mode' = Counted /\ pass' = "count"
            /\ warp' = Restarted /\ visited' = {}
       ELSE /\ rows' = IF mode.out = "speculative" THEN Resized(oldSize + writePos) ELSE rows
            /\ capacity' = IF mode.out = "speculative" THEN Max({writePos, 1}) * 4 ELSE capacity
            /\ pass' = "done"
            /\ UNCHANGED <<mode, warp, visited>>
    /\ UNCHANGED <<sources, oldSize, writePos, overflow, table, base, total>>

WarpStep(w) ==
    \/ Announce(w) \/ Begin(w) \/ Visit(w) \/ Explore(w) \/ PushChunk(w) \/ PopChunk(w)
    \/ Donate(w) \/ FillSlot(w) \/ RaiseFlag(w) \/ Steal(w) \/ TakeTask(w)
    \/ GrabRange(w) \/ Probe(w) \/ Flush(w) \/ Store(w) \/ Finish(w)

Terminated == pass = "done" /\ UNCHANGED vars

Next ==
    \/ \E w \in Warps : WarpStep(w)
    \/ EndCount \/ EndWrite \/ Terminated

(* Every warp that can run is scheduled in the end.                        *)
Spec ==
    /\ Init /\ [][Next]_vars
    /\ \A w \in Warps : WF_vars(WarpStep(w))
    /\ WF_vars(EndCount) /\ WF_vars(EndWrite)

-----------------------------------------------------------------------------
Expected ==
    IF mode.work = "fanout" THEN 0 .. Len(column) * FanDegree - 1
    ELSE IF mode.out = "dedup" THEN {HeadOf(v) : v \in ToSet(column)}
    ELSE ToSet(column)

(* Deduplication delivers each tuple once only if every thread may write   *)
(* what it wins and probing comes to an end before its limit does: a tuple *)
(* probed in vain is put out as if it were new.                            *)
DedupSupported ==
    \A m \in Modes : m.out = "dedup" =>
        /\ \A w \in Warps : Leads(w)
        /\ ProbeLimit \in Nat /\ TableSize \in Nat /\ ProbeLimit <= TableSize
        /\ \A c \in ColumnsFor(m) :
              /\ Cardinality({HeadOf(v) : v \in ToSet(c)}) <= ProbeLimit
              /\ \A v \in ToSet(c) : Slot(HeadOf(v)) \in Nat /\ HeadOf(v) # Junk

(* When the rule has run, NEW holds its old rows and behind them every     *)
(* tuple once, whatever the interleaving, the split points, the capacity.  *)
Delivered ==
    pass = "done" =>
        /\ Len(rows) = oldSize + Cardinality(Expected)
        /\ {rows[p] : p \in oldSize + 1 .. Len(rows)} = Expected
        /\ \A p \in 1 .. oldSize : rows[p] = 0

(* A row, once written, is written by nobody else.                         *)
WrittenOnce ==
    [][pass' = pass => \A p \in DOMAIN rows : rows[p] # Junk => rows'[p] = rows[p]]_vars

Span(task) == task.b .. task.e - 1
Strided(w) == {r \in Span(warp[w]) : r % W = w - 1}
ToVisit(w) ==
    CASE warp[w].pc = "start" -> {}
      [] warp[w].pc = "donate" -> Strided(w) \ {warp[w].b}
      [] warp[w].pc \notin {"start", "donate"} /\ Static -> Strided(w)
      [] OTHER -> Span(warp[w])
Offered(w) == IF warp[w].pc \in {"fill", "ready"} THEN Span(warp[w].give) ELSE {}
Waiting(s) ==
    \/ mode.work = "fanout" /\ pass = "write" /\ queue.head <= s /\ s < queue.tail
    \/ s \in queue.ready /\ (s >= queue.head \/ \E w \in Warps : At(w, "await") /\ warp[w].slot = s)
Queued(s) == IF Waiting(s) THEN Span(queue.tasks[s]) ELSE {}
Posted(s) == board.ranges[s].cursor .. board.ranges[s].end - 1

(* Where a row of the iteration can be, and the rows that are there.       *)
Whereabouts == {<<"visited", 0>>} \cup ({"held", "offered"} \X Warps)
            \cup ({"queued"} \X Slots) \cup ({"posted"} \X DOMAIN board.ranges)
RowsAt(p) ==
    CASE p[1] = "visited" -> visited
      [] p[1] = "held" -> ToVisit(p[2])
      [] p[1] = "offered" -> Offered(p[2])
      [] p[1] = "queued" -> Queued(p[2])
      [] p[1] = "posted" -> Posted(p[2])
AllRows ==
    0 .. (IF mode.work = "fanout" /\ pass = "write" THEN Len(column) * FanDegree ELSE Len(column)) - 1

(* While all warps run, every row is in exactly one place - visited, in    *)
(* one warp's hands, offered by one, in one slot of the queue or on the    *)
(* board: none is lost when a range is split, and none is iterated twice.  *)
WorkConserved ==
    pass # "done" /\ (\A w \in Warps : warp[w].pc # "start") =>
        /\ UNION {RowsAt(p) : p \in Whereabouts} = AllRows
        /\ \A p, q \in Whereabouts : p # q => RowsAt(p) \cap RowsAt(q) = {}

(* The run ends: nobody spins for ever on a slot that is never filled.     *)
Ends == <>(pass = "done")
=============================================================================
