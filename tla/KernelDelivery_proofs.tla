------------------------ MODULE KernelDelivery_proofs ------------------------
(***************************************************************************)
(* A rule's kernels deliver: when they have run, NEW holds its old rows    *)
(* and behind them every tuple of the rule once.                           *)
(*                                                                         *)
(* The argument.  That the rows of an iteration are shared out and that    *)
(* what is written is never written over is proved in KernelRun_proofs.    *)
(* Three things are left.                                                  *)
(*                                                                         *)
(* Nothing is left undone: a warp stops with its buffer flushed, and the   *)
(* last one leaves no work behind (Halted), so that once all have stopped  *)
(* every row has been visited.  A work queue is cut between different      *)
(* values only (Aligned), so that a value is visited, and put out, by one  *)
(* warp.                                                                   *)
(*                                                                         *)
(* As many positions are claimed as there are tuples: the counters add up  *)
(* to the tuples taken so far, and so do the positions claimed and the     *)
(* tuples still in a warp's hands (Balanced).  With the size NEW was       *)
(* given, every position somebody will write lies in it (Inside).  A warp  *)
(* of the deduplicating kernel takes a tuple when it enters it in the      *)
(* table, which holds each once, at a place that its probing leads to      *)
(* (Entered); there is room for all of them (Roomy).                       *)
(*                                                                         *)
(* No tuple is lost: one that has been taken is in a row that nobody is    *)
(* going to write, or in a warp's buffer (NoneLost).  When all have        *)
(* stopped, as many rows as tuples with every tuple in one are the tuples, *)
(* each once. A speculative run that overflows may lose what it likes: it  *)
(* is discarded.                                                           *)
(***************************************************************************)
EXTENDS KernelRun_proofs

-----------------------------------------------------------------------------
(***************************************************************************)
(* What is delivered.                                                      *)
(***************************************************************************)

(* A warp stops with its buffer flushed.  Once one has, nothing is left of *)
(* a fan-out queue or of the board; a slot that has been passed is used up *)
(* and is not set again.  A queue is empty when the last warp stops: what  *)
(* it has donated since the others did, it has taken back.                 *)
Somebody == \E w \in Warps : warp[w].pc = "stop"
Emptied(s) ==
    /\ board.ranges[s].cursor >= board.ranges[s].end
    /\ \A v \in Warps : warp[v].pc = "start" => warp[v].n # s
Grabbing(w) ==
    /\ warp[w].pc = "stop" => /\ \A v \in Warps : warp[v].pc # "start"
                              /\ warp[w].slot >= Len(board.ranges)
    /\ warp[w].slot <= Len(board.ranges)
    /\ \A s \in 1 .. Len(board.ranges) : s <= warp[w].slot => Emptied(s)
Halted ==
    pass # "done" =>
        /\ \A w \in Warps : warp[w].pc = "stop" => warp[w].buf = <<>>
        /\ mode.work = "queue" /\ Returned => queue.head >= queue.tail
        /\ mode.work = "fanout" /\ pass = "write" /\ Somebody => queue.head >= queue.tail
        /\ mode.work = "board" => \A w \in Warps : Grabbing(w)

(* Ranges of a work queue begin and end between different values.          *)
Cut(c, q) == \A i, j \in 0 .. Len(c) - 1 : i < q /\ q <= j => c[i + 1] # c[j + 1]
Between(task) == Cut(column, task.b) /\ Cut(column, task.e)
Aligned ==
    mode.work = "queue" /\ pass # "done" =>
        /\ \A w \in Warps : Between(warp[w]) /\ Between(warp[w].give)
        /\ \A s \in Slots : Between(queue.tasks[s])
        /\ \A r \in visited : \A q \in 0 .. Len(column) - 1 :
              column[q + 1] = column[r + 1] => q \in visited

(* The tuple of a row; those of the rows visited; those that have to be    *)
(* written: with deduplication, those that have entered the table.         *)
TupleAt(r) ==
    IF mode.work = "fanout" THEN r
    ELSE IF mode.out = "dedup" THEN HeadOf(column[r + 1]) ELSE column[r + 1]
Emitted == {TupleAt(r) : r \in visited}
Tabled == {table[s] : s \in DOMAIN table} \ {Junk}
Taken == IF mode.out = "dedup" THEN Tabled ELSE Emitted

(* With deduplication every thread may write, and there is room to probe.  *)
Roomy ==
    mode.out = "dedup" =>
        /\ \A w \in Warps : Leads(w)
        /\ ProbeLimit \in Nat /\ TableSize \in Nat /\ ProbeLimit <= TableSize
        /\ Cardinality(Expected) <= ProbeLimit
        /\ \A t \in Expected : Slot(t) \in Nat /\ t # Junk

(* A tuple in the table is where its probing found room, and what is being *)
(* probed has met only others so far.                                      *)
Behind(h, t, n) == \A m \in 0 .. n - 1 : h[Probed(t, m)] \notin {t, Junk}
Entered ==
    mode.out = "dedup" /\ pass # "done" =>
        /\ DOMAIN table = 0 .. TableSize - 1
        /\ Tabled \subseteq Emitted
        /\ \A s, r \in DOMAIN table : table[s] = table[r] /\ table[s] # Junk => s = r
        /\ \A t \in Tabled : \E n \in 0 .. ProbeLimit - 1 : table[Probed(t, n)] = t /\ Behind(table, t, n)
        /\ \A w \in Warps : warp[w].pc = "probe" =>
              \E t \in Emitted : /\ warp[w].buf = <<t>> /\ Behind(table, t, warp[w].n)
                                 /\ warp[w].n < ProbeLimit
        /\ \A t \in Emitted : t \in Tabled \/ \E w \in Warps : warp[w].pc = "probe" /\ warp[w].buf = <<t>>

(* How many tuples a warp has in hand that no position is claimed for.     *)
Dropped == mode.out = "speculative" /\ overflow
Owing == [w \in Warps |-> IF warp[w].pc \in {"store", "probe"} THEN 0 ELSE Len(warp[w].buf)]
Balanced ==
    /\ pass = "count" /\ mode.work # "fanout" => SumOf(Counts, Warps) = Cardinality(Taken)
    /\ pass = "count" /\ mode.work = "fanout" => total = FanDegree * Cardinality(visited)
    /\ Blocks /\ ~Dropped => writePos + SumOf(Owing, Warps) = Cardinality(Taken)

(* A warp buffers rows in the writing pass, one that probes a single tuple.*)
Buffering ==
    pass # "done" =>
        /\ \A w \in Warps : warp[w].pc = "probe" => mode.out = "dedup"
        /\ mode.out = "dedup" => \A w \in Warps :
              warp[w].pc \notin {"probe", "flush", "store"} => warp[w].buf = <<>>
        /\ pass = "count" =>
              /\ mode.out \notin {"counted", "preassigned"} => writePos = 0
              /\ \A w \in Warps : /\ warp[w].pc \notin {"flush", "store"}
                                  /\ warp[w].pc # "probe" => warp[w].buf = <<>>

(* Claims of warps and chunks lie inside the columns.                      *)
Room == Len(rows) - oldSize
Aimed(q) == (\E w \in Warps : q \in Aims(w)) \/ \E s \in Slots : q \in Booked(s)
Inside ==
    pass = "write" =>
        /\ \A q : Aimed(q) => q < Room
        /\ Room = IF mode.out = "speculative" THEN capacity ELSE Cardinality(Expected)

(* A tuple is settled in a row that nobody is going to write, or carried   *)
(* in a warp's buffer.                                                     *)
Settled(t) == \E p \in DOMAIN rows : p > oldSize /\ rows[p] = t /\ ~Claimed(p - oldSize - 1)
Carried(t) == \E w \in Warps : warp[w].pc # "probe" /\ \E i \in DOMAIN warp[w].buf : warp[w].buf[i] = t
NoneLost == pass = "write" /\ ~Dropped => \A t \in Taken : Settled(t) \/ Carried(t)

OldKept == Len(rows) >= oldSize /\ \A p \in 1 .. oldSize : rows[p] = 0


(* Who stops, and when.                                                    *)
LEMMA StopsHow ==
    ASSUME RunInv, NEW w \in Warps, WarpStep(w)
    PROVE  /\ Alone(w) /\ pass # "done" /\ UNCHANGED <<column, mode, pass>>
           /\ warp'[w].pc = "stop" => Finish(w) \/ PopChunk(w)
<1>1. WarpsTyped /\ RunTyped /\ BoardTyped
  BY DEF RunInv, WorkInv, WorkTyped
<1> DEFINE Goal == /\ Alone(w) /\ pass # "done" /\ UNCHANGED <<column, mode, pass>>
                   /\ warp'[w].pc = "stop" => Finish(w) \/ PopChunk(w)
<1> SUFFICES Goal
  OBVIOUS
<1>17. CASE Announce(w)
  BY <1>1, <1>17, AnnounceEffect DEF AnnounceDone, Turns, IsWarp, At, host
<1>2. CASE Begin(w)
  <2>1. BeginDone(w)
    BY <1>1, <1>2, BeginDoes
  <2> QED
    BY <2>1 DEF BeginDone, Shown, At
<1>3. CASE Visit(w)
  <2>1. VisitDone(w)
    BY <1>1, <1>3, VisitEffect
  <2>2. warp'[w].pc \in {"run", "probe", "flush"}
    BY <1>1, <2>1, VisitTyped
  <2> QED
    BY <2>1, <2>2 DEF VisitDone, InHand, At
<1>4. CASE Explore(w)
  <2>1. ExploreDone(w)
    BY <1>1, <1>4, ExploreEffect
  <2> QED
    BY <2>1 DEF ExploreDone, Turns, IsWarp, InHand, At, sources, host
<1>5. CASE PushChunk(w)
  <2>1. PushDone(w)
    BY <1>1, <1>5, PushEffect
  <2>2. Alone(w) /\ warp'[w].pc # "stop"
    BY <2>1 DEF PushDone, Turns, IsWarp
  <2> QED
    BY <2>1, <2>2 DEF PushDone, At, host
<1>6. CASE PopChunk(w)
  <2>1. PopDone(w)
    BY <1>1, <1>6, PopEffect
  <2>2. Alone(w)
    BY <2>1 DEF PopDone, Turns
  <2> QED
    BY <1>6, <2>1, <2>2 DEF PopDone, Drained, At, host
<1>7. CASE Donate(w)
  <2>1. DonateDone(w)
    BY <1>1, <1>7, DonateEffect
  <2>2. Alone(w) /\ warp'[w].pc # "stop"
    BY <2>1 DEF DonateDone, Turns, IsWarp
  <2> QED
    BY <2>1, <2>2 DEF DonateDone, InHand, At, host
<1>8. CASE FillSlot(w)
  BY <1>1, <1>8, FillSlotEffect DEF FillDone, Turns, IsWarp, At, host
<1>9. CASE RaiseFlag(w)
  BY <1>1, <1>9, RaiseFlagEffect DEF RaiseDone, Turns, IsWarp, At, host
<1>10. CASE Steal(w)
  BY <1>1, <1>10, StealEffect DEF StealDone, Turns, IsWarp, Drained, At, host
<1>11. CASE TakeTask(w)
  BY <1>1, <1>11, TakeTaskEffect DEF TakeDone, Turns, IsWarp, At, host, sources
<1>12. CASE GrabRange(w)
  <2>1. GrabDone(w)
    BY <1>1, <1>12, GrabEffect
  <2>2. Alone(w) /\ warp'[w].pc # "stop"
    BY <2>1 DEF GrabDone, Turns, IsWarp
  <2> QED
    BY <2>1, <2>2 DEF GrabDone, Drained, At, host
<1>13. CASE Probe(w)
  <2>1. ProbeDone(w)
    BY <1>1, <1>13, ProbeEffect
  <2>2. Alone(w) /\ warp'[w].pc # "stop"
    BY <2>1 DEF ProbeDone, Turns, IsWarp
  <2> QED
    BY <2>1, <2>2 DEF ProbeDone, At, host, sources
<1>14. CASE Flush(w)
  <2>1. FlushDone(w)
    BY <1>1, <1>14, FlushEffect
  <2>2. Alone(w) /\ warp'[w].pc # "stop"
    BY <2>1 DEF FlushDone, Turns, IsWarp
  <2> QED
    BY <2>1, <2>2 DEF FlushDone, At, host, sources
<1>15. CASE Store(w)
  BY <1>1, <1>15, StoreEffect DEF StoreDone, Turns, IsWarp, At, host, sources
<1>16. CASE Finish(w)
  <2>1. FinishDone(w)
    BY <1>1, <1>16, FinishEffect
  <2>2. Alone(w)
    BY <2>1 DEF FinishDone, Turns
  <2> QED
    BY <1>16, <2>1, <2>2 DEF FinishDone, Drained, At, host, sources
<1> HIDE DEF Goal
<1> QED
  BY <1>2, <1>3, <1>4, <1>5, <1>6, <1>7, <1>8, <1>9, <1>10, <1>11, <1>12, <1>13, <1>14,
     <1>15, <1>16, <1>17, Zenon DEF WarpStep

(* The steps that a warp can take, by work source.                         *)
Outward(w) == Probe(w) \/ Flush(w) \/ Store(w)
LEMMA StepsOf ==
    ASSUME RunInv, NEW w \in Warps, WarpStep(w)
    PROVE  /\ mode.work = "static" => Begin(w) \/ Visit(w) \/ Outward(w) \/ Finish(w)
           /\ mode.work = "board" =>
                Announce(w) \/ Begin(w) \/ Visit(w) \/ GrabRange(w) \/ Outward(w) \/ Finish(w)
           /\ mode.work = "queue" =>
                \/ Begin(w) \/ Visit(w) \/ Outward(w) \/ Finish(w)
                \/ Donate(w) \/ FillSlot(w) \/ RaiseFlag(w) \/ Steal(w) \/ TakeTask(w)
           /\ mode.work = "fanout" /\ pass = "count" =>
                Begin(w) \/ Explore(w) \/ PushChunk(w) \/ Outward(w) \/ Finish(w)
           /\ mode.work = "fanout" /\ pass = "write" =>
                Begin(w) \/ Visit(w) \/ PopChunk(w) \/ Outward(w)
<1>1. Phases
  BY DEF RunInv, WorkInv
<1>2. /\ FillSlot(w) \/ RaiseFlag(w) \/ TakeTask(w) => mode.work = "queue"
      /\ PushChunk(w) => mode.work = "fanout" /\ pass = "count"
  BY <1>1 DEF FillSlot, RaiseFlag, TakeTask, PushChunk, Phases, At, Giving
<1>3. /\ Explore(w) => mode.work = "fanout" /\ pass = "count"
      /\ PopChunk(w) => mode.work = "fanout" /\ pass = "write"
      /\ Donate(w) \/ Steal(w) => mode.work = "queue"
      /\ Announce(w) \/ GrabRange(w) => mode.work = "board"
      /\ Visit(w) => ~(mode.work = "fanout" /\ pass = "count")
  BY DEF Announce, Explore, PopChunk, Donate, Steal, GrabRange, Visit
<1>4. Finish(w) => ~(mode.work = "fanout" /\ pass = "write")
  BY DEF Finish, NoWork, Static
<1> QED
  BY <1>2, <1>3, <1>4, Zenon DEF WarpStep, Outward

(* What such a step leaves alone.                                          *)
OutwardDone(w) ==
    /\ Alone(w)
    /\ warp[w].pc \in {"probe", "flush", "store"} /\ warp'[w].pc \in {"run", "probe", "flush", "store"}
    /\ warp'[w].b = warp[w].b /\ warp'[w].e = warp[w].e /\ warp'[w].slot = warp[w].slot
    /\ warp'[w].give = warp[w].give
    /\ UNCHANGED <<column, queue, board, mode, pass, visited>>
LEMMA OutwardDoes ==
    ASSUME WarpsTyped, NEW w \in Warps, Outward(w)
    PROVE  OutwardDone(w)
<1>1. CASE Probe(w)
  <2>1. ProbeDone(w)
    BY <1>1, ProbeEffect
  <2>2. /\ Alone(w) /\ warp'[w].pc \in {"run", "probe", "flush"}
        /\ warp'[w].b = warp[w].b /\ warp'[w].e = warp[w].e /\ warp'[w].slot = warp[w].slot
        /\ warp'[w].give = warp[w].give
    BY <2>1 DEF ProbeDone, Turns, IsWarp
  <2> QED
    BY <2>1, <2>2 DEF ProbeDone, At, sources, host, OutwardDone
<1>2. CASE Flush(w)
  <2>1. FlushDone(w)
    BY <1>2, FlushEffect
  <2>2. /\ Alone(w) /\ warp'[w].pc \in {"run", "store"}
        /\ warp'[w].b = warp[w].b /\ warp'[w].e = warp[w].e /\ warp'[w].slot = warp[w].slot
        /\ warp'[w].give = warp[w].give
    BY <2>1 DEF FlushDone, Turns, IsWarp
  <2> QED
    BY <2>1, <2>2 DEF FlushDone, At, sources, host, OutwardDone
<1>3. CASE Store(w)
  <2>1. StoreDone(w)
    BY <1>3, StoreEffect
  <2>2. /\ Alone(w) /\ warp'[w].pc = "run"
        /\ warp'[w].b = warp[w].b /\ warp'[w].e = warp[w].e /\ warp'[w].slot = warp[w].slot
        /\ warp'[w].give = warp[w].give
    BY <2>1 DEF StoreDone, Turns, IsWarp
  <2> QED
    BY <2>1, <2>2 DEF StoreDone, At, sources, host, OutwardDone
<1> QED
  BY <1>1, <1>2, <1>3 DEF Outward

(* A warp that stops has seen the queue empty.                             *)
LEMMA StopsIdle ==
    ASSUME RunInv, mode.work = "queue", NEW w \in Warps, WarpStep(w), Returned'
    PROVE  queue'.head >= queue'.tail
<1>1. WarpsTyped /\ RunTyped /\ (warp'[w].pc = "stop" => Finish(w) \/ PopChunk(w))
  BY StopsHow DEF RunInv, WorkInv, WorkTyped
<1>2. warp'[w].pc = "stop"
  BY DEF Returned
<1>3. Finish(w)
  BY <1>1, <1>2 DEF PopChunk
<1>4. FinishDone(w)
  BY <1>1, <1>3, FinishEffect
<1>5. NoWork(w) /\ ~Static /\ UNCHANGED queue
  BY <1>4 DEF FinishDone, Static, sources
<1> QED
  BY <1>5 DEF NoWork

(* The tasks of a fan-out queue are given out in order and none comes back.*)
LEMMA StopsPopped ==
    ASSUME RunInv, Halted, mode.work = "fanout", pass = "write", NEW w \in Warps, WarpStep(w),
           Somebody'
    PROVE  queue'.head >= queue'.tail
<1>1. /\ Alone(w) /\ UNCHANGED <<column, mode, pass>>
      /\ warp'[w].pc = "stop" => Finish(w) \/ PopChunk(w)
      /\ WarpsTyped /\ QueueTyped /\ queue.head \in Nat /\ queue.tail \in Nat
  BY StopsHow DEF RunInv, WorkInv, WorkTyped, QueueTyped
<1>2. Somebody => queue.head >= queue.tail
  BY DEF Halted
<1>3. CASE PopChunk(w)
  <2>1. queue'.head = queue.head + 1 /\ queue'.tail = queue.tail
    BY <1>1, <1>3, HeadMoved DEF PopChunk, BlindPop
  <2>2. CASE Somebody
    BY <1>1, <1>2, <2>1, <2>2
  <2>3. CASE ~Somebody
    <3>1. warp'[w].pc = "stop"
      BY <1>1, <2>3 DEF Somebody, Alone, Others
    <3>2. PopDone(w)
      BY <1>1, <1>3, PopEffect
    <3>3. ~PoppedBlindly
      BY <3>1, <3>2 DEF PopDone, Turns, IsWarp
    <3> QED
      BY <1>1, <2>1, <3>3 DEF PoppedBlindly
  <2> QED
    BY <2>2, <2>3
<1>4. CASE ~PopChunk(w)
  <2>1. Begin(w) \/ Visit(w) \/ Outward(w)
    BY <1>4, StepsOf
  <2>2. ~Finish(w)
    BY DEF Finish, NoWork, Static
  <2>3. UNCHANGED queue
    BY <1>1, <2>1, OutwardDoes DEF Begin, Visit, OutwardDone, sources
  <2>4. Somebody
    BY <1>1, <1>4, <2>2 DEF Somebody, Alone, Others
  <2> QED
    BY <1>2, <2>3, <2>4
<1> QED
  BY <1>3, <1>4

(* A warp reaches the end of the board when nothing is left on it.         *)
LEMMA GrabbingKept ==
    ASSUME RunInv, mode.work = "board", \A v \in Warps : Grabbing(v),
           NEW w \in Warps, WarpStep(w)
    PROVE  \A v \in Warps : Grabbing(v)'
<1>1. /\ Alone(w) /\ UNCHANGED <<column, mode, pass>> /\ pass # "done"
      /\ WarpsTyped /\ RunTyped /\ BoardTyped /\ \A v \in Warps : warp[v].slot \in Nat
      /\ warp'[w].pc = "stop" => Finish(w) \/ PopChunk(w)
  BY StopsHow DEF RunInv, WorkInv, WorkTyped, WarpsTyped, WarpTyped
<1>2. /\ Len(board.ranges) \in Nat
      /\ \A s \in 1 .. Len(board.ranges) :
            board.ranges[s].cursor \in Nat /\ board.ranges[s].end \in Nat
  <2> DEFINE Ranges == [cursor : Nat, end : Nat]
  <2>1. board.ranges \in Seq(Ranges)
    BY <1>1 DEF BoardTyped
  <2>2. Len(board.ranges) \in Nat /\ \A s \in 1 .. Len(board.ranges) : board.ranges[s] \in Ranges
    <3> HIDE DEF Ranges
    <3> QED
      BY <2>1
  <2> QED
    BY <2>2
<1>0. \A v \in Warps : v = w \/ warp'[v] = warp[v]
  BY <1>1 DEF Alone, Others
<1>3. ASSUME warp[w].pc = "start", warp'[w].pc # "stop", warp'[w].slot = warp[w].slot,
             Len(board'.ranges) \in Nat, Len(board.ranges) <= Len(board'.ranges),
             \A s \in 1 .. Len(board.ranges) : Emptied(s) => Emptied(s)'
      PROVE  \A v \in Warps : Grabbing(v)'
  <2> SUFFICES ASSUME NEW v \in Warps
               PROVE  Grabbing(v)'
    OBVIOUS
  <2>1. warp[v].pc # "stop" /\ warp'[v].pc # "stop" /\ warp'[v].slot = warp[v].slot
    <3>1. warp[v].pc # "stop"
      BY <1>3 DEF Grabbing
    <3> QED
      BY <1>0, <1>3, <3>1
  <2>2. /\ warp[v].slot \in Nat /\ warp[v].slot <= Len(board.ranges)
        /\ \A s \in 1 .. Len(board.ranges) : s <= warp[v].slot => Emptied(s)
    BY <1>1 DEF Grabbing
  <2>3. warp[v].slot <= Len(board'.ranges)
    BY <1>2, <1>3, <2>2
  <2>4. \A s \in 1 .. Len(board'.ranges) : s <= warp[v].slot => Emptied(s)'
    BY <1>2, <1>3, <2>2
  <2> QED
    BY <2>1, <2>3, <2>4 DEF Grabbing
<1>9. CASE Announce(w)
  <2>1. AnnounceDone(w)
    BY <1>1, <1>9, AnnounceEffect
  <2>2. /\ AddRange /\ warp'[w].n = board.count + 1 /\ warp'[w].slot = warp[w].slot
        /\ warp[w].pc = "start" /\ warp'[w].pc = "start"
    BY <2>1 DEF AnnounceDone, Turns, IsWarp, At
  <2>3. /\ board.count \in Nat /\ Len(board.ranges) <= board.count
        /\ board.ranges \in Seq([cursor : Nat, end : Nat]) /\ BoardCapacity \in Nat
    BY <1>1, Sizes DEF BoardTyped
  <2>4. /\ Len(board'.ranges) \in Nat /\ Len(board.ranges) <= Len(board'.ranges)
        /\ \A s \in 1 .. Len(board.ranges) : board'.ranges[s] = board.ranges[s]
    <3>1. CASE board.count >= BoardCapacity
      <4>1. board'.ranges = board.ranges
        BY <1>1, <2>2, <3>1, RangeAdded
      <4> QED
        BY <1>2, <4>1
    <3>2. CASE ~(board.count >= BoardCapacity)
      <4> DEFINE R == board.ranges
      <4>1. board'.ranges = Append(R, Unset)
        BY <1>1, <2>2, <2>3, <3>2, RangeAdded
      <4>2. R \in Seq([cursor : Nat, end : Nat]) /\ Len(R) \in Nat
        BY <1>2, <2>3
      <4>3. /\ Len(board'.ranges) = Len(R) + 1
            /\ \A s \in 1 .. Len(R) : board'.ranges[s] = R[s]
        <5> HIDE DEF R
        <5> QED
          BY <4>1, <4>2
      <4> QED
        BY <4>2, <4>3
    <3> QED
      BY <3>1, <3>2
  <2>5. ASSUME NEW s \in 1 .. Len(board.ranges), Emptied(s)
        PROVE  Emptied(s)'
    <3>1. warp'[w].n # s
      BY <1>2, <2>2, <2>3, <2>5
    <3>2. \A v \in Warps : warp'[v].pc = "start" => warp'[v].n # s
      BY <1>0, <2>5, <3>1 DEF Emptied
    <3> QED
      BY <2>4, <2>5, <3>2 DEF Emptied
  <2> QED
    BY <1>3, <2>2, <2>4, <2>5
<1>10. CASE Begin(w)
  <2>1. BeginDone(w)
    BY <1>1, <1>10, BeginDoes
  <2>2. /\ warp[w].pc = "start" /\ warp'[w].pc = "run" /\ warp'[w].slot = warp[w].slot
        /\ warp[w].n > 0
    BY <2>1 DEF BeginDone, Shown, At
  <2>3. /\ Len(board'.ranges) = Len(board.ranges)
        /\ \A s \in 1 .. Len(board.ranges) : s = warp[w].n \/ board'.ranges[s] = board.ranges[s]
    <3>1. CASE Posting(w)
      <4>1. warp[w].n \in 1 .. Len(board.ranges)
        BY <2>2, <3>1 DEF RunInv, Announced, Owns, Posting
      <4>2. SetRange(warp[w].n, Part(w).b, Part(w).e)
        BY <2>1, <3>1 DEF BeginDone
      <4>3. Part(w).b \in Nat /\ Part(w).e \in Nat
        BY <1>1, PartTyped
      <4> QED
        BY <1>1, <4>1, <4>2, <4>3, RangeSet
    <3>2. CASE ~Posting(w)
      BY <2>1, <3>2 DEF BeginDone
    <3> QED
      BY <3>1, <3>2
  <2>4. ASSUME NEW s \in 1 .. Len(board.ranges), Emptied(s)
        PROVE  Emptied(s)'
    <3>1. s # warp[w].n
      BY <2>2, <2>4 DEF Emptied
    <3>2. \A v \in Warps : warp'[v].pc = "start" => warp'[v].n # s
      BY <1>0, <2>2, <2>4 DEF Emptied
    <3> QED
      BY <2>3, <2>4, <3>1, <3>2 DEF Emptied
  <2> QED
    BY <1>2, <1>3, <2>2, <2>3, <2>4
<1>4. ASSUME warp[w].pc # "start", warp'[w].pc # "start", warp'[w].slot = warp[w].slot, UNCHANGED board,
             warp'[w].pc = "stop" => Grabbing(w)'
      PROVE  \A v \in Warps : Grabbing(v)'
  <2>1. \A v \in Warps : warp'[v].pc = "start" => warp[v].pc = "start" /\ warp'[v].n = warp[v].n
    BY <1>0, <1>4
  <2>4. \A s \in 1 .. Len(board.ranges) : Emptied(s) => Emptied(s)'
    BY <1>4, <2>1 DEF Emptied
  <2>2. ASSUME NEW v \in Warps, v # w
        PROVE  Grabbing(v)'
    <3>1. warp'[v] = warp[v]
      BY <1>0, <2>2
    <3> QED
      BY <1>4, <2>1, <2>4, <3>1 DEF Grabbing
  <2>3. Grabbing(w)'
    <3>1. warp'[w].pc = "stop" => Grabbing(w)'
      BY <1>4
    <3>2. warp[w].slot <= Len(board.ranges)
          /\ \A s \in 1 .. Len(board.ranges) : s <= warp[w].slot => Emptied(s)'
      BY <2>4 DEF Grabbing
    <3> QED
      BY <1>4, <3>1, <3>2 DEF Grabbing
  <2> QED
    BY <2>2, <2>3
<1>5. CASE Visit(w)
  <2>1. VisitDone(w)
    BY <1>1, <1>5, VisitEffect
  <2>2. warp'[w].pc \in {"run", "probe", "flush"}
    BY <1>1, <2>1, VisitTyped
  <2>3. warp[w].pc = "run" /\ warp'[w].slot = warp[w].slot /\ UNCHANGED board
    BY <2>1 DEF VisitDone, InHand, At
  <2> QED
    BY <1>4, <2>2, <2>3
<1>6. CASE Outward(w)
  <2>1. OutwardDone(w)
    BY <1>1, <1>6, OutwardDoes
  <2> QED
    BY <1>4, <2>1 DEF OutwardDone
<1>7. CASE Finish(w)
  <2>1. FinishDone(w)
    BY <1>1, <1>7, FinishEffect
  <2>2. /\ warp[w].pc = "run" /\ warp'[w].slot = warp[w].slot /\ warp'[w].pc \in {"flush", "stop"}
        /\ NoWork(w) /\ UNCHANGED board
    BY <2>1 DEF FinishDone, Drained, At, Turns, IsWarp, sources
  <2>3. ~Static
    BY DEF Static
  <2>4. (\A v \in Warps : warp[v].pc # "start") /\ warp[w].slot >= Len(board.ranges)
    BY <2>2, <2>3 DEF NoWork
  <2>5. \A v \in Warps : warp'[v].pc # "start"
    BY <1>1, <2>2, <2>4 DEF Alone, Others
  <2>6. Grabbing(w)'
    <3>1. \A s \in 1 .. Len(board.ranges) : Emptied(s) => Emptied(s)'
      BY <2>2, <2>5 DEF Emptied
    <3>2. warp[w].slot <= Len(board.ranges)
          /\ \A s \in 1 .. Len(board.ranges) : s <= warp[w].slot => Emptied(s)'
      BY <3>1 DEF Grabbing
    <3> QED
      BY <2>2, <2>4, <2>5, <3>2 DEF Grabbing
  <2> QED
    BY <1>4, <2>2, <2>6
<1>8. CASE GrabRange(w)
  <2>1. GrabDone(w)
    BY <1>1, <1>8, GrabEffect
  <2> DEFINE s == warp[w].slot + 1
  <2>2. /\ IsSet(s) /\ pass # "done" /\ warp[w].pc = "run"
        /\ s \in 1 .. Len(board.ranges) /\ Grab(s) /\ warp'[w].pc = "run"
        /\ (warp'[w].slot = s /\ Exhausted(s)) \/ warp'[w].slot = warp[w].slot
    BY <1>1, <1>2, <2>1 DEF GrabDone, Drained, At, Turns, IsWarp
  <2>3. /\ Len(board'.ranges) = Len(board.ranges)
        /\ board'.ranges[s].cursor = board.ranges[s].cursor + GrabSize
        /\ board'.ranges[s].end = board.ranges[s].end
        /\ \A t \in 1 .. Len(board.ranges) : t = s \/ board'.ranges[t] = board.ranges[t]
    BY <1>1, <2>2, BoardGrabbed
  <2>5. \A v \in Warps : warp'[v].pc = "start" => warp[v].pc = "start" /\ warp'[v].n = warp[v].n
    BY <1>0, <2>2
  <2>4. ASSUME NEW t \in 1 .. Len(board.ranges), Emptied(t)
        PROVE  Emptied(t)'
    <3>1. board.ranges[t].cursor \in Nat /\ board.ranges[t].end \in Nat
      BY <1>2
    <3>2. board.ranges[t].cursor >= board.ranges[t].end
      BY <2>4 DEF Emptied
    <3>3. board'.ranges[t].cursor >= board'.ranges[t].end
      <4>1. CASE t = s
        <5>1. /\ board'.ranges[t].cursor = board.ranges[t].cursor + GrabSize
              /\ board'.ranges[t].end = board.ranges[t].end
          BY <2>3, <4>1, Zenon
        <5> HIDE DEF s
        <5> QED
          BY <3>1, <3>2, <5>1, Sizes
      <4>2. CASE t # s
        BY <2>3, <3>2, <4>2
      <4> QED
        BY <4>1, <4>2
    <3> QED
      BY <2>4, <2>5, <3>3 DEF Emptied
  <2>6. ASSUME NEW v \in Warps, v # w
        PROVE  Grabbing(v)'
    <3>1. warp'[v] = warp[v]
      BY <1>0, <2>6
    <3>2. /\ warp'[v].pc = "stop" => /\ \A u \in Warps : warp'[u].pc # "start"
                                     /\ warp'[v].slot >= Len(board'.ranges)
      BY <2>3, <2>5, <3>1 DEF Grabbing
    <3>3. warp'[v].slot <= Len(board'.ranges)
      BY <2>3, <3>1 DEF Grabbing
    <3>4. \A t \in 1 .. Len(board'.ranges) : t <= warp'[v].slot => Emptied(t)'
      <4>1. \A t \in 1 .. Len(board.ranges) : t <= warp[v].slot => Emptied(t)
        BY DEF Grabbing
      <4> QED
        BY <2>3, <2>4, <3>1, <4>1
    <3> QED
      BY <3>2, <3>3, <3>4 DEF Grabbing
  <2>7. Grabbing(w)'
    <3>1. /\ warp[w].slot <= Len(board.ranges)
          /\ \A t \in 1 .. Len(board.ranges) : t <= warp[w].slot => Emptied(t)
      BY DEF Grabbing
    <3>2. Exhausted(s) => Emptied(s)
      BY <2>2 DEF Exhausted, Emptied, IsSet, At
    <3>3. warp'[w].slot <= Len(board.ranges)
      BY <1>1, <1>2, <2>2, <3>1
    <3>4. \A t \in 1 .. Len(board.ranges) : t <= warp'[w].slot => Emptied(t)
      <4>1. CASE warp'[w].slot = warp[w].slot
        BY <3>1, <4>1
      <4>2. CASE warp'[w].slot = s /\ Exhausted(s)
        <5>1. \A t \in 1 .. Len(board.ranges) : t <= s => t = s \/ t <= warp[w].slot
          BY <1>1, <1>2
        <5> HIDE DEF s
        <5> QED
          BY <3>1, <3>2, <4>2, <5>1
      <4> QED
        BY <2>2, <4>1, <4>2
    <3> QED
      BY <2>2, <2>3, <2>4, <3>3, <3>4 DEF Grabbing
  <2> QED
    BY <2>6, <2>7
<1> QED
  BY <1>5, <1>6, <1>7, <1>8, <1>9, <1>10, StepsOf

LEMMA HaltedStep ==
    ASSUME RunInv, OutInv, Halted, NEW w \in Warps, WarpStep(w)
    PROVE  Halted'
<1>1. /\ Alone(w) /\ UNCHANGED <<column, mode, pass>> /\ pass # "done"
      /\ WarpsTyped /\ RunTyped /\ OutInv'
      /\ warp'[w].pc = "stop" => Finish(w) \/ PopChunk(w)
  BY StopsHow, WarpOut DEF RunInv, WorkInv, WorkTyped
<1>2. ASSUME NEW v \in Warps, warp'[v].pc = "stop"
      PROVE  warp'[v].buf = <<>>
  <2>1. CASE v # w
    <3>1. warp'[v] = warp[v]
      BY <1>1, <2>1 DEF Alone, Others
    <3> QED
      BY <1>1, <1>2, <3>1 DEF Halted
  <2>2. CASE v = w /\ Finish(w)
    <3>1. FinishDone(w)
      BY <1>1, <2>2, FinishEffect
    <3> QED
      BY <1>2, <2>2, <3>1 DEF FinishDone, Turns, IsWarp
  <2>3. CASE v = w /\ PopChunk(w)
    <3>1. mode'.out = "preassigned" /\ Unbuffered'
      BY <1>1, <2>3, OutModes DEF PopChunk, OutInv
    <3> QED
      BY <3>1 DEF Unbuffered
  <2> QED
    BY <1>1, <1>2, <2>1, <2>2, <2>3
<1>3. mode.work = "queue" /\ Returned' => queue'.head >= queue'.tail
  BY StopsIdle
<1>4. mode.work = "fanout" /\ pass = "write" /\ Somebody' => queue'.head >= queue'.tail
  BY StopsPopped
<1>5. mode.work = "board" => \A v \in Warps : Grabbing(v)'
  BY <1>1, GrabbingKept DEF Halted
<1> QED
  BY <1>1, <1>2, <1>3, <1>4, <1>5 DEF Halted

LEMMA HaltedStarted ==
    ASSUME BoardTyped, \A w \in Warps : warp[w].pc = "start" /\ warp[w].slot = 0
    PROVE  Halted
<1>1. ~Returned /\ ~Somebody
  BY WarpsAssumption DEF Returned, Somebody
<1>2. 0 <= Len(board.ranges) /\ \A s \in 1 .. Len(board.ranges) : ~(s <= 0)
  <2> DEFINE R == board.ranges
  <2>1. R \in Seq([cursor : Nat, end : Nat])
    BY DEF BoardTyped
  <2> HIDE DEF R
  <2>2. Len(R) \in Nat
    BY <2>1
  <2>3. 0 <= Len(R) /\ \A s \in 1 .. Len(R) : ~(s <= 0)
    BY <2>2
  <2> QED
    BY <2>3 DEF R
<1> QED
  BY <1>1, <1>2 DEF Halted, Grabbing

(* A kernel that starts, and one that stays as it is.                      *)
LEMMA HaltedFresh ==
    ASSUME BoardTyped', warp' = Restarted
    PROVE  Halted'
<1>1. \A w \in Warps : warp'[w].pc = "start" /\ warp'[w].slot = 0
  BY DEF Restarted, Fresh
<1>2. ~Returned' /\ ~Somebody'
  BY <1>1, WarpsAssumption DEF Returned, Somebody
<1>3. 0 <= Len(board'.ranges) /\ \A s \in 1 .. Len(board'.ranges) : ~(s <= 0)
  <2> DEFINE R == board'.ranges
  <2>1. R \in Seq([cursor : Nat, end : Nat])
    BY DEF BoardTyped
  <2> HIDE DEF R
  <2>2. Len(R) \in Nat
    BY <2>1
  <2>3. 0 <= Len(R) /\ \A s \in 1 .. Len(R) : ~(s <= 0)
    BY <2>2
  <2> QED
    BY <2>3 DEF R
<1> QED
  BY <1>1, <1>2, <1>3 DEF Halted, Grabbing

(* When a kernel has returned, every row of the iteration is visited.      *)
LEMMA VisitedInside ==
    ASSUME RunInv, pass # "done"
    PROVE  /\ visited \subseteq AllRows /\ Len(column) \in Nat
           /\ AllRows \subseteq Nat /\ IsFiniteSet(AllRows) /\ IsFiniteSet(visited)
<1>1. Exact(Shares, AllPlaces, AllRows) /\ RunTyped
  BY DEF RunInv, WorkInv, WorkTyped, Shared
<1>2. visited \subseteq AllRows
  BY <1>1, SharesNow, PlaceNames, OnePlace
<1>3. Len(column) \in Nat /\ Len(column) * FanDegree \in Nat
  BY <1>1, Sizes DEF RunTyped, Iterable
<1>4. \E n \in Nat : AllRows = 0 .. n - 1
  BY <1>3 DEF AllRows
<1>5. IsFiniteSet(AllRows) /\ AllRows \subseteq Nat
  BY <1>4, FS_Interval
<1> QED
  BY <1>2, <1>3, <1>5, FS_Subset

LEMMA ReturnedAll ==
    ASSUME RunInv, Halted, Returned, pass # "done"
    PROVE  visited = AllRows
<1>1. /\ WorkInv /\ Spent /\ WarpsTyped /\ Shared /\ Unused /\ Ticketed /\ BoardTyped /\ QueueTyped
      /\ \A w \in Warps : warp[w].pc = "stop"
      /\ pass \in {"count", "write"}
  BY DEF RunInv, WorkInv, WorkTyped, Returned, RunTyped
<1>2. Exact(Shares, AllPlaces, AllRows)
  BY <1>1 DEF Shared
<1>3. ASSUME NEW w \in Warps
      PROVE  Held(w) = {} /\ Offered(w) = {}
  <2>1. warp[w].pc = "stop" /\ warp[w].b \in Nat /\ warp[w].e \in Nat /\ warp[w].b >= warp[w].e
    BY <1>1 DEF WarpsTyped, WarpTyped, Spent
  <2>2. Held(w) = Strided(w) \/ Held(w) = Span(warp[w])
    BY <2>1, HeldIs
  <2>3. Strided(w) = {} /\ Span(warp[w]) = {}
    BY <2>1 DEF Strided, Span
  <2> QED
    BY <2>1, <2>2, <2>3 DEF Offered
<1>4. Somebody
  BY <1>1, WarpsAssumption DEF Somebody
<1>5. ASSUME NEW s \in Slots
      PROVE  Queued(s) = {}
  <2>1. s \in Nat /\ queue.head \in Nat /\ queue.tail \in Nat
    BY <1>1, SlotsAre DEF QueueTyped
  <2>2. ~(mode.work = "fanout" /\ pass = "write" /\ queue.head <= s /\ s < queue.tail)
    BY <1>4, <2>1 DEF Halted
  <2>3. ~(s \in queue.ready /\ (s >= queue.head \/ \E w \in Warps : At(w, "await") /\ warp[w].slot = s))
    <3> SUFFICES ASSUME s \in queue.ready, s >= queue.head
                 PROVE  FALSE
      BY <1>1 DEF At
    <3>1. mode.work = "queue"
      BY <1>1 DEF Unused
    <3>2. s < queue.tail
      BY <1>1, <3>1 DEF Ticketed
    <3>3. queue.head >= queue.tail
      BY <3>1 DEF Halted
    <3> QED
      BY <2>1, <3>2, <3>3
  <2> QED
    BY <2>2, <2>3 DEF Queued, Waiting
<1>6. ASSUME NEW s \in 1 .. BoardCapacity
      PROVE  OnBoard(s) = {}
  <2> SUFFICES ASSUME s \in DOMAIN board.ranges
               PROVE  Posted(s) = {}
    BY DEF OnBoard
  <2>1. mode.work = "board"
    <3> SUFFICES ASSUME mode.work # "board"
                 PROVE  FALSE
      OBVIOUS
    <3>1. board.ranges = <<>>
      BY <1>1 DEF Unused
    <3> QED
      BY <3>1
  <2> DEFINE Ranges == [cursor : Nat, end : Nat]
  <2>2. board.ranges \in Seq(Ranges)
    BY <1>1 DEF BoardTyped
  <2>3. s \in 1 .. Len(board.ranges) /\ Len(board.ranges) \in Nat /\ board.ranges[s] \in Ranges
    <3> HIDE DEF Ranges
    <3> QED
      BY <2>2
  <2>4. PICK w \in Warps : warp[w].pc = "stop"
    BY <1>4 DEF Somebody
  <2>5. Grabbing(w) /\ warp[w].slot \in Nat
    BY <1>1, <2>1 DEF Halted, WarpsTyped, WarpTyped
  <2>6. s <= warp[w].slot
    BY <2>3, <2>4, <2>5 DEF Grabbing
  <2>7. board.ranges[s].cursor >= board.ranges[s].end
    BY <2>3, <2>5, <2>6 DEF Grabbing, Emptied
  <2> QED
    BY <2>3, <2>7 DEF Posted
<1>7. ASSUME NEW r \in AllRows
      PROVE  r \in visited
  <2>1. PICK p \in AllPlaces : r \in Shares[p]
    BY <1>2, SomePlace
  <2>2. \A w \in Warps : p # <<"held", w>> /\ p # <<"offered", w>>
    BY <1>3, <2>1, SharesNow
  <2>3. \A s \in Slots : p # <<"queued", s>>
    BY <1>5, <2>1, SharesNow
  <2>4. \A s \in 1 .. BoardCapacity : p # <<"posted", s>>
    BY <1>6, <2>1, SharesNow
  <2>5. p = <<"visited", 0>>
    BY <2>2, <2>3, <2>4, PlacesAre DEF PlacesOf
  <2> QED
    BY <2>1, <2>5, SharesNow
<1> QED
  BY <1>1, <1>7, VisitedInside

(* The run of a row: equal values, and a cut where it ends.                *)
LEMMA RunIsCut ==
    ASSUME RunTyped, NEW p \in Nat, NEW e \in 0 .. Len(column), p < e, Cut(column, e)
    PROVE  /\ \A q \in p .. RunEnd(p, e) - 1 : column[q + 1] = column[p + 1]
           /\ Cut(column, RunEnd(p, e))
<1> DEFINE S == {q \in p .. e : q = e \/ column[q + 1] # column[p + 1]}
           r == RunEnd(p, e)
<1>1. /\ Len(column) \in Nat /\ \A i \in 1 .. Len(column) : column[i] \in Int
      /\ \A i, j \in 1 .. Len(column) : i < j => column[i] <= column[j]
  BY DEF RunTyped, Iterable
<1>2. S \in SUBSET Nat /\ e \in S
  BY <1>1
<1>3. r \in S /\ \A k \in S : r <= k
  BY <1>2, MinOfNaturals DEF RunEnd
<1>4. r \in p + 1 .. e
  BY RunEndAfter
<1>5. ASSUME NEW q \in p .. r - 1
      PROVE  column[q + 1] = column[p + 1]
  <2>1. q \notin S
    BY <1>3, <1>4
  <2> QED
    BY <1>4, <2>1
<1>6. CASE r = e
  BY <1>5, <1>6
<1>7. CASE r # e
  <2>1. r < e /\ column[r + 1] # column[p + 1] /\ r \in Nat
    BY <1>3, <1>4, <1>7
  <2>2. ASSUME NEW i \in 0 .. Len(column) - 1, NEW j \in 0 .. Len(column) - 1, i < r, r <= j
        PROVE  column[i + 1] # column[j + 1]
    <3>1. column[r] = column[p + 1]
      <4>1. r - 1 \in p .. r - 1 /\ (r - 1) + 1 = r
        BY <1>4
      <4> QED
        BY <1>5, <4>1
    <3>2. /\ r \in 1 .. Len(column) /\ r + 1 \in 1 .. Len(column) /\ p + 1 \in 1 .. Len(column)
          /\ i + 1 \in 1 .. Len(column) /\ j + 1 \in 1 .. Len(column)
      BY <1>1, <1>4, <2>1
    <3> HIDE DEF r
    <3>3. column[i + 1] <= column[r]
      <4>1. CASE i + 1 = r
        BY <1>1, <3>2, <4>1
      <4>2. CASE i + 1 < r
        BY <1>1, <3>2, <4>2
      <4> QED
        BY <2>1, <2>2, <4>1, <4>2
    <3>4. column[r + 1] <= column[j + 1]
      <4>1. CASE r + 1 = j + 1
        BY <1>1, <3>2, <4>1
      <4>2. CASE r + 1 < j + 1
        BY <1>1, <3>2, <4>2
      <4> QED
        BY <2>1, <2>2, <4>1, <4>2
    <3>5. column[p + 1] <= column[r + 1]
      <4>1. p + 1 < r + 1
        BY <1>4
      <4> QED
        BY <1>1, <3>2, <4>1
    <3>6. /\ column[i + 1] \in Int /\ column[r] \in Int /\ column[r + 1] \in Int
          /\ column[p + 1] \in Int /\ column[j + 1] \in Int
      BY <1>1, <3>2
    <3> QED
      BY <2>1, <3>1, <3>3, <3>4, <3>5, <3>6
  <2> QED
    BY <1>5, <2>2 DEF Cut
<1> QED
  BY <1>6, <1>7

LEMMA SplitIsCut ==
    ASSUME RunTyped, NEW b \in Nat, NEW e \in 0 .. Len(column), Cut(column, e),
           ValueAlignedSplit(b, e) # 0
    PROVE  Cut(column, ValueAlignedSplit(b, e))
<1> DEFINE p == b + (e - b) \div 2
<1>1. ~(e - b <= 1) /\ ValueAlignedSplit(b, e) = RunEnd(p, e)
  BY DEF ValueAlignedSplit
<1>2. e \in Nat /\ Len(column) \in Nat
  BY DEF RunTyped, Iterable
<1>3. p \in Nat /\ p < e
  BY <1>1, <1>2
<1> QED
  BY <1>1, <1>3, RunIsCut

(* What a warp has in its hands lies in the column.                        *)
LEMMA InColumn ==
    ASSUME RunInv, pass # "done", NEW w \in Warps, warp[w].pc = "run", warp[w].b < warp[w].e
    PROVE  /\ warp[w].b \in AllRows /\ warp[w].b \notin visited
           /\ ~Static => warp[w].e - 1 \in AllRows
<1>1. /\ Exact(Shares, AllPlaces, AllRows) /\ WarpsTyped /\ Strides
      /\ warp[w].b \in Nat /\ warp[w].e \in Nat
  BY DEF RunInv, WorkInv, WorkTyped, Shared, WarpsTyped, WarpTyped
<1>2. /\ Held(w) = Shares[<<"held", w>>] /\ visited = Shares[<<"visited", 0>>]
      /\ <<"held", w>> \in AllPlaces /\ <<"visited", 0>> \in AllPlaces
      /\ <<"held", w>> # <<"visited", 0>>
  BY SharesNow, PlaceNames
<1>3. \A x \in Held(w) : x \in AllRows /\ x \notin visited
  BY <1>1, <1>2, OnePlace
<1>4. CASE Static
  <2>1. warp[w].b % W = w - 1
    BY <1>1, <1>4 DEF Strides
  <2>2. Held(w) = Strided(w)
    BY <1>4, HeldIs
  <2>3. warp[w].b \in Held(w)
    BY <1>1, <2>1, <2>2 DEF Strided, Span
  <2> QED
    BY <1>3, <1>4, <2>3
<1>5. CASE ~Static
  <2>1. Held(w) = Span(warp[w])
    BY <1>5, HeldIs
  <2>2. warp[w].b \in Held(w) /\ warp[w].e - 1 \in Held(w)
    BY <1>1, <2>1 DEF Span
  <2> QED
    BY <1>3, <1>5, <2>2
<1> QED
  BY <1>4, <1>5

LEMMA CutEnds ==
    ASSUME Len(column) \in Nat
    PROVE  /\ Cut(column, 0) /\ Cut(column, Len(column))
           /\ Between(NoTask)
<1>1. Cut(column, 0) /\ Cut(column, Len(column))
  BY DEF Cut
<1> QED
  BY <1>1 DEF Between, NoTask

(* The rows of a value are visited together.                               *)
Together == \A r \in visited : \A q \in 0 .. Len(column) - 1 :
              column[q + 1] = column[r + 1] => q \in visited

LEMMA AlignedTurn ==
    ASSUME Aligned, pass # "done", UNCHANGED <<column, mode, pass>>, NEW w \in Warps, Alone(w),
           Cut(column, warp'[w].b), Cut(column, warp'[w].e), Between(warp'[w].give),
           \A s \in Slots : queue'.tasks[s] = queue.tasks[s] \/ Between(queue'.tasks[s]),
           mode.work = "queue" => Together'
    PROVE  Aligned'
<1> SUFFICES ASSUME mode.work = "queue"
             PROVE  Aligned'
  BY DEF Aligned
<1>1. /\ \A v \in Warps : Between(warp[v]) /\ Between(warp[v].give)
      /\ \A s \in Slots : Between(queue.tasks[s])
  BY DEF Aligned
<1>2. \A v \in Warps : Between(warp'[v]) /\ Between(warp'[v].give)
  BY <1>1 DEF Alone, Others, Between
<1>3. \A s \in Slots : Between(queue'.tasks[s])
  BY <1>1
<1>4. /\ \A v \in Warps : Between(warp[v])' /\ Between(warp[v].give)'
      /\ \A s \in Slots : Between(queue.tasks[s])'
  BY <1>2, <1>3 DEF Between
<1> QED
  BY <1>4 DEF Aligned, Together

LEMMA VisitTogether ==
    ASSUME RunInv, Aligned, mode.work = "queue", NEW w \in Warps, VisitDone(w)
    PROVE  Together' /\ Cut(column, warp'[w].b)
<1>1. /\ pass # "done" /\ ~Static /\ warp[w].pc = "run" /\ warp[w].b < warp[w].e
      /\ warp[w].b \in Nat /\ warp[w].e \in Nat /\ RunTyped /\ UNCHANGED column
      /\ warp'[w].b = NextRow(w) /\ visited' = visited \cup (warp[w].b .. NextRow(w) - 1)
  BY DEF VisitDone, InHand, At, Static, RunInv, WorkInv, WorkTyped, WarpsTyped, WarpTyped
<1> DEFINE b == warp[w].b
           e == warp[w].e
           r == RunEnd(b, e)
<1>2. NextRow(w) = r
  BY <1>1 DEF NextRow
<1>3. AllRows = 0 .. Len(column) - 1 /\ Len(column) \in Nat
  BY <1>1 DEF AllRows, RunTyped, Iterable
<1>4. e - 1 \in AllRows /\ e \in 0 .. Len(column)
  BY <1>1, <1>3, InColumn
<1>5. Cut(column, b) /\ Cut(column, e) /\ Together
  BY <1>1 DEF Aligned, Between, Together
<1>6. Cut(column, r) /\ \A q \in b .. r - 1 : column[q + 1] = column[b + 1]
  BY <1>1, <1>4, <1>5, RunIsCut
<1>7. r \in b + 1 .. e
  BY <1>1, RunEndAfter
<1>8. ASSUME NEW k \in visited', NEW q \in 0 .. Len(column) - 1, column[q + 1] = column[k + 1]
      PROVE  q \in visited'
  <2>1. CASE k \in visited
    BY <1>1, <1>5, <1>8, <2>1 DEF Together
  <2>2. CASE k \in b .. r - 1
    <3>1. k \in 0 .. Len(column) - 1
      BY <1>1, <1>3, <1>4, <1>7, <2>2
    <3>2. ~(q < b /\ b <= k)
      BY <1>5, <1>8, <3>1 DEF Cut
    <3>3. ~(k < r /\ r <= q)
      BY <1>6, <1>8, <3>1 DEF Cut
    <3>4. q \in b .. r - 1
      BY <1>1, <1>7, <2>2, <3>1, <3>2, <3>3
    <3> QED
      BY <1>1, <1>2, <3>4
  <2> QED
    BY <1>1, <1>2, <1>8, <2>1, <2>2
<1>9. Together'
  BY <1>1, <1>8 DEF Together
<1> QED
  BY <1>1, <1>2, <1>6, <1>9

LEMMA AlignedStep ==
    ASSUME RunInv, Aligned, NEW w \in Warps, WarpStep(w)
    PROVE  Aligned'
<1>1. /\ Alone(w) /\ pass # "done" /\ UNCHANGED <<column, mode, pass>>
      /\ WarpsTyped /\ RunTyped /\ BoardTyped /\ QueueTyped /\ Ticketed
  BY StopsHow DEF RunInv, WorkInv, WorkTyped
<1> SUFFICES ASSUME mode.work = "queue"
             PROVE  Aligned'
  BY <1>1 DEF Aligned
<1>2. Len(column) \in Nat /\ ~Static
  BY <1>1 DEF RunTyped, Iterable, Static
<1>3. /\ Cut(column, 0) /\ Cut(column, Len(column)) /\ Between(NoTask) /\ Together
      /\ Between(warp[w]) /\ Between(warp[w].give) /\ \A s \in Slots : Between(queue.tasks[s])
  BY <1>1, <1>2, CutEnds DEF Aligned, Together
<1>4. Cut(column, warp[w].b) /\ Cut(column, warp[w].e)
  BY <1>3 DEF Between
<1>5. ASSUME UNCHANGED <<queue, visited>>, Cut(column, warp'[w].b), Cut(column, warp'[w].e),
             warp'[w].give = warp[w].give
      PROVE  Aligned'
  <2>1. Together'
    BY <1>1, <1>3, <1>5 DEF Together
  <2> QED
    BY <1>1, <1>3, <1>5, <2>1, AlignedTurn
<1>6. CASE Begin(w)
  <2>1. BeginDone(w)
    BY <1>1, <1>6, BeginDoes
  <2>2. /\ warp'[w].b = Kept(w).b /\ warp'[w].e = Kept(w).e /\ warp'[w].give = warp[w].give
        /\ UNCHANGED <<queue, visited>>
    BY <2>1 DEF BeginDone, Shown
  <2>3. Kept(w) = Part(w) /\ Part(w) = IF w = 1 THEN Task(0, Len(column), 0) ELSE NoTask
    BY <1>2, PartIs DEF Kept, Posting
  <2>4. Kept(w).b = 0 /\ Kept(w).e \in {0, Len(column)}
    BY <2>3 DEF Task, NoTask
  <2> QED
    BY <1>3, <1>5, <2>2, <2>4
<1>7. CASE Visit(w)
  <2>1. VisitDone(w)
    BY <1>1, <1>7, VisitEffect
  <2>2. Together' /\ Cut(column, warp'[w].b)
    BY <2>1, VisitTogether
  <2>3. warp'[w].e = warp[w].e /\ warp'[w].give = warp[w].give /\ UNCHANGED queue
    BY <2>1 DEF VisitDone
  <2> QED
    BY <1>1, <1>3, <1>4, <2>2, <2>3, AlignedTurn
<1>8. CASE Outward(w)
  <2>1. OutwardDone(w)
    BY <1>1, <1>8, OutwardDoes
  <2> QED
    BY <1>4, <1>5, <2>1 DEF OutwardDone
<1>9. CASE Finish(w)
  <2>1. FinishDone(w)
    BY <1>1, <1>9, FinishEffect
  <2>2. /\ UNCHANGED <<queue, visited>> /\ warp'[w].b = warp[w].b /\ warp'[w].e = warp[w].e
        /\ warp'[w].give = warp[w].give
    BY <2>1 DEF FinishDone, Turns, IsWarp, sources
  <2> QED
    BY <1>4, <1>5, <2>2
<1>10. CASE Donate(w)
  <2>1. DonateDone(w)
    BY <1>1, <1>10, DonateEffect
  <2> DEFINE s == ValueAlignedSplit(warp[w].b, warp[w].e)
  <2>2. /\ s # 0 /\ warp[w].pc = "run" /\ warp[w].b < warp[w].e /\ UNCHANGED visited
        /\ warp[w].b \in Nat /\ warp[w].e \in Nat
    BY <1>1, <2>1 DEF DonateDone, InHand, At, WarpsTyped, WarpTyped
  <2>3. warp[w].e - 1 \in AllRows /\ AllRows = 0 .. Len(column) - 1
    BY <1>1, <1>2, <2>2, InColumn DEF AllRows
  <2>4. Cut(column, s)
    BY <1>1, <1>2, <1>4, <2>2, <2>3, SplitIsCut
  <2>5. Between(Task(s, warp[w].e, 0))
    BY <1>4, <2>4 DEF Between, Task
  <2>6. /\ warp'[w].b = warp[w].b
        /\ \/ warp'[w].e = s /\ warp'[w].give = Task(s, warp[w].e, 0) /\ Reserve(TRUE)
           \/ warp'[w].e = warp[w].e /\ warp'[w].give = warp[w].give /\ Reserve(FALSE)
    <3> HIDE DEF s
    <3> QED
      BY <2>1 DEF DonateDone, Turns, IsWarp, s
  <2>7. queue'.tasks = queue.tasks
    BY <1>1, <2>6, ReserveWon, ReserveLost
  <2>8. Together'
    BY <1>1, <1>3, <2>2 DEF Together
  <2> HIDE DEF s
  <2> QED
    BY <1>1, <1>3, <1>4, <2>4, <2>5, <2>6, <2>7, <2>8, AlignedTurn
<1>11. ASSUME FillSlot(w) \/ RaiseFlag(w) \/ Steal(w) \/ TakeTask(w)
       PROVE  Aligned'
  <2>1. Together'
    <3>1. UNCHANGED visited
      BY <1>11 DEF FillSlot, RaiseFlag, Steal, TakeTask
    <3> QED
      BY <1>1, <1>3, <3>1 DEF Together
  <2>2. /\ warp[w].pc \in Giving => warp[w].slot \in Slots
    <3>1. warp[w].pc \in Giving => warp[w].slot \in Nat /\ warp[w].slot < QueueCapacity
      BY <1>1, Sizes DEF Ticketed, WarpsTyped, WarpTyped, QueueTyped
    <3> QED
      BY <3>1, SlotsAre
  <2>3. CASE FillSlot(w)
    <3>1. FillDone(w)
      BY <1>1, <2>3, FillSlotEffect
    <3>2. /\ Fill(warp[w].slot, warp[w].give) /\ warp[w].slot \in Slots
          /\ warp'[w].b = warp[w].b /\ warp'[w].e = warp[w].e /\ warp'[w].give = warp[w].give
      BY <2>2, <3>1 DEF FillDone, At, Giving, Turns, IsWarp
    <3>3. \A s \in Slots : queue'.tasks[s] = queue.tasks[s] \/ queue'.tasks[s] = warp[w].give
      BY <1>1, <3>2, Filled
    <3>4. \A s \in Slots : queue'.tasks[s] = queue.tasks[s] \/ Between(queue'.tasks[s])
      BY <1>3, <3>3
    <3> QED
      BY <1>1, <1>3, <1>4, <2>1, <3>2, <3>4, AlignedTurn
  <2>4. CASE RaiseFlag(w)
    <3>1. RaiseDone(w)
      BY <1>1, <2>4, RaiseFlagEffect
    <3>2. /\ MakeReady(warp[w].slot)
          /\ warp'[w].b = warp[w].b /\ warp'[w].e = warp[w].e /\ warp'[w].give = NoTask
      BY <3>1 DEF RaiseDone, Turns, IsWarp
    <3>3. queue'.tasks = queue.tasks
      BY <1>1, <3>2, MadeReady
    <3> QED
      BY <1>1, <1>3, <1>4, <2>1, <3>2, <3>3, AlignedTurn
  <2>5. CASE Steal(w)
    <3>1. StealDone(w)
      BY <1>1, <2>5, StealEffect
    <3>2. /\ TakeSlot(queue.head)
          /\ warp'[w].b = warp[w].b /\ warp'[w].e = warp[w].e /\ warp'[w].give = warp[w].give
      BY <3>1 DEF StealDone, Turns, IsWarp
    <3>3. queue'.tasks = queue.tasks
      BY <1>1, <3>2, HeadMoved DEF TakeSlot
    <3> QED
      BY <1>1, <1>3, <1>4, <2>1, <3>2, <3>3, AlignedTurn
  <2>6. CASE TakeTask(w)
    <3>1. TakeDone(w)
      BY <1>1, <2>6, TakeTaskEffect
    <3>2. /\ IsReady(warp[w].slot) /\ UNCHANGED queue
          /\ warp'[w].b = queue.tasks[warp[w].slot].b /\ warp'[w].e = queue.tasks[warp[w].slot].e
          /\ warp'[w].give = warp[w].give
      BY <3>1 DEF TakeDone, Turns, IsWarp, sources
    <3>3. Between(queue.tasks[warp[w].slot])
      BY <1>1, <1>3, <3>2 DEF IsReady, QueueTyped
    <3>4. Cut(column, warp'[w].b) /\ Cut(column, warp'[w].e)
      BY <3>2, <3>3 DEF Between
    <3> QED
      BY <1>1, <1>3, <2>1, <3>2, <3>4, AlignedTurn
  <2> QED
    BY <1>11, <2>3, <2>4, <2>5, <2>6
<1> QED
  BY <1>6, <1>7, <1>8, <1>9, <1>10, <1>11, StepsOf

LEMMA AlignedFresh ==
    ASSUME warp' = Restarted, visited' = {}, RunTyped', mode'.work = "queue" => queue' = EmptyQueue
    PROVE  Aligned'
<1> SUFFICES ASSUME mode'.work = "queue"
             PROVE  Aligned'
  BY DEF Aligned
<1>1. \A w \in Warps : warp'[w].b = 0 /\ warp'[w].e = 0 /\ warp'[w].give = NoTask
  BY DEF Restarted, Fresh
<1>2. \A s \in Slots : queue'.tasks[s] = NoTask
  BY DEF EmptyQueue
<1>3. Cut(column', 0)
  BY DEF Cut, RunTyped, Iterable
<1> QED
  BY <1>1, <1>2, <1>3 DEF Aligned, Between, NoTask

(* The tuples of the rows that are visited.                                *)
LEMMA EmittedGrows ==
    ASSUME RunInv, Aligned, NEW w \in Warps, VisitDone(w)
    PROVE  /\ Emitted' = Emitted \cup {Tuple(w)}
           /\ mode.out # "dedup" => Tuple(w) \notin Emitted
<1>1. /\ RunTyped /\ pass # "done" /\ UNCHANGED <<column, mode, pass>> /\ WarpsTyped
      /\ warp[w].pc = "run" /\ warp[w].b < warp[w].e /\ warp[w].b \in Nat /\ warp[w].e \in Nat
      /\ visited' = visited \cup IF Static THEN {warp[w].b} ELSE warp[w].b .. NextRow(w) - 1
      /\ ~(mode.work = "fanout" /\ pass = "count")
  BY DEF VisitDone, InHand, At, RunInv, WorkInv, WorkTyped, WarpsTyped, WarpTyped
<1> DEFINE b == warp[w].b
<1>2. Tuple(w) = TupleAt(b)
  BY DEF Tuple, TupleAt
<1>3. b \in AllRows /\ b \notin visited /\ visited \subseteq AllRows
      /\ (~Static => warp[w].e - 1 \in AllRows) /\ Len(column) \in Nat
  BY <1>1, InColumn, VisitedInside
<1>4. ~(mode.work = "fanout") => AllRows = 0 .. Len(column) - 1
  BY DEF AllRows
<1>5. \E N \in SUBSET Nat : /\ visited' = visited \cup N /\ b \in N
                            /\ \A r \in N : TupleAt(r) = TupleAt(b)
  <2>1. CASE Static
    <3>1. visited' = visited \cup {b} /\ {b} \in SUBSET Nat
      BY <1>1, <2>1
    <3> QED
      BY <3>1
  <2>2. CASE ~Static /\ mode.work # "queue"
    <3>1. NextRow(w) = b + 1
      BY <2>2 DEF NextRow
    <3>2. visited' = visited \cup (b .. b)
      BY <1>1, <2>2, <3>1
    <3>3. visited' = visited \cup {b} /\ {b} \in SUBSET Nat
      BY <1>1, <3>2
    <3> QED
      BY <3>3
  <2>3. CASE ~Static /\ mode.work = "queue"
    <3> DEFINE r == RunEnd(b, warp[w].e)
    <3>1. NextRow(w) = r
      BY <2>3 DEF NextRow
    <3>2. /\ Cut(column, warp[w].e) /\ warp[w].e \in 0 .. Len(column) /\ mode.out = "chunked"
      BY <1>1, <1>3, <1>4, <2>3, ModeCases DEF Aligned, Between, RunTyped
    <3>3. /\ \A q \in b .. r - 1 : column[q + 1] = column[b + 1]
          /\ r \in b + 1 .. warp[w].e
      BY <1>1, <3>2, RunIsCut, RunEndAfter
    <3> HIDE DEF r
    <3>4. \A q \in b .. r - 1 : TupleAt(q) = TupleAt(b)
      BY <2>3, <3>2, <3>3 DEF TupleAt
    <3>5. visited' = visited \cup (b .. r - 1) /\ b .. r - 1 \in SUBSET Nat /\ b \in b .. r - 1
      BY <1>1, <2>3, <3>1, <3>3
    <3> QED
      BY <3>4, <3>5
  <2> QED
    BY <2>1, <2>2, <2>3
<1>6. PICK N \in SUBSET Nat : /\ visited' = visited \cup N /\ b \in N
                              /\ \A r \in N : TupleAt(r) = TupleAt(b)
  BY <1>5
<1>7. Emitted' = {TupleAt(r) : r \in visited'}
  BY <1>1 DEF Emitted, TupleAt
<1>8. {TupleAt(r) : r \in visited'} = {TupleAt(r) : r \in visited} \cup {TupleAt(b)}
  BY <1>6
<1>9. Emitted' = Emitted \cup {Tuple(w)}
  BY <1>2, <1>7, <1>8 DEF Emitted
<1>10. ASSUME mode.out # "dedup", NEW r \in visited
       PROVE  TupleAt(r) # TupleAt(b)
  <2>1. CASE mode.work = "fanout"
    BY <1>3, <2>1 DEF TupleAt
  <2>2. CASE mode.work # "fanout"
    <3>1. /\ TupleAt(r) = column[r + 1] /\ TupleAt(b) = column[b + 1]
          /\ r \in 0 .. Len(column) - 1 /\ b \in 0 .. Len(column) - 1
      BY <1>3, <1>4, <1>10, <2>2 DEF TupleAt
    <3>2. CASE mode.work = "queue"
      BY <1>1, <1>3, <3>1, <3>2 DEF Aligned
    <3>3. CASE mode.work # "queue"
      <4>1. /\ r + 1 \in 1 .. Len(column) /\ b + 1 \in 1 .. Len(column) /\ r + 1 # b + 1
        BY <1>3, <1>10, <3>1
      <4> QED
        BY <1>1, <3>1, <3>3, <4>1 DEF RunTyped, Iterable
    <3> QED
      BY <3>2, <3>3
  <2> QED
    BY <2>1, <2>2
<1> QED
  BY <1>2, <1>9, <1>10 DEF Emitted

LEMMA ValuesFinite ==
    ASSUME NEW R, IsFiniteSet(R)
    PROVE  IsFiniteSet({TupleAt(r) : r \in R})
<1> DEFINE f == [r \in R |-> TupleAt(r)]
           T == {TupleAt(r) : r \in R}
<1>1. f \in Surjection(R, T)
  BY DEF Surjection
<1> QED
  BY <1>1, FS_Surjection

(* The tuples of all rows are the tuples that are expected.                *)
LEMMA ExpectedIs ==
    ASSUME RunInv, pass # "done"
    PROVE  /\ ~(mode.work = "fanout" /\ pass = "count") => Expected = {TupleAt(r) : r \in AllRows}
           /\ ~(mode.work = "fanout" /\ pass = "count") => Emitted \subseteq Expected
           /\ IsFiniteSet(Expected) /\ IsFiniteSet(Emitted)
           /\ Cardinality(Expected) \in Nat /\ Cardinality(Emitted) \in Nat
<1>1. visited \subseteq AllRows /\ Len(column) \in Nat /\ IsFiniteSet(AllRows) /\ IsFiniteSet(visited)
  BY VisitedInside
<1>2. RunTyped
  BY DEF RunInv, WorkInv, WorkTyped
<1>3. CASE mode.work = "fanout"
  <2>1. Expected = 0 .. Len(column) * FanDegree - 1 /\ Len(column) * FanDegree \in Nat
    BY <1>1, <1>3, Sizes DEF Expected
  <2>2. IsFiniteSet(Expected)
    BY <2>1, FS_Interval
  <2>3. pass # "count" => AllRows = Expected
    BY <1>2, <1>3, <2>1 DEF AllRows, RunTyped
  <2>4. \A r : TupleAt(r) = r
    BY <1>3 DEF TupleAt
  <2> QED
    BY <1>1, <1>3, <2>2, <2>3, <2>4, FS_CardinalityType, ValuesFinite DEF Emitted
<1>4. CASE mode.work # "fanout"
  <2>1. AllRows = 0 .. Len(column) - 1 /\ DOMAIN column = 1 .. Len(column)
    BY <1>2, <1>4 DEF AllRows, RunTyped, Iterable
  <2>2. ToSet(column) = {column[r + 1] : r \in AllRows}
    <3>1. \A i \in DOMAIN column : i - 1 \in AllRows /\ (i - 1) + 1 = i
      BY <1>1, <2>1
    <3>2. \A r \in AllRows : r + 1 \in DOMAIN column
      BY <1>1, <2>1
    <3> QED
      BY <3>1, <3>2 DEF ToSet
  <2>3. Expected = {TupleAt(r) : r \in AllRows}
    <3>1. CASE mode.out = "dedup"
      <4>1. Expected = {HeadOf(v) : v \in ToSet(column)}
        BY <1>4, <3>1 DEF Expected
      <4>2. \A r : TupleAt(r) = HeadOf(column[r + 1])
        BY <1>4, <3>1 DEF TupleAt
      <4> QED
        BY <2>2, <4>1, <4>2
    <3>2. CASE mode.out # "dedup"
      <4>1. Expected = ToSet(column)
        BY <1>4, <3>2 DEF Expected
      <4>2. \A r : TupleAt(r) = column[r + 1]
        BY <1>4, <3>2 DEF TupleAt
      <4> QED
        BY <2>2, <4>1, <4>2
    <3> QED
      BY <3>1, <3>2
  <2>4. Emitted \subseteq Expected
    BY <1>1, <2>3 DEF Emitted
  <2>5. IsFiniteSet(Expected)
    BY <1>1, <2>3, ValuesFinite
  <2> QED
    BY <2>3, <2>4, <2>5, FS_Subset, FS_CardinalityType
<1> QED
  BY <1>3, <1>4

(* The steps that share out work put nothing out.                          *)
Sharing(w) ==
    \/ Announce(w) \/ Begin(w) \/ PushChunk(w) \/ PopChunk(w) \/ Donate(w) \/ FillSlot(w)
    \/ RaiseFlag(w) \/ Steal(w) \/ TakeTask(w) \/ GrabRange(w) \/ Finish(w)
SharingDone(w) ==
    /\ Alone(w) /\ warp'[w].buf = warp[w].buf /\ warp'[w].count = warp[w].count
    /\ warp[w].pc \notin {"probe", "flush", "store"}
    /\ warp'[w].pc \notin {"probe", "store"}
    /\ warp'[w].pc = "flush" => warp[w].buf # <<>>
    /\ pass # "done" /\ UNCHANGED <<column, outputs, host, total, visited>>

LEMMA SharingDoes ==
    ASSUME RunInv, NEW w \in Warps, Sharing(w)
    PROVE  SharingDone(w)
<1>1. WarpsTyped /\ RunTyped /\ BoardTyped
  BY DEF RunInv, WorkInv, WorkTyped
<1> DEFINE Goal(pc) == /\ Alone(w) /\ warp'[w].buf = warp[w].buf /\ warp'[w].count = warp[w].count
                       /\ warp'[w].pc = pc
<1>12. CASE Announce(w)
  <2>1. AnnounceDone(w)
    BY <1>1, <1>12, AnnounceEffect
  <2>2. Goal("start")
    BY <2>1 DEF AnnounceDone, Turns, IsWarp
  <2> QED
    BY <1>12, <2>2 DEF Announce, At, SharingDone
<1>2. CASE Begin(w)
  <2>1. BeginDone(w)
    BY <1>1, <1>2, BeginDoes
  <2>2. warp'[w].buf = warp[w].buf
    BY <1>1, <1>2, BeginEffect
  <2>3. Alone(w) /\ warp'[w].count = warp[w].count /\ warp[w].pc = "start" /\ warp'[w].pc = "run"
    BY <2>1 DEF BeginDone, Shown, At
  <2> QED
    BY <1>2, <2>2, <2>3 DEF Begin, At, SharingDone
<1>3. CASE PushChunk(w)
  <2>1. PushDone(w)
    BY <1>1, <1>3, PushEffect
  <2>2. /\ Alone(w) /\ warp'[w].buf = warp[w].buf /\ warp'[w].count = warp[w].count
        /\ warp'[w].pc \in {"run", "donate"}
    BY <2>1 DEF PushDone, Turns, IsWarp
  <2> QED
    BY <1>3, <2>2 DEF PushChunk, At, SharingDone
<1>4. CASE PopChunk(w)
  <2>1. PopDone(w)
    BY <1>1, <1>4, PopEffect
  <2>2. /\ Alone(w) /\ warp'[w].buf = warp[w].buf /\ warp'[w].count = warp[w].count
        /\ warp'[w].pc \in {"run", "stop"}
    BY <2>1 DEF PopDone, Turns, IsWarp
  <2> QED
    BY <1>4, <2>2 DEF PopChunk, Drained, At, SharingDone
<1>5. CASE Donate(w)
  <2>1. DonateDone(w)
    BY <1>1, <1>5, DonateEffect
  <2>2. /\ Alone(w) /\ warp'[w].buf = warp[w].buf /\ warp'[w].count = warp[w].count
        /\ warp'[w].pc \in {"run", "fill"}
    BY <2>1 DEF DonateDone, Turns, IsWarp
  <2> QED
    BY <1>5, <2>2 DEF Donate, InHand, At, SharingDone
<1>6. CASE FillSlot(w)
  <2>1. FillDone(w)
    BY <1>1, <1>6, FillSlotEffect
  <2>2. Goal("ready")
    BY <2>1 DEF FillDone, Turns, IsWarp
  <2> QED
    BY <1>6, <2>2 DEF FillSlot, At, SharingDone
<1>7. CASE RaiseFlag(w)
  <2>1. RaiseDone(w)
    BY <1>1, <1>7, RaiseFlagEffect
  <2>2. Goal("run")
    BY <2>1 DEF RaiseDone, Turns, IsWarp
  <2> QED
    BY <1>7, <2>2 DEF RaiseFlag, At, SharingDone
<1>8. CASE Steal(w)
  <2>1. StealDone(w)
    BY <1>1, <1>8, StealEffect
  <2>2. Goal("await")
    BY <2>1 DEF StealDone, Turns, IsWarp
  <2> QED
    BY <1>8, <2>2 DEF Steal, Drained, At, SharingDone
<1>9. CASE TakeTask(w)
  <2>1. TakeDone(w)
    BY <1>1, <1>9, TakeTaskEffect
  <2>2. Goal("run")
    BY <2>1 DEF TakeDone, Turns, IsWarp
  <2> QED
    BY <1>9, <2>2 DEF TakeTask, At, SharingDone, sources
<1>10. CASE GrabRange(w)
  <2>1. GrabDone(w)
    BY <1>1, <1>10, GrabEffect
  <2>2. Goal("run")
    BY <2>1 DEF GrabDone, Turns, IsWarp
  <2> QED
    BY <1>10, <2>2 DEF GrabRange, Drained, At, SharingDone
<1>11. CASE Finish(w)
  <2>1. FinishDone(w)
    BY <1>1, <1>11, FinishEffect
  <2>2. /\ Alone(w) /\ warp'[w].buf = warp[w].buf /\ warp'[w].count = warp[w].count
        /\ (warp'[w].pc = "flush" /\ warp[w].buf # <<>>) \/ warp'[w].pc = "stop"
    BY <2>1 DEF FinishDone, Turns, IsWarp
  <2> QED
    BY <1>11, <2>2 DEF Finish, Drained, At, SharingDone, sources
<1> HIDE DEF Goal
<1> QED
  BY <1>2, <1>3, <1>4, <1>5, <1>6, <1>7, <1>8, <1>9, <1>10, <1>11, <1>12,
     Zenon DEF Sharing

(* What they claim in the writing pass was claimed before.                 *)
LEMMA SharingClaims ==
    ASSUME RunInv, OutInv, pass = "write", NEW w \in Warps, Sharing(w)
    PROVE  Free' = Free /\ \A q : Aimed(q)' => Aimed(q)
<1>1. /\ WarpsTyped /\ RunTyped /\ QueueTyped /\ SharingDone(w) /\ Unbuffered
      /\ queue.head \in Nat /\ queue.tail \in Nat
  BY SharingDoes DEF RunInv, WorkInv, WorkTyped, QueueTyped, OutInv
<1>2. /\ OutFrame /\ UNCHANGED <<total, writePos>> /\ Alone(w) /\ pass = "write"
      /\ warp'[w].pc # "store" /\ warp'[w].count = warp[w].count
  BY <1>1 DEF SharingDone, OutFrame, outputs, host
<1>3. Free' = Free
  BY <1>2, FreeKept
<1>4. \A v \in Warps : v = w \/ Aims(v)' = Aims(v)
  BY <1>2, OthersAims DEF Alone, Others
<1>5. ASSUME Aims(w)' \subseteq Aims(w), \A s \in Slots : Booked(s)' \subseteq Booked(s), NEW q, Aimed(q)'
      PROVE  Aimed(q)
  BY <1>4, <1>5 DEF Aimed
<1>6. CASE mode.out # "preassigned"
  <2>1. \A s \in Slots : Booked(s)' \subseteq Booked(s)
    BY <1>2, <1>6, BookedKept
  <2>2. Aims(w)' \subseteq Aims(w)
    <3>1. CASE mode.out = "counted"
      BY <1>2, <3>1 DEF Aims, Class, OutFrame
    <3>2. CASE mode.out # "counted"
      BY <1>2, <1>6, <3>2 DEF Aims, Blocks, OutFrame
    <3> QED
      BY <3>1, <3>2
  <2> QED
    BY <1>3, <1>5, <2>1, <2>2
<1>7. CASE mode.out = "preassigned"
  <2>1. mode.work = "fanout"
    BY <1>1, <1>7, OutModes
  <2>2. Phases
    BY DEF RunInv, WorkInv
  <2>3. Begin(w) \/ PopChunk(w)
    <3>1. ~(PushChunk(w) \/ Donate(w) \/ FillSlot(w) \/ RaiseFlag(w) \/ Steal(w) \/ TakeTask(w)
            \/ GrabRange(w) \/ Announce(w))
      BY <2>1, <2>2 DEF Announce, PushChunk, Donate, FillSlot, RaiseFlag, Steal, TakeTask, GrabRange,
                        Phases, At, Giving
    <3>2. ~Finish(w)
      BY <2>1 DEF Finish, NoWork, Static
    <3> QED
      BY <3>1, <3>2 DEF Sharing
  <2>4. CASE Begin(w)
    <3>1. BeginDone(w)
      BY <1>1, <2>4, BeginDoes
    <3>2. /\ warp'[w].b = Kept(w).b /\ warp'[w].e = Kept(w).e /\ UNCHANGED queue
          /\ warp'[w].pc = "run"
      BY <3>1 DEF BeginDone, Shown
    <3>3. Kept(w) = NoTask
      <4>1. ~Static
        BY <2>1 DEF Static
      <4> QED
        BY <2>1, <4>1, PartIs DEF Kept, Posting
    <3>4. Aims(w)' = {}
      <4>1. warp'[w].b = 0 /\ warp'[w].e = 0
        BY <3>2, <3>3, TaskIs
      <4>2. warp'[w].at = warp[w].at /\ warp[w].at \in Nat
        BY <1>1, <2>4, BeginEffect DEF OutInv, OutTyped
      <4>3. Aims(w)' = warp'[w].at .. warp'[w].at + (warp'[w].e - warp'[w].b) - 1
        BY <1>2, <1>7, <3>2 DEF Aims, OutFrame
      <4> QED
        BY <4>1, <4>2, <4>3
    <3>5. \A s \in Slots : Booked(s)' \subseteq Booked(s)
      BY <1>2, <3>2, BookedKept
    <3> QED
      BY <1>3, <1>5, <3>4, <3>5
  <2>5. CASE PopChunk(w)
    <3> DEFINE task == queue.tasks[queue.head]
    <3>1. PopDone(w)
      BY <1>1, <2>5, PopEffect
    <3>2. /\ queue'.head = queue.head + 1 /\ queue'.tail = queue.tail /\ queue'.tasks = queue.tasks
      BY <1>1, <3>1, HeadMoved DEF PopDone, BlindPop
    <3>3. \A s \in Slots : Booked(s)' \subseteq Booked(s)
      <4>1. ASSUME NEW s \in Slots
            PROVE  queue'.head <= s /\ s < queue'.tail => queue.head <= s /\ s < queue.tail
        BY <1>1, <3>2, SlotsAre
      <4> QED
        BY <1>2, <1>7, <3>2, <4>1 DEF Booked, OutFrame
    <3>4. CASE PoppedBlindly
      <4>1. /\ warp'[w].pc = "run" /\ warp'[w].b = task.b /\ warp'[w].e = task.e /\ warp'[w].at = task.at
        BY <3>1, <3>4 DEF PopDone, Turns, IsWarp
      <4>2. queue.head \in Slots
        <5>1. FanHeld
          BY DEF RunInv, WorkInv
        <5>2. queue.head < FanCapacity
          BY <1>1, <2>1, <3>4, <5>1, Sizes DEF PoppedBlindly, FanHeld
        <5> QED
          BY <1>1, <5>2, SlotsAre
      <4>3. Aims(w)' = Booked(queue.head)
        BY <1>1, <1>2, <1>7, <3>4, <4>1 DEF Aims, Booked, PoppedBlindly, OutFrame
      <4> QED
        BY <1>3, <1>4, <3>3, <4>2, <4>3 DEF Aimed
    <3>5. CASE ~PoppedBlindly
      <4>1. /\ warp'[w].pc = "stop" /\ warp'[w].b = warp[w].b /\ warp'[w].e = warp[w].e
            /\ warp'[w].at = warp[w].at /\ warp[w].pc = "run"
        BY <3>1, <3>5 DEF PopDone, Turns, IsWarp, Drained, At
      <4>2. Aims(w)' = Aims(w)
        BY <1>2, <1>7, <4>1 DEF Aims, OutFrame
      <4> QED
        BY <1>3, <1>5, <3>3, <4>2
    <3> QED
      BY <3>4, <3>5
  <2> QED
    BY <2>3, <2>4, <2>5
<1> QED
  BY <1>6, <1>7

LEMMA ClaimedIs ==
    /\ \A q : Claimed(q) <=> Aimed(q) \/ q \in Free
    /\ \A q : Claimed(q)' <=> Aimed(q)' \/ q \in Free'
  BY DEF Claimed, Aimed

(* What the sets of tuples depend on.                                      *)
LEMMA TuplesKept ==
    ASSUME UNCHANGED <<column, mode>>
    PROVE  /\ Expected' = Expected
           /\ visited' = visited => Emitted' = Emitted
           /\ table' = table => Tabled' = Tabled
           /\ visited' = visited /\ table' = table => Taken' = Taken
<1>1. Expected' = Expected
  BY DEF Expected
<1>2. visited' = visited => Emitted' = Emitted
  BY DEF Emitted, TupleAt
<1>3. table' = table => Tabled' = Tabled
  BY DEF Tabled
<1> QED
  BY <1>1, <1>2, <1>3 DEF Taken

(* A tuple that is settled or carried stays so when no row is written.     *)
LEMMA SettledKept ==
    ASSUME UNCHANGED <<rows, oldSize>>, \A q : Claimed(q)' => Claimed(q), NEW t, Settled(t)
    PROVE  Settled(t)'
  BY DEF Settled

LEMMA CarriedKept ==
    ASSUME NEW w \in Warps, Alone(w), NEW t, Carried(t),
           warp[w].pc # "probe" => warp'[w].pc # "probe" /\ warp'[w].buf = warp[w].buf
    PROVE  Carried(t)'
<1>1. PICK v \in Warps : warp[v].pc # "probe" /\ \E i \in DOMAIN warp[v].buf : warp[v].buf[i] = t
  BY DEF Carried
<1>2. warp'[v].pc # "probe" /\ warp'[v].buf = warp[v].buf
  BY <1>1 DEF Alone, Others
<1> QED
  BY <1>1, <1>2 DEF Carried

(* Nobody's probing is touched by a step of a warp that does not probe.    *)
LEMMA EnteredKept ==
    ASSUME Entered, UNCHANGED <<column, mode, pass, table, visited>>, NEW w \in Warps, Alone(w),
           warp[w].pc # "probe", warp'[w].pc # "probe"
    PROVE  Entered'
<1> SUFFICES ASSUME mode.out = "dedup", pass # "done"
             PROVE  Entered'
  BY DEF Entered
<1>1. Emitted' = Emitted /\ Tabled' = Tabled
  BY TuplesKept
<1>2. \A v \in Warps : (warp'[v].pc = "probe") <=> (warp[v].pc = "probe")
  BY DEF Alone, Others
<1>3. \A v \in Warps : warp[v].pc = "probe" => warp'[v] = warp[v]
  BY DEF Alone, Others
<1>4. /\ DOMAIN table' = 0 .. TableSize - 1
      /\ Tabled' \subseteq Emitted'
      /\ \A s, r \in DOMAIN table' : table'[s] = table'[r] /\ table'[s] # Junk => s = r
  BY <1>1 DEF Entered
<1>5. \A t \in Tabled' :
         \E n \in 0 .. ProbeLimit - 1 : table'[Probed(t, n)] = t /\ Behind(table', t, n)
  BY <1>1 DEF Entered
<1>6. \A v \in Warps : warp'[v].pc = "probe" =>
         \E t \in Emitted' : /\ warp'[v].buf = <<t>> /\ Behind(table', t, warp'[v].n)
                             /\ warp'[v].n < ProbeLimit
  <2> SUFFICES ASSUME NEW v \in Warps, warp'[v].pc = "probe"
               PROVE  \E t \in Emitted' : /\ warp'[v].buf = <<t>> /\ Behind(table', t, warp'[v].n)
                                          /\ warp'[v].n < ProbeLimit
    OBVIOUS
  <2>1. warp'[v] = warp[v] /\ warp[v].pc = "probe"
    BY <1>2, <1>3
  <2>2. PICK t \in Emitted : /\ warp[v].buf = <<t>> /\ Behind(table, t, warp[v].n)
                             /\ warp[v].n < ProbeLimit
    BY <2>1 DEF Entered
  <2> QED
    BY <1>1, <2>1, <2>2
<1>7. \A t \in Emitted' : t \in Tabled' \/ \E v \in Warps : warp'[v].pc = "probe" /\ warp'[v].buf = <<t>>
  BY <1>1, <1>2, <1>3 DEF Entered
<1> QED
  BY <1>4, <1>5, <1>6, <1>7 DEF Entered, Probed

Delivering == Balanced /\ Buffering /\ Inside /\ NoneLost /\ OldKept /\ Entered

LEMMA SharingKeeps ==
    ASSUME RunInv, OutInv, Delivering, NEW w \in Warps, Sharing(w)
    PROVE  Delivering'
<1>1. /\ SharingDone(w) /\ RunTyped
  BY SharingDoes DEF RunInv, WorkInv, WorkTyped
<1>2. /\ Alone(w) /\ warp'[w].buf = warp[w].buf /\ warp'[w].count = warp[w].count
      /\ warp[w].pc \notin {"probe", "flush", "store"}
      /\ warp'[w].pc \notin {"probe", "store"}
      /\ warp'[w].pc = "flush" => warp[w].buf # <<>>
      /\ pass # "done"
      /\ UNCHANGED <<column, rows, oldSize, writePos, capacity, overflow, table, mode, pass, base,
                     total, visited>>
  BY <1>1 DEF SharingDone, outputs, host
<1>3. Taken' = Taken /\ Expected' = Expected
  BY <1>2, TuplesKept
<1>4. \A v \in Warps : warp'[v].buf = warp[v].buf /\ warp'[v].count = warp[v].count
  BY <1>2 DEF Alone, Others
<1>5. Counts' = Counts
  BY <1>4 DEF Counts
<1>6. Owing' = Owing
  <2>1. \A v \in Warps : (warp'[v].pc \in {"store", "probe"}) <=> (warp[v].pc \in {"store", "probe"})
    BY <1>2 DEF Alone, Others
  <2> QED
    BY <1>4, <2>1 DEF Owing
<1>7. Balanced'
  <2>1. SumOf(Counts, Warps)' = SumOf(Counts, Warps) /\ SumOf(Owing, Warps)' = SumOf(Owing, Warps)
    BY <1>5, <1>6 DEF SumOf
  <2> QED
    BY <1>2, <1>3, <2>1 DEF Delivering, Balanced, Blocks, Dropped
<1>8. Buffering'
  <2>1. ASSUME NEW v \in Warps, v # w
        PROVE  warp'[v] = warp[v]
    BY <1>2, <2>1 DEF Alone, Others
  <2>2. Buffering
    BY DEF Delivering
  <2>3. warp'[w].pc = "flush" => pass # "count" /\ mode.out # "dedup"
    BY <1>2, <2>2 DEF Buffering
  <2> QED
    BY <1>2, <2>1, <2>2, <2>3 DEF Buffering
<1>9. pass = "write" => \A q : /\ Aimed(q)' => Aimed(q)
                               /\ Claimed(q)' => Claimed(q)
  BY SharingClaims, ClaimedIs
<1>10. Inside'
  BY <1>2, <1>3, <1>9 DEF Delivering, Inside, Room
<1>11. NoneLost'
  <2> SUFFICES ASSUME pass = "write", ~Dropped, NEW t \in Taken
               PROVE  Settled(t)' \/ Carried(t)'
    BY <1>2, <1>3 DEF NoneLost, Dropped
  <2>1. Settled(t) \/ Carried(t)
    BY DEF Delivering, NoneLost
  <2> QED
    BY <1>2, <1>9, <2>1, SettledKept, CarriedKept
<1>12. OldKept'
  BY <1>2 DEF Delivering, OldKept
<1>13. Entered'
  BY <1>2, EnteredKept DEF Delivering
<1> QED
  BY <1>7, <1>8, <1>10, <1>11, <1>12, <1>13 DEF Delivering

LEMMA SeqIs ==
    ASSUME NEW s, IsSeq(s)
    PROVE  DOMAIN s = 1 .. Len(s) /\ Len(s) \in Nat
  BY DEF IsSeq

(* A block that is written where a warp has aimed settles its tuples, and  *)
(* leaves what is settled and the old rows alone.                          *)
LEMMA WriteSettles ==
    ASSUME Apart, Inside, OldKept, pass = "write", UNCHANGED <<oldSize, pass>>,
           IsSeq(rows), oldSize \in Nat,
           NEW w \in Warps, NEW at \in Nat, NEW block, IsSeq(block), rows' = Stored(at, block),
           at .. at + Len(block) - 1 \subseteq Aims(w),
           Aims(w)' \subseteq Aims(w), Aims(w)' \cap (at .. at + Len(block) - 1) = {},
           \A v \in Warps : v = w \/ Aims(v)' = Aims(v),
           \A s \in Slots : Booked(s)' = Booked(s), Free' = Free
    PROVE  /\ \A t : Settled(t) => Settled(t)'
           /\ \A i \in DOMAIN block : Settled(block[i])'
           /\ OldKept' /\ Len(rows') = Len(rows)
           /\ \A q : Aimed(q)' => Aimed(q)
<1> DEFINE B == at .. at + Len(block) - 1
<1>1. /\ DOMAIN rows = 1 .. Len(rows) /\ Len(rows) \in Nat
      /\ DOMAIN block = 1 .. Len(block) /\ Len(block) \in Nat
  BY SeqIs
<1>2. /\ IsSeq(rows') /\ Len(rows') = Len(rows) /\ DOMAIN rows' = DOMAIN rows
  BY StoredRows
<1>3. \A p \in DOMAIN rows :
         rows'[p] = IF p - oldSize - at \in DOMAIN block THEN block[p - oldSize - at] ELSE rows[p]
  BY DEF Stored
<1>4. \A q : Aimed(q)' => Aimed(q)
  BY DEF Aimed
<1>5. \A q \in B : Aimed(q) /\ ~Claimed(q)'
  <2> SUFFICES ASSUME NEW q \in B
               PROVE  Aimed(q) /\ ~Claimed(q)'
    OBVIOUS
  <2>1. q \in Aims(w) /\ q \notin Aims(w)'
    OBVIOUS
  <2>2. \A v \in Warps : v # w => q \notin Aims(v)'
    BY <2>1 DEF Apart
  <2>3. (\A s \in Slots : q \notin Booked(s)') /\ q \notin Free'
    BY <2>1 DEF Apart
  <2> QED
    BY <2>1, <2>2, <2>3, ClaimedNow DEF Aimed
<1>6. \A q : Claimed(q)' => Claimed(q)
  BY <1>4, ClaimedIs
<1>7. ASSUME NEW t, Settled(t)
      PROVE  Settled(t)'
  <2>1. PICK p \in DOMAIN rows : p > oldSize /\ rows[p] = t /\ ~Claimed(p - oldSize - 1)
    BY <1>7 DEF Settled
  <2>2. p - oldSize - 1 \notin B
    BY <1>5, <2>1, ClaimedIs
  <2>3. p - oldSize - at \notin DOMAIN block
    BY <1>1, <2>1, <2>2
  <2>4. rows'[p] = t /\ ~Claimed(p - oldSize - 1)'
    BY <1>3, <1>6, <2>1, <2>3
  <2> QED
    BY <1>2, <2>1, <2>4 DEF Settled
<1>8. ASSUME NEW i \in DOMAIN block
      PROVE  Settled(block[i])'
  <2>1. PICK q : q = at + i - 1
    OBVIOUS
  <2>2. q \in B /\ q \in Nat /\ i \in Nat
    BY <1>1, <2>1
  <2>3. q < Room
    BY <1>5, <2>2 DEF Inside
  <2>4. PICK p : p = oldSize + at + i
    OBVIOUS
  <2>5. /\ p \in DOMAIN rows /\ p > oldSize /\ p - oldSize - 1 = q /\ p - oldSize - at = i
    BY <1>1, <2>1, <2>2, <2>3, <2>4 DEF Room
  <2>6. rows'[p] = block[i]
    BY <1>3, <2>5
  <2>7. ~Claimed(p - oldSize - 1)'
    BY <1>5, <2>2, <2>5
  <2> QED
    BY <1>2, <2>5, <2>6, <2>7 DEF Settled
<1>9. OldKept'
  <2>1. ASSUME NEW p \in 1 .. oldSize
        PROVE  rows'[p] = 0
    <3>1. p \in DOMAIN rows /\ rows[p] = 0
      BY <1>1 DEF OldKept
    <3>2. p - oldSize - at \notin DOMAIN block
      BY <1>1
    <3> QED
      BY <1>3, <3>1, <3>2
  <2> QED
    BY <1>2, <2>1 DEF OldKept
<1> QED
  BY <1>2, <1>4, <1>7, <1>8, <1>9

(* The write of a block from a warp's buffer.                              *)
LEMMA StoreKeeps ==
    ASSUME RunInv, OutInv, Delivering, NEW w \in Warps, Store(w)
    PROVE  Delivering'
<1>1. /\ RunTyped /\ WarpsTyped /\ Unbuffered /\ Apart /\ Blank /\ OutTyped
      /\ IsSeq(warp[w].buf) /\ warp[w].at \in Nat /\ IsSeq(rows) /\ oldSize \in Nat
  BY DEF RunInv, WorkInv, WorkTyped, OutInv, OutTyped
<1>2. StoreDone(w)
  BY <1>1, StoreEffect
<1>3. /\ warp[w].pc = "store" /\ pass # "done" /\ rows' = Stored(warp[w].at, warp[w].buf)
      /\ UNCHANGED <<column, queue, oldSize, writePos, capacity, overflow, table, mode, pass, base,
                     total, visited>>
  BY <1>2 DEF StoreDone, At, sources, host
<1>4. /\ Alone(w) /\ warp'[w].pc = "run" /\ warp'[w].at = warp[w].at /\ warp'[w].buf = <<>>
      /\ warp'[w].count = warp[w].count
  BY <1>2 DEF StoreDone, Turns, IsWarp
<1>5. pass = "write" /\ mode.out \notin {"counted", "preassigned"}
  BY <1>1, <1>3 DEF Delivering, Buffering, RunTyped, Unbuffered
<1>6. OutFrame /\ Taken' = Taken /\ Expected' = Expected
  BY <1>3, TuplesKept DEF OutFrame
<1>7. Aims(w)' = {} /\ Aims(w) = warp[w].at .. warp[w].at + Len(warp[w].buf) - 1
  BY <1>3, <1>4, <1>5, <1>6 DEF Aims, Blocks, OutFrame
<1>8. /\ \A v \in Warps : v = w \/ Aims(v)' = Aims(v)
      /\ \A s \in Slots : Booked(s)' = Booked(s)
      /\ Free' = Free
  BY <1>3, <1>4, <1>5, <1>6, OthersAims, BookedKept, FreeKept DEF Alone, Others
<1>b. PICK block, at : block = warp[w].buf /\ at = warp[w].at
  OBVIOUS
<1>9. /\ \A t : Settled(t) => Settled(t)'
      /\ \A t : (\E i \in DOMAIN block : block[i] = t) => Settled(t)'
      /\ OldKept' /\ Len(rows') = Len(rows)
      /\ \A q : Aimed(q)' => Aimed(q)
  <2>1. /\ at \in Nat /\ IsSeq(block) /\ rows' = Stored(at, block)
        /\ Aims(w)' = {} /\ Aims(w) = at .. at + Len(block) - 1
    BY <1>1, <1>3, <1>7, <1>b
  <2>2. /\ \A t : Settled(t) => Settled(t)'
        /\ \A i \in DOMAIN block : Settled(block[i])'
        /\ OldKept' /\ Len(rows') = Len(rows)
        /\ \A q : Aimed(q)' => Aimed(q)
    BY <1>1, <1>3, <1>5, <1>8, <2>1, WriteSettles DEF Delivering
  <2> QED
    BY <2>2
<1>10. Owing' = Owing
  <2>1. \A v \in Warps : v # w => warp'[v] = warp[v]
    BY <1>4 DEF Alone, Others
  <2>2. Len(warp'[w].buf) = 0
    BY <1>4
  <2> QED
    BY <1>3, <1>4, <2>1, <2>2 DEF Owing
<1>11. Balanced'
  <2>1. SumOf(Owing, Warps)' = SumOf(Owing, Warps)
    BY <1>10 DEF SumOf
  <2> QED
    BY <1>3, <1>5, <1>6, <2>1 DEF Delivering, Balanced, Blocks, Dropped
<1>12. Buffering'
  <2>1. \A v \in Warps : v # w => warp'[v] = warp[v]
    BY <1>4 DEF Alone, Others
  <2> QED
    BY <1>3, <1>4, <1>5, <2>1 DEF Delivering, Buffering
<1>13. Inside'
  BY <1>3, <1>6, <1>9 DEF Delivering, Inside, Room
<1>14. NoneLost'
  <2> SUFFICES ASSUME ~Dropped, NEW t \in Taken
               PROVE  Settled(t)' \/ Carried(t)'
    BY <1>3, <1>6 DEF NoneLost, Dropped
  <2>1. Settled(t) \/ Carried(t)
    BY <1>5 DEF Delivering, NoneLost
  <2>2. CASE Carried(t)
    <3>1. PICK v \in Warps : warp[v].pc # "probe" /\ \E i \in DOMAIN warp[v].buf : warp[v].buf[i] = t
      BY <2>2 DEF Carried
    <3>2. CASE v = w
      BY <1>b, <1>9, <3>1, <3>2
    <3>3. CASE v # w
      <4>1. warp'[v] = warp[v]
        BY <1>4, <3>3 DEF Alone, Others
      <4> QED
        BY <3>1, <4>1 DEF Carried
    <3> QED
      BY <3>2, <3>3
  <2> QED
    BY <1>9, <2>1, <2>2
<1>15. Entered'
  BY <1>3, <1>4, EnteredKept DEF Delivering
<1> QED
  BY <1>9, <1>11, <1>12, <1>13, <1>14, <1>15 DEF Delivering

(* What is owed and what is taken can be counted.                          *)
LEMMA OwingTyped ==
    ASSUME OutInv, NEW w \in Warps
    PROVE  /\ Owing[w] \in Nat /\ Len(warp[w].buf) \in Nat
           /\ warp[w].pc \in {"store", "probe"} => Owing[w] = 0
           /\ warp[w].pc \notin {"store", "probe"} => Owing[w] = Len(warp[w].buf)
<1>1. IsSeq(warp[w].buf)
  BY DEF OutInv, OutTyped
<1>2. Len(warp[w].buf) \in Nat
  BY <1>1, SeqIs
<1> QED
  BY <1>2 DEF Owing

LEMMA TakenFits ==
    ASSUME RunInv, Entered, pass # "done", ~(mode.work = "fanout" /\ pass = "count")
    PROVE  /\ Taken \subseteq Expected /\ IsFiniteSet(Taken)
           /\ Cardinality(Taken) \in Nat /\ Cardinality(Expected) \in Nat
           /\ Cardinality(Taken) <= Cardinality(Expected)
<1>1. Emitted \subseteq Expected /\ IsFiniteSet(Expected) /\ Cardinality(Expected) \in Nat
  BY ExpectedIs
<1>2. Taken \subseteq Emitted
  BY DEF Taken, Entered
<1>3. PICK A, B : A = Taken /\ B = Expected
  OBVIOUS
<1>4. A \subseteq B /\ IsFiniteSet(B)
  BY <1>1, <1>2, <1>3
<1>5. IsFiniteSet(A) /\ Cardinality(A) <= Cardinality(B) /\ Cardinality(A) \in Nat
  BY <1>4, FS_Subset, FS_CardinalityType
<1> QED
  BY <1>1, <1>3, <1>4, <1>5

(* The claim of a block.                                                   *)
LEMMA FlushKeeps ==
    ASSUME RunInv, OutInv, OutInv', Delivering, NEW w \in Warps, Flush(w)
    PROVE  Delivering'
<1>1. /\ RunTyped /\ WarpsTyped /\ Unbuffered /\ Apart
      /\ writePos \in Nat /\ IsSeq(warp[w].buf)
  BY DEF RunInv, WorkInv, WorkTyped, OutInv, OutTyped
<1>2. FlushDone(w)
  BY <1>1, FlushEffect
<1>3. PICK l : l = Len(warp[w].buf)
  OBVIOUS
<1>4. l \in Nat
  BY <1>1, <1>3, SeqIs
<1>5. /\ warp[w].pc = "flush" /\ pass # "done" /\ writePos' = writePos + l
      /\ overflow' = (overflow \/ ~Fits(mode.out, warp[w].buf))
      /\ UNCHANGED <<column, queue, rows, oldSize, capacity, table, mode, pass, base, total, visited>>
  BY <1>2, <1>3 DEF FlushDone, At, Claim, sources, host
<1>6. /\ Alone(w) /\ warp'[w].count = warp[w].count
      /\ \/ /\ Fits(mode.out, warp[w].buf)
            /\ warp'[w].pc = "store" /\ warp'[w].at = writePos /\ warp'[w].buf = warp[w].buf
         \/ /\ ~Fits(mode.out, warp[w].buf)
            /\ warp'[w].pc = "run" /\ warp'[w].buf = <<>>
  BY <1>2 DEF FlushDone, Turns, IsWarp
<1>7. /\ pass = "write" /\ mode.out \notin {"counted", "preassigned"} /\ Blocks /\ Blocks'
      /\ mode.work # "fanout"
  BY <1>1, <1>5, OutModes DEF Delivering, Buffering, RunTyped, Unbuffered, Blocks
<1>8. OutFrame /\ Taken' = Taken /\ Expected' = Expected
  BY <1>5, TuplesKept DEF OutFrame
<1>9. /\ \A v \in Warps : v = w \/ Aims(v)' = Aims(v)
      /\ \A s \in Slots : Booked(s)' = Booked(s)
  BY <1>5, <1>6, <1>8, OthersAims, BookedKept DEF Alone, Others
<1>10. Free = {q \in Nat : q >= writePos} /\ Free' = {q \in Nat : q >= writePos + l}
  BY <1>5, <1>7 DEF Free
<1>11. \/ warp'[w].pc = "store" /\ Aims(w)' = writePos .. writePos + l - 1
       \/ warp'[w].pc = "run" /\ Aims(w)' = {}
  BY <1>3, <1>5, <1>6, <1>7 DEF Aims
<1>12. Aims(w)' \subseteq Free /\ Free' \subseteq Free
  <2>1. PICK A1, F, F1 : A1 = Aims(w)' /\ F = Free /\ F1 = Free'
    OBVIOUS
  <2>2. A1 \subseteq F /\ F1 \subseteq F
    BY <1>1, <1>4, <1>10, <1>11, <2>1
  <2> QED
    BY <2>1, <2>2
<1>13. \A q : Claimed(q)' => Claimed(q)
  <2> SUFFICES ASSUME NEW q, Claimed(q)'
               PROVE  Claimed(q)
    OBVIOUS
  <2>1. \/ \E v \in Warps : q \in Aims(v)'
        \/ \E s \in Slots : q \in Booked(s)'
        \/ q \in Free'
    BY ClaimedNow
  <2> QED
    BY <1>9, <1>12, <2>1 DEF Claimed
<1>14. /\ Owing[w] = l /\ Owing'[w] = 0
       /\ \A v \in Warps : v = w \/ Owing'[v] = Owing[v]
       /\ \A v \in Warps : Owing[v] \in Nat /\ Owing'[v] \in Nat
  <2>1. \A v \in Warps : v = w \/ warp'[v] = warp[v]
    BY <1>6 DEF Alone, Others
  <2>2. Len(<<>>) = 0
    OBVIOUS
  <2>3. Owing'[w] = 0
    BY <1>6, <2>2 DEF Owing
  <2>4. Owing[w] = l
    BY <1>3, <1>5 DEF Owing
  <2>5. \A v \in Warps : v = w \/ Owing'[v] = Owing[v]
    BY <2>1 DEF Owing
  <2> QED
    BY <1>4, <2>3, <2>4, <2>5, OwingTyped
<1>15. PICK f, g : f = Owing /\ g = Owing'
  OBVIOUS
<1>16. /\ SumOf(g, Warps) + l = SumOf(f, Warps) + 0
       /\ SumOf(g, Warps) \in Nat /\ SumOf(f, Warps) \in Nat /\ l <= SumOf(f, Warps)
  <2>1. /\ \A v \in Warps : f[v] \in Nat /\ g[v] \in Nat
        /\ \A v \in Warps : v = w \/ g[v] = f[v]
        /\ f[w] = l /\ g[w] = 0
    BY <1>14, <1>15
  <2>2. /\ SumOf(g, Warps) + f[w] = SumOf(f, Warps) + g[w]
        /\ SumOf(g, Warps) \in Nat /\ SumOf(f, Warps) \in Nat
    BY <2>1, SumMoves
  <2>3. f[w] <= SumOf(f, Warps)
    BY <2>1, SumParts
  <2> QED
    BY <2>1, <2>2, <2>3
<1>17. ~Dropped => writePos + SumOf(f, Warps) = Cardinality(Taken)
  BY <1>7, <1>15 DEF Delivering, Balanced
<1>18. ~Dropped' => ~Dropped /\ Fits(mode.out, warp[w].buf)
  BY <1>5 DEF Dropped, Fits
<1>19. Balanced'
  <2>1. ~Dropped' => writePos' + SumOf(g, Warps) = Cardinality(Taken)
    BY <1>1, <1>4, <1>5, <1>16, <1>17, <1>18
  <2>2. SumOf(Owing, Warps)' = SumOf(g, Warps)
    BY <1>15 DEF SumOf
  <2> QED
    BY <1>5, <1>7, <1>8, <2>1, <2>2 DEF Balanced
<1>20. Buffering'
  <2>1. \A v \in Warps : v # w => warp'[v] = warp[v]
    BY <1>6 DEF Alone, Others
  <2>2. mode.out = "dedup" /\ warp'[w].pc \notin {"probe", "flush", "store"} => warp'[w].buf = <<>>
    BY <1>6
  <2> QED
    BY <1>5, <1>6, <1>7, <2>1, <2>2 DEF Delivering, Buffering
<1>21. Inside'
  <2>1. Room' = Room /\ (Room = IF mode.out = "speculative" THEN capacity ELSE Cardinality(Expected))
    BY <1>5, <1>7 DEF Room, Delivering, Inside
  <2>2. warp'[w].pc = "store" => writePos + l <= Room
    <3>1. CASE mode.out = "speculative"
      BY <1>3, <1>6, <2>1, <3>1 DEF Fits
    <3>2. CASE mode.out # "speculative"
      <4>1. writePos + SumOf(f, Warps) = Cardinality(Taken)
        BY <1>17, <3>2 DEF Dropped
      <4>2. /\ Cardinality(Taken) <= Cardinality(Expected) /\ Cardinality(Taken) \in Nat
            /\ Cardinality(Expected) \in Nat
        BY <1>7, TakenFits DEF Delivering
      <4>3. writePos + l <= Cardinality(Expected)
        BY <1>1, <1>4, <1>16, <4>1, <4>2
      <4> QED
        BY <2>1, <3>2, <4>3
    <3> QED
      BY <3>1, <3>2
  <2>3. Room \in Int
    BY <1>1, SeqIs DEF Room, OutInv, OutTyped
  <2>4. \A q : q \in Aims(w)' => q < Room
    BY <1>1, <1>4, <1>11, <2>2, <2>3
  <2>5. \A q : Aimed(q)' => Aimed(q) \/ q \in Aims(w)'
    BY <1>9 DEF Aimed
  <2>6. \A q : Aimed(q)' => q < Room
    BY <1>7, <2>4, <2>5 DEF Delivering, Inside
  <2>7. \A q : Aimed(q)' => q < Room'
    BY <2>1, <2>6
  <2>8. Room' = IF mode'.out = "speculative" THEN capacity' ELSE Cardinality(Expected)'
    BY <1>5, <1>8, <2>1
  <2> QED
    BY <2>7, <2>8 DEF Inside
<1>22. NoneLost'
  <2> SUFFICES ASSUME ~Dropped', NEW t \in Taken
               PROVE  Settled(t)' \/ Carried(t)'
    BY <1>8 DEF NoneLost
  <2>1. Settled(t) \/ Carried(t)
    BY <1>7, <1>18 DEF Delivering, NoneLost
  <2>2. warp'[w].pc # "probe" /\ warp'[w].buf = warp[w].buf
    BY <1>6, <1>18
  <2> QED
    BY <1>5, <1>6, <1>13, <2>1, <2>2, SettledKept, CarriedKept
<1>23. OldKept'
  BY <1>5 DEF Delivering, OldKept
<1>24. Entered'
  BY <1>5, <1>6, EnteredKept DEF Delivering
<1> QED
  BY <1>19, <1>20, <1>21, <1>22, <1>23, <1>24 DEF Delivering

(* What every visit does.                                                  *)
Visiting(w) ==
    /\ pass \in {"count", "write"} /\ warp[w].pc = "run" /\ Alone(w) /\ OutFrame
    /\ ~(mode.work = "fanout" /\ pass = "count")
    /\ UNCHANGED <<column, mode, pass, oldSize, writePos, capacity, overflow, table, base, total, queue>>
    /\ \A v \in Warps : v = w \/ Aims(v)' = Aims(v)
    /\ \A s \in Slots : Booked(s)' = Booked(s)
    /\ Free' = Free /\ Expected' = Expected /\ Tabled' = Tabled
    /\ Emitted' = Emitted \cup {Tuple(w)} /\ Tuple(w) \in Expected
    /\ mode.out # "dedup" =>
         /\ Taken' = Taken \cup {Tuple(w)}
         /\ Cardinality(Taken') = Cardinality(Taken) + 1 /\ Cardinality(Taken) \in Nat

LEMMA VisitingDoes ==
    ASSUME RunInv, Aligned, NEW w \in Warps, VisitDone(w)
    PROVE  Visiting(w)
<1>1. /\ UNCHANGED <<column, mode, pass, oldSize, writePos, capacity, overflow, table, base, total, queue>>
      /\ warp[w].pc = "run" /\ pass # "done" /\ Alone(w) /\ OutFrame
      /\ ~(mode.work = "fanout" /\ pass = "count") /\ RunTyped
  BY DEF VisitDone, InHand, At, OutFrame, RunInv, WorkInv, WorkTyped
<1>2. /\ \A v \in Warps : v = w \/ Aims(v)' = Aims(v)
      /\ \A s \in Slots : Booked(s)' = Booked(s)
      /\ Free' = Free
  BY <1>1, OthersAims, BookedKept, FreeKept DEF Alone, Others
<1>3. Expected' = Expected /\ Tabled' = Tabled
  BY <1>1, TuplesKept
<1>4. /\ Emitted' = Emitted \cup {Tuple(w)}
      /\ mode.out # "dedup" => Tuple(w) \notin Emitted
  BY EmittedGrows
<1>5. ASSUME mode.out # "dedup"
      PROVE  /\ Taken' = Taken \cup {Tuple(w)}
             /\ Cardinality(Taken') = Cardinality(Taken) + 1 /\ Cardinality(Taken) \in Nat
  <2>1. Taken = Emitted /\ Taken' = Emitted'
    BY <1>1, <1>5 DEF Taken
  <2>2. IsFiniteSet(Emitted) /\ Cardinality(Emitted) \in Nat
    BY <1>1, ExpectedIs
  <2>3. PICK A, B, t : A = Emitted /\ B = Emitted' /\ t = Tuple(w)
    OBVIOUS
  <2>4. B = A \cup {t} /\ t \notin A /\ IsFiniteSet(A)
    BY <1>4, <1>5, <2>2, <2>3
  <2>5. Cardinality(B) = Cardinality(A) + 1
    BY <2>4, FS_AddElement
  <2> QED
    BY <2>1, <2>2, <2>3, <2>4, <2>5
<1>6. Tuple(w) \in Expected
  <2>1. warp[w].b \in AllRows
    BY <1>1, InColumn DEF VisitDone, InHand
  <2>2. Expected = {TupleAt(r) : r \in AllRows}
    BY <1>1, ExpectedIs
  <2>3. Tuple(w) = TupleAt(warp[w].b)
    BY DEF Tuple, TupleAt
  <2> QED
    BY <2>1, <2>2, <2>3
<1> QED
  BY <1>1, <1>2, <1>3, <1>4, <1>5, <1>6 DEF Visiting, RunTyped

(* A match that is counted.                                                *)
LEMMA VisitCounts ==
    ASSUME RunInv, OutInv, Delivering, NEW w \in Warps, Visiting(w), Emission(w),
           pass = "count", mode.out # "dedup"
    PROVE  Delivering'
<1>1. /\ warp'[w].pc = "run" /\ warp'[w].count = warp[w].count + 1 /\ warp'[w].buf = warp[w].buf
      /\ rows' = rows
  BY DEF Emission, VisitAs
<1>2. \A v \in Warps : v = w \/ warp'[v] = warp[v]
  BY DEF Visiting, Alone, Others
<1>3. /\ \A v \in Warps : Counts[v] \in Nat /\ Counts'[v] \in Nat
      /\ \A v \in Warps : v = w \/ Counts'[v] = Counts[v]
      /\ Counts'[w] = Counts[w] + 1
  <2>1. \A v \in Warps : warp[v].count \in Nat
    BY DEF RunInv, WorkInv, WorkTyped, WarpsTyped, WarpTyped
  <2> QED
    BY <1>1, <1>2, <2>1 DEF Counts
<1>4. PICK f, g : f = Counts /\ g = Counts'
  OBVIOUS
<1>5. SumOf(g, Warps) = SumOf(f, Warps) + 1
  <2>1. /\ \A v \in Warps : f[v] \in Nat /\ g[v] \in Nat
        /\ \A v \in Warps : v = w \/ g[v] = f[v]
        /\ g[w] = f[w] + 1 /\ f[w] \in Nat
    BY <1>3, <1>4
  <2>2. /\ SumOf(g, Warps) + f[w] = SumOf(f, Warps) + g[w]
        /\ SumOf(g, Warps) \in Nat /\ SumOf(f, Warps) \in Nat
    BY <2>1, SumMoves
  <2> QED
    BY <2>1, <2>2
<1>6. Balanced'
  <2>1. SumOf(Counts, Warps)' = SumOf(g, Warps) /\ SumOf(Counts, Warps) = SumOf(f, Warps)
    BY <1>4 DEF SumOf
  <2>2. mode.work # "fanout" /\ SumOf(f, Warps) = Cardinality(Taken)
    BY <2>1 DEF Visiting, Delivering, Balanced
  <2>3. SumOf(Counts, Warps)' = Cardinality(Taken')
    BY <1>5, <2>1, <2>2 DEF Visiting
  <2> QED
    BY <2>2, <2>3 DEF Balanced, Blocks, Visiting
<1>7. Buffering'
  <2>1. warp'[w].buf = <<>>
    BY <1>1 DEF Delivering, Buffering, Visiting
  <2> QED
    BY <1>1, <1>2, <2>1 DEF Delivering, Buffering, Visiting
<1>8. Inside' /\ NoneLost'
  BY DEF Visiting, Inside, NoneLost
<1>9. OldKept'
  BY <1>1 DEF Delivering, OldKept, Visiting
<1>10. Entered'
  BY DEF Visiting, Entered
<1> QED
  BY <1>6, <1>7, <1>8, <1>9, <1>10 DEF Delivering

(* A match that is dropped, for the run has overflowed.                    *)
LEMMA VisitDrops ==
    ASSUME RunInv, OutInv, Delivering, NEW w \in Warps, Visiting(w), Emission(w),
           pass = "write", mode.out = "speculative", overflow
    PROVE  Delivering'
<1>1. warp'[w].pc = "run" /\ warp'[w].buf = warp[w].buf /\ rows' = rows
  BY DEF Emission, VisitAs
<1>2. \A v \in Warps : v = w \/ warp'[v] = warp[v]
  BY DEF Visiting, Alone, Others
<1>3. Balanced' /\ NoneLost'
  BY DEF Balanced, NoneLost, Dropped, Visiting
<1>4. Buffering'
  BY <1>1, <1>2 DEF Delivering, Buffering, Visiting
<1>5. Inside'
  <2>1. Aims(w)' = {}
    BY <1>1 DEF Aims, Blocks, Visiting
  <2>2. \A q : Aimed(q)' => Aimed(q)
    BY <2>1 DEF Aimed, Visiting
  <2> QED
    BY <1>1, <2>2 DEF Delivering, Inside, Room, Visiting
<1>6. OldKept'
  BY <1>1 DEF Delivering, OldKept, Visiting
<1>7. Entered'
  BY DEF Visiting, Entered
<1> QED
  BY <1>3, <1>4, <1>5, <1>6, <1>7 DEF Delivering

(* A match that is buffered.                                               *)
LEMMA VisitBuffers ==
    ASSUME RunInv, OutInv, Delivering, NEW w \in Warps, Visiting(w), Emission(w),
           pass = "write", mode.out \in {"chunked", "coalesced", "speculative"}, ~Dropped
    PROVE  Delivering'
<1>1. /\ warp'[w].pc \in {"run", "flush"} /\ warp'[w].buf = Append(warp[w].buf, Tuple(w))
      /\ rows' = rows
  BY DEF Emission, VisitAs, Dropped
<1>2. \A v \in Warps : v = w \/ warp'[v] = warp[v]
  BY DEF Visiting, Alone, Others
<1>3. PICK buf, t : buf = warp[w].buf /\ t = Tuple(w)
  OBVIOUS
<1>4. /\ Len(buf) \in Nat /\ Len(Append(buf, t)) = Len(buf) + 1
      /\ DOMAIN buf \subseteq DOMAIN Append(buf, t)
      /\ \A i \in DOMAIN buf : Append(buf, t)[i] = buf[i]
      /\ Len(buf) + 1 \in DOMAIN Append(buf, t) /\ Append(buf, t)[Len(buf) + 1] = t
  <2>1. IsSeq(buf)
    BY <1>3 DEF OutInv, OutTyped
  <2>2. PICK X : buf \in Seq(X)
    BY <2>1 DEF IsSeq
  <2>3. buf \in Seq(X \cup {t})
    BY <2>2
  <2> QED
    BY <2>3
<1>5. /\ \A v \in Warps : Owing[v] \in Nat /\ Owing'[v] \in Nat
      /\ \A v \in Warps : v = w \/ Owing'[v] = Owing[v]
      /\ Owing'[w] = Owing[w] + 1
  <2>1. Owing[w] = Len(buf) /\ Owing'[w] = Len(buf) + 1
    BY <1>1, <1>3, <1>4 DEF Owing, Visiting
  <2>2. \A v \in Warps : v = w \/ Owing'[v] = Owing[v]
    BY <1>2 DEF Owing
  <2> QED
    BY <1>4, <2>1, <2>2, OwingTyped
<1>6. PICK f, g : f = Owing /\ g = Owing'
  OBVIOUS
<1>7. SumOf(g, Warps) = SumOf(f, Warps) + 1 /\ SumOf(f, Warps) \in Nat
  <2>1. /\ \A v \in Warps : f[v] \in Nat /\ g[v] \in Nat
        /\ \A v \in Warps : v = w \/ g[v] = f[v]
        /\ g[w] = f[w] + 1 /\ f[w] \in Nat
    BY <1>5, <1>6
  <2>2. /\ SumOf(g, Warps) + f[w] = SumOf(f, Warps) + g[w]
        /\ SumOf(g, Warps) \in Nat /\ SumOf(f, Warps) \in Nat
    BY <2>1, SumMoves
  <2> QED
    BY <2>1, <2>2
<1>8. Balanced'
  <2>1. SumOf(Owing, Warps)' = SumOf(g, Warps) /\ SumOf(Owing, Warps) = SumOf(f, Warps)
    BY <1>6 DEF SumOf
  <2>2. writePos + SumOf(f, Warps) = Cardinality(Taken) /\ writePos \in Nat
    BY <2>1 DEF Delivering, Balanced, Blocks, OutInv, OutTyped
  <2>3. writePos + SumOf(Owing, Warps)' = Cardinality(Taken')
    BY <1>7, <2>1, <2>2 DEF Visiting
  <2> QED
    BY <2>3 DEF Balanced, Visiting
<1>9. Buffering'
  BY <1>1, <1>2 DEF Delivering, Buffering, Visiting
<1>10. Aims(w)' = {}
  BY <1>1 DEF Aims, Blocks, Visiting
<1>11. \A q : Aimed(q)' => Aimed(q)
  BY <1>10 DEF Aimed, Visiting
<1>12. \A q : Claimed(q)' => Claimed(q)
  BY <1>11, ClaimedIs DEF Visiting
<1>13. Inside'
  BY <1>1, <1>11 DEF Delivering, Inside, Room, Visiting
<1>14. NoneLost'
  <2>1. Taken' = Taken \cup {t}
    BY <1>3 DEF Visiting
  <2>2. ASSUME NEW x \in Taken
        PROVE  Settled(x)' \/ Carried(x)'
    <3>1. Settled(x) \/ Carried(x)
      BY <2>2 DEF Delivering, NoneLost
    <3>2. CASE Settled(x)
      BY <1>1, <1>12, <3>2, SettledKept DEF Visiting
    <3>3. CASE Carried(x)
      <4>1. PICK v \in Warps : warp[v].pc # "probe" /\ \E i \in DOMAIN warp[v].buf : warp[v].buf[i] = x
        BY <3>3 DEF Carried
      <4>2. PICK i \in DOMAIN warp[v].buf : warp[v].buf[i] = x
        BY <4>1
      <4>3. warp'[v].pc # "probe" /\ i \in DOMAIN warp'[v].buf /\ warp'[v].buf[i] = x
        <5>1. CASE v = w
          BY <1>1, <1>3, <1>4, <4>2, <5>1
        <5>2. CASE v # w
          BY <1>2, <4>1, <4>2, <5>2
        <5> QED
          BY <5>1, <5>2
      <4> QED
        BY <4>3 DEF Carried
    <3> QED
      BY <3>1, <3>2, <3>3
  <2>3. Carried(t)'
    <3>1. PICK i : i = Len(buf) + 1
      OBVIOUS
    <3>2. warp'[w].pc # "probe" /\ i \in DOMAIN warp'[w].buf /\ warp'[w].buf[i] = t
      BY <1>1, <1>3, <1>4, <3>1
    <3> QED
      BY <3>2 DEF Carried
  <2>4. PICK T : T = Taken'
    OBVIOUS
  <2>5. ASSUME NEW x \in T
        PROVE  Settled(x)' \/ Carried(x)'
    BY <2>1, <2>2, <2>3, <2>4, <2>5
  <2> QED
    BY <2>4, <2>5 DEF NoneLost
<1>15. OldKept'
  BY <1>1 DEF Delivering, OldKept, Visiting
<1>16. Entered'
  BY DEF Visiting, Entered
<1> QED
  BY <1>8, <1>9, <1>13, <1>14, <1>15, <1>16 DEF Delivering

(* A match that is written at once, at the position its warp has claimed.  *)
LEMMA VisitPlaces ==
    ASSUME RunInv, OutInv, Delivering, NEW w \in Warps, Visiting(w), pass = "write",
           mode.out \in {"counted", "preassigned"},
           warp'[w].pc = "run", warp'[w].buf = warp[w].buf,
           NEW at \in Nat, rows' = Stored(at, <<Tuple(w)>>),
           at \in Aims(w), Aims(w)' \subseteq Aims(w), at \notin Aims(w)'
    PROVE  Delivering'
<1>1. /\ RunTyped /\ Apart /\ IsSeq(rows) /\ oldSize \in Nat /\ Unbuffered
  BY DEF RunInv, WorkInv, WorkTyped, OutInv, OutTyped
<1>2. \A v \in Warps : v = w \/ warp'[v] = warp[v]
  BY DEF Visiting, Alone, Others
<1>3. PICK t : t = Tuple(w)
  OBVIOUS
<1>b. PICK block : block = <<t>>
  OBVIOUS
<1>4. /\ IsSeq(block) /\ Len(block) = 1 /\ DOMAIN block = 1 .. 1 /\ block[1] = t
  BY <1>b, OneRow, SeqIs
<1>5. at .. at + Len(block) - 1 = {at}
  BY <1>4
<1>6. /\ \A x : Settled(x) => Settled(x)'
      /\ \A i \in DOMAIN block : Settled(block[i])'
      /\ OldKept' /\ Len(rows') = Len(rows)
      /\ \A q : Aimed(q)' => Aimed(q)
  <2>1. /\ at .. at + Len(block) - 1 \subseteq Aims(w)
        /\ Aims(w)' \cap (at .. at + Len(block) - 1) = {}
        /\ rows' = Stored(at, block)
    BY <1>3, <1>b, <1>5
  <2> QED
    BY <1>1, <1>4, <2>1, WriteSettles DEF Delivering, Visiting
<1>7. Settled(t)'
  <2>1. 1 \in DOMAIN block
    BY <1>4
  <2>2. Settled(block[1])'
    BY <1>6, <2>1
  <2> QED
    BY <1>4, <2>2
<1>8. Balanced'
  BY DEF Balanced, Blocks, Visiting
<1>9. Buffering'
  BY <1>2 DEF Delivering, Buffering, Visiting
<1>10. Inside'
  BY <1>6 DEF Delivering, Inside, Room, Visiting
<1>11. NoneLost'
  <2>1. Taken' = Taken \cup {t} /\ ~Dropped
    BY <1>3 DEF Visiting, Dropped
  <2>2. ASSUME NEW x \in Taken
        PROVE  Settled(x)' \/ Carried(x)'
    <3>1. Settled(x) \/ Carried(x)
      BY <2>1, <2>2 DEF Delivering, NoneLost
    <3>2. ~Carried(x)
      <4>1. DOMAIN <<>> = {}
        OBVIOUS
      <4> QED
        BY <1>1, <4>1 DEF Carried, Unbuffered
    <3> QED
      BY <1>6, <3>1, <3>2
  <2>3. PICK T : T = Taken'
    OBVIOUS
  <2>4. ASSUME NEW x \in T
        PROVE  Settled(x)' \/ Carried(x)'
    BY <1>7, <2>1, <2>2, <2>3, <2>4
  <2> QED
    BY <2>3, <2>4 DEF NoneLost
<1>12. Entered'
  BY DEF Visiting, Entered
<1> QED
  BY <1>6, <1>8, <1>9, <1>10, <1>11, <1>12 DEF Delivering

(* A tuple that is going to be looked up in the table.                     *)
LEMMA VisitProbes ==
    ASSUME RunInv, OutInv, Roomy, Delivering, NEW w \in Warps, Visiting(w), Emission(w),
           mode.out = "dedup"
    PROVE  Delivering'
<1>1. /\ warp'[w].pc = "probe" /\ warp'[w].count = warp[w].count /\ warp'[w].n = 0
      /\ warp'[w].buf = <<Tuple(w)>> /\ rows' = rows /\ pass # "done"
  BY DEF Emission, VisitAs, Visiting
<1>2. \A v \in Warps : v = w \/ warp'[v] = warp[v]
  BY DEF Visiting, Alone, Others
<1>3. warp[w].buf = <<>> /\ warp[w].pc = "run"
  BY <1>1 DEF Delivering, Buffering, Visiting
<1>4. Taken' = Taken /\ Tabled' = Tabled
  BY DEF Visiting, Taken
<1>5. Counts' = Counts
  BY <1>1, <1>2 DEF Counts
<1>6. Owing' = Owing
  <2>1. Len(<<>>) = 0
    OBVIOUS
  <2>2. Owing'[w] = 0 /\ Owing[w] = 0
    BY <1>1, <1>3, <2>1 DEF Owing
  <2>3. \A v \in Warps : Owing'[v] = Owing[v]
    <3>1. \A v \in Warps : v # w => Owing'[v] = Owing[v]
      BY <1>2 DEF Owing
    <3> QED
      BY <2>2, <3>1
  <2> QED
    BY <2>3, Zenon DEF Owing
<1>7. Balanced'
  <2>1. SumOf(Counts, Warps)' = SumOf(Counts, Warps) /\ SumOf(Owing, Warps)' = SumOf(Owing, Warps)
    BY <1>5, <1>6 DEF SumOf
  <2>2. mode.work # "fanout"
    BY OutModes DEF RunInv, WorkInv, WorkTyped
  <2> QED
    BY <1>4, <2>1, <2>2 DEF Delivering, Balanced, Blocks, Dropped, Visiting
<1>8. Buffering'
  BY <1>1, <1>2 DEF Delivering, Buffering, Visiting
<1>9. Aims(w)' = {}
  BY <1>1 DEF Aims, Visiting
<1>10. \A q : Aimed(q)' => Aimed(q)
  BY <1>9 DEF Aimed, Visiting
<1>11. \A q : Claimed(q)' => Claimed(q)
  BY <1>10, ClaimedIs DEF Visiting
<1>12. Inside'
  BY <1>1, <1>10 DEF Delivering, Inside, Room, Visiting
<1>13. NoneLost'
  <2> SUFFICES ASSUME pass = "write", ~Dropped, NEW x \in Taken
               PROVE  Settled(x)' \/ Carried(x)'
    BY <1>4 DEF NoneLost, Dropped, Visiting
  <2>1. Settled(x) \/ Carried(x)
    BY DEF Delivering, NoneLost
  <2>2. CASE Settled(x)
    BY <1>1, <1>11, <2>2, SettledKept DEF Visiting
  <2>3. CASE Carried(x)
    <3>1. PICK v \in Warps : warp[v].pc # "probe" /\ \E i \in DOMAIN warp[v].buf : warp[v].buf[i] = x
      BY <2>3 DEF Carried
    <3>2. v # w
      <4>1. DOMAIN <<>> = {}
        OBVIOUS
      <4> QED
        BY <1>3, <3>1, <4>1
    <3>3. warp'[v] = warp[v]
      BY <1>2, <3>2
    <3> QED
      BY <3>1, <3>3 DEF Carried
  <2> QED
    BY <2>1, <2>2, <2>3
<1>14. OldKept'
  BY <1>1 DEF Delivering, OldKept, Visiting
<1>15. Entered'
  <2>0. PICK t, E, T : t = Tuple(w) /\ E = Emitted' /\ T = Tabled'
    OBVIOUS
  <2>1. /\ table' = table /\ mode' = mode /\ pass' = pass /\ T = Tabled /\ E = Emitted \cup {t}
    BY <2>0 DEF Visiting
  <2>2. /\ DOMAIN table = 0 .. TableSize - 1 /\ Tabled \subseteq Emitted
        /\ \A s, r \in DOMAIN table : table[s] = table[r] /\ table[s] # Junk => s = r
        /\ \A x \in Tabled : \E n \in 0 .. ProbeLimit - 1 : table[Probed(x, n)] = x /\ Behind(table, x, n)
        /\ \A v \in Warps : warp[v].pc = "probe" =>
              \E x \in Emitted : /\ warp[v].buf = <<x>> /\ Behind(table, x, warp[v].n)
                                 /\ warp[v].n < ProbeLimit
        /\ \A x \in Emitted : x \in Tabled \/ \E v \in Warps : warp[v].pc = "probe" /\ warp[v].buf = <<x>>
    BY <1>1 DEF Delivering, Entered
  <2>3. 0 < ProbeLimit
    <3>1. PICK X : X = Expected
      OBVIOUS
    <3>2. t \in X /\ IsFiniteSet(X) /\ Cardinality(X) \in Nat /\ Cardinality(X) <= ProbeLimit
          /\ ProbeLimit \in Nat
      BY <1>1, <2>0, <3>1, ExpectedIs DEF Visiting, Roomy
    <3>3. Cardinality(X) # 0
      BY <3>2, FS_EmptySet
    <3> QED
      BY <3>2, <3>3
  <2>4. \A v \in Warps : warp'[v].pc = "probe" =>
              \E x \in E : /\ warp'[v].buf = <<x>> /\ Behind(table, x, warp'[v].n)
                           /\ warp'[v].n < ProbeLimit
    <3>1. Behind(table, t, 0)
      <4>1. 0 .. 0 - 1 = {}
        OBVIOUS
      <4> QED
        BY <4>1 DEF Behind
    <3>2. t \in E /\ warp'[w].buf = <<t>> /\ Behind(table, t, warp'[w].n) /\ warp'[w].n < ProbeLimit
      BY <1>1, <2>0, <2>1, <2>3, <3>1
    <3> QED
      BY <1>2, <2>1, <2>2, <3>2
  <2>5. \A x \in E : x \in T \/ \E v \in Warps : warp'[v].pc = "probe" /\ warp'[v].buf = <<x>>
    <3>1. warp'[w].pc = "probe" /\ warp'[w].buf = <<t>>
      BY <1>1, <2>0
    <3>2. \A v \in Warps : warp[v].pc = "probe" => warp'[v] = warp[v]
      BY <1>2, <1>3
    <3> QED
      BY <2>1, <2>2, <3>1, <3>2
  <2> QED
    BY <2>0, <2>1, <2>2, <2>4, <2>5 DEF Entered, Probed
<1> QED
  BY <1>7, <1>8, <1>12, <1>13, <1>14, <1>15 DEF Delivering

LEMMA VisitKeeps ==
    ASSUME RunInv, OutInv, Aligned, Roomy, Delivering, NEW w \in Warps, Visit(w)
    PROVE  Delivering'
<1>1. /\ RunTyped /\ WarpsTyped /\ WarpTyped(warp[w]) /\ OutTyped /\ warp[w].at \in Nat
  BY DEF RunInv, WorkInv, WorkTyped, OutInv, OutTyped, WarpsTyped
<1>2. VisitDone(w)
  BY <1>1, VisitEffect
<1>3. Visiting(w) /\ Emission(w)
  BY <1>2, VisitingDoes DEF VisitDone
<1>4. /\ warp[w].b < warp[w].e /\ warp'[w].b = NextRow(w) /\ warp'[w].e = warp[w].e
      /\ warp[w].b \in Nat /\ warp[w].e \in Nat /\ warp[w].count \in Nat
      /\ warp[w].pc = "run" /\ pass \in {"count", "write"}
      /\ UNCHANGED <<column, mode, pass, base>>
  BY <1>1, <1>2, <1>3 DEF VisitDone, InHand, Visiting, WarpTyped
<1>5. CASE mode.out = "dedup"
  BY <1>3, <1>5, VisitProbes
<1>6. CASE mode.out # "dedup" /\ pass = "count"
  BY <1>3, <1>6, VisitCounts
<1>7. CASE mode.out = "counted" /\ pass = "write"
  <2>0. PICK at, c : at = base[w] + warp[w].count /\ c = base[w] + Cardinality(Class(w))
    OBVIOUS
  <2>1. /\ warp'[w].pc = "run" /\ warp'[w].count = warp[w].count + 1 /\ warp'[w].buf = warp[w].buf
        /\ rows' = Stored(at, <<Tuple(w)>>)
    BY <1>3, <1>7, <2>0 DEF Emission, VisitAs
  <2>2. /\ base[w] \in Nat /\ Cardinality(Class(w)) \in Nat
        /\ warp[w].count + 1 <= Cardinality(Class(w))
    BY <1>1, <1>2, <1>7, ClassFinite, PassedOne DEF OutTyped
  <2>3. at \in Nat /\ c \in Nat /\ at + 1 <= c
    BY <1>4, <2>0, <2>2
  <2>4. /\ base[w] + Cardinality(Class(w)) - 1 = c - 1
        /\ base[w] + (warp[w].count + 1) = at + 1
    BY <1>4, <2>0, <2>2
  <2>5. Aims(w) = at .. c - 1
    BY <1>7, <2>0, <2>4 DEF Aims
  <2>6. Aims(w)' = base[w] + (warp[w].count + 1) .. base[w] + Cardinality(Class(w)) - 1
    BY <1>4, <1>7, <2>1 DEF Aims, Class
  <2>7. Aims(w)' = at + 1 .. c - 1
    BY <2>4, <2>6
  <2>8. PICK A, A1 : A = Aims(w) /\ A1 = Aims(w)'
    OBVIOUS
  <2>9. at \in A /\ at \notin A1 /\ A1 \subseteq A
    BY <2>3, <2>5, <2>7, <2>8
  <2> QED
    BY <1>3, <1>7, <2>1, <2>3, <2>8, <2>9, VisitPlaces
<1>8. CASE mode.out = "preassigned" /\ pass = "write"
  <2>1. /\ warp'[w].pc = "run" /\ warp'[w].at = warp[w].at + 1 /\ warp'[w].buf = warp[w].buf
        /\ rows' = Stored(warp[w].at, <<Tuple(w)>>)
    BY <1>3, <1>8 DEF Emission, VisitAs
  <2>2. warp'[w].b = warp[w].b + 1
    BY <1>1, <1>4, <1>8, OutModes DEF NextRow, Static
  <2>3. PICK at, b, e : at = warp[w].at /\ b = warp[w].b /\ e = warp[w].e
    OBVIOUS
  <2>4. at \in Nat /\ b \in Nat /\ e \in Nat /\ b < e
    BY <1>1, <1>4, <2>3
  <2>5. Aims(w) = at .. at + (e - b) - 1
    BY <1>4, <1>8, <2>3 DEF Aims
  <2>6. Aims(w)' = at + 1 .. at + 1 + (e - (b + 1)) - 1
    BY <1>4, <1>8, <2>1, <2>2, <2>3 DEF Aims
  <2>7. PICK A, A1 : A = Aims(w) /\ A1 = Aims(w)'
    OBVIOUS
  <2>8. at \in A /\ at \notin A1 /\ A1 \subseteq A
    BY <2>4, <2>5, <2>6, <2>7
  <2> QED
    BY <1>3, <1>8, <2>1, <2>3, <2>4, <2>7, <2>8, VisitPlaces
<1>9. CASE mode.out \in {"chunked", "coalesced", "speculative"} /\ pass = "write"
  <2>1. CASE Dropped
    BY <1>3, <1>9, <2>1, VisitDrops DEF Dropped
  <2>2. CASE ~Dropped
    BY <1>3, <1>9, <2>2, VisitBuffers
  <2> QED
    BY <2>1, <2>2
<1> QED
  BY <1>1, <1>4, <1>5, <1>6, <1>7, <1>8, <1>9, OutModes

(* The claim of a row's product.                                           *)
LEMMA ExploreKeeps ==
    ASSUME RunInv, OutInv, Delivering, NEW w \in Warps, Explore(w)
    PROVE  Delivering'
<1>1. RunTyped /\ WarpsTyped /\ Unbuffered /\ total \in Nat
  BY DEF RunInv, WorkInv, WorkTyped, OutInv, OutTyped
<1>2. ExploreDone(w)
  BY <1>1, ExploreEffect
<1>3. /\ mode.work = "fanout" /\ mode.out = "preassigned" /\ pass = "count"
      /\ warp[w].pc = "run" /\ warp[w].b < warp[w].e /\ pass # "done"
      /\ total' = total + FanDegree /\ visited' = visited \cup {warp[w].b}
      /\ UNCHANGED <<column, rows, oldSize, writePos, mode, pass>>
  BY <1>1, <1>2, OutModes DEF ExploreDone, InHand, At, outputs, sources, host
<1>4. Alone(w) /\ warp'[w].pc = "donate" /\ warp'[w].buf = warp[w].buf
  BY <1>2 DEF ExploreDone, Turns, IsWarp
<1>5. \A v \in Warps : v = w \/ warp'[v] = warp[v]
  BY <1>4 DEF Alone, Others
<1>6. PICK V, b : V = visited /\ b = warp[w].b
  OBVIOUS
<1>7. b \notin V /\ IsFiniteSet(V) /\ visited' = V \cup {b}
  BY <1>3, <1>6, InColumn, VisitedInside
<1>8. Cardinality(visited') = Cardinality(V) + 1 /\ Cardinality(V) \in Nat
  BY <1>7, FS_AddElement, FS_CardinalityType
<1>9. PICK n : n = Cardinality(V)
  OBVIOUS
<1>10. total = FanDegree * n /\ n \in Nat
  BY <1>3, <1>6, <1>8, <1>9 DEF Delivering, Balanced
<1>11. FanDegree \in Nat
  BY Sizes
<1>12. FanDegree * (n + 1) = FanDegree * n + FanDegree
  BY <1>10, <1>11
<1>13. total' = FanDegree * Cardinality(visited')
  BY <1>3, <1>8, <1>9, <1>10, <1>12
<1>14. Balanced'
  BY <1>3, <1>13 DEF Balanced, Blocks
<1>15. Buffering'
  BY <1>1, <1>3, <1>4, <1>5 DEF Delivering, Buffering, Unbuffered
<1>16. Inside' /\ NoneLost' /\ Entered'
  BY <1>3 DEF Inside, NoneLost, Entered
<1>17. OldKept'
  BY <1>3 DEF Delivering, OldKept
<1> QED
  BY <1>14, <1>15, <1>16, <1>17 DEF Delivering

(* A warp that looks at the next slot for its tuple.                       *)
Probing(w, t, n) ==
    /\ mode.out = "dedup" /\ pass \in {"count", "write"} /\ warp[w].pc = "probe"
    /\ warp[w].buf = <<t>> /\ warp[w].n = n /\ n \in 0 .. ProbeLimit - 1
    /\ ProbeLimit \in Nat /\ TableSize \in Nat /\ ProbeLimit <= TableSize
    /\ DOMAIN table = 0 .. TableSize - 1
    /\ t \in Emitted /\ Behind(table, t, n)
    /\ \A x \in Emitted : x # Junk /\ x \in Expected /\ Slot(x) \in Nat
                          /\ \A m \in Nat : Probed(x, m) \in 0 .. TableSize - 1
    /\ Tabled \subseteq Emitted

LEMMA ProbingIs ==
    ASSUME RunInv, OutInv, Roomy, Delivering, NEW w \in Warps, warp[w].pc = "probe", pass # "done"
    PROVE  \E t, n : Probing(w, t, n)
<1>1. RunTyped /\ mode.out = "dedup" /\ warp[w].n \in Nat /\ mode.work # "fanout"
  BY OutModes DEF RunInv, WorkInv, WorkTyped, WarpsTyped, WarpTyped, Delivering, Buffering
<1>2. /\ DOMAIN table = 0 .. TableSize - 1 /\ Tabled \subseteq Emitted
      /\ \E t \in Emitted : /\ warp[w].buf = <<t>> /\ Behind(table, t, warp[w].n)
                            /\ warp[w].n < ProbeLimit
  BY <1>1 DEF Delivering, Entered
<1>3. PICK t \in Emitted : /\ warp[w].buf = <<t>> /\ Behind(table, t, warp[w].n)
                           /\ warp[w].n < ProbeLimit
  BY <1>2
<1>4. /\ ProbeLimit \in Nat /\ TableSize \in Nat /\ ProbeLimit <= TableSize
      /\ \A x \in Expected : Slot(x) \in Nat /\ x # Junk
  BY <1>1 DEF Roomy
<1>5. Emitted \subseteq Expected
  BY <1>1, ExpectedIs
<1>6. warp[w].n \in 0 .. ProbeLimit - 1 /\ TableSize \in Nat \ {0}
  BY <1>1, <1>3, <1>4
<1>7. ASSUME NEW x \in Emitted, NEW m \in Nat
      PROVE  Probed(x, m) \in 0 .. TableSize - 1
  <2>1. Slot(x) \in Nat
    BY <1>4, <1>5
  <2>2. Slot(x) + m \in Nat
    BY <2>1
  <2> QED
    BY <1>6, <2>2, Remainder DEF Probed
<1> QED
  BY <1>1, <1>2, <1>3, <1>4, <1>5, <1>6, <1>7 DEF Probing, RunTyped

(* There is always room: every slot that has been looked at holds another  *)
(* tuple, and there are fewer others than slots that may be looked at.     *)
LEMMA NeverExceeded ==
    ASSUME RunInv, Roomy, Entered, NEW w \in Warps, NEW t, NEW n, Probing(w, t, n), Exceeded(n)
    PROVE  Won(t, n) \/ Lost(t, n)
<1> SUFFICES ASSUME ~Won(t, n), ~Lost(t, n)
             PROVE  FALSE
  OBVIOUS
<1>1. PICK E : E = Expected \ {t}
  OBVIOUS
<1>2. /\ ProbeLimit \in Nat /\ TableSize \in Nat /\ ProbeLimit <= TableSize /\ n \in Nat
      /\ n + 1 = ProbeLimit /\ t \in Emitted /\ Slot(t) \in Nat /\ t \in Expected
  BY DEF Probing, Exceeded
<1>3. \A m \in 0 .. n : table[Probed(t, m)] \notin {t, Junk}
  <2>1. table[Probed(t, n)] \notin {t, Junk}
    BY DEF Won, Lost
  <2>2. \A m \in 0 .. n - 1 : table[Probed(t, m)] \notin {t, Junk}
    BY DEF Probing, Behind
  <2>3. \A m \in 0 .. n : m = n \/ m \in 0 .. n - 1
    BY <1>2
  <2> QED
    BY <2>1, <2>2, <2>3
<1>4. ASSUME NEW m \in 0 .. n
      PROVE  table[Probed(t, m)] \in E /\ Probed(t, m) \in DOMAIN table
  <2>1. m \in Nat
    OBVIOUS
  <2>2. Probed(t, m) \in DOMAIN table
    BY <1>2, <2>1 DEF Probing
  <2>3. table[Probed(t, m)] \in Tabled
    BY <1>3, <2>2 DEF Tabled
  <2> QED
    BY <1>1, <1>3, <2>2, <2>3 DEF Probing
<1>5. ASSUME NEW a \in 0 .. n, NEW b \in 0 .. n, Probed(t, a) = Probed(t, b)
      PROVE  a = b
  <2>1. PICK s : s = Slot(t)
    OBVIOUS
  <2>2. /\ s \in Nat /\ a \in Nat /\ b \in Nat /\ s + a \in Nat /\ s + b \in Nat
        /\ TableSize \in Nat \ {0} /\ (s + a) % TableSize = (s + b) % TableSize
    BY <1>2, <1>5, <2>1 DEF Probed
  <2>3. ~(s + a < s + b)
    <3> SUFFICES ASSUME s + a < s + b
                 PROVE  FALSE
      OBVIOUS
    <3>1. s + b < s + a + TableSize
      BY <1>2, <2>2
    <3> QED
      BY <2>2, <3>1, StrideGap
  <2>4. ~(s + b < s + a)
    <3> SUFFICES ASSUME s + b < s + a
                 PROVE  FALSE
      OBVIOUS
    <3>1. s + a < s + b + TableSize
      BY <1>2, <2>2
    <3> QED
      BY <2>2, <3>1, StrideGap
  <2> QED
    BY <2>2, <2>3, <2>4
<1> DEFINE f == [m \in 0 .. n |-> table[Probed(t, m)]]
<1>6. f \in [0 .. n -> E] /\ \A a, b \in 0 .. n : f[a] = f[b] => a = b
  <2>1. f \in [0 .. n -> E]
    BY <1>4
  <2>2. ASSUME NEW a \in 0 .. n, NEW b \in 0 .. n, f[a] = f[b]
        PROVE  a = b
    <3>1. table[Probed(t, a)] = table[Probed(t, b)] /\ table[Probed(t, a)] # Junk
      BY <1>3, <2>2
    <3>2. Probed(t, a) = Probed(t, b)
      BY <1>4, <3>1 DEF Entered, Probing
    <3> QED
      BY <1>5, <3>2
  <2> QED
    BY <2>1, <2>2
<1> HIDE DEF f
<1>7. f \in Injection(0 .. n, E)
  BY <1>6 DEF Injection, IsInjective
<1>8. PICK X : X = Expected
  OBVIOUS
<1>9. /\ IsFiniteSet(X) /\ Cardinality(X) \in Nat /\ Cardinality(X) <= ProbeLimit /\ t \in X
      /\ E = X \ {t}
  <2>1. IsFiniteSet(Expected) /\ Cardinality(Expected) \in Nat
    BY ExpectedIs DEF Probing
  <2> QED
    BY <1>1, <1>2, <1>8, <2>1 DEF Roomy, Probing
<1>10. IsFiniteSet(E) /\ Cardinality(E) = Cardinality(X) - 1
  BY <1>9, FS_RemoveElement
<1>11. Cardinality(0 .. n) <= Cardinality(E)
  BY <1>7, <1>10, FS_Injection
<1>12. Cardinality(0 .. n) = n + 1
  BY <1>2, FS_Interval
<1> QED
  BY <1>2, <1>9, <1>10, <1>11, <1>12

(* The tuple of a warp that finds an empty slot is not in the table.       *)
LEMMA EntersNew ==
    ASSUME Entered, NEW w \in Warps, NEW t, NEW n, Probing(w, t, n), Won(t, n)
    PROVE  t \notin Tabled
<1> SUFFICES ASSUME t \in Tabled
             PROVE  FALSE
  OBVIOUS
<1>1. PICK k \in 0 .. ProbeLimit - 1 : table[Probed(t, k)] = t /\ Behind(table, t, k)
  BY DEF Entered, Probing
<1>2. t # Junk /\ table[Probed(t, n)] = Junk /\ n \in Nat /\ k \in Nat
  BY DEF Probing, Won
<1>3. \A m \in 0 .. n - 1 : table[Probed(t, m)] \notin {t, Junk}
  BY DEF Probing, Behind
<1>4. \A m \in 0 .. k - 1 : table[Probed(t, m)] \notin {t, Junk}
  BY <1>1 DEF Behind
<1>5. CASE k < n
  <2>1. k \in 0 .. n - 1
    BY <1>2, <1>5
  <2> QED
    BY <1>1, <1>3, <2>1
<1>6. CASE n < k
  <2>1. n \in 0 .. k - 1
    BY <1>2, <1>6
  <2> QED
    BY <1>2, <1>4, <2>1
<1>7. CASE k = n
  BY <1>1, <1>2, <1>7
<1> QED
  BY <1>2, <1>5, <1>6, <1>7

(* What is found on the way to a tuple stays when an empty slot is filled. *)
LEMMA BehindKept ==
    ASSUME NEW h, NEW P \in DOMAIN h, h[P] = Junk, NEW y, NEW x, NEW n,
           \A m \in 0 .. n - 1 : Probed(x, m) \in DOMAIN h, Behind(h, x, n)
    PROVE  Behind([h EXCEPT ![P] = y], x, n)
<1> DEFINE g == [h EXCEPT ![P] = y]
<1>1. ASSUME NEW m \in 0 .. n - 1
      PROVE  g[Probed(x, m)] \notin {x, Junk}
  <2>1. h[Probed(x, m)] \notin {x, Junk} /\ Probed(x, m) \in DOMAIN h
    BY DEF Behind
  <2>2. Probed(x, m) # P
    BY <2>1
  <2> QED
    BY <2>1, <2>2
<1> QED
  BY <1>1 DEF Behind

(* What a probe comes to: the tuple is there, another one is, or it enters.*)
Meets(w, t, n) ==
    /\ table' = table /\ warp'[w].count = warp[w].count
    /\ \/ /\ table[Probed(t, n)] = t /\ warp'[w].pc = "run" /\ warp'[w].buf = <<>>
       \/ /\ table[Probed(t, n)] \notin {t, Junk} /\ n + 1 < ProbeLimit
          /\ warp'[w].pc = "probe" /\ warp'[w].buf = <<t>> /\ warp'[w].n = n + 1
Enters(w, t, n) ==
    /\ table[Probed(t, n)] = Junk /\ table' = [table EXCEPT ![Probed(t, n)] = t]
    /\ \/ /\ pass = "count" /\ warp'[w].pc = "run" /\ warp'[w].buf = <<>>
          /\ warp'[w].count = warp[w].count + 1
       \/ /\ pass = "write" /\ warp'[w].pc = "flush" /\ warp'[w].buf = <<t>>
          /\ warp'[w].count = warp[w].count
ProbingOn(w) ==
    /\ Alone(w) /\ OutFrame
    /\ UNCHANGED <<column, queue, rows, oldSize, writePos, capacity, overflow, mode, pass, base,
                   total, visited>>

LEMMA ProbeComesTo ==
    ASSUME RunInv, OutInv, Roomy, Delivering, NEW w \in Warps, Probe(w)
    PROVE  /\ ProbingOn(w)
           /\ \E t, n : Probing(w, t, n) /\ (Meets(w, t, n) \/ Enters(w, t, n))
<1>1. WarpsTyped /\ RunTyped
  BY DEF RunInv, WorkInv, WorkTyped
<1>2. ProbeDone(w)
  BY <1>1, ProbeEffect
<1>3. warp[w].pc = "probe" /\ pass # "done"
  BY <1>2 DEF ProbeDone, At
<1>4. PICK t, n : Probing(w, t, n)
  BY <1>3, ProbingIs
<1>5. /\ warp[w].buf[1] = t /\ warp[w].n = n /\ t # Junk /\ n \in Nat /\ ProbeLimit \in Nat
      /\ Leads(w) /\ warp[w].buf = <<t>>
  BY <1>4 DEF Probing, Roomy
<1>6. /\ Insert(t, n)
      /\ UNCHANGED <<column, queue, rows, oldSize, writePos, capacity, overflow, mode, pass, base,
                     total, visited>>
  BY <1>2, <1>5 DEF ProbeDone, sources, host
<1>7. ~Lost(t, n) /\ Exceeded(n) => Won(t, n)
  BY <1>4, NeverExceeded DEF Delivering
<1>8. Alone(w)
  BY <1>2 DEF ProbeDone, Turns
<1>9. \/ /\ Lost(t, n) /\ warp'[w].pc = "run" /\ warp'[w].buf = <<>> /\ warp'[w].count = warp[w].count
      \/ /\ ~Lost(t, n) /\ ~Won(t, n) /\ ~Exceeded(n)
         /\ warp'[w].pc = "probe" /\ warp'[w].buf = <<t>> /\ warp'[w].n = n + 1
         /\ warp'[w].count = warp[w].count
      \/ /\ ~Lost(t, n) /\ Won(t, n) /\ pass = "count"
         /\ warp'[w].pc = "run" /\ warp'[w].buf = <<>> /\ warp'[w].count = warp[w].count + 1
      \/ /\ ~Lost(t, n) /\ Won(t, n) /\ pass # "count"
         /\ warp'[w].pc = "flush" /\ warp'[w].buf = <<t>> /\ warp'[w].count = warp[w].count
  BY <1>2, <1>5, <1>7 DEF ProbeDone, Turns, IsWarp
<1>10. pass \in {"count", "write"}
  BY <1>4 DEF Probing
<1>11. Meets(w, t, n) \/ Enters(w, t, n)
  BY <1>5, <1>6, <1>9, <1>10 DEF Meets, Enters, Insert, Lost, Won, Exceeded
<1> QED
  BY <1>4, <1>6, <1>8, <1>11 DEF ProbingOn, OutFrame

(* Nothing is claimed by a warp that probes, or that has just probed.      *)
LEMMA ProbeClaims ==
    ASSUME NEW w \in Warps, ProbingOn(w), mode.out = "dedup", warp'[w].pc # "store"
    PROVE  \A q : (Aimed(q)' => Aimed(q)) /\ (Claimed(q)' => Claimed(q))
<1>1. /\ \A v \in Warps : v = w \/ Aims(v)' = Aims(v)
      /\ \A s \in Slots : Booked(s)' = Booked(s)
      /\ Free' = Free
  BY OthersAims, BookedKept, FreeKept DEF ProbingOn, Alone, Others
<1>2. Aims(w)' = {}
  BY DEF Aims, ProbingOn
<1>3. \A q : Aimed(q)' => Aimed(q)
  BY <1>1, <1>2 DEF Aimed
<1> QED
  BY <1>1, <1>3, ClaimedIs

(* The tuple is in the table already, or the slot is another one's.        *)
LEMMA MeetsKeeps ==
    ASSUME RunInv, OutInv, Delivering, NEW w \in Warps, ProbingOn(w), NEW t, NEW n,
           Probing(w, t, n), Meets(w, t, n)
    PROVE  Delivering'
<1>1. /\ mode.out = "dedup" /\ pass # "done" /\ warp[w].pc = "probe" /\ table' = table
      /\ warp[w].buf = <<t>> /\ warp[w].n = n /\ n \in Nat /\ t \in Emitted /\ t # Junk
      /\ warp'[w].pc \in {"run", "probe"} /\ warp'[w].count = warp[w].count
      /\ Behind(table, t, n) /\ Probed(t, n) \in DOMAIN table /\ ProbeLimit \in Nat
      /\ UNCHANGED <<column, queue, rows, oldSize, writePos, capacity, overflow, mode, pass, base,
                     total, visited>>
  <2>1. /\ n \in Nat /\ ProbeLimit \in Nat /\ t \in Emitted /\ t # Junk
        /\ Probed(t, n) \in DOMAIN table
    BY DEF Probing
  <2>2. /\ mode.out = "dedup" /\ pass # "done" /\ warp[w].pc = "probe"
        /\ warp[w].buf = <<t>> /\ warp[w].n = n /\ Behind(table, t, n)
    BY DEF Probing
  <2>3. table' = table /\ warp'[w].pc \in {"run", "probe"} /\ warp'[w].count = warp[w].count
    BY DEF Meets
  <2> QED
    BY <2>1, <2>2, <2>3 DEF ProbingOn
<1>2. \A v \in Warps : v = w \/ warp'[v] = warp[v]
  BY DEF ProbingOn, Alone, Others
<1>3. Taken' = Taken /\ Tabled' = Tabled /\ Emitted' = Emitted /\ Expected' = Expected
  BY <1>1, TuplesKept
<1>4. Counts' = Counts
  BY <1>1, <1>2 DEF Counts
<1>5. Owing' = Owing
  <2>1. Len(<<>>) = 0
    OBVIOUS
  <2>2. Owing'[w] = 0 /\ Owing[w] = 0
    BY <1>1, <2>1 DEF Owing, Meets
  <2>3. \A v \in Warps : Owing'[v] = Owing[v]
    <3>1. \A v \in Warps : v # w => Owing'[v] = Owing[v]
      BY <1>2 DEF Owing
    <3> QED
      BY <2>2, <3>1
  <2> QED
    BY <2>3, Zenon DEF Owing
<1>6. Balanced'
  <2>1. SumOf(Counts, Warps)' = SumOf(Counts, Warps) /\ SumOf(Owing, Warps)' = SumOf(Owing, Warps)
    BY <1>4, <1>5 DEF SumOf
  <2> QED
    BY <1>1, <1>3, <2>1 DEF Delivering, Balanced, Blocks, Dropped
<1>7. Buffering'
  <2>1. warp'[w].pc = "run" => warp'[w].buf = <<>>
    BY DEF Meets
  <2> QED
    BY <1>1, <1>2, <2>1 DEF Delivering, Buffering
<1>8. \A q : (Aimed(q)' => Aimed(q)) /\ (Claimed(q)' => Claimed(q))
  BY <1>1, ProbeClaims
<1>9. Inside'
  BY <1>1, <1>3, <1>8 DEF Delivering, Inside, Room
<1>10. NoneLost'
  <2> SUFFICES ASSUME pass = "write", ~Dropped, NEW x \in Taken
               PROVE  Settled(x)' \/ Carried(x)'
    BY <1>1, <1>3 DEF NoneLost, Dropped
  <2>1. Settled(x) \/ Carried(x)
    BY DEF Delivering, NoneLost
  <2> QED
    BY <1>1, <1>8, <2>1, SettledKept, CarriedKept DEF ProbingOn
<1>11. OldKept'
  BY <1>1 DEF Delivering, OldKept
<1>12. Entered'
  <2>1. /\ DOMAIN table = 0 .. TableSize - 1 /\ Tabled \subseteq Emitted
        /\ \A s, r \in DOMAIN table : table[s] = table[r] /\ table[s] # Junk => s = r
        /\ \A x \in Tabled : \E m \in 0 .. ProbeLimit - 1 : table[Probed(x, m)] = x /\ Behind(table, x, m)
        /\ \A v \in Warps : warp[v].pc = "probe" =>
              \E x \in Emitted : /\ warp[v].buf = <<x>> /\ Behind(table, x, warp[v].n)
                                 /\ warp[v].n < ProbeLimit
        /\ \A x \in Emitted : x \in Tabled \/ \E v \in Warps : warp[v].pc = "probe" /\ warp[v].buf = <<x>>
    BY <1>1 DEF Delivering, Entered
  <2>2. \A v \in Warps : warp'[v].pc = "probe" =>
              \E x \in Emitted : /\ warp'[v].buf = <<x>> /\ Behind(table, x, warp'[v].n)
                                 /\ warp'[v].n < ProbeLimit
    <3>1. ASSUME warp'[w].pc = "probe"
          PROVE  /\ warp'[w].buf = <<t>> /\ Behind(table, t, warp'[w].n) /\ warp'[w].n < ProbeLimit
      <4>1. /\ warp'[w].buf = <<t>> /\ warp'[w].n = n + 1 /\ n + 1 < ProbeLimit
            /\ table[Probed(t, n)] \notin {t, Junk}
        BY <3>1 DEF Meets
      <4>2. \A m \in 0 .. (n + 1) - 1 : m \in 0 .. n - 1 \/ m = n
        BY <1>1
      <4>3. Behind(table, t, n + 1)
        BY <1>1, <4>1, <4>2 DEF Behind
      <4> QED
        BY <4>1, <4>3
    <3> QED
      BY <1>1, <1>2, <2>1, <3>1
  <2>3. \A x \in Emitted : x \in Tabled \/ \E v \in Warps : warp'[v].pc = "probe" /\ warp'[v].buf = <<x>>
    <3> SUFFICES ASSUME NEW x \in Emitted, x \notin Tabled
                 PROVE  \E v \in Warps : warp'[v].pc = "probe" /\ warp'[v].buf = <<x>>
      OBVIOUS
    <3>1. PICK v \in Warps : warp[v].pc = "probe" /\ warp[v].buf = <<x>>
      BY <2>1
    <3>2. CASE v # w
      BY <1>2, <3>1, <3>2
    <3>3. CASE v = w
      <4>1. x = t
        <5>1. warp[w].buf[1] = t /\ warp[w].buf[1] = x
          BY <1>1, <3>1, <3>3
        <5> QED
          BY <5>1
      <4>2. table[Probed(t, n)] # t
        BY <1>1, <4>1 DEF Tabled
      <4> QED
        BY <4>1, <4>2 DEF Meets
    <3> QED
      BY <3>2, <3>3
  <2> QED
    BY <1>1, <1>3, <2>1, <2>2, <2>3 DEF Entered, Probed
<1> QED
  BY <1>6, <1>7, <1>9, <1>10, <1>11, <1>12 DEF Delivering

(* The table when a tuple enters it.                                       *)
LEMMA EntersTable ==
    ASSUME RunInv, OutInv, Delivering, NEW w \in Warps, ProbingOn(w), NEW t, NEW n,
           Probing(w, t, n), Enters(w, t, n)
    PROVE  /\ Entered' /\ t \notin Tabled /\ Tabled' = Tabled \cup {t}
           /\ Cardinality(Tabled') = Cardinality(Tabled) + 1 /\ Cardinality(Tabled) \in Nat
<1>1. /\ n \in 0 .. ProbeLimit - 1 /\ n \in Nat /\ ProbeLimit \in Nat /\ TableSize \in Nat
      /\ t \in Emitted /\ t # Junk /\ Behind(table, t, n)
      /\ DOMAIN table = 0 .. TableSize - 1 /\ Tabled \subseteq Emitted
  BY DEF Probing
<1>2. \A x \in Emitted : \A m \in Nat : Probed(x, m) \in DOMAIN table
  BY DEF Probing
<1>3. /\ mode.out = "dedup" /\ pass # "done" /\ warp[w].pc = "probe" /\ warp[w].buf = <<t>>
      /\ warp'[w].pc # "probe" /\ mode' = mode /\ pass' = pass /\ Emitted' = Emitted
  BY TuplesKept DEF Probing, Enters, ProbingOn
<1>4. \A v \in Warps : v = w \/ warp'[v] = warp[v]
  BY DEF ProbingOn, Alone, Others
<1>5. PICK P, h, g : P = Probed(t, n) /\ h = table /\ g = table'
  OBVIOUS
<1>6. P \in DOMAIN h /\ h[P] = Junk /\ g = [h EXCEPT ![P] = t]
  BY <1>1, <1>2, <1>5 DEF Enters
<1>7. t \notin Tabled
  BY <1>6, <1>5, EntersNew DEF Delivering, Won
<1>8. DOMAIN g = DOMAIN h /\ g[P] = t /\ \A s \in DOMAIN h : s = P \/ g[s] = h[s]
  BY <1>6
<1>9. Tabled' = Tabled \cup {t}
  <2>1. Tabled' = {g[s] : s \in DOMAIN g} \ {Junk} /\ Tabled = {h[s] : s \in DOMAIN h} \ {Junk}
    BY <1>5 DEF Tabled
  <2>2. \A x : x \in {g[s] : s \in DOMAIN g} /\ x # Junk => x \in {h[s] : s \in DOMAIN h} \/ x = t
    BY <1>8
  <2>3. \A x : x \in {h[s] : s \in DOMAIN h} /\ x # Junk => x \in {g[s] : s \in DOMAIN g}
    BY <1>6, <1>8
  <2>4. t \in {g[s] : s \in DOMAIN g}
    BY <1>6, <1>8
  <2> QED
    BY <1>1, <2>1, <2>2, <2>3, <2>4
<1>10. Cardinality(Tabled') = Cardinality(Tabled) + 1 /\ Cardinality(Tabled) \in Nat
  <2>1. PICK T, E : T = Tabled /\ E = Emitted
    OBVIOUS
  <2>2. T \subseteq E /\ IsFiniteSet(E) /\ t \notin T /\ Tabled' = T \cup {t}
    BY <1>1, <1>3, <1>7, <1>9, <2>1, ExpectedIs
  <2>3. IsFiniteSet(T)
    BY <2>2, FS_Subset
  <2> QED
    BY <2>1, <2>2, <2>3, FS_AddElement, FS_CardinalityType
<1>11. /\ \A s, r \in DOMAIN h : h[s] = h[r] /\ h[s] # Junk => s = r
       /\ \A x \in Tabled : \E m \in 0 .. ProbeLimit - 1 : h[Probed(x, m)] = x /\ Behind(h, x, m)
       /\ \A v \in Warps : warp[v].pc = "probe" =>
              \E x \in Emitted : /\ warp[v].buf = <<x>> /\ Behind(h, x, warp[v].n)
                                 /\ warp[v].n < ProbeLimit
       /\ \A x \in Emitted : x \in Tabled \/ \E v \in Warps : warp[v].pc = "probe" /\ warp[v].buf = <<x>>
  BY <1>3, <1>5 DEF Delivering, Entered
<1>12. ASSUME NEW x \in Emitted, NEW m \in Nat, Behind(h, x, m)
       PROVE  Behind(g, x, m)
  <2>1. \A k \in 0 .. m - 1 : Probed(x, k) \in DOMAIN h
    BY <1>2, <1>5
  <2>2. Behind([h EXCEPT ![P] = t], x, m)
    BY <1>6, <1>12, <2>1, BehindKept
  <2> QED
    BY <1>6, <2>2
<1>13. \A s, r \in DOMAIN g : g[s] = g[r] /\ g[s] # Junk => s = r
  <2> SUFFICES ASSUME NEW s \in DOMAIN g, NEW r \in DOMAIN g, g[s] = g[r], g[s] # Junk
               PROVE  s = r
    OBVIOUS
  <2>1. \A q \in DOMAIN h : h[q] # t
    BY <1>1, <1>5, <1>7 DEF Tabled
  <2> QED
    BY <1>8, <1>11, <2>1
<1>14. ASSUME NEW x \in Tabled \cup {t}
       PROVE  \E m \in 0 .. ProbeLimit - 1 : g[Probed(x, m)] = x /\ Behind(g, x, m)
  <2>1. CASE x = t
    <3>1. g[Probed(t, n)] = t
      BY <1>5, <1>8
    <3>2. Behind(g, t, n)
      BY <1>1, <1>5, <1>12
    <3> QED
      BY <1>1, <2>1, <3>1, <3>2
  <2>2. CASE x \in Tabled
    <3>1. PICK m \in 0 .. ProbeLimit - 1 : h[Probed(x, m)] = x /\ Behind(h, x, m)
      BY <1>11, <2>2
    <3>2. x \in Emitted /\ m \in Nat /\ x # Junk
      BY <1>1, <2>2 DEF Tabled
    <3>3. Behind(g, x, m)
      BY <1>12, <3>1, <3>2
    <3>4. Probed(x, m) \in DOMAIN h
      BY <1>2, <1>5, <3>2
    <3>5. Probed(x, m) # P
      BY <1>6, <3>1, <3>2
    <3>6. g[Probed(x, m)] = x
      BY <1>8, <3>1, <3>4, <3>5
    <3> QED
      BY <3>3, <3>6
  <2> QED
    BY <2>1, <2>2
<1>15. ASSUME NEW v \in Warps, warp'[v].pc = "probe"
       PROVE  \E x \in Emitted : /\ warp'[v].buf = <<x>> /\ Behind(g, x, warp'[v].n)
                                 /\ warp'[v].n < ProbeLimit
  <2>1. warp'[v] = warp[v] /\ warp[v].pc = "probe"
    BY <1>3, <1>4, <1>15
  <2>2. PICK x \in Emitted : /\ warp[v].buf = <<x>> /\ Behind(h, x, warp[v].n)
                             /\ warp[v].n < ProbeLimit
    BY <1>11, <2>1
  <2>3. warp[v].n \in Nat
    BY DEF RunInv, WorkInv, WorkTyped, WarpsTyped, WarpTyped
  <2>4. Behind(g, x, warp[v].n)
    BY <1>12, <2>2, <2>3
  <2> QED
    BY <2>1, <2>2, <2>4
<1>16. ASSUME NEW x \in Emitted
       PROVE  x \in Tabled \cup {t} \/ \E v \in Warps : warp'[v].pc = "probe" /\ warp'[v].buf = <<x>>
  <2> SUFFICES ASSUME x \notin Tabled, x # t
               PROVE  \E v \in Warps : warp'[v].pc = "probe" /\ warp'[v].buf = <<x>>
    OBVIOUS
  <2>1. PICK v \in Warps : warp[v].pc = "probe" /\ warp[v].buf = <<x>>
    BY <1>11
  <2>2. v # w
    <3>1. <<x>>[1] = x /\ <<t>>[1] = t
      OBVIOUS
    <3> QED
      BY <1>3, <2>1, <3>1
  <2> QED
    BY <1>4, <2>1, <2>2
<1>17. Entered'
  <2>1. DOMAIN g = 0 .. TableSize - 1 /\ Tabled \cup {t} \subseteq Emitted
    BY <1>1, <1>5, <1>8
  <2>2. PICK T, E : T = Tabled' /\ E = Emitted'
    OBVIOUS
  <2>3. /\ DOMAIN g = 0 .. TableSize - 1 /\ T \subseteq E
        /\ \A s, r \in DOMAIN g : g[s] = g[r] /\ g[s] # Junk => s = r
        /\ \A x \in T : \E m \in 0 .. ProbeLimit - 1 : g[Probed(x, m)] = x /\ Behind(g, x, m)
        /\ \A v \in Warps : warp'[v].pc = "probe" =>
              \E x \in E : /\ warp'[v].buf = <<x>> /\ Behind(g, x, warp'[v].n)
                           /\ warp'[v].n < ProbeLimit
        /\ \A x \in E : x \in T \/ \E v \in Warps : warp'[v].pc = "probe" /\ warp'[v].buf = <<x>>
    BY <1>3, <1>9, <1>13, <1>14, <1>15, <1>16, <2>1, <2>2
  <2> QED
    BY <1>5, <2>2, <2>3 DEF Entered, Probed
<1> QED
  BY <1>7, <1>9, <1>10, <1>17

(* The tuple enters the table, and is counted or going to be written.      *)
LEMMA EntersKeeps ==
    ASSUME RunInv, OutInv, Delivering, NEW w \in Warps, ProbingOn(w), NEW t, NEW n,
           Probing(w, t, n), Enters(w, t, n)
    PROVE  Delivering'
<1>1. /\ Entered' /\ Tabled' = Tabled \cup {t}
      /\ Cardinality(Tabled') = Cardinality(Tabled) + 1 /\ Cardinality(Tabled) \in Nat
  BY EntersTable
<1>2. /\ mode.out = "dedup" /\ pass \in {"count", "write"} /\ warp[w].pc = "probe"
      /\ warp[w].buf = <<t>>
  BY DEF Probing
<1>3. UNCHANGED <<column, queue, rows, oldSize, writePos, capacity, overflow, mode, pass, base,
                  total, visited>>
  BY DEF ProbingOn
<1>4. \A v \in Warps : v = w \/ warp'[v] = warp[v]
  BY DEF ProbingOn, Alone, Others
<1>5. /\ pass = "count" => /\ warp'[w].pc = "run" /\ warp'[w].buf = <<>>
                           /\ warp'[w].count = warp[w].count + 1
      /\ pass = "write" => /\ warp'[w].pc = "flush" /\ warp'[w].buf = <<t>>
                           /\ warp'[w].count = warp[w].count
  BY DEF Enters
<1>6. Taken = Tabled /\ Taken' = Tabled' /\ Expected' = Expected
  BY <1>2, <1>3, TuplesKept DEF Taken
<1>7. PICK c : c = Cardinality(Taken)
  OBVIOUS
<1>8. c \in Nat /\ Cardinality(Taken') = c + 1
  BY <1>1, <1>6, <1>7
<1>9. pass = "count" => SumOf(Counts, Warps)' = c + 1
  <2> SUFFICES ASSUME pass = "count"
               PROVE  SumOf(Counts, Warps)' = c + 1
    OBVIOUS
  <2>1. PICK f, g : f = Counts /\ g = Counts'
    OBVIOUS
  <2>2. \A v \in Warps : warp[v].count \in Nat
    BY DEF RunInv, WorkInv, WorkTyped, WarpsTyped, WarpTyped
  <2>3. /\ \A v \in Warps : f[v] \in Nat /\ g[v] \in Nat
        /\ \A v \in Warps : v = w \/ g[v] = f[v]
        /\ g[w] = f[w] + 1 /\ f[w] \in Nat
    BY <1>4, <1>5, <2>1, <2>2 DEF Counts
  <2>4. /\ SumOf(g, Warps) + f[w] = SumOf(f, Warps) + g[w]
        /\ SumOf(g, Warps) \in Nat /\ SumOf(f, Warps) \in Nat
    BY <2>3, SumMoves
  <2>5. SumOf(Counts, Warps)' = SumOf(g, Warps) /\ SumOf(Counts, Warps) = SumOf(f, Warps)
    BY <2>1 DEF SumOf
  <2>6. mode.work # "fanout"
    BY <1>2, OutModes DEF RunInv, WorkInv, WorkTyped
  <2>7. SumOf(f, Warps) = c
    BY <1>7, <2>5, <2>6 DEF Delivering, Balanced
  <2> QED
    BY <1>8, <2>3, <2>4, <2>5, <2>7
<1>10. pass = "write" => writePos + SumOf(Owing, Warps)' = c + 1
  <2> SUFFICES ASSUME pass = "write"
               PROVE  writePos + SumOf(Owing, Warps)' = c + 1
    OBVIOUS
  <2>1. PICK f, g : f = Owing /\ g = Owing'
    OBVIOUS
  <2>2. Owing[w] = 0 /\ Owing'[w] = 1
    <3>1. Len(<<t>>) = 1
      BY OneRow
    <3> QED
      BY <1>2, <1>5, <3>1 DEF Owing
  <2>3. \A v \in Warps : v = w \/ Owing'[v] = Owing[v]
    BY <1>4 DEF Owing
  <2>4. /\ \A v \in Warps : f[v] \in Nat /\ g[v] \in Nat
        /\ \A v \in Warps : v = w \/ g[v] = f[v]
        /\ g[w] = 1 /\ f[w] = 0
    BY <2>1, <2>2, <2>3, OwingTyped
  <2>5. /\ SumOf(g, Warps) + f[w] = SumOf(f, Warps) + g[w]
        /\ SumOf(g, Warps) \in Nat /\ SumOf(f, Warps) \in Nat
    BY <2>4, SumMoves
  <2>6. SumOf(Owing, Warps)' = SumOf(g, Warps) /\ SumOf(Owing, Warps) = SumOf(f, Warps)
    BY <2>1 DEF SumOf
  <2>7. writePos + SumOf(f, Warps) = c /\ writePos \in Nat
    BY <1>2, <1>7, <2>6 DEF Delivering, Balanced, Blocks, Dropped, OutInv, OutTyped
  <2> QED
    BY <1>8, <2>4, <2>5, <2>6, <2>7
<1>11. Balanced'
  <2>1. mode.work # "fanout"
    BY <1>2, OutModes DEF RunInv, WorkInv, WorkTyped
  <2> QED
    BY <1>3, <1>8, <1>9, <1>10, <2>1 DEF Balanced, Blocks
<1>12. Buffering'
  BY <1>2, <1>3, <1>4, <1>5 DEF Delivering, Buffering
<1>13. \A q : (Aimed(q)' => Aimed(q)) /\ (Claimed(q)' => Claimed(q))
  BY <1>2, <1>5, ProbeClaims
<1>14. Inside'
  BY <1>3, <1>6, <1>13 DEF Delivering, Inside, Room
<1>15. NoneLost'
  <2> SUFFICES ASSUME pass = "write"
               PROVE  NoneLost'
    BY <1>3 DEF NoneLost
  <2>1. ASSUME NEW x \in Taken
        PROVE  Settled(x)' \/ Carried(x)'
    <3>1. Settled(x) \/ Carried(x)
      BY <1>2, <2>1 DEF Delivering, NoneLost, Dropped
    <3> QED
      BY <1>2, <1>3, <1>13, <3>1, SettledKept, CarriedKept DEF ProbingOn
  <2>2. Carried(t)'
    <3>1. 1 \in DOMAIN <<t>> /\ <<t>>[1] = t
      OBVIOUS
    <3>2. warp'[w].pc # "probe" /\ 1 \in DOMAIN warp'[w].buf /\ warp'[w].buf[1] = t
      BY <1>5, <3>1
    <3> QED
      BY <3>2 DEF Carried
  <2>3. PICK T : T = Taken'
    OBVIOUS
  <2>4. ASSUME NEW x \in T
        PROVE  Settled(x)' \/ Carried(x)'
    BY <1>1, <1>6, <2>1, <2>2, <2>3, <2>4
  <2> QED
    BY <2>3, <2>4 DEF NoneLost
<1>16. OldKept'
  BY <1>3 DEF Delivering, OldKept
<1> QED
  BY <1>1, <1>11, <1>12, <1>14, <1>15, <1>16 DEF Delivering

LEMMA ProbeKeeps ==
    ASSUME RunInv, OutInv, Roomy, Delivering, NEW w \in Warps, Probe(w)
    PROVE  Delivering'
<1>1. PICK t, n : Probing(w, t, n) /\ (Meets(w, t, n) \/ Enters(w, t, n))
  BY ProbeComesTo
<1>2. ProbingOn(w)
  BY ProbeComesTo
<1> QED
  BY <1>1, <1>2, MeetsKeeps, EntersKeeps

LEMMA WarpKeeps ==
    ASSUME RunInv, OutInv, OutInv', Aligned, Roomy, Delivering, NEW w \in Warps, WarpStep(w)
    PROVE  Delivering'
<1>1. CASE Visit(w)
  BY <1>1, VisitKeeps
<1>2. CASE Explore(w)
  BY <1>2, ExploreKeeps
<1>3. CASE Probe(w)
  BY <1>3, ProbeKeeps
<1>4. CASE Flush(w)
  BY <1>4, FlushKeeps
<1>5. CASE Store(w)
  BY <1>5, StoreKeeps
<1>6. CASE Sharing(w)
  BY <1>6, SharingKeeps
<1> QED
  BY <1>1, <1>2, <1>3, <1>4, <1>5, <1>6, Zenon DEF WarpStep, Sharing

(* When a kernel has returned, every tuple has been taken.                 *)
LEMMA TakenAll ==
    ASSUME RunInv, Halted, Entered, Returned, pass # "done",
           ~(mode.work = "fanout" /\ pass = "count")
    PROVE  Taken = Expected
<1>1. visited = AllRows
  BY ReturnedAll
<1>2. Emitted = Expected
  BY <1>1, ExpectedIs DEF Emitted
<1>3. mode.out = "dedup" => Tabled = Emitted
  BY DEF Entered, Returned
<1> QED
  BY <1>2, <1>3 DEF Taken

(* The counting kernel has found as many matches as there are tuples.      *)
LEMMA FoundIs ==
    ASSUME RunInv, OutInv, Halted, Delivering, Returned, pass = "count"
    PROVE  /\ Found = Cardinality(Expected) /\ Cardinality(Expected) \in Nat
           /\ IsFiniteSet(Expected)
<1>1. RunTyped /\ Cardinality(Expected) \in Nat /\ IsFiniteSet(Expected)
  BY ExpectedIs DEF RunInv, WorkInv, WorkTyped
<1>2. CASE mode.work # "fanout"
  <2>1. Taken = Expected /\ SumOf(Counts, Warps) = Cardinality(Taken) /\ mode.out # "preassigned"
    BY <1>1, <1>2, TakenAll, OutModes DEF Delivering, Balanced
  <2> QED
    BY <1>1, <2>1 DEF Found
<1>3. CASE mode.work = "fanout"
  <2>1. mode.out = "preassigned" /\ total = FanDegree * Cardinality(visited) /\ visited = AllRows
    BY <1>1, <1>3, OutModes, ReturnedAll DEF Delivering, Balanced
  <2>2. PICK n : n = Len(column)
    OBVIOUS
  <2>3. n \in Nat /\ FanDegree \in Nat
    BY <1>1, <2>2, Sizes DEF RunTyped, Iterable
  <2>4. visited = 0 .. n - 1 /\ Expected = 0 .. n * FanDegree - 1
    BY <1>3, <2>1, <2>2 DEF AllRows, Expected
  <2>5. n * FanDegree \in Nat /\ n * FanDegree = FanDegree * n
    BY <2>3
  <2>6. Cardinality(0 .. n - 1) = n
    <3>1. n - 1 - 0 + 1 = n /\ n - 1 \in Int /\ 0 \in Int /\ (0 > n - 1 => n = 0)
      BY <2>3
    <3> QED
      BY <3>1, FS_Interval
  <2>7. PICK m : m = n * FanDegree
    OBVIOUS
  <2>8. Cardinality(0 .. m - 1) = m
    <3>1. m \in Nat
      BY <2>5, <2>7
    <3>2. m - 1 - 0 + 1 = m /\ m - 1 \in Int /\ 0 \in Int /\ (0 > m - 1 => m = 0)
      BY <3>1
    <3> QED
      BY <3>2, FS_Interval
  <2> QED
    BY <1>1, <2>1, <2>4, <2>5, <2>6, <2>7, <2>8 DEF Found
<1> QED
  BY <1>2, <1>3

(* As many rows as tuples, and every tuple in one: that is all of them.    *)
LEMMA AllInPlace ==
    ASSUME NEW E, IsFiniteSet(E), Cardinality(E) \in Nat, NEW old \in Nat,
           NEW c, IsSeq(c), Len(c) = old + Cardinality(E),
           \A t \in E : \E p \in DOMAIN c : p > old /\ c[p] = t
    PROVE  {c[p] : p \in old + 1 .. Len(c)} = E
<1> DEFINE P == old + 1 .. Len(c)
           I == {c[p] : p \in P}
           f == [p \in P |-> c[p]]
<1>1. DOMAIN c = 1 .. Len(c) /\ Len(c) \in Nat
  BY SeqIs
<1>2. E \subseteq I
  <2>1. \A p \in DOMAIN c : p > old => p \in P
    BY <1>1
  <2> QED
    BY <2>1
<1>3. f \in [P -> I] /\ \A t \in I : \E p \in P : f[p] = t
  OBVIOUS
<1>4. PICK n : n = Cardinality(E)
  OBVIOUS
<1>5. IsFiniteSet(P) /\ Cardinality(P) = n
  <2>1. /\ n \in Nat /\ Len(c) = old + n /\ old + 1 \in Int /\ old + n \in Int
        /\ (old + n) - (old + 1) + 1 = n /\ (old + 1 > old + n => n = 0)
    BY <1>4
  <2>2. P = old + 1 .. old + n
    BY <2>1
  <2> HIDE DEF P
  <2> QED
    BY <2>1, <2>2, FS_Interval
<1> HIDE DEF P, I, f
<1>6. f \in Surjection(P, I)
  BY <1>3 DEF Surjection
<1>7. IsFiniteSet(I) /\ Cardinality(I) <= n
  BY <1>5, <1>6, FS_Surjection
<1>8. Cardinality(E) <= Cardinality(I) /\ (Cardinality(I) = Cardinality(E) => I = E)
  BY <1>2, <1>7, FS_Subset
<1>9. Cardinality(I) \in Nat
  BY <1>7, FS_CardinalityType
<1>10. I = E
  BY <1>4, <1>7, <1>8, <1>9
<1> QED
  BY <1>10 DEF I, P

(* Nothing is taken, counted, owed or settled when a kernel starts.        *)
LEMMA StartsEmpty ==
    ASSUME warp' = Restarted, visited' = {}
    PROVE  /\ Emitted' = {}
           /\ SumOf(Counts, Warps)' = 0 /\ SumOf(Owing, Warps)' = 0
           /\ \A w \in Warps : warp'[w].pc = "start" /\ warp'[w].buf = <<>> /\ warp'[w].count = 0
<1>1. \A w \in Warps : warp'[w].pc = "start" /\ warp'[w].buf = <<>> /\ warp'[w].count = 0
  BY FreshOut
<1>2. Emitted' = {}
  BY DEF Emitted
<1>3. PICK f, g : f = Counts' /\ g = Owing'
  OBVIOUS
<1>4. \A w \in Warps : f[w] = 0 /\ g[w] = 0
  <2>1. Len(<<>>) = 0
    OBVIOUS
  <2> QED
    BY <1>1, <1>3, <2>1 DEF Counts, Owing
<1>5. SumOf(f, Warps) = 0 /\ SumOf(g, Warps) = 0
  BY <1>4, SumIsZero
<1> QED
  BY <1>1, <1>2, <1>3, <1>5 DEF SumOf

(* Rows that are resized keep the old rows.                                *)
LEMMA ResizedOld ==
    ASSUME OldKept, IsSeq(rows), oldSize \in Nat, NEW n \in Nat, n >= oldSize,
           rows' = Resized(n), UNCHANGED oldSize
    PROVE  /\ OldKept' /\ Len(rows') = n /\ DOMAIN rows' = 1 .. n /\ IsSeq(rows')
           /\ \A p \in 1 .. n : p <= Len(rows) => rows'[p] = rows[p]
<1>1. IsSeq(rows') /\ Len(rows') = n
  BY ResizedRows
<1>2. rows' = [p \in 1 .. n |-> IF p <= Len(rows) THEN rows[p] ELSE Junk]
  BY DEF Resized
<1>3. \A p \in 1 .. n : p <= Len(rows) => rows'[p] = rows[p]
  BY <1>2
<1>4. Len(rows) \in Nat
  BY SeqIs
<1>5. \A p \in 1 .. oldSize : p \in 1 .. n /\ p <= Len(rows) /\ rows[p] = 0
  BY <1>4 DEF OldKept
<1>6. OldKept'
  BY <1>1, <1>3, <1>5 DEF OldKept
<1> QED
  BY <1>1, <1>2, <1>3, <1>6

(* What the writing kernel of a counted run may write lies in the rows     *)
(* that have been added.                                                   *)
LEMMA CountedInside ==
    ASSUME RunInv, OutInv, OutInv', Halted, Delivering, EndCount, pass' = "write",
           NEW q, Aimed(q)'
    PROVE  q < Found
<1>1. /\ RunTyped /\ Apart /\ OutTyped /\ Found \in Nat /\ total \in Nat
      /\ pass = "count" /\ Returned
  BY FoundIs DEF EndCount, RunInv, WorkInv, WorkTyped, OutInv, OutTyped
<1>2. /\ base' = [w \in Warps |-> SumOf(Counts, {v \in Warps : v < w})]
      /\ queue' = IF mode.work = "fanout" THEN queue ELSE EmptyQueue
      /\ UNCHANGED <<column, mode>> /\ warp' = Restarted
  BY DEF EndCount
<1>3. \A w \in Warps : warp'[w].pc = "start" /\ warp'[w].count = 0
  BY <1>2, FreshOut
<1>4. CASE \E w \in Warps : q \in Aims(w)'
  <2>1. PICK w \in Warps : q \in Aims(w)'
    BY <1>4
  <2>2. mode.out = "counted"
    BY <1>2, <1>3, <2>1 DEF Aims
  <2>3. \A v \in Warps : Counts[v] = warp[v].count /\ Counts[v] \in Nat
    BY DEF Counts, RunInv, WorkInv, WorkTyped, WarpsTyped, WarpTyped
  <2>4. Counts[w] = Cardinality(Class(w)) /\ Class(w)' = Class(w)
    BY <1>1, <1>2, <2>2, <2>3, AllCounted DEF Class
  <2>5. /\ base'[w] + Counts[w] <= SumOf(Counts, Warps) /\ base'[w] \in Nat
        /\ SumOf(Counts, Warps) \in Nat
    <3>1. PICK f : f = Counts
      OBVIOUS
    <3>2. \A v \in Warps : f[v] \in Nat
      BY <2>3, <3>1
    <3>3. base'[w] = SumOf(f, {v \in Warps : v < w})
      BY <1>2, <3>1
    <3>4. /\ SumOf(f, {v \in Warps : v < w}) + f[w] <= SumOf(f, Warps)
          /\ SumOf(f, {v \in Warps : v < w}) \in Nat /\ SumOf(f, Warps) \in Nat
      BY <3>2, SumParts
    <3> QED
      BY <3>1, <3>3, <3>4
  <2>6. Found = SumOf(Counts, Warps)
    BY <2>2 DEF Found
  <2>7. Aims(w)' = base'[w] + 0 .. base'[w] + Counts[w] - 1
    BY <1>2, <1>3, <2>2, <2>4 DEF Aims
  <2>8. PICK b, c : b = base'[w] /\ c = Counts[w]
    OBVIOUS
  <2>9. /\ b \in Nat /\ c \in Nat /\ b + c <= Found /\ q \in b + 0 .. b + c - 1
    BY <2>1, <2>3, <2>5, <2>6, <2>7, <2>8
  <2> QED
    BY <1>1, <2>9
<1>5. CASE \E s \in Slots : q \in Booked(s)'
  <2>1. PICK s \in Slots : q \in Booked(s)'
    BY <1>5
  <2>2. mode.out = "preassigned"
    BY <1>2, <2>1 DEF Booked
  <2>3. mode.work = "fanout" /\ Booked(s)' = Booked(s)
    BY <1>1, <1>2, <2>2, OutModes DEF Booked
  <2>4. q \notin Free /\ Free = {x \in Nat : x >= total}
    BY <1>1, <2>1, <2>2, <2>3 DEF Apart, Free
  <2>5. queue.tasks[s].at \in Nat
    BY <1>1, <2>3 DEF OutTyped
  <2>6. PICK a, b : Booked(s) = a .. b /\ a = queue.tasks[s].at
    BY <2>1, <2>3 DEF Booked
  <2>7. \A m \in Nat : m .. b \subseteq Nat
    OBVIOUS
  <2>8. q \in Nat
    BY <2>1, <2>3, <2>5, <2>6, <2>7
  <2>9. q < total
    BY <1>1, <2>4, <2>8
  <2> QED
    BY <2>2, <2>9 DEF Found
<1> QED
  BY <1>4, <1>5 DEF Aimed

LEMMA EndCountKeeps ==
    ASSUME RunInv, OutInv, OutInv', Halted, Delivering, EndCount
    PROVE  Delivering' /\ Delivered'
<1>1. /\ RunTyped /\ IsSeq(rows) /\ oldSize \in Nat /\ pass = "count" /\ Returned
      /\ pass' = (IF Found = 0 THEN "done" ELSE "write")
      /\ rows' = Resized(oldSize + Found) /\ table' = NoHashes
      /\ warp' = Restarted /\ visited' = {}
      /\ UNCHANGED <<column, oldSize, writePos, capacity, overflow, mode, total>>
  BY DEF EndCount, RunInv, WorkInv, WorkTyped, OutInv, OutTyped
<1>2. /\ Found = Cardinality(Expected) /\ Found \in Nat /\ IsFiniteSet(Expected)
      /\ Expected' = Expected
  BY <1>1, FoundIs, TuplesKept
<1>3. mode.out # "speculative"
  BY <1>1 DEF RunTyped
<1>4. /\ Emitted' = {}
      /\ SumOf(Counts, Warps)' = 0 /\ SumOf(Owing, Warps)' = 0
      /\ \A w \in Warps : warp'[w].pc = "start" /\ warp'[w].buf = <<>> /\ warp'[w].count = 0
  BY <1>1, StartsEmpty
<1>5. /\ DOMAIN table' = 0 .. TableSize - 1 /\ \A s \in DOMAIN table' : table'[s] = Junk
  <2>1. table' = [s \in 0 .. TableSize - 1 |-> Junk]
    BY <1>1 DEF NoHashes
  <2> QED
    BY <2>1
<1>6. Tabled' = {}
  BY <1>5 DEF Tabled
<1>7. Taken' = {} /\ Cardinality({}) = 0
  BY <1>4, <1>6, FS_EmptySet DEF Taken
<1>8. PICK n : n = oldSize + Found
  OBVIOUS
<1>9. /\ n \in Nat /\ n >= oldSize /\ n - oldSize = Found /\ rows' = Resized(n)
  <2>1. PICK f, o : f = Found /\ o = oldSize
    OBVIOUS
  <2>2. f \in Nat /\ o \in Nat /\ n = o + f
    BY <1>1, <1>2, <1>8, <2>1
  <2>3. n \in Nat /\ n >= o /\ n - o = f
    BY <2>2
  <2>4. rows' = Resized(n)
    BY <1>1, <1>8
  <2> QED
    BY <2>1, <2>3, <2>4
<1>10. /\ OldKept' /\ Len(rows') = n
  BY <1>1, <1>9, ResizedOld DEF Delivering
<1>11. Balanced'
  <2>1. pass' = "write" /\ mode.out \notin {"counted", "preassigned"} => writePos = 0
    BY <1>1 DEF Delivering, Buffering
  <2>2. pass' # "count"
    BY <1>1
  <2> QED
    BY <1>1, <1>4, <1>7, <2>1, <2>2 DEF Balanced, Blocks
<1>12. Buffering'
  BY <1>1, <1>4 DEF Buffering
<1>13. Inside'
  <2> SUFFICES ASSUME pass' = "write"
               PROVE  Inside'
    BY DEF Inside
  <2>1. Room' = Found
    BY <1>1, <1>9, <1>10 DEF Room
  <2>2. \A q : Aimed(q)' => q < Found
    BY CountedInside
  <2> QED
    BY <1>1, <1>2, <1>3, <2>1, <2>2 DEF Inside
<1>14. NoneLost'
  BY <1>7 DEF NoneLost
<1>15. Entered'
  <2>1. \A w \in Warps : warp'[w].pc # "probe"
    BY <1>4
  <2> QED
    BY <1>4, <1>5, <1>6, <2>1 DEF Entered
<1>16. Delivered'
  <2> SUFFICES ASSUME pass' = "done"
               PROVE  Delivered'
    BY DEF Delivered
  <2>1. Found = 0
    BY <1>1
  <2>2. Expected = {} /\ Cardinality(Expected) = 0
    BY <1>2, <2>1, FS_EmptySet
  <2>3. Len(rows') = oldSize /\ Len(rows') = oldSize + 0
    BY <1>1, <1>8, <1>10, <2>1
  <2>4. oldSize + 1 .. oldSize = {}
    BY <1>1
  <2>5. {rows'[p] : p \in oldSize + 1 .. Len(rows')} = {}
    BY <2>3, <2>4
  <2>6. \A p \in 1 .. oldSize : rows'[p] = 0
    BY <1>1, <1>10 DEF OldKept
  <2> QED
    BY <1>1, <1>2, <2>2, <2>3, <2>5, <2>6 DEF Delivered
<1> QED
  BY <1>10, <1>11, <1>12, <1>13, <1>14, <1>15, <1>16 DEF Delivering

(* A speculative run that has overflowed starts again with counting.       *)
LEMMA DiscardKeeps ==
    ASSUME RunInv, OutInv, Delivering, EndWrite, overflow, mode.out = "speculative"
    PROVE  Delivering' /\ Delivered' /\ Roomy'
<1>1. /\ mode' = Counted /\ pass' = "count" /\ rows' = Resized(oldSize)
      /\ warp' = Restarted /\ visited' = {} /\ UNCHANGED <<column, oldSize>>
      /\ IsSeq(rows) /\ oldSize \in Nat
  BY DEF EndWrite, sources, OutInv, OutTyped
<1>2. mode'.work = "static" /\ mode'.out = "counted"
  BY <1>1 DEF Counted
<1>3. /\ Emitted' = {}
      /\ SumOf(Counts, Warps)' = 0 /\ SumOf(Owing, Warps)' = 0
      /\ \A w \in Warps : warp'[w].pc = "start" /\ warp'[w].buf = <<>> /\ warp'[w].count = 0
  BY <1>1, StartsEmpty
<1>4. Taken' = {} /\ Cardinality({}) = 0
  BY <1>2, <1>3, FS_EmptySet DEF Taken
<1>5. Balanced'
  BY <1>1, <1>2, <1>3, <1>4 DEF Balanced, Blocks
<1>6. Buffering'
  BY <1>1, <1>2, <1>3 DEF Buffering
<1>7. Inside' /\ NoneLost' /\ Entered' /\ Delivered' /\ Roomy'
  BY <1>1, <1>2 DEF Inside, NoneLost, Entered, Delivered, Roomy
<1>8. OldKept'
  <2>1. oldSize >= oldSize
    BY <1>1
  <2> QED
    BY <1>1, <2>1, ResizedOld DEF Delivering
<1> QED
  BY <1>5, <1>6, <1>7, <1>8 DEF Delivering

(* A writing kernel that has returned has delivered every match.           *)
LEMMA WrittenAll ==
    ASSUME RunInv, OutInv, Halted, Delivering, EndWrite, ~Dropped
    PROVE  OldKept' /\ Delivered'
<1>1. /\ pass = "write" /\ Returned /\ UNCHANGED <<column, mode, oldSize>>
      /\ rows' = (IF mode.out = "speculative" THEN Resized(oldSize + writePos) ELSE rows)
      /\ IsSeq(rows) /\ oldSize \in Nat /\ writePos \in Nat /\ RunTyped
  BY DEF EndWrite, sources, Dropped, OutInv, OutTyped, RunInv, WorkInv, WorkTyped
<1>2. \A w \in Warps : warp[w].pc = "stop" /\ warp[w].buf = <<>>
  BY <1>1 DEF Halted, Returned
<1>3. /\ Taken = Expected /\ Expected' = Expected
      /\ IsFiniteSet(Expected) /\ Cardinality(Expected) \in Nat
  BY <1>1, TakenAll, ExpectedIs, TuplesKept DEF Delivering
<1>4. \A t \in Expected : Settled(t)
  <2> SUFFICES ASSUME NEW t \in Expected
               PROVE  Settled(t)
    OBVIOUS
  <2>1. Settled(t) \/ Carried(t)
    BY <1>1, <1>3 DEF Delivering, NoneLost
  <2>2. ~Carried(t)
    <3>1. DOMAIN <<>> = {}
      OBVIOUS
    <3> QED
      BY <1>2, <3>1 DEF Carried
  <2> QED
    BY <2>1, <2>2
<1>5. PICK n, o : n = Cardinality(Expected) /\ o = oldSize
  OBVIOUS
<1>6. DOMAIN rows = 1 .. Len(rows) /\ Len(rows) \in Nat
  BY <1>1, SeqIs
<1>7. /\ OldKept' /\ IsSeq(rows') /\ Len(rows') = o + n
      /\ \A t \in Expected : \E p \in DOMAIN rows' : p > o /\ rows'[p] = t
  <2>1. CASE mode.out # "speculative"
    <3>1. rows' = rows
      BY <1>1, <2>1
    <3>2. Len(rows) - o = n
      BY <1>1, <1>5, <2>1 DEF Delivering, Inside, Room
    <3>3. Len(rows) = o + n
      BY <1>1, <1>3, <1>5, <1>6, <3>2
    <3>4. OldKept'
      BY <1>1, <3>1 DEF Delivering, OldKept
    <3> QED
      BY <1>1, <1>4, <1>5, <3>1, <3>3, <3>4 DEF Settled
  <2>2. CASE mode.out = "speculative"
    <3>1. Blocks
      BY <1>1, <2>2 DEF Blocks
    <3>2. SumOf(Owing, Warps) = 0
      <4>1. PICK f : f = Owing
        OBVIOUS
      <4>2. \A w \in Warps : f[w] = 0
        <5>1. Len(<<>>) = 0
          OBVIOUS
        <5> QED
          BY <1>2, <4>1, <5>1 DEF Owing
      <4> QED
        BY <4>1, <4>2, SumIsZero
    <3>3. writePos = n
      <4>1. writePos + SumOf(Owing, Warps) = Cardinality(Taken)
        BY <3>1 DEF Delivering, Balanced
      <4> QED
        BY <1>1, <1>3, <1>5, <3>2, <4>1
    <3>4. Free = {q \in Nat : q >= n}
      BY <1>1, <2>2, <3>1, <3>3 DEF Free
    <3>5. rows' = Resized(o + n) /\ o \in Nat /\ n \in Nat
      BY <1>1, <1>3, <1>5, <2>2, <3>3
    <3>6. o + n \in Nat /\ o + n >= o
      BY <3>5
    <3>7. /\ OldKept' /\ Len(rows') = o + n /\ DOMAIN rows' = 1 .. o + n /\ IsSeq(rows')
          /\ \A p \in 1 .. o + n : p <= Len(rows) => rows'[p] = rows[p]
      BY <1>1, <1>5, <3>5, <3>6, ResizedOld DEF Delivering
    <3>8. ASSUME NEW t \in Expected
          PROVE  \E p \in DOMAIN rows' : p > o /\ rows'[p] = t
      <4>1. PICK p \in DOMAIN rows : p > o /\ rows[p] = t /\ ~Claimed(p - oldSize - 1)
        BY <1>4, <1>5 DEF Settled
      <4>2. p - oldSize - 1 \notin Free
        BY <4>1 DEF Claimed
      <4>3. p \in Nat /\ p <= Len(rows) /\ p - oldSize - 1 \in Nat /\ p - oldSize - 1 = p - o - 1
        BY <1>1, <1>5, <1>6, <4>1
      <4>4. p - o - 1 < n
        BY <3>4, <3>5, <4>2, <4>3
      <4>5. p \in 1 .. o + n
        BY <3>5, <4>1, <4>3, <4>4
      <4> QED
        BY <3>7, <4>1, <4>3, <4>5
    <3> QED
      BY <3>7, <3>8
  <2> QED
    BY <2>1, <2>2
<1>8. PICK c, E : c = rows' /\ E = Expected
  OBVIOUS
<1>9. {c[p] : p \in o + 1 .. Len(c)} = E
  <2>1. /\ IsFiniteSet(E) /\ Cardinality(E) \in Nat /\ o \in Nat /\ IsSeq(c)
        /\ Len(c) = o + Cardinality(E) /\ \A t \in E : \E p \in DOMAIN c : p > o /\ c[p] = t
    BY <1>1, <1>3, <1>5, <1>7, <1>8
  <2> QED
    BY <2>1, AllInPlace
<1>10. \A p \in 1 .. o : c[p] = 0
  BY <1>1, <1>5, <1>7, <1>8 DEF OldKept
<1>11. Delivered'
  <2>1. Expected' = E /\ oldSize' = o /\ rows' = c /\ Cardinality(E) = n /\ Len(c) = o + n
    BY <1>1, <1>3, <1>5, <1>7, <1>8
  <2> QED
    BY <1>9, <1>10, <2>1 DEF Delivered
<1> QED
  BY <1>7, <1>11

LEMMA EndWriteKeeps ==
    ASSUME RunInv, OutInv, Halted, Roomy, Delivering, EndWrite
    PROVE  Delivering' /\ Delivered' /\ Roomy'
<1>1. CASE Dropped
  BY <1>1, DiscardKeeps DEF Dropped
<1>2. CASE ~Dropped
  <2>1. /\ pass' = "done" /\ UNCHANGED <<column, mode, table>>
    BY <1>2 DEF EndWrite, sources, Dropped
  <2>2. OldKept' /\ Delivered'
    BY <1>2, WrittenAll
  <2>3. Balanced' /\ Buffering' /\ Inside' /\ NoneLost' /\ Entered'
    BY <2>1 DEF Balanced, Blocks, Buffering, Inside, NoneLost, Entered
  <2>4. Roomy'
    BY <2>1, TuplesKept DEF Roomy
  <2> QED
    BY <2>2, <2>3, <2>4 DEF Delivering
<1> QED
  BY <1>1, <1>2

(* The whole invariant.                                                    *)
DeliveryInv == Halted /\ Aligned /\ Roomy /\ Delivering /\ Delivered

LEMMA InitDelivery ==
    ASSUME DedupSupported, Init
    PROVE  DeliveryInv
<1>1. /\ mode \in Modes /\ column \in ColumnsFor(mode)
      /\ mode \in Combinations /\ warp = Restarted /\ queue = EmptyQueue /\ table = NoHashes
      /\ writePos = 0 /\ total = 0 /\ oldSize \in {0, 1} /\ visited = {} /\ overflow = FALSE
      /\ pass = (IF mode.out = "speculative" THEN "write" ELSE "count")
      /\ capacity \in IF mode.out = "speculative" THEN Capacities ELSE {0}
  BY ModesAssumption DEF Init
<1>2. RunInv /\ OutInv /\ RunTyped
  BY InitInv, InitOut DEF RunInv, WorkInv, WorkTyped
<1>3. \A w \in Warps : /\ warp[w].pc = "start" /\ warp[w].slot = 0 /\ warp[w].b = 0 /\ warp[w].e = 0
                       /\ warp[w].give = NoTask /\ warp[w].buf = <<>> /\ warp[w].count = 0
  BY <1>1 DEF Restarted, Fresh
<1>4. Halted
  BY <1>2, <1>3, HaltedStarted DEF RunInv, WorkInv, WorkTyped
<1>5. Aligned
  <2>1. \A s \in Slots : queue.tasks[s] = NoTask
    BY <1>1 DEF EmptyQueue
  <2>2. Cut(column, 0)
    BY <1>2 DEF Cut, RunTyped, Iterable
  <2> QED
    BY <1>1, <1>3, <2>1, <2>2 DEF Aligned, Between, NoTask
<1>6. Roomy
  <2> SUFFICES ASSUME mode.out = "dedup"
               PROVE  Roomy
    BY DEF Roomy
  <2>1. Expected = {HeadOf(v) : v \in ToSet(column)}
    BY <1>2, OutModes DEF Expected
  <2> QED
    BY <1>1, <2>1 DEF Roomy, DedupSupported
<1>7. Emitted = {} /\ Cardinality({}) = 0 /\ Cardinality(visited) = 0
  BY <1>1, FS_EmptySet DEF Emitted
<1>8. /\ DOMAIN table = 0 .. TableSize - 1 /\ \A s \in DOMAIN table : table[s] = Junk
  <2>1. table = [s \in 0 .. TableSize - 1 |-> Junk]
    BY <1>1 DEF NoHashes
  <2> QED
    BY <2>1
<1>9. Tabled = {}
  BY <1>8 DEF Tabled
<1>10. Taken = {} /\ Cardinality(Taken) = 0
  BY <1>7, <1>9 DEF Taken
<1>11. SumOf(Counts, Warps) = 0 /\ SumOf(Owing, Warps) = 0
  <2>1. \A w \in Warps : Counts[w] = 0 /\ Owing[w] = 0
    BY <1>3 DEF Counts, Owing
  <2> QED
    BY <2>1, SumIsZero
<1>12. Balanced
  <2>1. total = FanDegree * Cardinality(visited)
    BY <1>1, <1>7, Sizes
  <2>2. writePos + SumOf(Owing, Warps) = 0
    BY <1>1, <1>11
  <2> QED
    BY <1>10, <1>11, <2>1, <2>2 DEF Balanced
<1>13. Buffering
  BY <1>1, <1>3 DEF Buffering
<1>14. Inside /\ OldKept
  <2>1. PICK n : n = (IF mode.out = "speculative" THEN oldSize + capacity ELSE oldSize)
    OBVIOUS
  <2>2. oldSize \in Nat /\ capacity \in Nat /\ n \in Nat /\ n >= oldSize
    BY <1>1, <2>1, SizesAssumption
  <2>3. rows = [p \in 1 .. n |-> IF p <= oldSize THEN 0 ELSE Junk]
    <3>1. CASE mode.out = "speculative"
      BY <2>1, <3>1 DEF Init
    <3>2. CASE mode.out # "speculative"
      <4>1. rows = [p \in 1 .. oldSize |-> 0] /\ n = oldSize
        BY <2>1, <3>2 DEF Init
      <4>2. \A p \in 1 .. oldSize : p <= oldSize
        BY <2>2
      <4> QED
        BY <4>1, <4>2
    <3> QED
      BY <3>1, <3>2
  <2>4. Len(rows) = n
    BY <2>2, <2>3
  <2>5. \A p \in 1 .. oldSize : rows[p] = 0
    <3>1. \A p \in 1 .. oldSize : p \in 1 .. n /\ p <= oldSize
      BY <2>2
    <3> QED
      BY <2>3, <3>1
  <2>6. Inside
    <3> SUFFICES ASSUME pass = "write"
                 PROVE  Inside
      BY DEF Inside
    <3>1. mode.out = "speculative"
      BY <1>1
    <3>2. Room = capacity
      BY <2>1, <2>2, <2>4, <3>1 DEF Room
    <3>3. \A w \in Warps : Aims(w) = {}
      BY <1>3, <3>1 DEF Aims
    <3>4. \A s \in Slots : Booked(s) = {}
      BY <3>1 DEF Booked
    <3> QED
      BY <3>1, <3>2, <3>3, <3>4 DEF Inside, Aimed
  <2> QED
    BY <2>2, <2>4, <2>5, <2>6 DEF OldKept
<1>15. NoneLost
  BY <1>10, <1>9, <1>7 DEF NoneLost, Taken
<1>16. Entered
  BY <1>3, <1>7, <1>8, <1>9 DEF Entered
<1>17. Delivered
  BY <1>1 DEF Delivered
<1> QED
  BY <1>4, <1>5, <1>6, <1>12, <1>13, <1>14, <1>15, <1>16, <1>17 DEF DeliveryInv, Delivering

LEMMA StutterDelivery ==
    ASSUME OutInv, DeliveryInv, UNCHANGED vars
    PROVE  DeliveryInv'
<1>1. /\ UNCHANGED <<column, queue, board, rows, oldSize, writePos, capacity, overflow, table,
                     mode, pass, warp, total, visited>>
      /\ OutFrame
      /\ Halted /\ Aligned /\ Roomy /\ Delivering /\ Delivered
  BY DEF vars, OutFrame, OutInv, DeliveryInv
<1>2. /\ \A w \in Warps : Aims(w)' = Aims(w)
      /\ \A s \in Slots : Booked(s)' = Booked(s)
      /\ Free' = Free
  BY <1>1, OthersAims, BookedKept, FreeKept
<1>3. /\ Expected' = Expected /\ Emitted' = Emitted /\ Tabled' = Tabled /\ Taken' = Taken
  BY <1>1, TuplesKept
<1>4. Halted'
  <2>1. \A w \in Warps : Grabbing(w)' <=> Grabbing(w)
    BY <1>1 DEF Grabbing, Emptied
  <2>2. (Somebody' <=> Somebody) /\ (Returned' <=> Returned)
    BY <1>1 DEF Somebody, Returned
  <2> QED
    BY <1>1, <2>1, <2>2 DEF Halted
<1>5. Aligned'
  BY <1>1 DEF Aligned, Between, Cut
<1>6. Roomy' /\ Delivered'
  BY <1>1, <1>3 DEF Roomy, Delivered
<1>7. Balanced'
  <2>1. PICK f, g : f = Counts /\ g = Owing
    OBVIOUS
  <2>2. Counts' = f /\ Owing' = g
    BY <1>1, <2>1 DEF Counts, Owing
  <2>3. SumOf(Counts, Warps)' = SumOf(f, Warps) /\ SumOf(Owing, Warps)' = SumOf(g, Warps)
    BY <2>2 DEF SumOf
  <2> QED
    BY <1>1, <1>3, <2>1, <2>3 DEF Delivering, Balanced, Blocks, Dropped
<1>8. Buffering' /\ OldKept'
  BY <1>1 DEF Delivering, Buffering, OldKept
<1>9. Inside'
  <2>1. \A q : Aimed(q)' => Aimed(q)
    BY <1>2 DEF Aimed
  <2>2. Room' = Room
    BY <1>1 DEF Room
  <2> QED
    BY <1>1, <1>3, <2>1, <2>2 DEF Delivering, Inside
<1>10. NoneLost'
  <2>1. \A q : Claimed(q)' => Claimed(q)
    BY <1>2, ClaimedNow DEF Claimed
  <2>2. \A t : Settled(t) => Settled(t)'
    BY <1>1, <2>1 DEF Settled
  <2>3. \A t : Carried(t) => Carried(t)'
    BY <1>1 DEF Carried
  <2> QED
    BY <1>1, <1>3, <2>2, <2>3 DEF Delivering, NoneLost, Dropped
<1>11. Entered'
  BY <1>1, <1>3 DEF Delivering, Entered, Behind, Probed
<1> QED
  BY <1>4, <1>5, <1>6, <1>7, <1>8, <1>9, <1>10, <1>11 DEF DeliveryInv, Delivering

LEMMA NextDelivery ==
    ASSUME RunInv, OutInv, DeliveryInv, [Next]_vars
    PROVE  DeliveryInv'
<1>1. /\ RunInv' /\ OutInv' /\ RunTyped' /\ BoardTyped'
      /\ Halted /\ Aligned /\ Roomy /\ Delivering /\ Delivered
  BY NextInv, NextOut DEF DeliveryInv, RunInv, WorkInv, WorkTyped
<1>2. ASSUME NEW w \in Warps, WarpStep(w)
      PROVE  DeliveryInv'
  <2>1. pass' # "done" /\ UNCHANGED <<column, mode>>
    BY <1>2, StopsHow
  <2>2. Halted' /\ Aligned' /\ Delivering'
    BY <1>1, <1>2, HaltedStep, AlignedStep, WarpKeeps
  <2>3. Roomy' /\ Delivered'
    BY <1>1, <2>1, TuplesKept DEF Roomy, Delivered
  <2> QED
    BY <2>2, <2>3 DEF DeliveryInv
<1>3. CASE EndCount
  <2>1. /\ warp' = Restarted /\ visited' = {} /\ UNCHANGED <<column, mode>>
        /\ queue' = (IF mode.work = "fanout" THEN queue ELSE EmptyQueue)
    BY <1>3 DEF EndCount
  <2>2. Halted' /\ Aligned'
    BY <1>1, <2>1, HaltedFresh, AlignedFresh
  <2>3. Roomy'
    BY <1>1, <2>1, TuplesKept DEF Roomy
  <2>4. Delivering' /\ Delivered'
    BY <1>1, <1>3, EndCountKeeps
  <2> QED
    BY <2>2, <2>3, <2>4 DEF DeliveryInv
<1>4. CASE EndWrite
  <2>1. Halted' /\ Aligned'
    <3>1. CASE overflow /\ mode.out = "speculative"
      <4>1. warp' = Restarted /\ visited' = {} /\ mode' = Counted
        BY <1>4, <3>1 DEF EndWrite
      <4> QED
        BY <1>1, <4>1, HaltedFresh, AlignedFresh DEF Counted
    <3>2. CASE ~(overflow /\ mode.out = "speculative")
      <4>1. pass' = "done"
        BY <1>4, <3>2 DEF EndWrite
      <4> QED
        BY <4>1 DEF Halted, Aligned
    <3> QED
      BY <3>1, <3>2
  <2>2. Delivering' /\ Delivered' /\ Roomy'
    BY <1>1, <1>4, EndWriteKeeps
  <2> QED
    BY <2>1, <2>2 DEF DeliveryInv
<1>5. ASSUME UNCHANGED vars
      PROVE  DeliveryInv'
  BY <1>5, StutterDelivery
<1> QED
  BY <1>2, <1>3, <1>4, <1>5 DEF Next, Terminated

(* When a rule's kernels have run, NEW holds its old rows and behind them  *)
(* every tuple the rule derives once: for the kernels that the generator   *)
(* makes and those that only the library offers, every column and          *)
(* capacity, and every interleaving of the warps.                          *)
THEOREM EachMatchDelivered ==
    ASSUME DedupSupported
    PROVE  Spec => []Delivered
<1>1. Init => DeliveryInv
  BY InitDelivery
<1>2. RunInv /\ OutInv /\ DeliveryInv /\ [Next]_vars => DeliveryInv'
  BY NextDelivery
<1>3. DeliveryInv => Delivered
  BY DEF DeliveryInv
<1>4. Spec => [](RunInv /\ OutInv)
  BY OutInvariant
<1> QED
  BY <1>1, <1>2, <1>3, <1>4, PTL DEF Spec
=============================================================================
