------------------------------ MODULE KeySearch ------------------------------
(***************************************************************************)
(* The searches for the lower or upper bound of a key in a sorted span, on *)
(* the device by a group of lanes that vote, on the host by halving and    *)
(* vector scans.  Which loops a search runs depends on the function (how): *)
(*                                                                         *)
(*   seq      seq_*_bound, branchless_lower_bound: halve to nothing        *)
(*   group    group_lower_bound: halve to the group's size, then one vote  *)
(*   exp      group_exp_*_bound: every lane probes, then one vote          *)
(*   linear   group_linear_*_bound: halve to Window, stride, one vote      *)
(*   scan     group_upper_bound, simd search: halve to Window, then scan   *)
(*   skip     skip_duplicates: scan                                        *)
(*   block    AcceleratedArrayIterator::seek: jump to a block through an   *)
(*            Eytzinger map of block separators, then search a window      *)
(*                                                                         *)
(* A span of at most ScanLimit elements is scanned by group and exp.       *)
(* Positions count from 0 as in the code.                                  *)
(*                                                                         *)
(* D_Fault is definition D with a plausible mistake, see SemiNaive.        *)
(***************************************************************************)
EXTENDS Integers, Sequences, FiniteSets, FiniteSetsExt

CONSTANTS
    GroupSize,  \* lanes of a group: 32 in the kernels
    ScanLimit,  \* 512 or 2048 in the code
    Window,     \* 512 on the device, 128 on the host
    BlockSize,  \* 64 elements
    SeekWindow, \* 256 elements, four blocks
    Sentinel    \* what a lane past the end reads: the largest value of the type

ASSUME GroupSizeAssumption == GroupSize \in Nat \ {0, 1}
ASSUME LimitsAssumption == ScanLimit \in Nat /\ Window \in Nat
ASSUME BlockAssumption == BlockSize \in Nat \ {0} /\ SeekWindow \in Nat \ {0}
ASSUME SentinelAssumption == Sentinel \in Nat \ {0}

VARIABLES
    how,        \* the function
    bound,      \* "lower" or "upper"
    data,       \* the span
    key,        \* what is searched
    lo, hi,     \* the answer is in lo .. hi
    at,         \* "idle" | "narrow" | "scan" | "vote" | "jump" | "window" | "done"
    result      \* the answer, once found

searching == <<how, bound, data, key, lo, hi, at, result>>

Lanes == 0 .. GroupSize - 1

Below(v) == IF bound = "lower" THEN v < key ELSE v <= key

(* Lanes past the end read the sentinel.                                   *)
Lane_Fault(i, end) == IF i < end THEN data[i + 1] ELSE 0

Lane(i, end) == IF i < end THEN data[i + 1] ELSE Sentinel

(* How far the span is narrowed before the last phase.                     *)
Until == CASE how = "seq" -> 0 [] how \in {"group", "exp"} -> GroupSize [] OTHER -> Window

Begin(h, b, d, k) ==
    /\ how' = h /\ bound' = b /\ data' = d /\ key' = k
    /\ lo' = 0 /\ hi' = Len(d)
    /\ at' = IF h = "skip" \/ (h \in {"group", "exp"} /\ Len(d) <= ScanLimit)
             THEN "scan" ELSE "narrow"
    /\ result' = 0

Answer(r) ==
    /\ result' = r
    /\ at' = "done"
    /\ UNCHANGED <<how, bound, data, key, lo, hi>>

Narrow_Fault ==
    /\ at = "narrow" /\ how # "exp" /\ hi - lo > Until
    /\ LET mid == lo + (hi - lo) \div 2
       IN  IF Below(data[mid + 1]) THEN lo' = mid /\ UNCHANGED hi
                                   ELSE hi' = mid /\ UNCHANGED lo
    /\ UNCHANGED <<how, bound, data, key, at, result>>

Narrow ==
    /\ at = "narrow" /\ how # "exp" /\ hi - lo > Until
    /\ LET mid == lo + (hi - lo) \div 2
       IN  IF Below(data[mid + 1]) THEN lo' = mid + 1 /\ UNCHANGED hi
                                   ELSE hi' = mid /\ UNCHANGED lo
    /\ UNCHANGED <<how, bound, data, key, at, result>>

(* Lane k probes the k-th of GroupSize evenly spaced positions.            *)
Probe(k) == lo + (k * (hi - lo - 1)) \div (GroupSize - 1)

NarrowByGroup ==
    /\ at = "narrow" /\ how = "exp" /\ hi - lo > Until
    /\ LET count == Cardinality({k \in Lanes : Below(data[Probe(k) + 1])})
       IN  IF count = 0 THEN hi' = Probe(1) + 1 /\ UNCHANGED lo
           ELSE IF count = GroupSize THEN lo' = Probe(GroupSize - 1) + 1 /\ UNCHANGED hi
           ELSE lo' = Probe(count - 1) + 1 /\ hi' = Probe(count) + 1
    /\ UNCHANGED <<how, bound, data, key, at, result>>

EndNarrow ==
    /\ at = "narrow" /\ hi - lo <= Until
    /\ IF how = "seq" THEN Answer(lo)
       ELSE /\ at' = IF how \in {"scan", "linear"} THEN "scan" ELSE "vote"
            /\ UNCHANGED <<how, bound, data, key, lo, hi, result>>

(* One stride of a scan: the first lane whose element is not below wins.   *)
(* Only a lower bound lets lanes past the end vote.                        *)
Hits == {k \in Lanes : /\ ~Below(Lane(lo + k, hi))
                       /\ bound = "lower" \/ lo + k < hi}

Scan ==
    /\ at = "scan" /\ lo < hi
    /\ how = "linear" => hi - lo > GroupSize
    /\ IF Hits # {} THEN Answer(lo + Min(Hits))
       ELSE /\ lo' = lo + GroupSize
            /\ UNCHANGED <<how, bound, data, key, hi, at, result>>

EndScan ==
    /\ at = "scan"
    /\ \/ /\ how = "linear" /\ hi - lo <= GroupSize
          /\ at' = "vote"
          /\ UNCHANGED <<how, bound, data, key, lo, hi, result>>
       \/ how # "linear" /\ lo >= hi /\ Answer(hi)

(* All lanes vote once, those past the end with the sentinel.              *)
Vote ==
    /\ at = "vote"
    /\ Answer(lo + Cardinality({k \in Lanes : Below(Lane(lo + k, hi))}))

-----------------------------------------------------------------------------
SortedSpan(d) == \A i, j \in DOMAIN d : i < j => d[i] <= d[j]

(* What the comments of these functions promise: the first position whose  *)
(* element is not below the key, or the length of the span.                *)
FirstNotBelow(d, b, k) ==
    Min({i \in 0 .. Len(d) :
            i = Len(d) \/ (IF b = "lower" THEN d[i + 1] >= k ELSE d[i + 1] > k)})

-----------------------------------------------------------------------------
(* The Eytzinger map of a column: the last element of every block but the  *)
(* last, laid out as a heap.  Block[k] is the block of heap position k.    *)
Separators(d) ==
    LET blocks == (Len(d) + BlockSize - 1) \div BlockSize
    IN  [i \in 1 .. blocks - 1 |-> d[i * BlockSize]]

(* The heap positions in the order build_recursive visits them.            *)
Visited(n) ==
    LET visit[k \in Nat] == IF k > n THEN <<>> ELSE visit[2 * k] \o <<k>> \o visit[2 * k + 1]
    IN  visit[1]

Block(n) == [k \in 1 .. n |-> CHOOSE i \in 1 .. n : Visited(n)[i] = k]

(* The branch-free descent leaves the heap; undoing the last steps to the  *)
(* right and one to the left gives the separator; no step to the left:     *)
(* all separators are below the key.                                       *)
SeparatorNotBelow(seps, k) ==
    LET n == Len(seps)
        descend[p \in Nat] ==
            IF p > n THEN p
            ELSE descend[2 * p + (IF seps[Block(n)[p]] < k THEN 1 ELSE 0)]
        undo[p \in Nat] == IF p % 2 = 1 THEN undo[p \div 2] ELSE p \div 2
        heap == undo[descend[1]]
    IN  IF heap = 0 THEN n ELSE Block(n)[heap] - 1

(* seek starts at position p of the whole column, of which the blocks are. *)
BeginSeek(d, k, p) ==
    /\ how' = "block" /\ bound' = "lower" /\ data' = d /\ key' = k
    /\ lo' = p /\ hi' = Len(d)
    /\ at' = "jump"
    /\ result' = 0

(* Forward only, and one block back for copies across a block boundary.    *)
Jump ==
    /\ at = "jump"
    /\ LET seps == Separators(data)
           block == SeparatorNotBelow(seps, key)
           start == IF seps = <<>> THEN lo ELSE Max({lo, Max({0, block - 1}) * BlockSize})
       IN  IF lo >= hi \/ data[lo + 1] >= key THEN Answer(lo)
           ELSE IF start >= hi THEN Answer(hi)
           ELSE /\ lo' = start /\ at' = "window"
                /\ UNCHANGED <<how, bound, data, key, hi, result>>

(* The search is clamped to a window (not without a map), and goes on past *)
(* it when the window is exhausted.                                        *)
SearchWindow ==
    /\ at = "window"
    /\ LET len == IF Separators(data) = <<>> THEN hi - lo ELSE Min({hi - lo, SeekWindow})
           after == lo + FirstNotBelow(SubSeq(data, lo + 1, lo + len), "lower", key)
           missed == after = lo + len /\ after < hi /\ data[after + 1] < key
       IN  Answer(IF missed THEN after + FirstNotBelow(SubSeq(data, after + 1, hi), "lower", key)
                            ELSE after)

SearchStep ==
    Narrow \/ NarrowByGroup \/ EndNarrow \/ Scan \/ EndScan \/ Vote \/ Jump \/ SearchWindow

-----------------------------------------------------------------------------

(* Nothing before the window can be the answer, nothing after it either.   *)
Bracket ==
    at \in {"narrow", "scan", "vote"} =>
        /\ 0 <= lo /\ hi <= Len(data)
        /\ \A i \in 0 .. lo - 1 : i < hi => Below(data[i + 1])
        /\ \A i \in hi .. Len(data) - 1 : ~Below(data[i + 1])

(* A search that ends has found the bound.                                 *)
SearchExact == at = "done" => result = FirstNotBelow(data, bound, key)
=============================================================================
