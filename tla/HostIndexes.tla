----------------------------- MODULE HostIndexes -----------------------------
(***************************************************************************)
(* The indexes of a host relation: how ensure_index brings one up to date  *)
(* with the columns, how the index of DELTA is merged into that of FULL,   *)
(* and what a walk from the root then finds.  Every kind of index keeps    *)
(* the rows in its own way:                                                *)
(*                                                                         *)
(*   trie     HashTrieIndex: nodes, here named by their path, with         *)
(*            children, a cache of their keys and, in leaves, row ids      *)
(*   hashmap  HashmapIndex: per prefix the set of next values, per key     *)
(*            the id of its first row                                      *)
(*   sorted   SortedArrayIndex: sorted entries                             *)
(*   btree    ImplicitBTreeIndex: the same, and the last value of every    *)
(*            block of the first column                                    *)
(*                                                                         *)
(* D_Fault is definition D with a plausible mistake, see SemiNaive.        *)
(***************************************************************************)
EXTENDS Integers, SequencesExt

CONSTANTS
    Kinds,
    Orders,     \* the column orders of an index: sequences of columns
    Rows,       \* the rows that may be pushed, per kind
    BlockSize,  \* entries per block of the btree: 64 in the code
    MaxRows     \* bound, per kind: rows in the columns of both versions

VARIABLES
    kind, order,
    rows,       \* rows[v]: the columns of version v, as a sequence of rows
    idx,        \* idx[v]: the index of version v
    held        \* held[v]: the rows the index has to answer for, as they came

vars == <<kind, order, rows, idx, held>>

Version == {"full", "delta"}
Arity == Len(order)
KeyOf(row) == [c \in DOMAIN order |-> row[order[c]]]
Offset(ids, n) == [i \in DOMAIN ids |-> ids[i] + n]

(* Every prefix of a key but the key itself: the inner nodes on its path.  *)
Inner(key) == {SubSeq(key, 1, n) : n \in 0 .. Len(key) - 1}

-----------------------------------------------------------------------------
(* The hash trie.  size and rows_processed both count rows.                *)
NoNode == [kids |-> {}, cache |-> {}, post |-> <<>>]
Node(nodes, path) == IF path \in DOMAIN nodes THEN nodes[path] ELSE NoNode

EmptyTrie == [nodes |-> (<<>> :> NoNode), size |-> 0, seen |-> 0]

(* A new child joins its parent's children, not the cache of their keys.   *)
TrieInserted(nodes, key, id) ==
    [path \in DOMAIN nodes \cup Inner(key) \cup {key} |->
        LET node == Node(nodes, path)
        IN  IF path = key THEN [node EXCEPT !.post = Append(@, id)]
            ELSE IF path \in Inner(key)
                 THEN [node EXCEPT !.kids = @ \cup {key[Len(path) + 1]}]
                 ELSE node]

TrieBuilt(t, keys) ==
    LET insert(nodes, i) == TrieInserted(nodes, keys[i], t.size + i - 1)
    IN  [nodes |-> FoldLeft(insert, t.nodes, [i \in DOMAIN keys |-> i]),
         size  |-> t.size + Len(keys),
         seen  |-> t.size + Len(keys)]

TrieMerged_Fault(t, other, offset) ==
    [nodes |->
        [path \in DOMAIN t.nodes \cup DOMAIN other.nodes |->
            LET mine == Node(t.nodes, path)
                new == Node(other.nodes, path)
            IN  [kids |-> mine.kids \cup new.kids, cache |-> mine.cache,
                 post |-> mine.post \o Offset(new.post, offset)]],
     size |-> t.size + other.size,
     seen |-> t.size + other.size]

(* Nodes of both tries are united and lose the cache of their keys.        *)
TrieMerged(t, other, offset) ==
    [nodes |->
        [path \in DOMAIN t.nodes \cup DOMAIN other.nodes |->
            LET mine == Node(t.nodes, path)
                new == Node(other.nodes, path)
            IN  IF path \notin DOMAIN other.nodes THEN mine
                ELSE [kids |-> mine.kids \cup new.kids, cache |-> {},
                      post |-> mine.post \o Offset(new.post, offset)]],
     size |-> t.size + other.size,
     seen |-> t.size + other.size]

(* values() fills an empty cache from the children and returns the cache.  *)
CacheFilled(node) == IF node.cache = {} THEN [node EXCEPT !.cache = node.kids] ELSE node

-----------------------------------------------------------------------------
(* The hash map: one layer per column, then the leaf layer.  size counts   *)
(* keys, rows_processed counts rows.  arity is 0 until the first build.    *)
EmptyMap == [next |-> <<>>, leaf |-> <<>>, size |-> 0, seen |-> 0, arity |-> 0]

Nexts(m, path) == IF path \in DOMAIN m.next THEN m.next[path] ELSE {}

(* The first row of a key keeps its place.                                 *)
MapInserted(m, key, id) ==
    [m EXCEPT
        !.next = [path \in DOMAIN @ \cup Inner(key) |->
                    Nexts(m, path) \cup
                        (IF path \in Inner(key) THEN {key[Len(path) + 1]} ELSE {})],
        !.leaf = IF key \in DOMAIN @ THEN @ ELSE @ @@ (key :> id),
        !.size = IF key \in DOMAIN m.leaf THEN @ ELSE @ + 1]

MapBuilt_Fault(m, keys) ==
    LET base == m.size
        fresh == IF m.size = 0 THEN EmptyMap ELSE m
        insert(acc, i) == MapInserted(acc, keys[i], base + i - 1)
    IN  [FoldLeft(insert, fresh, [i \in DOMAIN keys |-> i])
            EXCEPT !.seen = fresh.seen + Len(keys), !.arity = Arity]

MapBuilt(m, keys) ==
    LET fresh == IF m.size = 0 THEN EmptyMap ELSE m
        insert(acc, i) == MapInserted(acc, keys[i], fresh.seen + i - 1)
    IN  [FoldLeft(insert, fresh, [i \in DOMAIN keys |-> i])
            EXCEPT !.seen = @ + Len(keys), !.arity = Arity]

(* A layer at a time; only a key new to the leaf layer counts.             *)
MapMerged(m, other, offset) ==
    [next  |-> [path \in DOMAIN m.next \cup DOMAIN other.next |->
                    Nexts(m, path) \cup Nexts(other, path)],
     leaf  |-> m.leaf @@ [key \in DOMAIN other.leaf |-> other.leaf[key] + offset],
     size  |-> m.size + Cardinality(DOMAIN other.leaf \ DOMAIN m.leaf),
     seen  |-> m.seen + other.seen,
     arity |-> m.arity]

-----------------------------------------------------------------------------
(* The sorted arrays: entries of a key and a row id.                       *)
NoEntries == [entries |-> <<>>, size |-> 0, seen |-> 0]

RECURSIVE Compare(_, _)
Compare(a, b) ==
    IF a = <<>> THEN 0
    ELSE IF Head(a) = Head(b) THEN Compare(Tail(a), Tail(b))
    ELSE IF Head(a) < Head(b) THEN -1 ELSE 1

(* A stable sort, then only the first of equal entries is kept.            *)
ArrayBuilt(keys) ==
    LET before(a, b) == LET c == Compare(a.key, b.key) IN c < 0 \/ (c = 0 /\ a.id < b.id)
        sorted == SortSeq([i \in DOMAIN keys |-> [key |-> keys[i], id |-> i - 1]], before)
        keep(acc, e) == IF acc # <<>> /\ Last(acc).key = e.key THEN acc ELSE Append(acc, e)
        kept == FoldLeft(keep, <<>>, sorted)
    IN  [entries |-> kept, size |-> Len(kept), seen |-> Len(keys)]

(* The merge in place: the old entries have been moved to the end of a,    *)
(* which is filled from the front.  i and j entries of either are done;    *)
(* equal ones are written together, the old one first.                     *)
RECURSIVE Filled(_, _, _, _)
Filled(a, new, i, j) ==
    LET old == Len(a) - Len(new)
        mine == a[Len(new) + i + 1]
        put(k, e) == [a EXCEPT ![k + 1] = e]
    IN  IF i = old THEN [n \in DOMAIN a |-> IF n > i + j THEN new[n - i] ELSE a[n]]
        ELSE IF j = Len(new) THEN a
        ELSE LET c == Compare(mine.key, new[j + 1].key)
             IN  CASE c < 0 -> Filled(put(i + j, mine), new, i + 1, j)
                   [] c > 0 -> Filled(put(i + j, new[j + 1]), new, i, j + 1)
                   [] OTHER -> Filled([put(i + j, mine) EXCEPT ![i + j + 2] = new[j + 1]],
                                      new, i + 1, j + 1)

Shifted(entries, offset) == [i \in DOMAIN entries |-> [entries[i] EXCEPT !.id = @ + offset]]

(* Into an empty array the other is copied, its rows_processed with it.    *)
ArrayMerged(s, other, offset) ==
    LET new == Shifted(other.entries, offset)
        a == [n \in 1 .. s.size + other.size |->
                IF n > other.size THEN s.entries[n - other.size]
                ELSE IF n <= s.size THEN s.entries[n] ELSE new[n]]
    IN  IF s.size = 0 THEN [other EXCEPT !.entries = new]
        ELSE [s EXCEPT !.entries = Filled(a, new, 0, 0), !.size = @ + other.size,
                       !.seen = @ + other.seen]

(* The btree: the separators are the last values of all blocks but the     *)
(* last, laid out as a heap, with a map from heap positions to blocks.     *)
(* Both are made again when entries have been merged in.  An empty btree   *)
(* that is merged into copies the other one, but not its map.              *)
Separators(entries) ==
    [n \in 1 .. (Len(entries) + BlockSize - 1) \div BlockSize - 1 |->
        entries[n * BlockSize].key[1]]

NoBTree == [entries |-> <<>>, seps |-> <<>>, mapped |-> FALSE, size |-> 0, seen |-> 0]

WithSeparators(s) ==
    [entries |-> s.entries, seps |-> Separators(s.entries), mapped |-> TRUE,
     size |-> s.size, seen |-> s.seen]

BTreeBuilt(keys) == WithSeparators(ArrayBuilt(keys))

BTreeMerged(s, other, offset) ==
    IF s.size = 0 THEN [other EXCEPT !.entries = Shifted(@, offset), !.mapped = FALSE]
    ELSE WithSeparators(ArrayMerged(s, other, offset))

(* Halving: the first position from b on, before e, whose value in column  *)
(* d is not below v.                                                       *)
RECURSIVE LowerBound(_, _, _, _, _)
LowerBound(entries, d, b, e, v) ==
    IF b >= e THEN b
    ELSE LET mid == b + (e - b) \div 2
         IN  IF entries[mid + 1].key[d] < v THEN LowerBound(entries, d, mid + 1, e, v)
                                            ELSE LowerBound(entries, d, b, mid, v)

(* The end of a run: the btree looks at the next value before it searches. *)
EndOfRun(s, d, b, e, v) ==
    IF kind = "btree" /\ (b + 1 >= e \/ s.entries[b + 2].key[d] # v) THEN b + 1
    ELSE LowerBound(s.entries, d, b, e, v + 1)

(* prefix() narrows the range of entries one column at a time.             *)
RangeOf(s, path) ==
    LET narrow(range, d) ==
            LET b == LowerBound(s.entries, d, range[1], range[2], path[d])
            IN  IF b < range[2] /\ s.entries[b + 1].key[d] = path[d]
                THEN <<b, EndOfRun(s, d, b, range[2], path[d])>>
                ELSE <<0, 0>>
    IN  FoldLeft(narrow, <<0, s.size>>, [d \in DOMAIN path |-> d])

InRange(s, path) == {n \in 1 .. s.size : n > RangeOf(s, path)[1] /\ n <= RangeOf(s, path)[2]}

-----------------------------------------------------------------------------
(* What the kinds have in common.                                          *)
Empty ==
    CASE kind = "trie"    -> EmptyTrie
      [] kind = "hashmap" -> EmptyMap
      [] kind = "btree"   -> NoBTree
      [] OTHER            -> NoEntries

Cleared(i) == IF kind = "hashmap" THEN [EmptyMap EXCEPT !.arity = i.arity] ELSE Empty

Built(i, keys) ==
    CASE kind = "trie"    -> TrieBuilt(i, keys)
      [] kind = "hashmap" -> MapBuilt(i, keys)
      [] kind = "btree"   -> BTreeBuilt(keys)
      [] OTHER            -> ArrayBuilt(keys)

Merged(i, other, offset) ==
    CASE kind = "trie"    -> TrieMerged(i, other, offset)
      [] kind = "hashmap" -> MapMerged(i, other, offset)
      [] kind = "btree"   -> BTreeMerged(i, other, offset)
      [] OTHER            -> ArrayMerged(i, other, offset)

(* Whether a walk along path, one prefix() at a time, is at a valid node.  *)
Reaches(i, path) ==
    CASE kind = "trie"    -> path \in DOMAIN i.nodes
      [] kind = "hashmap" ->
            /\ i.arity > 0
            /\ \A n \in 1 .. Min({Len(path), Arity - 1}) : path[n] \in Nexts(i, SubSeq(path, 1, n - 1))
            /\ Len(path) = Arity => path \in DOMAIN i.leaf
      [] OTHER            -> InRange(i, path) # {}

ValuesAt(i, path) ==
    IF ~Reaches(i, path) THEN {}
    ELSE CASE kind = "trie"    -> CacheFilled(i.nodes[path]).cache
           [] kind = "hashmap" -> Nexts(i, path)
           [] OTHER            -> {i.entries[n].key[Len(path) + 1] : n \in InRange(i, path)}

(* The positions of a heap of n below k, from left to right.               *)
RECURSIVE InOrder(_, _)
InOrder(n, k) == IF k > n THEN <<>> ELSE InOrder(n, 2 * k) \o <<k>> \o InOrder(n, 2 * k + 1)

(* EytzingerMap::search: the descent ends at the first separator that is   *)
(* not below v.  The map says which block that is, the first being 0;      *)
(* without it the heap position, counted from 0, is taken for the block.   *)
BlockFound(s, v) ==
    LET below == Cardinality({n \in DOMAIN s.seps : s.seps[n] < v})
    IN  IF s.mapped THEN below ELSE InOrder(Len(s.seps), 1)[below + 1] - 1

(* Where the btree starts to look for v.  Past the last separator there is *)
(* no block, and nothing is found.                                         *)
BlockStart(s, v) ==
    CASE s.seps = <<>>     -> 0
      [] v > Last(s.seps) -> s.size
      [] OTHER            -> BlockSize * BlockFound(s, v)

ContainsInArray(s, path, v) ==
    LET range == RangeOf(s, path)
        from == IF kind = "btree" /\ path = <<>> THEN BlockStart(s, v) ELSE range[1]
        at == LowerBound(s.entries, Len(path) + 1, from, range[2], v)
    IN  at < range[2] /\ s.entries[at + 1].key[Len(path) + 1] = v

(* contains_value, by which an intersection keeps or drops a value.        *)
ContainsValue(i, path, v) ==
    /\ Reaches(i, path)
    /\ CASE kind = "trie"    -> v \in i.nodes[path].kids
         [] kind = "hashmap" -> Len(path) < Arity - 1 /\ v \in Nexts(i, path)
         [] OTHER            -> ContainsInArray(i, path, v)

(* Where contains_value can be relied on, see the README: not for the last *)
(* column of a hash map, nor past the last separator of a btree, nor in a  *)
(* copied btree of more than two blocks.                                   *)
Answers(i, path, v) ==
    CASE kind = "hashmap" -> Len(path) < Arity - 1
      [] kind = "btree"   -> path = <<>> /\ i.seps # <<>> =>
                                 v <= Last(i.seps) /\ (i.mapped \/ Len(i.seps) = 1)
      [] OTHER            -> TRUE

RowIds(i, key) ==
    IF ~Reaches(i, key) THEN <<>>
    ELSE CASE kind = "trie"    -> i.nodes[key].post
           [] kind = "hashmap" -> <<i.leaf[key]>>
           [] OTHER            -> LET range == RangeOf(i, key)
                                IN  [n \in 1 .. range[2] - range[1] |-> i.entries[range[1] + n].id]
-----------------------------------------------------------------------------
(* A merge leaves more rows in an index than in the columns.               *)
Ahead(v) == idx[v].seen > Len(rows[v])

(* Preconditions of bringing the index of v up to date, see the README:    *)
(* arrays are only built from nothing, and the nodes of a trie that grows  *)
(* have not been walked.                                                   *)
MayExtend(v) ==
    0 < idx[v].seen /\ idx[v].seen < Len(rows[v]) =>
        CASE kind = "trie"    -> \A path \in DOMAIN idx[v].nodes : idx[v].nodes[path].cache = {}
          [] kind = "hashmap" -> TRUE
          [] OTHER            -> FALSE

(* ensure_index: nothing to do if as many rows were processed as there     *)
(* are; if more, the index is out of sync and built from all rows.         *)
Ensured(v) ==
    LET from == IF Ahead(v) THEN Cleared(idx[v]) ELSE idx[v]
        new == SubSeq(rows[v], from.seen + 1, Len(rows[v]))
    IN  IF idx[v].seen = Len(rows[v]) THEN idx[v]
        ELSE IF new = <<>> THEN from
        ELSE Built(from, [i \in DOMAIN new |-> KeyOf(new[i])])

HeldAfter(v) == IF idx[v].seen = Len(rows[v]) THEN held[v] ELSE rows[v]

Init ==
    /\ kind \in Kinds
    /\ order \in Orders
    /\ rows = [v \in Version |-> <<>>]
    /\ idx = [v \in Version |-> Empty]
    /\ held = [v \in Version |-> <<>>]

(* push_row.  Rows pushed after a merge would be taken for merged ones.    *)
Push(v, row) ==
    /\ Len(rows["full"]) + Len(rows["delta"]) < MaxRows[kind]
    /\ ~Ahead(v)
    /\ rows' = [rows EXCEPT ![v] = Append(@, row)]
    /\ UNCHANGED <<kind, order, idx, held>>

(* concat: the columns only, the index is not touched.                     *)
Concat ==
    /\ Len(rows["full"]) + 2 * Len(rows["delta"]) <= MaxRows[kind]
    /\ ~Ahead("full")
    /\ rows["delta"] # <<>>
    /\ rows' = [rows EXCEPT !["full"] = @ \o rows["delta"]]
    /\ UNCHANGED <<kind, order, idx, held>>

Ensure(v) ==
    /\ MayExtend(v)
    /\ idx[v].seen # Len(rows[v])
    /\ idx' = [idx EXCEPT ![v] = Ensured(v)]
    /\ held' = [held EXCEPT ![v] = HeldAfter(v)]
    /\ UNCHANGED <<kind, order, rows>>

(* A join iterates over the values of a node.                              *)
Walk(v) ==
    /\ kind = "trie"
    /\ \E path \in DOMAIN idx[v].nodes :
          /\ CacheFilled(idx[v].nodes[path]) # idx[v].nodes[path]
          /\ idx' = [idx EXCEPT ![v].nodes[path] = CacheFilled(@)]
    /\ UNCHANGED <<kind, order, rows, held>>

(* MergeIndex: both indexes are ensured, then that of DELTA is merged.  A  *)
(* hash map that was never built has no arity to walk by.                  *)
MergeIndex ==
    LET full == Ensured("full")
        delta == Ensured("delta")
    IN  /\ MayExtend("full") /\ MayExtend("delta")
        /\ delta.size > 0
        /\ kind = "hashmap" => full.arity > 0
        /\ Len(HeldAfter("full")) + Len(rows["delta"]) <= MaxRows[kind]
        /\ idx' = [full |-> Merged(full, delta, full.size), delta |-> delta]
        /\ held' = [full |-> HeldAfter("full") \o rows["delta"], delta |-> rows["delta"]]
        /\ UNCHANGED <<kind, order, rows>>

(* clear: the columns and the index.                                       *)
Clear(v) ==
    /\ rows[v] # <<>>
    /\ rows' = [rows EXCEPT ![v] = <<>>]
    /\ idx' = [idx EXCEPT ![v] = Cleared(@)]
    /\ held' = [held EXCEPT ![v] = <<>>]
    /\ UNCHANGED <<kind, order>>

(* clear_all_indexes: the columns stay.                                    *)
ClearIndexes ==
    /\ \E v \in Version : idx[v].seen > 0
    /\ idx' = [v \in Version |-> Cleared(idx[v])]
    /\ held' = [v \in Version |-> <<>>]
    /\ UNCHANGED <<kind, order, rows>>

Next ==
    \/ \E v \in Version, row \in Rows[kind] : Push(v, row)
    \/ \E v \in Version : Ensure(v) \/ Walk(v) \/ Clear(v)
    \/ Concat \/ MergeIndex \/ ClearIndexes

Spec == Init /\ [][Next]_vars

-----------------------------------------------------------------------------
HeldKeys(v) == [n \in DOMAIN held[v] |-> KeyOf(held[v][n])]
Under(v, path) == {n \in DOMAIN held[v] : IsPrefix(path, HeldKeys(v)[n])}

Values == UNION {Range(row) : row \in Rows[kind]}
Paths == UNION {Inner(KeyOf(row)) \cup {KeyOf(row)} : row \in Rows[kind]}

(* A walk reaches the prefixes of the rows an index was given, and no      *)
(* others, and finds there the values that go on, one by one or all:       *)
(* whatever was built at once, added later, merged or walked before.       *)
LookupsExact ==
    \A v \in Version : \A path \in Paths :
        /\ path # <<>> => (Reaches(idx[v], path) <=> Under(v, path) # {})
        /\ Len(path) < Arity =>
              LET next == {HeldKeys(v)[n][Len(path) + 1] : n \in Under(v, path)}
              IN  /\ ValuesAt(idx[v], path) = next
                  /\ \A x \in Values :
                        Answers(idx[v], path, x) => (ContainsValue(idx[v], path, x) <=> x \in next)

(* The row ids in a leaf are places of its rows: of all of them in a trie, *)
(* of the first in the other kinds, which drop copies.  After a merge the  *)
(* latter count from the rows kept, so that the ids are right only if no   *)
(* copy was dropped.                                                       *)
RowIdsNameRows ==
    \A v \in Version : \A path \in Paths :
        Len(path) = Arity /\ Under(v, path) # {} =>
            LET ids == RowIds(idx[v], path)
                places == {n - 1 : n \in Under(v, path)}
            IN  IF kind = "trie" THEN ToSet(ids) = places /\ Len(ids) = Cardinality(places)
                ELSE ~Ahead(v) \/ IsInjective(held[v]) => ids = <<Min(places)>>

(* search returns the original block index, not the heap index: a value    *)
(* can only be in the block it names, the first that does not end below it.*)
BlockIsOriginal ==
    kind = "btree" => \A v \in Version : \A x \in Values :
        LET s == idx[v]
            b == BlockFound(s, x)
        IN  s.seps # <<>> /\ x <= Last(s.seps) =>
                /\ x <= s.seps[b + 1]
                /\ b > 0 => s.seps[b] < x
=============================================================================
