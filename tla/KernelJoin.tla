----------------------------- MODULE KernelJoin -----------------------------
(***************************************************************************)
(* What the generated kernel of a pipeline does, thread by thread.  The    *)
(* root operation deals rows, keys or combinations of rows out to warps;   *)
(* a join inside is done by all lanes of the warp alike, a product inside  *)
(* is dealt out to the lanes; outside a product lane 0 alone emits.  A     *)
(* thread carries a list of bindings from one operation to the next.       *)
(*                                                                         *)
(* A handle is the range of rows of a sorted index whose first columns     *)
(* have given values: here the set of those rows.                          *)
(***************************************************************************)
EXTENDS JoinPlan

CONSTANTS
    NumWarps,   \* warps of the launch
    GroupSize,  \* lanes of a warp; also the size above which a product is tiled
    TileSize    \* kCartTileSize

ASSUME LaunchOK == NumWarps > 0 /\ GroupSize > 0 /\ TileSize > 0

Warp == 0 .. NumWarps - 1
Lane == 0 .. GroupSize - 1
Thread == Warp \X Lane

(* for (i = from; i < n; i += step)                                        *)
Strided(n, from, step) ==
    IF from >= n THEN <<>>
    ELSE [k \in 1 .. (n - from - 1) \div step + 1 |-> from + (k - 1) * step]

Product(s) == FoldLeft(LAMBDA a, x : a * x, 1, s)

Narrowed(rows, cols, vals) ==
    {row \in rows : \A k \in DOMAIN vals : row[cols[k]] = vals[k]}

Handle(s, rows, b) == Narrowed(rows[s.clause], s.cols, ValuesOf(s.prefix, b))

(* Distinct values of the first column a handle has not yet fixed.         *)
Keys(s, rows, b) == {row[s.cols[Len(s.prefix) + 1]] : row \in Handle(s, rows, b)}

InAll(sources, rows, b, v) == \A k \in DOMAIN sources : v \in Keys(sources[k], rows, b)

(* How a position of a product is split: two sources row-major over the    *)
(* longer one, more of them last source first.                             *)
Decompose(flat, degs) ==
    IF Len(degs) = 2 /\ degs[2] < degs[1]
    THEN <<flat % degs[1], flat \div degs[1]>>
    ELSE [k \in DOMAIN degs |->
             (flat \div Product(SubSeq(degs, k + 1, Len(degs)))) % degs[k]]

(* Positions of a tiled product that one lane visits, as pairs of rows.    *)
Tiles(deg) == [k \in 1 .. (deg + TileSize - 1) \div TileSize |-> (k - 1) * TileSize]

TiledPairs(degs, lane) ==
    LET Size(base, deg) == Min({TileSize, deg - base})
        OfTile(b0, b1) ==
            LET flats == Strided(Size(b0, degs[1]) * Size(b1, degs[2]), lane, GroupSize)
            IN  [k \in DOMAIN flats |-> <<b0 + (flats[k] \div Size(b1, degs[2])),
                                          b1 + (flats[k] % Size(b1, degs[2]))>>]
        t0 == Tiles(degs[1])
        t1 == Tiles(degs[2])
    IN  FlattenSeq([i \in DOMAIN t0 |-> FlattenSeq([j \in DOMAIN t1 |-> OfTile(t0[i], t1[j])])])

(* The bindings a combination of rows adds: column at(n) of variable n.    *)
Bindings(sources, hs, idx, b, At(_, _)) ==
    FoldLeft(LAMBDA acc, k :
                 [n \in ToSet(sources[k].gives) |->
                     hs[k][idx[k] + 1][sources[k].cols[At(sources[k], IndexOf(sources[k].gives, n))]]] @@ acc,
             b, [k \in DOMAIN sources |-> k])

Handles(sources, rows, b) == [k \in DOMAIN sources |-> Listed(Handle(sources[k], rows, b))]
Degrees(hs) == [k \in DOMAIN hs |-> Len(hs[k])]

AfterPrefix(s, n) == Len(s.prefix) + n
FirstColumn(s, n) == 1

-----------------------------------------------------------------------------
HasNestedCart(ops) == \E k \in 2 .. Len(ops) : ops[k].op = "cart"
HasRootCart(ops) == ops[1].op = "cart"

(* A product of two sources that give one variable each is tiled when the  *)
(* rows are written, not when they are counted, unless another rule of the *)
(* group writes to the same relation.                                      *)
IsTiled(ops, shared) ==
    ~shared /\ \E k \in 2 .. Len(ops) :
        /\ ops[k].op = "cart"
        /\ Len(ops[k].sources) = 2
        /\ \A s \in ToSet(ops[k].sources) : Len(s.gives) = 1

(* _supported_pipeline, and what the lowering of an operation refuses.     *)
Supported(ops, shared) ==
    /\ ops # <<>>
    /\ LET middle == SelectSeq(Tail(ops), LAMBDA o : o.op # "insert")
           TwoSources(o) == o.op = "join" => Len(o.sources) >= 2
       IN  CASE ops[1].op = "scan" -> \A o \in ToSet(middle) : o.op # "join"
             [] ops[1].op = "join" -> TwoSources(ops[1]) /\ \A o \in ToSet(middle) : TwoSources(o)
             [] ops[1].op = "cart" -> middle = <<>>
             [] OTHER              -> FALSE
    /\ \A k \in DOMAIN ops : ops[k].op = "not" /\ ops[k].consts # <<>> =>
          HasNestedCart(SubSeq(ops, 1, k)) /\ ~IsTiled(ops, shared)

(* The variables an operation reads, and those it declares: reading one    *)
(* that is not declared does not compile.                                  *)
Reads(rule, o) ==
    CASE o.op \in {"join", "cart", "scan"} -> UNION {ToSet(s.prefix) : s \in ToSet(o.sources)}
      [] o.op = "not"    -> ToSet(o.prefix)
      [] o.op = "insert" -> ToSet(Vars(rule.heads[o.head].args))
      [] OTHER           -> ToSet(rule.body[o.clause].args)

Declares(rule, o) ==
    CASE o.op = "let" -> {rule.body[o.clause].var}
      [] o.op \in {"join", "cart", "scan"} -> UNION {ToSet(s.gives) : s \in ToSet(o.sources)}
      [] OTHER -> {}

WellScoped(rule, ops) ==
    \A k \in DOMAIN ops :
        Reads(rule, ops[k]) \subseteq UNION {Declares(rule, ops[m]) : m \in 1 .. k - 1}

-----------------------------------------------------------------------------
(* The root operation: the bindings one warp starts with.                  *)
RootScan(s, rows, warp) ==
    LET h == Listed(rows[s.clause])
        mine == Strided(Len(h), warp, NumWarps)
    IN  [k \in DOMAIN mine |->
            [v \in ToSet(s.gives) |-> h[mine[k] + 1][s.cols[IndexOf(s.gives, v)]]]]

RootJoin(o, rows, warp) ==
    LET keys == Ascending(Keys(o.sources[1], rows, <<>>))
        mine == Strided(Len(keys), warp, NumWarps)
        hits == SelectSeq([k \in DOMAIN mine |-> keys[mine[k] + 1]],
                          LAMBDA v : InAll(o.sources, rows, <<>>, v))
    IN  [k \in DOMAIN hits |-> o.var :> hits[k]]

(* Every variable is read with get_value_at of a root handle, which is the *)
(* first column of the index.                                              *)
RootCart(o, rows, warp) ==
    LET hs == Handles(o.sources, rows, <<>>)
        degs == Degrees(hs)
        mine == Strided(Product(degs), warp, NumWarps)
        Split(flat) == IF Len(degs) = 2 THEN <<flat \div degs[2], flat % degs[2]>>
                       ELSE Decompose(flat, degs)
    IN  [k \in DOMAIN mine |-> Bindings(o.sources, hs, Split(mine[k]), <<>>, FirstColumn)]

Root(o, rows, warp) ==
    CASE o.op = "scan" -> RootScan(o.sources[1], rows, warp)
      [] o.op = "join" -> RootJoin(o, rows, warp)
      [] o.op = "cart" -> RootCart(o, rows, warp)

(* An operation inside: the bindings one lane goes on with from binding b. *)
InnerJoin(o, rows, b) ==
    LET keys == Ascending({v \in Keys(o.sources[1], rows, b) : InAll(o.sources, rows, b, v)})
    IN  [k \in DOMAIN keys |-> (o.var :> keys[k]) @@ b]

InnerCart(o, rows, b, lane, tiled) ==
    LET hs == Handles(o.sources, rows, b)
        degs == Degrees(hs)
        flats == Strided(Product(degs), lane, GroupSize)
        idx == IF tiled /\ Product(degs) > GroupSize THEN TiledPairs(degs, lane)
               ELSE [k \in DOMAIN flats |-> Decompose(flats[k], degs)]
    IN  [k \in DOMAIN idx |-> Bindings(o.sources, hs, idx[k], b, AfterPrefix)]

Absent(o, rows, b) == Narrowed(rows[o.clause], o.cols, o.consts \o ValuesOf(o.prefix, b)) = {}

Inner(body, o, rows, b, lane, tiled) ==
    CASE o.op = "join"   -> InnerJoin(o, rows, b)
      [] o.op = "cart"   -> InnerCart(o, rows, b, lane, tiled)
      [] o.op = "not"    -> IF Absent(o, rows, b) THEN <<b>> ELSE <<>>
      [] o.op = "filter" -> IF Holds(body[o.clause], {}, b) THEN <<b>> ELSE <<>>
      [] o.op = "let"    -> <<(body[o.clause].var :> body[o.clause].val[ValuesOf(body[o.clause].args, b)]) @@ b>>
      [] o.op = "insert" -> <<b>>

Visited(body, ops, rows, thread, tiled) ==
    FoldLeft(LAMBDA envs, o : FlattenSeq([k \in DOMAIN envs |->
                                  Inner(body, o, rows, envs[k], thread[2], tiled)]),
             Root(ops[1], rows, thread[1]), Tail(ops))

GuardedByLane_Fault(ops, thread, visited) == visited

(* Outside a product every lane arrives at the same bindings.              *)
GuardedByLane(ops, thread, visited) ==
    IF HasRootCart(ops) \/ HasNestedCart(ops) \/ thread[2] = 0 THEN visited ELSE <<>>

Written(body, ops, rows, thread, shared) ==
    GuardedByLane(ops, thread, Visited(body, ops, rows, thread, IsTiled(ops, shared)))

ByProduct_Fault(ops) == HasNestedCart(ops)

(***************************************************************************)
(* The counting kernel.  A nested product with nothing but inserts behind  *)
(* is not enumerated: each lane adds its share of the product of degrees.  *)
(***************************************************************************)
ByProduct(ops) ==
    \E k \in 2 .. Len(ops) : ops[k].op = "cart" /\ \A m \in k + 1 .. Len(ops) : ops[m].op = "insert"

LaneShare(total, lane) ==
    IF lane < total THEN (total - lane + GroupSize - 1) \div GroupSize ELSE 0

Counted(body, ops, rows, thread) ==
    LET at == SelectInSeq(ops, LAMBDA o : o.op = "cart")
        Share(b) == LaneShare(Product(Degrees(Handles(ops[at].sources, rows, b))), thread[2])
        envs == Visited(body, SubSeq(ops, 1, at - 1), rows, thread, FALSE)
    IN  IF ByProduct(ops)
        THEN FoldLeft(LAMBDA acc, b : acc + Share(b), 0, envs)
        ELSE Len(GuardedByLane(ops, thread, Visited(body, ops, rows, thread, FALSE)))
=============================================================================
