--------------------------- MODULE TemplateDevice ---------------------------
(***************************************************************************)
(* The template executor on the device: the queries of a program, one      *)
(* after the other, each a plan of instructions that is repeated until no  *)
(* canonical DELTA index has rows.  A database of the host is copied to    *)
(* the device and back for each query; a database resident on the device   *)
(* is worked on in place.                                                  *)
(*                                                                         *)
(* A program is [facts, queries], a query what Compiled makes of its rules *)
(* and the limit of its iterations: rules applied once have the limit 1.   *)
(***************************************************************************)
EXTENDS TemplatePlan, DeviceRelation

(***************************************************************************)
(* What a pipeline of operations finds in the indexes it is given.  The    *)
(* executors nest one operation in the other; here an operation maps the   *)
(* set of states reached so far to the states after it.  A state is        *)
(* [b, at]: the variables bound and, for each handle, the values it has    *)
(* descended by in its index.                                              *)
(*                                                                         *)
(* Threads, tiles and lanes share out these states; rows found by more     *)
(* than one of them are written more than once and the version they go to  *)
(* is a set when it is next sorted, so a pipeline's rows are a set here.   *)
(***************************************************************************)
(* The rows of an index under a handle, and the values it offers next.     *)
Under(rows, cols, path) == {row \in rows : \A k \in DOMAIN path : row[cols[k]] = path[k]}
Offered(rows, cols, path) == {row[cols[Len(path) + 1]] : row \in Under(rows, cols, path)}

(* Bind a variable and move the handles of the rest of the pipeline.       *)
Moves(rest, v) ==
    {m[2] : m \in {n \in UNION {op.moves : op \in {o \in ToSet(rest) : HasSources(o)}} : n[1] = v}}

Bind(e, rest, v, val) ==
    [b |-> (v :> val) @@ e.b,
     at |-> [h \in DOMAIN e.at |-> IF h \in Moves(rest, v) THEN Append(e.at[h], val) ELSE e.at[h]]]

BindAll(e, rest, vars, vals) ==
    FoldLeft(LAMBDA acc, k : Bind(acc, rest, vars[k], vals[k]), e, [k \in DOMAIN vars |-> k])

Source(op, k, e, src) ==
    [rows |-> src[op.handle + k - 1], cols |-> op.sources[k].index.cols,
     path |-> e.at[op.handle + k - 1]]

(* The values on which all sources of a join agree.                        *)
JoinValues(op, e, src) ==
    LET offered(k) == LET s == Source(op, k, e, src) IN Offered(s.rows, s.cols, s.path)
    IN  {val \in offered(1) : \A k \in DOMAIN op.sources : val \in offered(k)}

JoinStep(op, rest, e, src) == {Bind(e, rest, op.vars[1], val) : val \in JoinValues(op, e, src)}

(* A scan reads its variables from the front of the index.                 *)
ScanStep(op, rest, e, src) ==
    LET s == Source(op, 1, e, src)
    IN  {BindAll(e, rest, op.vars, [k \in DOMAIN op.vars |-> row[s.cols[k]]]) :
           row \in Under(s.rows, s.cols, s.path)}

(* A product takes a row of each source and binds the columns that follow  *)
(* the source's prefix.                                                    *)
ProductStep(op, rest, e, src) ==
    LET s(k) == Source(op, k, e, src)
        own(k, row) == LET p == Len(op.sources[k].prefix)
                       IN  [c \in 1..(Len(s(k).cols) - p) |-> row[s(k).cols[p + c]]]
        chosen == FoldLeft(LAMBDA acc, k :
                             {vals \o own(k, row) : vals \in acc, row \in Under(s(k).rows, s(k).cols, s(k).path)},
                           {<<>>}, [k \in DOMAIN op.sources |-> k])
    IN  {BindAll(e, rest, op.vars, vals) : vals \in chosen}

(* Aggregates and negations descend by the values of their prefix first.   *)
PrefixPath(op, e) == e.at[op.handle] \o ValuesOf(op.sources[1].prefix, e.b)

Fold(fold, vals) ==
    CASE fold = "count" -> Cardinality(vals)
      [] fold = "max"   -> IF vals = {} THEN 0 ELSE Max(vals)

AggregateValue(op, e, src) ==
    LET cols == op.sources[1].index.cols
    IN  Fold(op.fold, Offered(src[op.handle], cols, PrefixPath(op, e)))

Exists(op, e, src) == Under(src[op.handle], op.sources[1].index.cols, PrefixPath(op, e)) # {}

Step(op, rest, e, src) ==
    CASE op.kind = "join"    -> JoinStep(op, rest, e, src)
      [] op.kind = "scan"    -> ScanStep(op, rest, e, src)
      [] op.kind = "product" -> ProductStep(op, rest, e, src)
      [] op.kind = "agg"     -> {[e EXCEPT !.b = (op.var :> AggregateValue(op, e, src)) @@ @]}
      [] op.kind = "not"     -> IF Exists(op, e, src) THEN {} ELSE {e}
      [] op.kind = "let"     -> {[e EXCEPT !.b = (op.var :> op.val[ValuesOf(op.args, e.b)]) @@ @]}
      [] op.kind = "filter"  -> IF ValuesOf(op.args, e.b) \in op.pass THEN {e} ELSE {}
      [] op.kind = "emit"    -> {e}

(* The bindings a pipeline reaches its heads with; src gives the rows of   *)
(* each handle's index.                                                    *)
Found(ops, src) ==
    LET root == [b |-> <<>>, at |-> [h \in DOMAIN src |-> <<>>]]
        after(states, i) == UNION {Step(ops[i], SubSeq(ops, i + 1, Len(ops)), e, src) : e \in states}
    IN  {e.b : e \in FoldLeft(after, {root}, [i \in DOMAIN ops |-> i])}

Emitted(ops, src) ==
    {<<op.head.rel, HeadRow(op.head, b)>> : op \in {o \in ToSet(ops) : o.kind = "emit"},
                                           b \in Found(ops, src)}

-----------------------------------------------------------------------------
CONSTANT Programs

VARIABLES
    program,    \* the program being run
    place,      \* where the database is: "host", "copied" or "resident"
    query,      \* the query being executed
    iteration,  \* of its plan
    pc,         \* the instruction that comes next, 0 before the prologue
    host,       \* the facts of each relation on the host
    db          \* the versions of each relation on the device

vars == <<program, place, query, iteration, pc, host, db>>

Versions == {"full", "delta", "new"}

Plan == program.queries[query].device
Instruction == Plan.instructions[pc]
Done == query > Len(program.queries)
OnDevice == place # "host" /\ ~Done
At(do) == OnDevice /\ pc \in DOMAIN Plan.instructions /\ Instruction.do = do

-----------------------------------------------------------------------------
(* copy_host_to_device, and the columns the host gets back.                *)
CopyHostToDevice(facts) ==
    [rel \in DOMAIN facts |->
       [ver \in Versions |->
          IF ver = "full" THEN Columns(facts[rel], Cardinality(facts[rel])) ELSE NoColumns]]

Reflect(d) == [rel \in DOMAIN d |-> d[rel]["full"].cols]

Ensured(d, spec, build) ==
    [d EXCEPT ![spec.rel][spec.ver] = EnsureIndex(@, spec.cols, build)]

EnsuredAll(d, specs, build) == FoldLeft(LAMBDA acc, s : Ensured(acc, s, build), d, specs)

(* The indexes every instruction needs, DELTA's also on FULL.              *)
NeededSpecs_OwnVersion(instruction) ==
    CASE instruction.do = "rebuild"  -> <<instruction.index>>
      [] instruction.do = "pipeline" -> SourceSpecs(instruction.ops)
      [] OTHER -> <<>>

NeededSpecs(instruction) ==
    CASE instruction.do = "rebuild"  -> <<instruction.index>>
      [] instruction.do = "pipeline" ->
            LET specs == SourceSpecs(instruction.ops)
                delta == SelectSeq(specs, LAMBDA s : s.ver = "delta")
            IN  specs \o [k \in DOMAIN delta |-> InVersion(delta[k], "full")]
      [] OTHER -> <<>>

Prologue(d, plan) ==
    EnsuredAll(d, Concat([i \in DOMAIN plan.instructions |-> NeededSpecs(plan.instructions[i])]), TRUE)

(* In iteration 0 DELTA is FULL.                                           *)
ReadVersion(spec) == IF spec.ver = "delta" /\ iteration = 0 THEN "full" ELSE spec.ver
ReadSpec(spec) == InVersion(spec, ReadVersion(spec))
ReadSpecs(ops) == LET specs == SourceSpecs(ops) IN [k \in DOMAIN specs |-> ReadSpec(specs[k])]

IndexRows(d, spec) == Rows(d[spec.rel][spec.ver], spec.cols)

SourceRows(d, ops) ==
    LET specs == ReadSpecs(ops)
    IN  [h \in 0..(Len(specs) - 1) |-> IndexRows(d, specs[h + 1])]

(* The rows of all heads of a pipeline go to the relation of the last one. *)
OutRelation(ops) == ops[Len(ops)].head.rel
OutRows(d, ops) == {f[2] : f \in Emitted(ops, SourceRows(d, ops))}

DestinationSpecs(instruction) ==
    SelectSeq([k \in DOMAIN Plan.canonical |-> InVersion(Plan.canonical[k], "full")],
              LAMBDA s : s.rel \in ToSet(instruction.heads))

Executed(d, instruction) ==
    LET ops == instruction.ops
        opened == EnsuredAll(EnsuredAll(d, ReadSpecs(ops), FALSE), DestinationSpecs(instruction), FALSE)
        rows == OutRows(opened, ops)
    IN  IF SourceSpecs(ops) = <<>> THEN d
        ELSE [opened EXCEPT ![OutRelation(ops)]["new"] = AppendRows(@, rows, Cardinality(rows))]

(* Any index of the version with rows serves to build another from.        *)
RebuiltFromExisting(r, spec) ==
    LET full == {s \in DOMAIN r.idx : r.idx[s].rows # {}}
    IN  IF full = {} THEN Put(r, spec, NoRows) ELSE IndexFromIndex(r, CHOOSE s \in full : TRUE, spec)

DeltaComputed(r, spec) ==
    LET opened == EnsureIndex(r["full"], spec, FALSE)
        cleared == EnsureIndex(Clear(r["delta"]), spec, TRUE)
    IN  [r EXCEPT !["full"] = opened,
                  !["delta"] = Put(cleared, spec, SetDifference(r["new"].idx[spec], opened.idx[spec])),
                  !["new"] = Clear(@)]

MergedIndex_OpensOnly(r, spec) == [r EXCEPT !["full"] = EnsureIndex(@, spec, FALSE)]

MergedIndex(r, spec) ==
    LET opened == EnsureIndex(r["full"], spec, FALSE)
    IN  [r EXCEPT !["full"] = Put(opened, spec, MergeInto(opened.idx[spec], r["delta"].idx[spec]))]

DeltaRows(d, plan) ==
    UNION {Rows(d[c.rel]["delta"], c.cols) : c \in ToSet(plan.canonical)}

Reconstructed(d, plan) ==
    FoldLeft(LAMBDA acc, c : IF HasIndex(acc[c.rel]["full"], c.cols)
                             THEN [acc EXCEPT ![c.rel]["full"] = Reconstruct(@, c.cols)] ELSE acc,
             d, plan.canonical)

-----------------------------------------------------------------------------
(* A query starts: the database is copied or is there already.             *)
Prepare ==
    /\ OnDevice
    /\ pc = 0
    /\ LET loaded == IF place = "resident" /\ query > 1 THEN db ELSE CopyHostToDevice(host)
       IN  db' = Prologue(loaded, Plan)
    /\ pc' = 1
    /\ UNCHANGED <<program, place, query, iteration, host>>

Execute(do, d) ==
    /\ At(do)
    /\ db' = d
    /\ pc' = pc + 1
    /\ UNCHANGED <<program, place, query, iteration, host>>

ExecutePipeline == At("pipeline") /\ Execute("pipeline", Executed(db, Instruction))

RebuildIndex ==
    /\ At("rebuild")
    /\ LET spec == Instruction.index
           with(r) == CASE spec.ver = "new"   -> TakeOwnership(r, spec.cols)
                        [] spec.ver = "full"  -> EnsureIndex(r, spec.cols, FALSE)
                        [] spec.ver = "delta" -> RebuiltFromExisting(r, spec.cols)
       IN  Execute("rebuild", [db EXCEPT ![spec.rel][spec.ver] = with(@)])

ClearRelation ==
    At("clear") /\ Execute("clear", [db EXCEPT ![Instruction.rel][Instruction.ver] = Clear(@)])

(* The size decides nothing: the instructions that follow are executed.    *)
CheckSize ==
    /\ At("check")
    /\ LET next == CHOOSE i \in pc..Len(Plan.instructions) :
                      /\ Plan.instructions[i].do \in {"delta", "merge"}
                      /\ Plan.instructions[i].index.rel = Instruction.rel
                      /\ \A j \in pc..(i - 1) : Plan.instructions[j].do \in {"delta", "merge"} =>
                            Plan.instructions[j].index.rel # Instruction.rel
       IN  Execute("check",
               Ensured(db, InVersion(Plan.instructions[next].index, Instruction.ver), TRUE))

ComputeDelta ==
    /\ At("delta")
    /\ Execute("delta", [db EXCEPT ![Instruction.rel] = DeltaComputed(@, Instruction.index.cols)])

MergeIndex ==
    /\ At("merge")
    /\ Execute("merge", [db EXCEPT ![Instruction.index.rel] = MergedIndex(@, Instruction.index.cols)])

PlanDone == OnDevice /\ pc > Len(Plan.instructions)
Limit == program.queries[query].limit
Stops == iteration + 1 = Limit \/ DeltaRows(db, Plan) = {}

NextIteration ==
    /\ PlanDone
    /\ ~Stops
    /\ iteration' = iteration + 1
    /\ pc' = 1
    /\ UNCHANGED <<program, place, query, host, db>>

(* The columns are written from the indexes; the host gets them after each *)
(* query, or at the end from a database that stayed on the device.         *)
Finish ==
    /\ PlanDone
    /\ Stops
    /\ db' = Reconstructed(db, Plan)
    /\ host' = IF place = "resident" /\ query < Len(program.queries) THEN host ELSE Reflect(db')
    /\ query' = query + 1
    /\ iteration' = 0
    /\ pc' = 0
    /\ UNCHANGED <<program, place>>

(* A rule with two heads would write all rows to the last one.             *)
SingleHeads(p) == \A q \in ToSet(p.queries) : \A r \in ToSet(q.rules) : Len(r.heads) = 1

Init ==
    /\ program \in {p \in Programs : SingleHeads(p)}
    /\ place \in {"copied", "resident"}
    /\ query = 1 /\ iteration = 0 /\ pc = 0
    /\ host = program.facts
    /\ db = CopyHostToDevice(program.facts)

Next ==
    \/ Prepare
    \/ ExecutePipeline \/ RebuildIndex \/ ClearRelation \/ CheckSize \/ ComputeDelta \/ MergeIndex
    \/ NextIteration \/ Finish
=============================================================================
