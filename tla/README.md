# Verification of the srdatalog compiler, its generated GPU runner and its runtime

`srdatalog` compiles a Datalog program, written in Python, to a C++/CUDA shared
object and calls that object through a small C interface. This directory holds
TLA+ specifications of that system, TLC configurations that check them, and
proofs checked by TLAPS. Paths below are relative to the repository; `GD` stands
for `src/srdatalog/runtime/generalized_datalog`, `IR` for `src/srdatalog/ir`.

## 1. The system

A program goes through these stages.

1. **Front end** (`dsl.py`, `IR/hir/rule_rewrite.py`): rules, relations; wildcards,
   constants and optional semi-joins are rewritten.
2. **HIR passes** (`IR/hir/`): `stratify` partitions the rules into strata,
   `semi_naive` makes one variant per rule and delta clause, `plan` orders clauses
   and variables, `split` cuts rules in two around a temporary relation, `index`
   chooses which indexes each stratum needs.
3. **MIR** (`IR/hir/lower.py`, `IR/mir/`): each stratum becomes a list of
   instructions: pipelines (joins that append to NEW), maintenance of each derived
   relation, reconstruction of columns.
4. **Code generation** (`IR/codegen/cuda/`): C++ for each step (`orchestrator.py`),
   for each pipeline (`complete_runner.py`, `runner.py`, `lowerings.py`), for the C
   interface (`main_file.py`).
5. **Runtime** (`GD/`, `GD/gpu/`): relations with columns and sorted indexes, the
   helpers the instructions call (`gpu_mir_helpers.h`), searches and intersections
   the kernels are made of, the kernels' work sources and output contexts.

Beside this, `GD/` holds an older **template library**: rules are C++ types, its own
compiler turns them into plans, and two executors (host and device) run the plans.
It shares relations, indexes and helpers with the generated runner.

A run happens in one process and one host thread; the concurrency is between
kernels on several streams and between the threads of a kernel. State outlives a
run in two places: the host database and the device database of the last run.

### Inventory

| Component | State | Operations | What is hard | What makes it correct |
|---|---|---|---|---|
| C interface (`main_file.py`) | host and device database | load, run, size, shutdown | runs that fail half-way, repeated runs, limits | a run starts from what was loaded and ends in the perfect model, or is cut short or fails |
| Rule rewriting (`hir/rule_rewrite.py`) | cache of generated names | three passes | semi-joins drop clauses and columns | same meaning |
| Stratification (`hir/stratify.py`) | search stack, strata | one pass | order of components, several heads, negation | the runner's assumption about strata |
| Semi-naive variants (`hir/semi_naive.py`) | none | one pass | a derivation found by no variant | nothing is skipped |
| Index selection (`hir/index.py`) | none | one pass | an index read but not kept | every read finds a current index |
| Join planner and MIR passes (`hir/plan.py`, `hir/lower.py`, `mir/passes.py`) | none | plan, lower, reorder | column order against variable order | every descent is along the front of an index |
| Splits (`hir/split.py`) | temporary relations | rewrites | order around the temporary | same meaning |
| Step generation (`orchestrator.py`, `hir/lower.py`) | instruction lists, loop counter | loop, step, parallel group | order of instructions, convergence test | NEW, DELTA and FULL consistent |
| Kernel generation (`lowerings.py`, `iir_cf.py`) | bindings and handles per thread | scan, join, product, negation, insert | which lanes carry which binding | each match once, counted as written |
| Device relation (`GD/relation_col.*`) | columns, row count, indexes with rows processed | ensure, build, clear, append, reconstruct | indexes go stale, staleness is a comparison of counts | a clean index is current |
| Sorted array and two-level index (`GD/gpu/device_*_index.*`) | encoded rows, root values, head and full segment | build, merge, difference, compact | merge does not deduplicate; readers of two segments | between passes a relation is a set of rows |
| Searches and intersection (`GD/gpu/search.h`, `GD/eytzinger.h`, `GD/leapfrog_view.h`) | bounds, positions | seek, intersect | off-by-one at block, window and lane borders | exact bounds, each common value once |
| Parallel groups (`orchestrator.py`, `runner.py`) | count buffers, offsets, columns of NEW | count, scan, resize, write | two kernels must agree; shared buffers | each row is written by one thread |
| Work sources (`GD/gpu/ws_infrastructure.h`) | queue, board, cursors | donate, steal, grab | slots reserved before they are filled | every row processed once, ends |
| Output contexts (`GD/gpu/output_context.h`, `runner.py`, `complete_runner.py`) | counters, buffers, hash table | claim, flush, overflow, insert | overflow after partial output, racing inserts | every match delivered once |
| Lattice relations (`GD/gpu/*lattice*`) | annotated rows | lattice merge | rows come back improved | least fixpoint, ends |
| Template executor (`GD/mir_*.h`, `GD/gpu/executor*`) | plan, database, indexes | compile, optimise, execute | handles, secondary indexes, iteration 0 | the least model |
| Host indexes (`GD/hashtrie.*`, `GD/hashmap.h`, `GD/sorted_array_index.*`, `GD/eytzinger.h`) | nodes, caches, separators, row ids | build, merge, walk, clear | caches and row ids after a merge | walks find the rows, ids name them |
| Build cache and loader, MPI I/O, CLI, visualisation | files | | outside the program's logic | |

`PROJECT.json` has every component with its status, and the hazards: what can go
wrong, at its line, with the properties that would show it.

## 2. Modules

**The runner, from the caller down to the instruction.**

| Module | What it models |
|---|---|
| `DatalogProgram` | A compiled program as constants: relations, rules, strata, ground instances, files; `ProgramOK` and `Stratified` are its assumptions; least extensions and perfect models |
| `StratifiedDatalog` | Abstract: what the C interface promises its caller |
| `StratifiedDatalog_proofs` | Theorem: that promise ends in the perfect model |
| `SemiNaive` | The generated runner on sets of facts: variants, versions, loop, limits, failures, the C calls |
| `SemiNaive_proofs` | Theorems about `SemiNaive`, and that it implements `StratifiedDatalog` |
| `DeviceRelation` | A relation on the device: columns, row count, indexes, and what each runtime operation does to them |
| `IndexedRunner` | The runner instruction by instruction, with index selection and stale indexes; implements `SemiNaive` |
| `IndexedRunner_proofs` | Theorems about it: every read is current, and it implements `SemiNaive` |
| `OutputBuffers` | Inside a parallel group: counts, scan, offsets, concurrent writes to NEW |
| `OutputBuffers_proofs` | Theorems about it: the counting and the writing kernels agree |
| `Stratify` | The stratifier, Tarjan's search included; its result is compared with the assumption on strata |
| `Stratify_proofs` | Theorems about it: the search is correct, and the result is what the runner assumes |

**One rule through the compiler.**

| Module | What it models |
|---|---|
| `Rules` | Terms, clauses, rules, and what they mean |
| `RuleRewrite` | Wildcards, constants, semi-joins |
| `JoinPlan` | Clause and variable order, access patterns, lowering to a pipeline, pipeline passes |
| `KernelJoin` | The count and the write kernel of a pipeline, warp by warp and lane by lane |
| `Compiler` | All of these in their order, from a program to the rows two kernels write |

**The runtime library.**

| Module | What it models |
|---|---|
| `RelationIndexes` | The arrays of a sorted index and every operation on them, the two-level index, and a relation with indexes of either kind through several strata; implements `IndexContract` |
| `IndexContract` | Abstract: a relation is a set; a pass adds its batch and calls fresh what was not there |
| `KeySearch` | Every lower and upper bound search, one narrowing at a time |
| `LeapfrogJoin` | Intersection of sorted spans built on them, device and host |
| `LeapfrogJoin_proofs` | Proofs about both |
| `KernelMemory` | What the warps of a kernel share: where they get rows from, how they put tuples out |
| `KernelRun` | The warps of one launch, and the host between two launches |
| `KernelRun_proofs` | Theorems about it: no row is lost or handed out twice, no row of NEW is written over |
| `KernelDelivery_proofs` | Theorem about it: the kernels deliver every tuple, once |
| `LatticeFixpoint` | Reduction by key, in-place probing merge, maintenance, convergence; implements `LatticeStore` |
| `LatticeStore` | Abstract: a key has one value, candidates are joined to it |

**The template library.**

| Module | What it models |
|---|---|
| `TemplatePlan` | Rules with a variable order to plans; the device's optimiser |
| `TemplateDevice` | What a pipeline of operations finds in the indexes it is given; the executor of the device, copied to or resident |
| `TemplateExecutor` | The host's executor, both sides, and what a program should compute |
| `HostIndexes` | Hash trie, hash map, sorted array and B-tree of a host relation |

`MC*` modules hold the programs, inputs and bounds for TLC.

    Stratify --(Stratified)--> DatalogProgram
    Compiler --(Execute)-----\
    OutputBuffers --(Execute)--> IndexedRunner --> SemiNaive --> StratifiedDatalog
    KernelMemory -> KernelRun --------/        |
                              DeviceRelation <-- RelationIndexes --> IndexContract
    KeySearch --> LeapfrogJoin --(join of a handle)--> KernelJoin
    LatticeFixpoint (uses DeviceRelation) --> LatticeStore
    TemplatePlan -> TemplateDevice -> TemplateExecutor

An arrow without a label between modules of a pair detailed/abstract is a checked
refinement. `IndexedRunner` takes a pipeline as one action (`Execute`) that adds the
matches of its variant to NEW. Three modules show why it may: `Compiler` that
the kernels of a variant find each match once, `OutputBuffers` and `KernelRun`
that what the threads find is what NEW gets.

A definition named `D_Fault`, or `D_` and what is wrong in it (`Variants_FirstClauseOnly`), is definition `D` with a
plausible mistake. Nothing uses it; put in the place of `D` it must make a property
fail, which is how the properties are shown to say something.

### Correspondence with the code

`SemiNaive`. `host` is `g_host_db`; `full`, `delta`, `newt` are the three versions
of all relations of `g_device_db`; `stratum` is the step in `run()`; `iter` and
`maxIter` are the loop's; `todo` holds what is left of the current iteration. A
generated loop body has a fixed order of pipelines and of maintenance; the model
runs them in any order, so its results do not depend on alphabetical order or on
streams. `Maintain` is the whole block rebuild, clear delta, compute delta, clear
new, merge. `Converge` and `CutOff` are the two ways out of the loop; the code does
not tell its caller which one it was, so `exact` is a history variable.

`IndexedRunner`. `code` is the set of MIR instructions still to run, each with its place
in the generated code (`at`, block by block), produced by operators translated from `index.py`
and `lower.py`; each instruction is an action, enabled when no other comes before it (`Due`),
that calls the operations of `DeviceRelation`. `FullFacts`, `DeltaFacts`, `NewFacts` and
`RunTodo` say what sets of tuples the columns and indexes stand for: they are the refinement
mapping to `SemiNaive`. Canonical indexes, required
indexes, which indexes are merged in a loop and which are built before it, the
redirect of DELTA to FULL in iteration 0, and the forced rebuild for negations are
as in the code. An index is a column order; its content is the set of facts it
holds together with the row count it was built from (`rows_processed`).

`OutputBuffers`. `counts` are the `thread_counts` buffers, `old_size` the offsets in
`LaunchParams`, `rows` the columns of NEW. Threads run in any order. A row is the
match it stands for, `Junk` until written. A grid has as many threads as blocks in
the code; the number of slices of a block-group kernel is its grid. A pipeline's own
buffer starts with zeros, a shared one with `Garbage`, what the memory held; the threads of
a product over an empty relation return before they store a count (`ReturnsEarly`).

`Stratify`. `index`, `lowlink`, `stack` are the code's; `frames` is the Python call
stack of `strongconnect`. Merging, splitting and fusing are loops, one turn per action;
`next` is the loop's variable.

`Compiler`. `phase` walks through `rewrite_wildcards`, `rewrite_constants`,
`rewrite_head_constants` and the semi-join pass on the whole program, then through
`plan`, `lower` and the pipeline passes for one variant, then through the two kernels.
A handle of the kernel is the set of rows in its range. `counts` and `written` are
per thread, so that a wrong lane guard, a wrong stride or a wrong tile shows.

`RelationIndexes`. An action is one maintenance block as the generated step runs
it: rebuild NEW, clear DELTA, difference, clear NEW, merge (and compaction, for a
two-level index). Rows are sequences in index order; `roots` are
`root_unique_values`, `seen` is `rows_processed`. The library algorithms (sort,
unique, merge, set operations) are taken at their word; the code's own probing
difference and dual difference are loops.

`KeySearch`. `lo`, `hi` are the bounds of the loop; one action is one turn of a
narrowing loop, one vote of the lanes, one scan or one jump to a block. `how` is the
function. `LeapfrogJoin` adds `pos`, the positions of the sources, and calls the
searches for whoever is behind the largest value.

`KernelRun`. An action of a warp is one step that others can observe: a grab, a
reservation in the queue, the filling of the slot and its flag, the counting of a slot of the board (`Announce`) and
the setting of its range (`Begin`), a claim of output positions,
a probe of the hash table, one row written. The host's actions are the scan between the
passes, the look at the overflow flag and the second attempt. `Generated` are the kernels the
generator makes. `LibraryOnly` are the queue, the board and the fan-out queue of the runtime library, whose
drivers `src/` does not hold (12 below): what a warp does there between two calls is the least
that the calls ask for, and is marked external in `PROJECT.json`. It is an obligation on a driver, not a claim about one. With the board that is to
read a slot only when `publish` has returned it (`IsSet`), as `count` is raised first. With the queue a warp may
leave as soon as it has seen head and tail meet; the driver in the tests' expected outputs also
waits until no warp is in its own share, so that it leaves later and the model has its behaviours.

`LatticeFixpoint`. One action per pipeline, reduction, probing thread, insertion of
new keys and maintenance of a further index. `LatticeStore` has the whole merge as
one step: the refinement shows that nobody can tell.

`TemplateDevice`, `TemplateExecutor`. `pc` is the instruction of the plan, `iteration` the
turn of the loop. Plans are computed by `TemplatePlan` from the rules as `mir_compiler.h`
and `mir_gpu.h` do. `HostIndexes`: `idx[v]` is the index of version `v`; the trie's nodes
are named by their paths, with their `keys_cache`.

## 3. Runs

| Run | Shows |
|---|---|
| `semi_naive` | On a program with mutual recursion, a rule with two heads and negation: nothing is skipped, completed strata stay closed, DELTA is always new, a complete run returns the perfect model (computed separately, by naive evaluation), every run returns, and the runner implements `StratifiedDatalog` |
| `indexed` | Eight strata, a mutual recursion that keeps two indexes among them, read the same relations through different indexes: every pipeline reads, for its clauses and for its negated clauses, exactly the facts of the version it stands for, an index that looks current is, columns are complete at the end, and `SemiNaive` is implemented |
| `output_buffers` | Five pipelines that write to the same relations, with shared buffers, two heads, a block group and a count-only rule: each row of the grown columns is reserved by exactly one thread, and NEW ends with one row per match |
| `stratify` | All programs of three rules over three relations: components are correct and bottom-up, rules are partitioned, and of the supported programs the runner's assumption holds of the result |
| `compiler` | Thirty-two programs: rewriting keeps the meaning, every descent is along the front of its index, the kernels write each match of the body once and where they counted it, and only what the code names is refused |
| `indexes` | One relation with sorted or two-level indexes through fixpoints, simple strata and later readers: indexes hold the same rows, no row is there twice, and a pass adds its batch and calls fresh what is new (`IndexContract`) |
| `leapfrog` | Every search returns the exact bound; the intersection meets every common value once, at its first position in every source, and ends |
| `kernel_run` | The kernels the generator makes, counted, speculative and deduplicating, and warps that use the library's queue, board and fan-out queue as these ask for: nothing lost, nothing repeated, nothing written twice, and every launch ends |
| `lattice` | Fixpoints over intervals and over ranked pairs: the least fixpoint, reached by itself; the merge by concurrent probing threads implements `LatticeStore` |
| `lattice_stale` | A disagreement between the code and what it says of itself, see below |
| `template` | Programs of the template library on the host, copied to and resident on the device: each pipeline finds exactly what its rule means, from indexes that are up to date, and the result is the least model |
| `host_indexes` | Four host indexes, built at once or bit by bit, merged, walked and cleared in any order: walks find exactly the rows held, row ids name them |

### Bounds

* `semi_naive`: constants `Node`, `Files`, `MaxIters`. Three nodes let a path go
  through an intermediate node and a cycle close; the files hold facts that
  together, but not alone, complete a cycle, so repeated loads and runs matter.
  `MaxIters` has a limit that cuts every fixpoint, one that cuts some and one that
  cuts none. `iter` is bounded by `MaxIters`.
* `indexed`: as above with four nodes; one rule of the mutual recursion negates a relation through an index
  that an earlier fixpoint has left behind and whose rebuild the pipeline forces. `MaxRows` bounds the rows loaded into one relation, duplicates
  included, which is what lets row counts differ from the number of facts.
* `output_buffers`: `MinBlocks` (the least grid, `num_sms * 8` in the code) is 2;
  `Sizes` lists for each pipeline how many keys and matches it may meet: none, one
  thread, all threads of the least grid, more than that, threads with several
  matches and threads without. Two rounds, with and without rows in NEW before.
* `stratify`: three relations suffice for a component between two others, for
  components merged across a third, and for fusing three strata. A body reads up
  to two relations or negates one. That makes 74088 programs, supported or not.
* `compiler`: two warps of two lanes and tiles of two cover the first, a middle and
  the last turn of every strided loop, products smaller and larger than a tile, and
  lanes without work. The three values of a column let keys match, not match and
  match several times.
* `indexes`: four rows over two columns; two column orders; batches of two rows, with
  repetitions. `SearchRatio` (8 in the code) and `CompactRatio` (10) are 1, so that
  both difference algorithms and both sides of a compaction occur with few rows.
* `leapfrog`: spans of up to five values from 1..3, copies included. Groups of three
  lanes, windows of two and blocks of one are below the length of the longest span,
  so that every loop of a search turns more than once; `Sentinel` is larger than every value.
* `kernel_run`: two warps; a queue and a board of capacity one, so that a full one
  occurs; grabs and buffers of two, so that a last short piece occurs; a table of two
  slots whose tuples all hash to the first; speculative capacities below, at and
  above what is found; fan-out of up to three rows of three flat rows each, in chunks of two and one, which just fill the queue.
* `lattice`: bounds up to 2; two rows are updated by probing threads in every order.
* `template`: values 0..3, with closures of three steps; queries with limit one and
  without.
* `host_indexes`: three rows, `MaxRows` per kind, blocks of one entry (64 in the code),
  so that every entry begins a block and a first column of three values has a tree of
  separators with three places. Order `<<2, 1>>` is not the order of the columns.

### Fairness

`FairSpec` of `SemiNaive` is weak fairness of the steps of a run. `srdatalog_run` is
one synchronous call on one host thread that never waits for another thread of its
own: once entered, its next step is executed. Nothing is assumed of the caller, who
may never load or run again. `LatticeFixpoint` and `LeapfrogJoin` assume the same of
the loop and the search they model. `KernelRun` assumes it of every warp by itself: a
grid is a fixed number of blocks per multiprocessor, so that all its warps are
resident, and a resident warp makes progress whatever the others do. No warp is
assumed to run before another. The other modules have safety properties only; TLC's
deadlock check shows that a group, a search or a pass cannot get stuck. It is off
in `indexes` and `template`, where the last stratum and the last query end the behaviour.

### Preconditions of the passing runs

* `indexed` (`IndexedSupported`): no relation is both loaded from a file and the head of a
  rule, and none is computed by a stratum that comes after a fixpoint that computes it.
  The stratifier puts the rules of a component that do not recurse before its fixpoint, so
  the second holds of what it delivers.
  `SemiNaive` does not need this: on sets of facts it holds for such programs,
  and the proofs cover them.
* `output_buffers` (`GroupSupported`): no rule has two heads over the same relation, no count-only
  rule shares its head with another rule of the group, no block-group pipeline has
  more root keys than fit the least grid, and no product that may meet an empty relation counts
  into a shared buffer. Without each of the four the properties fail (disagreements 5, 4 and 6, and `MCProductGroup.cfg`).
* `stratify`, for `RunnerAssumption` alone: no relation depends on itself through a
  negation, the heads of a rule taken together, and the heads of a rule depend on the
  same relations (`Supported`, part of the property).
* `compiler`: filters and lets come after what they use (they are lowered in source
  order), negations mention only variables of atoms; no variable occurs twice in one
  atom; no product at the root has a source with two free columns; a plan given by
  the user orders the variables so that every clause is read along a front of its columns; a
  semi-join does not drop a variable that a filter or a second head still needs,
  is not followed by another over the same pair of relations, and no clause is the filter of one
  semi-join and the target of another (`NothingChained`; without it, `MCSemiJoinChain.cfg`).
* `lattice`: a relation is not both loaded and derived by a rule outside its fixpoint; two
  values with the same lower bound and rank have the same upper bound.
* `indexes`: a two-level relation that keeps two column orders in a fixpoint is
  afterwards read through its canonical one (`MCPlans`).
* `leapfrog`: a seek through blocks starts from separators that were built, not copied; groups have at least three lanes for the K-ary search (`GroupSize`),
  and upper bounds are asked for values below the largest of the type.
* `kernel_run`: hashes of different tuples differ; with deduplication a probe sequence finds a free slot
  within its limit and every thread is the leading lane of its own group (`DedupSupported`). The fan-out queue
  holds every chunk.
* `template`, device: rules have one head; a relation that is derived is read in FULL
  through one column order; loaded relations that are derived are also read by a
  body through that order; scans are not nested; a product at the root is of two sources with
  one column; aggregates have a free column and come after an atom; aggregate and
  let variables do not occur in atoms; facts are loaded without duplicates. Host: only
  sets of rules that are applied once, that do not read what the set derives, and
  whose negations reach a leaf.
* `host_indexes`: an index that is extended after somebody has walked it has no cached
  keys on the way (`MayExtend`); sorted arrays and B-trees are built once from the columns
  and then only merged; a hash map is built before something is merged into it. `contains_value`
  is not asked on the last column of a hash map, nor on the first of a B-tree for keys above the last
  separator or when it was copied with three blocks or more (`Answers`; without the last, `MCHostBTree.cfg`).

### Disagreements

Shown by TLC, the first as a run, the others as configurations beside the runs, in each of which TLC
finds the property violated:

* `lattice_stale` (`LaterReadsCurrent`). `passes.py:109` says that the indexes of a relation that
  later strata read, and that a stratum did not merge, are rebuilt after its reconstruction. The step
  generator does not know that instruction and writes an ERROR comment (`orchestrator.py:938`). Row counts hide
  this for Boolean relations; a lattice merge improves values in place, the count stays, and a
  later stratum reads the old values.
* `MCSemiJoinChain.cfg` of `MCCompiler` (`MeaningKept`). `rule_rewrite.py:235` replaces each target by its semi-join and drops
  the filter. In `H(z) <- D(x,y,z), B(x,y), A(x)` the clause `B(x,y)` is the filter of `D` and the target of
  `A`: `B` and `A` are both dropped, the relation that joins them is read by nobody, and what is
  derived no longer depends on `A`.
* `MCHostBTree.cfg` of `MCHostIndexes` (`BlockIsOriginal`). `EytzingerMap::search` "Returns the Block ID (0-based) - the original
  block index, not the heap index" (`eytzinger.h:54`). A merge into an empty B-tree copies the separators in heap order and
  not the map to blocks (`eytzinger.ipp:326`); `search` then returns the heap index
  (`eytzinger.h:79-82`), and `contains_value` misses keys that are there.
* `MCProductGroup.cfg` of `MCOutputBuffers` (`NewIsComplete`). The totals and offsets of a group are the scan of its counts
  (`docs/ir_lowering_semantics.md:655`, R5). The threads of a product over an empty relation return before they store one
  (`lowerings.py:508`, before `complete_runner.py:264`). A pipeline's own buffer was set to zero, the buffer that
  rules with one destination share was not (`orchestrator.py:329`): NEW grows by rows nobody writes.

The others were met while modelling. They are the reason for the preconditions above,
and were compared with the text the Python compiler generates where there is any;
nothing was run on a GPU.

Compiler and generated runner:

1. `Relation::is_dirty` compares row counts, and `relation_col.h:1127` says that this
   detects every index that needs rebuilding. With a duplicate in the CSV a stale
   index and the new columns can have the same count.
2. The delta of a loaded relation that a non-recursive rule derives is not NEW
   minus FULL (`gpu_mir_helpers.h:72`, `:103`), because FULL has no index yet, and
   reconstruction then drops the loaded rows. The same loses the loaded rows of a
   lattice relation.
3. A fixpoint of single-clause rules over a loaded relation scans an index that is
   registered but not built, although the generated code says "Build all required
   indexes" (`orchestrator.py:707`).
4. A count-only rule next to an ordinary rule with the same head makes NEW grow by
   rows nobody writes (`dsl.py:370`: "no materialization").
5. A rule with two heads over the same relation counts zero and derives nothing
   (`lower.py:449`: "multi-head rules emit N inserts in one pipeline";
   `complete_runner.py:252`).
6. In a parallel group the kernel that counts and the kernel that writes cut the
   work of a block group into different slices (`docs/ir_lowering_semantics.md:655`, R5).
7. `(A|C) <= E`, `B <= E`, `C <= B` become one simple stratum, in which `C <= B`
   runs before `B` is maintained (`stratify.py:176`: "no inter-dependency").
8. Semi-joins of `T(x,y), F(x)` and of `T(x,y), F(y)` share one generated name
   (`rule_rewrite.py:234`); a semi-join drops a variable that only a filter or a second
   head uses.
9. A product at the root binds both free columns of a source from its first
   (`lowerings.py:558`), and every lane emits.
10. A variable order given by the user that does not bind the front of a clause's columns
    first joins the wrong column (`dsl.py:338`). A variable that occurs twice in an
    atom is never compared with itself.
11. A two-level index keeps its `head` when `full` is rebuilt from columns that
    already hold those rows (`device_2level_index.h:49`), and its root values are
    those of `full` alone (`complete_runner.py:707`).
12. Queue, board and fan-out queue are refused or not reached by the generator
    (`complete_runner.py:925`, "work_stealing not yet ported"). The expected outputs
    `tests/fixtures/jit/polonius_test/jit_runner.subset_trans_D0.cpp` and `lsqb_q6_nosj/jit_runner.TwoHopPath.cpp` hold
    a driver for the queue, which reserves slots for several tasks at once where the library's
    `push` takes one, and is handed a board it does not use. There is none for the board or the fan-out queue. The
    board's `publish` counts a range before it stores it, so that a driver has to know which slots are set,
    and `reset` leaves cursors; a fan-out queue that overflows pops past its array.
13. Lanes of one warp that insert the same tuple into the dedup table can both be
    told to emit by other lanes' answers (`lowerings.py:2132`); a probe sequence that
    exceeds 128 slots emits, and the two passes may differ in who does
    (`complete_runner.py:180`).

Runtime library:

14. `GD/gpu/search.h`: the upper bound of the largest value of the type ends past
    the span; K-ary narrowing does not end for groups of two and divides by zero for one,
    although lines 6-8 speak of any group size.
15. `LeapfrogView` dereferences an iterator that has just sought to its end; the result
    does not depend on it.
16. `set_difference_update_dual` leaves `rows_processed` of DELTA as it was when the
    difference is empty.
17. With `MAX_LOWER_SELECT`, values that agree in lower bound and rank but not in the upper one
    depend on the order they are merged in.
18. Hash trie: an incremental build does not drop the cached keys of nodes that grow;
    `degree()` is the size of that cache, 0 before anybody asked for the values.
19. Host sorted array and B-tree: `build_from_encoded` replaces the index by the
    suffix of rows that `ensure_index` passes (`relation_col.ipp`, "Get encoded
    rows for incremental build"). `contains_value` of the B-tree's root misses keys
    above the last separator.
20. Hash map: `contains_value` and `degree` compare with `arity - 1`
    (`hashmap.h:178`) and find nothing on the last column; a merge into an index that was never
    built leaves its arity 0.
21. The host's merge does not put merged rows in the columns and counts rows before
    removing duplicates; a later `ensure_index` clears what was merged.
22. Template device executor: rows of a rule with two heads all go to the last head's
    relation; secondary FULL indexes of a head never get derived rows; nested scans
    are numbered in one way by the optimiser (`mir_gpu.h:471`) and another by the
    executor (`instruction_scan.h:88`).

## 4. Proofs

The theorems hold for all constants that satisfy the assumptions, and for every order
of what runs concurrently:

| Module | Theorem | States |
|---|---|---|
| `SemiNaive_proofs` | `TypeCorrect` | `TypeOK` |
| | `Versions` | `VersionsConsistent`: NEW, DELTA and FULL fit together at every point |
| | `SemiNaiveComplete` | `NothingSkipped`: semi-naive evaluation loses no derivation |
| | `Closure` | `CompletedClosed`: a completed stratum stays closed |
| | `InputPreserved` | `InputKept`: loaded facts are never lost |
| | `FreshDelta` | `DeltaIsFresh`: a fact enters DELTA only when it enters FULL |
| | `Refinement` | `Implements`: the runner implements `StratifiedDatalog` |
| | `RunnerReachesModel` | A run that is not cut short ends in the perfect model |
| `StratifiedDatalog_proofs` | `PerfectModelReached` | The same of `StratifiedDatalog` |
| `Stratify_proofs` | `SearchIsCorrect` | `ComponentsBottomUp`: at any time the components found are maximal, disjoint and bottom-up |
| | `EveryRuleInOneStratum` | `RulesPartitioned`: every rule ends in exactly one stratum |
| | `StrataAreLayered` | `RunnerAssumption`: the result is layered as the runner assumes |
| `OutputBuffers_proofs` | `RowsAreReservedOnce` | `ReservedOnce`: each unwritten row is reserved by exactly one thread |
| | `NewBecomesComplete` | `NewIsComplete`: NEW gets one row per match and head, counts are exact |
| `IndexedRunner_proofs` | `IndexInvariant` | `IInv`: columns and indexes are what the stage of their relation says |
| | `IndexesAreCurrent` | `ReadsAreCurrent`: every index a pipeline reads a clause or a negated clause through holds exactly the version it stands for |
| | `CountsTell` | `CleanMeansCurrent`: equal row counts never hide a stale index |
| | `ColumnsHoldResult` | `ResultInColumns`: the columns end as FULL, loaded facts included, without duplicates |
| | `RunnerImplementsTuples` | `ImplementsTuples`: the instructions implement `SemiNaive` |
| | `PerfectModelInColumns` | A successful run that is not cut short leaves the perfect model in the columns |
| `LeapfrogJoin_proofs` | `SearchesAreExact` | `SearchExact`: a search ends at the first position that is not below the bound |
| | `IntersectionIsExact` | `FindsCommonOnce`: the common values, all of them, each once, ascending |
| | `FirstRowsReported` | `PositionsAreFirst`: a value is reported with its first row in both spans |
| `KernelRun_proofs` | `RunInvariant` | `RunInv`: states are well formed, tickets of the queue are sound, rows are shared out over their places |
| | `WorkIsConserved` | `WorkConserved`: every row of an iteration is in exactly one place |
| | `OutInvariant` | `OutInv`: what is still to be written is blank, and claimed at most once |
| | `RowsAreWrittenOnce` | `WrittenOnce`: a row of NEW, once written, is not written over in that pass |
| `KernelDelivery_proofs` | `EachMatchDelivered` | `Delivered`: NEW ends as its old rows and behind them every tuple of the rule, once |

Assumptions:

* Runner: `ProgramOK` (the constants have their types and ground instances belong to
  their rules) and `Stratified`, what the stratifier has to deliver. Nothing is assumed
  about finiteness. The part of `Stratified` that is about rules and strata, `Layered`, is
  the conclusion of `StrataAreLayered`: with that theorem it is no longer on trust.
* Stratifier: `ProgramsOK`. Relations are finitely many numbers (their
  order stands for Python's `sorted`), rules have a head. `StrataAreLayered` speaks of programs with `Supported`.
* Output buffers: `GroupOK` (types; a pipeline has a head and no matches without
  keys) and, in the statement of the theorems, `GroupSupported`, see the preconditions
  above. The number of pipelines, heads, relations, threads, keys and matches is free.
* Indexes: `ProgramOK`, `Stratified`, and `BlockOrderOK` (the blocks of a stratum are those its rules call
  for, in any order). The theorems assume `IndexedSupported`: besides the two preconditions above,
  finitely many facts, rules and ground instances (the code counts rows), index numbers that are
  numbers, and a list of blocks that is a sequence. Which index each clause is read through is free, and so is the
  order in which blocks and pipelines run.
* Searches: spans are sorted and their values smaller than `Sentinel`
  (`SpansAssumption`), groups have two lanes or more (`GroupSizeAssumption`), limits are
  numbers (`LimitsAssumption`, `BlockAssumption`), and each side uses only functions that
  exist (`SidesAssumption`, `SearchesAssumption`). The three theorems also assume
  `NoBlockSeek`: the block seek of the host starts from a map of separators that is
  built by recursion, and is left to TLC.
* Kernel runs: there are finitely many warps, numbered from 1 (`WarpsAssumption`), grabs, chunks and
  fan-out degrees are positive and capacities are numbers (`SizesAssumption`), and work sources and
  output contexts are combined as the generator and the library's types combine them (`ModesAssumption`). The last also says that columns are
  sorted, that their values are distinct except under a work queue, which alone splits at value
  boundaries, and that the fan-out queue holds every chunk (`Iterable`). Hashes, probe limit, buffer size,
  table size and which thread leads are free: where a row goes and that it is written once do not depend on them.
  What is delivered does, and `EachMatchDelivered` assumes `DedupSupported`: where a rule is deduplicated every thread may
  write what it wins, and a column has no more distinct tuples than the probe limit, which the table exceeds. Both are needed. A
  lane that does not lead wins a slot and drops the tuple (13 above), and a tuple that is probed in vain up to the
  limit of 128 is put out as if it were new, by every thread that meets it. The code sizes the table, not the limit, by
  the number of rows, so that this bound is what its probing guarantees for every hash function. Nothing is assumed
  of the other five combinations, of the hash (any function into the naturals) or of the capacity of a speculative run.

TLC evaluates every `ASSUME` in the runs of the modules that state them, and
`GroupSupported` of the group in `output_buffers`, `IndexedSupported` of the program in `indexed` and
`DedupSupported` of the instances in `kernel_run`.

**The runner.** The inductive invariant is `IInv == TypeOK /\ VersionsConsistent /\
NothingSkipped /\ CompletedClosed`. No part is inductive alone. That a stratum is closed when it
converges (`CompletedClosed`) follows from `NothingSkipped` with DELTA empty.
`NothingSkipped` survives a pipeline because what the pipeline produces is in NEW,
and survives maintenance because NEW has only consequences of FULL, each with a
block pending (`VersionsConsistent`). A fact that a block moves to DELTA triggers
its instances in the next iteration; an instance with several facts of the stratum
is found by any of its delta clauses, because DELTA is part of FULL. Completed
strata stay closed because later strata add only heads of their own rules, which
earlier strata neither read nor negate (`Stratified`). TLC checks the parts of `IInv`
in the run `semi_naive`.

**The instructions.** `IInv` of `IndexedRunner_proofs` is `TypeInv`, `PhaseInv` (what is left in
`code` is an end of the generated code, and whether the phase fits the stratum) and `RelInv` for every
relation by itself: an instruction changes one relation, and what the rest of the state says
of another is the record `Stage`: whether the stratum computes it, whether a block of its maintenance has compared NEW
with FULL, and for which of its indexes a copy or a merge is still due.

* Until a stratum that computes it has run, a relation is `SettledRel`: its columns are FULL, an
  index holds a part of them and, if its row count is that of the columns, all of them (`Clean`), and the
  indexes that later strata need are never left behind.
* Afterwards it is `TouchedRel`: columns are old and indexes are FULL. An index that is kept
  lacks DELTA exactly while a merge into it is due; an index of DELTA that is maintained is DELTA unless its copy is due.
  No index counts more rows than it has (`Counted`).
* Between `RebuildNew` and `ComputeDelta` only the canonical index of NEW has its rows
  (`ComparingRel`). After the epilogue has rewritten the columns the relation is `SettledRel` again:
  an index the loop left behind counts fewer rows than the columns have (`Counted`), so that the next
  stratum rebuilds it. This is what a simple count can guarantee, and why `Clean` alone is not inductive.

A read is current (`ViewsAreCurrent`) because what a pipeline reads is either a kept index
(`Required` and `Merges` are computed from the same reads), an index prepared before the loop of a
relation that does not change in it, or an index built when the pipeline opens it.
`StageAtStep` says which instructions are left when one is due, and `StageMoves` what its execution does to the
stage; there is one lemma per instruction about the relation (`MergeKeeps`, ...) and one about the state (`MergeIndexStep`, ...).
TLC has checked `IInv` as an invariant of `indexed`.

For the refinement, `RebuildNew` is the step `Maintain`, since DELTA then is NEW without FULL, and FULL what it
was with DELTA added; all other instructions move rows without changing these sets
(`MovesNothingKeeps`) and stutter. `Execute` is the step of the same name: by `ViewsAreCurrent` it
finds the same ground instances (`SameMatches`). With `RunnerReachesModel` this gives
`PerfectModelInColumns`, which speaks of the code's own end state: the instructions the compiler emits, with the indexes it selects,
leave in the columns what the rules mean.

**The model.** A perfect model is the end of a sequence `M[0], ..., M[n]`, one member per
stratum, each the least set that contains the one before and is closed under the
stratum's rules, its negations read in the one before (`LeastExtension`). For every such sequence, while
stratum `s` is evaluated the facts lie between `M[s-1]` and `M[s]` (`Sandwich`):
`M[s-1]` because facts are only added; `M[s]` because a consequence of facts inside
`M[s]` whose negated atoms are absent is itself inside `M[s]`, negated relations being
complete already (`NegatedBelow`, `ConsequenceWithin`). A stratum is left only when
closed, and a closed set between the two is `M[s]` by minimality (`ClosedIsLeast`). That a
sequence exists is `LeastExtensionExists` (the intersection of all closed sets above).
`RunnerReachesModel` carries this to `SemiNaive` through `Refinement`.

**The stratifier.** The invariant `Inv` has one part for each phase.

`SearchInv` is Tarjan's argument. Indexes ascend on the stack (`Numbered`); a call reaches
whatever is above it (`Descends`), and whatever is on the stack reaches a call below it
(`Ascends`); a low link is the index of something reachable (`LowReached`), and that of a
call is low enough for every edge already taken by what lies between it and the next call
(`LowEnough`). When a call returns with its low link equal to its index, what it takes off the
stack reaches each other by the first three parts, and reads nothing below it by the last:
a component, maximal, that reads only itself and components found before (`BottomUp`).
None of the parts is inductive without the others.

`MergeInv` is about merging the components of the heads of a rule: components cover the
derived relations, do not overlap and have only relations that are computed together
(`Tied`). For a supported program they stay bottom-up (`Ordered`), because the relations
of a component depend on the same relations outside it (`SameBelow`): a component that is
merged upwards waits for nothing that it passes. `SplitInv` says that the components that
have been visited have their rules in strata of their own, one without recursion before the
fixpoint, and `StrataInv` that every rule is in one stratum (`RulesApart`). Both carry
`StrataLayered`, which is `Layered` for what is built so far: a rule reads what is computed
before, or with it in a fixpoint, and negates only what is computed before.

**The output buffers.** `IInv` again has one part for each phase. The
point is a name for what a number in a buffer counts. A match of pipeline `q` is a
pair `<<q, i>>`. After the scan the slot of thread `t` of `p` holds the number of matches that belong to
earlier slots of its buffer (`Scanned`, `RowsBefore`); with the sizes that `Resize` adds it is the number
of matches of everything the relation gets ahead of that thread (`RowsAhead`). The sets
`RowsAhead` of two threads of one relation are nested: one contains the other and the
other's own share. So their rows lie side by side, without gap or
overlap, and the last one ends where the columns end (`RowsLaidOut`). `Laid` says
that the columns hold what each thread has written at its place, and `Junk` where the
thread has not run: `ReservedOnce` is read off it while threads are pending and `NewIsComplete`
when none is. Sums are sizes of such sets (`Sum`), so that the laws of finite
sets replace induction (`PilesCountAlike`, `CountApart`). TLC has checked `IInv` as an invariant of `output_buffers`.

The two kernels use different grids, and this is where `GroupSupported` is needed: the
slices of a block group are the same in both only if its grid is the least one (`SameGrid`).

**The searches.** The inductive invariant of one search is `SearchInv`: while it narrows,
everything before `lo` is below the bound and nothing from `hi` on is (`InBracket`), so that
a bracket without positions is the answer. For the K-ary search the step needs that the
probes of a group ascend with the lane (`ProbesSpread`, from the monotony of integer
division), so that the number of lanes that see a smaller value is the first lane that
does not (`CountOfPrefix`); for the windows, that a lane past the end reads a value no
bound is above (`LaneReads`).

**The intersection.** `JoinInv` ties a search to the intersection: its span is what remains
of the source that is behind, its key the target. `FoundInv` says what has been
achieved: whatever a position has passed is smaller than what the join looks for now, or
is the value just found (`PassedIsLeft`), and a common value is already found or ahead of
the positions in both spans (`NothingMissed`). An exact lower bound skips only values
below the target, none of which can be common, because the target is the value of a source
whose position has nothing smaller ahead; an exact upper bound skips only copies of the
value just found. Neither fact is inductive without the other.

**The work of a kernel.** `RunInv` sees the rows of an iteration as a family of sets, one for each place
a row can be in: visited, held by a warp, offered by a warp that donates, in a slot of the queue, on the board. `Exact` says that
the sets are disjoint and their union is all rows. A step of a warp moves a set of rows from one place to another
or none at all, and such a move keeps a family exact (`Transfer`). That every step is such a move needs, by work source:

* Static grid: the rows a warp holds are those of its residue class that it has not passed (`Strides`), so
  that one turn of the loop removes exactly the row that is visited.
* Board: a slot that is announced and not yet set belongs to one warp and is empty (`Announced`), so that setting it moves that warp's
  share and nothing else. A range of the board is emptied from its front; what two warps grab is apart because the
  cursor moves in the step that reads it. A warp that comes late, when the board has no room, keeps its range.
* Queue: tickets (`Ticketed`). A slot is reserved by one donor, who alone may fill it, and later taken by
  one thief, who alone may read it; a slot below `head` that is not ready has a thief waiting for it. Without the last part
  a task could be published in a slot nobody reads again.
* Fan-out: the explore kernel and the write kernel iterate different things. While rows are explored, a second
  family shares out the flat rows of their products (`Fanned`): below a row nobody has explored yet, left to be pushed
  by a warp, or in a pushed chunk. When the explore kernel returns, the first two kinds are empty and the chunks in the queue
  are an exact family; it becomes the first family of the write kernel (`Spent` says that no warp stops with rows in hand).

**The writes of a kernel.** `OutInv` treats positions of NEW in the same way. A position that is still to be written is
claimed by a warp (`Aims`), by a chunk that waits in the queue (`Booked`), or lies where nobody has claimed yet (`Free`, above
`writePos` or `total`). Claims are disjoint (`Apart`), whatever is claimed is unwritten (`Blank`), and a step writes only what its own
warp has claimed. Claims move like rows do: `Flush` and `Explore` take theirs from `Free`, `PushChunk` books a part of the warp's,
`PopChunk` takes a booked one over. With counting, claims are laid out at once, by the host's scan: the claim of warp `w` starts at the sum of the counts
of the warps before it and has as many positions as its own count. They are disjoint because sums of
counts are sizes of nested sets, and they suffice because the counter of a warp is the number of rows of its class
that it has passed (`Tally`), in the counting and in the writing pass alike. TLC has checked `RunInv` and
`OutInv` as invariants of `kernel_run`, positions cut off above the columns.

`WorkConserved` is about sets of rows, not their number: a count that comes out right does not tell which row is where,
and could not be carried through a step.

**What a kernel delivers.** `DeliveryInv` adds what `RunInv` and `OutInv` leave open: that the right tuples arrive, all of them.

* Nothing is left undone (`Halted`): a warp stops with its buffer flushed, and only when no work is left or can come back. Under a queue a warp
  may stop while others go on and donate: the last one to stop finds the queue empty (`StopsIdle`). On the board a warp has
  passed only ranges that were set and are empty (`Emptied`), and stops when every warp has set its own. So when all have stopped, all rows are visited
  (`ReturnedAll`, from `Exact`). A queue is cut only between different values (`Aligned`), so that a value that recurs is visited whole, by one warp,
  and put out once.
* As many positions are claimed as there are tuples (`Balanced`). In the counting pass the counters add up to the tuples
  taken so far, in the writing pass the claimed positions and the tuples in hand do; hence counting finds as many as the writing pass claims, and
  every claim lies inside the columns (`Inside`). With deduplication a tuple is taken when it enters the table. `Entered` says that
  the table holds each tuple once, at a place its probing leads to with no free place before it, and that a thread that is probing has
  met other tuples only. A probe sequence does not end at its limit because each place it has met holds another tuple, and there
  are too few of them (`NeverExceeded`).
* No tuple is lost (`NoneLost`): one that has been taken is in a row that nobody is going to write, or carried in a
  buffer. Here `Apart` is needed: a row that is settled stays so because the claim of whoever writes is not on it.

When all warps have stopped nothing is carried and nothing claimed. There are as many new rows as tuples and each tuple is in one,
so that the rows are the tuples, each once (`AllInPlace`). A speculative run that overflows drops blocks; its balance is not
kept (`Dropped`) and need not be, as the host discards it and runs again with counting.

**Only model-checked.** Liveness (`Returns`, `Terminates`, `Ends`), which is out of
this prover's reach; the block seek; the compiler from rewriting to kernels, indexes, lattices, the template library and the
host indexes. Several of them compute what they compare with by recursion over data.
`ResultIsPerfectModel` compares with a fixpoint computed by recursion over data; the
theorem `RunnerReachesModel` states the same without computing it.

## 5. What is abstracted or left out

* `IndexedRunner`: a join is the set of ground instances that match. The access
  patterns of its programs cover all columns, and are those the planner chose.
* A rule with two heads over one relation has its maintenance block once in
  `SemiNaive`; the group level is in `OutputBuffers`.
* In iteration 0 the redirect of DELTA to FULL can be told from reading DELTA only
  for relations that are loaded, or changed since their DELTA was filled: a simple
  step leaves its DELTA behind.
* Non-recursive steps have no explicit device synchronisation before
  maintenance (`orchestrator.py:897`); maintenance runs on the legacy default stream,
  which waits for streams created with `cudaStreamCreate`. The models take this
  order as given.
* Totals and offsets are unbounded; in the code they are 32 bits wide.
* `KernelJoin` takes the searches of a handle at their word; they are in `KeySearch`.
  `KernelRun` takes a row of the column for a match; joins are in `KernelJoin`.
* Strings, interning and encodings are identities of values; nothing compares
  encoded values except for order and equality.

Not modelled:

* Split rules: two pipelines around a temporary relation, whose order in a step is a
  protocol of its own.
* Aggregates of the Python front end get no access pattern from the planner, so no
  kernel exists to model.
* The LSM index and the index of the two-level join (`device_lsm_index.*`,
  `device_tvjoin_index.h`): no plan names them, and the former ignores its index
  specification.
* The host executor's fixpoint loop (`query.h:84-311`, `:700-927`): rows merged in one
  iteration are cleared by the next `ensure_index` (21 above), so it has no
  behaviour worth stating beyond queries applied once, which are modelled.
* Provenance columns and semirings other than Boolean.
* Build cache, loader, MPI input and output, command line, visualisation, data sets:
  files, compilers, processes; no logic of the program's own.

## 6. What comes next

1. Split rules as two pipelines around a temporary relation in `IndexedRunner`.
2. More proofs about the runtime: `ResultIsLeastFixpoint` of `LatticeFixpoint`, `IndexesAgree` of `RelationIndexes`.
3. Sums of 32 bits in `OutputBuffers`.
