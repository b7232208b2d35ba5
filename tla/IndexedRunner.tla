---------------------------- MODULE IndexedRunner ----------------------------
(***************************************************************************)
(* The generated runner with its indexes: which indexes the compiler       *)
(* selects, the instructions it emits to maintain them, and what those     *)
(* instructions do to the columns and indexes of the three versions of     *)
(* each relation.  Pipelines do not read "the facts of FULL", they read    *)
(* the rows of one particular index per clause, so the question is whether *)
(* the right rows are in the right index at the right time.                *)
(*                                                                         *)
(* Index specs are numbered in the order the compiler sorts them; 0 is the *)
(* declared column order.  Access patterns always cover all columns, so    *)
(* completing a partial index is the identity here.                        *)
(*                                                                         *)
(* D_Fault is definition D with a plausible mistake, see SemiNaive.        *)
(***************************************************************************)
EXTENDS DatalogProgram, DeviceRelation, SequencesExt, FiniteSetsExt

CONSTANTS
    Access,     \* Access[v][i]: the index clause i is read through in pipeline v
    NegAccess,  \* NegAccess[v][q]: the index through which v checks that q has no match
    BlockOrder, \* BlockOrder[s]: the maintenance blocks of stratum s, in order
    MaxRows     \* bound on the rows a caller loads into one relation

VARIABLES
    open,       \* g_host_db exists
    host,       \* FULL columns of the host database, per relation
    live,       \* g_device_db exists
    db,         \* device database: [full, delta, new], per relation
    stratum,    \* step being executed; after a failed run, the one that failed
    phase,      \* what the current step does next
    iter,       \* iterations this stratum has completed
    maxIter,    \* iteration limit of this run
    pipelines,  \* pipelines of this iteration that have not run
    code,       \* the set of instructions still to execute in this phase
    status,     \* return code of the last run
    exact,      \* history: no stratum of this run was cut short
    input       \* history: the facts this run was given

vars == <<open, host, live, db, stratum, phase, iter, maxIter, pipelines, code,
          status, exact, input>>
caller == <<open, host, live, maxIter, status, input>>

(***************************************************************************)
(* Index selection.                                                        *)
(***************************************************************************)
Variants(s) ==
    IF Recursive(s)
    THEN UNION {{[rule |-> r, clause |-> i] : i \in SccClauses(s, r)} : r \in RulesOf(s)}
    ELSE {[rule |-> r, clause |-> 0] : r \in RulesOf(s)}

ReadAsDelta(s, q) == {Access[v][v.clause] :
    v \in {w \in Variants(s) : w.clause # 0 /\ Body[w.rule][w.clause] = q}}

ReadPositively(s, q) == UNION {{Access[v][i] :
    i \in {k \in DOMAIN Body[v.rule] : k # v.clause /\ Body[v.rule][k] = q}} : v \in Variants(s)}

ReadNegated(s, q) == {NegAccess[v][q] : v \in {w \in Variants(s) : q \in Negated[w.rule]}}

ReadAsFull(s, q) == ReadPositively(s, q) \cup ReadNegated(s, q)

Reads(s, q) == ReadAsDelta(s, q) \cup ReadAsFull(s, q)

Earlier(a, b) == a[1] < b[1] \/ (a[1] = b[1] /\ a[2] < b[2])

(* The second parts of a set of pairs, in the order of the pairs.          *)
Ordered(pairs) ==
    [k \in 1 .. Cardinality(pairs) |->
        (CHOOSE p \in pairs : Cardinality({o \in pairs : Earlier(o, p)}) = k - 1)[2]]

(* Every index some stratum reads relation q through, in strata order.     *)
FirstReads(q) == {p \in {<<s, spec>> : s \in Level, spec \in UNION {Reads(t, q) : t \in Level}} :
    p[2] \in Reads(p[1], q) /\ \A t \in 1 .. p[1] - 1 : p[2] \notin Reads(t, q)}

GlobalIndices == [q \in Relation |-> Ordered(FirstReads(q))]

(* The indexes stratum s maintains for q: those it reads q through, delta  *)
(* reads first; failing that, those any stratum reads q through.           *)
LocalReads(s, q) == {<<1, spec>> : spec \in ReadAsDelta(s, q)}
    \cup {<<2, spec>> : spec \in ReadAsFull(s, q) \ ReadAsDelta(s, q)}

Required == [s \in Level |-> [q \in Relation |->
    IF Reads(s, q) # {} THEN Ordered(LocalReads(s, q))
    ELSE IF GlobalIndices[q] # <<>> THEN GlobalIndices[q]
    ELSE <<0>>]]

(* The index on which DELTA = NEW \ FULL is computed.                      *)
Canonical == [s \in Level |-> [q \in Relation |->
    LET inFull == {k \in DOMAIN Required[s][q] : Required[s][q][k] \in ReadAsFull(s, q)}
    IN  Required[s][q][IF Recursive(s) /\ inFull # {} THEN Min(inFull) ELSE 1]]]

(***************************************************************************)
(* Instruction selection.                                                  *)
(***************************************************************************)
Blocks(s) ==
    IF Recursive(s)
    THEN {[by |-> "loop", rel |-> q] : q \in Members(s)}
    ELSE UNION {{[by |-> r, rel |-> q] : q \in Heads[r]} : r \in RulesOf(s)}

ASSUME BlockOrderOK ==
    \A s \in Level : ToSet(BlockOrder[s]) = Blocks(s) /\ IsInjective(BlockOrder[s])

(* Instructions are numbered by block and by their place in the block.     *)
Instr(at, op, b, spec) ==
    [at |-> at, op |-> op, block |-> b, rel |-> b.rel, spec |-> spec]

(* Only indexes whose FULL version this stratum joins on are merged in the *)
(* loop; a simple stratum merges all it maintains.                         *)
Merges(s, q, spec) ==
    Recursive(s) => spec = Canonical[s][q] \/ spec \in ReadPositively(s, q)

MaintainIndex(s, i, k) ==
    LET b    == BlockOrder[s][i]
        spec == Required[s][b.rel][k]
    IN  (IF spec = Canonical[s][b.rel] THEN {}
         ELSE {Instr(<<i, 4 + 2 * k>>, "IndexFromIndex", b, spec)})
        \cup (IF Merges(s, b.rel, spec) THEN {Instr(<<i, 5 + 2 * k>>, "MergeIndex", b, spec)}
              ELSE {})

Maintenance(s, i) ==
    LET b    == BlockOrder[s][i]
        spec == Canonical[s][b.rel]
    IN  {Instr(<<i, 1>>, "RebuildNew", b, spec), Instr(<<i, 3>>, "CheckSize", b, spec),
         Instr(<<i, 4>>, "ComputeDelta", b, spec), Instr(<<i, 5>>, "ClearNew", b, spec)}
        \cup (IF Recursive(s) THEN {Instr(<<i, 2>>, "ClearDelta", b, spec)} ELSE {})
        \cup UNION {MaintainIndex(s, i, k) : k \in DOMAIN Required[s][b.rel]}

MaintenanceCode == [s \in Level |-> UNION {Maintenance(s, i) : i \in DOMAIN BlockOrder[s]}]

(* Columns of the maintained relations are rewritten when a stratum ends;  *)
(* a fixpoint does so itself, and once more in steps of its own.           *)
Maintained == [s \in Level |-> {b.rel : b \in ToSet(BlockOrder[s])}]

Epilogue_Missing == [s \in Level |-> {}]

Rounds(s) == IF Recursive(s) THEN {1, 2} ELSE {1}

Epilogue == [s \in Level |->
    {Instr(<<round, i>>, "Reconstruct", BlockOrder[s][i], Canonical[s][BlockOrder[s][i].rel]) :
        round \in Rounds(s),
        i \in {k \in DOMAIN BlockOrder[s] :
                  \A j \in 1 .. k - 1 : BlockOrder[s][j].rel # BlockOrder[s][k].rel}}]

(***************************************************************************)
(* The indexes of FULL built before the first pipeline of a stratum.  A    *)
(* fixpoint builds those of joins (a body of one clause is scanned, not    *)
(* joined, and a negation builds its own when it runs); a simple stratum   *)
(* builds every index its pipelines read.                                  *)
(***************************************************************************)
Joined(s, q) == UNION {{Access[v][i] : i \in {k \in DOMAIN Body[v.rule] : Body[v.rule][k] = q}} :
    v \in {w \in Variants(s) : Len(Body[w.rule]) > 1}}

Prebuilt(s, q) == IF Recursive(s) THEN Joined(s, q) ELSE ReadAsFull(s, q)

(* Each index is built from the columns or not whatever the others are.    *)
EnsureAll(r, specs, build) ==
    [r EXCEPT !.idx = [spec \in DOMAIN r.idx \cup specs |->
        IF spec \in specs THEN EnsureIndex(r, spec, build).idx[spec] ELSE r.idx[spec]]]

(***************************************************************************)
(* What a pipeline reads and produces.  The clause with the delta version  *)
(* is redirected to FULL in the first iteration.                           *)
(***************************************************************************)
VersionOf(v, i) == IF i = v.clause /\ iter > 0 THEN "delta" ELSE "full"

ReadBy(v, q, version) == {Access[v][i] :
    i \in {k \in DOMAIN Body[v.rule] : Body[v.rule][k] = q /\ VersionOf(v, k) = version}}

(* A negation rebuilds its index from the columns if the counts differ.    *)
NegatedBy_Unbuilt(v, q) == {}

NegatedBy(v, q) == IF q \in Negated[v.rule] THEN {NegAccess[v][q]} ELSE {}

(* The database once the pipeline has set up the views it reads.           *)
Opened(v) == [q \in Relation |->
    [full |-> EnsureAll(EnsureAll(db[q].full, ReadBy(v, q, "full"), FALSE),
                        NegatedBy(v, q), TRUE),
     delta |-> EnsureAll(db[q].delta, ReadBy(v, q, "delta"), FALSE),
     new |-> db[q].new]]

View(d, q, version, spec) == Rows(IF version = "delta" THEN d[q].delta ELSE d[q].full, spec)

MatchesIn(g, v, d) ==
    /\ \A i \in DOMAIN g.pos :
          g.pos[i] \in View(d, Body[v.rule][i], VersionOf(v, i), Access[v][i])
    /\ \A f \in g.neg : f \notin View(d, RelOf[f], "full", NegAccess[v][RelOf[f]])

(* Every match appends its head facts to the columns of NEW.               *)
Derived(v, d) == UNION {{<<g, f>> : f \in g.heads} :
    g \in {h \in Ground : h.rule = v.rule /\ MatchesIn(h, v, d)}}

HostFacts == UNION {host[q].cols : q \in Relation}

DeltaEmpty == \A q \in Members(stratum) : Rows(db[q].delta, Canonical[stratum][q]) = {}

-----------------------------------------------------------------------------
Empty == [q \in Relation |-> [full |-> NoColumns, delta |-> NoColumns, new |-> NoColumns]]

Init ==
    /\ open = FALSE /\ host = [q \in Relation |-> NoColumns]
    /\ live = FALSE /\ db = Empty
    /\ stratum = 0 /\ phase = "idle" /\ iter = 0 /\ maxIter = 0
    /\ pipelines = {} /\ code = {}
    /\ status = "none" /\ exact = TRUE /\ input = {}

(* Rows are appended to the host columns, duplicates included.             *)
Load(file) ==
    /\ phase = "idle"
    /\ \A q \in Relation : host[q].n + Cardinality(In(file, q)) <= MaxRows
    /\ open' = TRUE
    /\ host' = [q \in Relation |-> AppendRows(host[q], In(file, q), Cardinality(In(file, q)))]
    /\ UNCHANGED <<live, db, stratum, phase, iter, maxIter, pipelines, code,
                   status, exact, input>>

(* The device database gets the host columns and no index.                 *)
Run(max) ==
    /\ phase = "idle"
    /\ open
    /\ live' = TRUE
    /\ db' = [q \in Relation |-> [Empty[q] EXCEPT !.full = host[q]]]
    /\ stratum' = 1 /\ phase' = "prepare" /\ iter' = 0 /\ maxIter' = max
    /\ pipelines' = {} /\ code' = {}
    /\ status' = "running" /\ exact' = TRUE /\ input' = HostFacts
    /\ UNCHANGED <<open, host>>

RunFails ==
    /\ phase = "idle"
    /\ open
    /\ live' = FALSE /\ db' = Empty
    /\ stratum' = 0 /\ iter' = 0 /\ pipelines' = {} /\ code' = {}
    /\ status' = "failed" /\ exact' = TRUE /\ input' = HostFacts
    /\ UNCHANGED <<open, host, phase, maxIter>>

Shutdown ==
    /\ phase = "idle"
    /\ open' = FALSE /\ host' = [q \in Relation |-> NoColumns]
    /\ live' = FALSE /\ db' = Empty
    /\ stratum' = 0 /\ iter' = 0 /\ pipelines' = {} /\ code' = {}
    /\ status' = "none" /\ exact' = TRUE /\ input' = {}
    /\ UNCHANGED <<phase, maxIter>>

-----------------------------------------------------------------------------
Prepare ==
    /\ phase = "prepare"
    /\ phase' = "check"
    /\ db' = [q \in Relation |->
          [db[q] EXCEPT
              !.full = EnsureAll(@, Prebuilt(stratum, q), TRUE),
              !.new = IF q \in Maintained[stratum]
                      THEN EnsureIndex(@, Canonical[stratum][q], TRUE) ELSE @]]
    /\ UNCHANGED <<caller, stratum, iter, pipelines, code, exact>>

StartIteration ==
    /\ phase = "check"
    /\ IF Recursive(stratum) THEN iter < maxIter /\ (iter > 0 => ~DeltaEmpty)
                             ELSE iter = 0
    /\ phase' = "run"
    /\ pipelines' = Variants(stratum)
    /\ UNCHANGED <<caller, db, stratum, iter, code, exact>>

Execute(v) ==
    /\ phase = "run"
    /\ v \in pipelines
    /\ LET d   == Opened(v)
           out == Derived(v, d)
       IN  db' = [q \in Relation |->
                     [d[q] EXCEPT !.new = AppendRows(@, {o[2] : o \in {x \in out : RelOf[x[2]] = q}},
                          Cardinality({x \in out : RelOf[x[2]] = q}))]]
    /\ pipelines' = pipelines \ {v}
    /\ UNCHANGED <<caller, stratum, phase, iter, code, exact>>

StartMaintenance ==
    /\ phase = "run"
    /\ pipelines = {}
    /\ phase' = "maintain"
    /\ code' = MaintenanceCode[stratum]
    /\ UNCHANGED <<caller, db, stratum, iter, pipelines, exact>>

(***************************************************************************)
(* The instructions, each on one relation.  get_index throws when the      *)
(* index is not registered: the instruction is then not enabled and all    *)
(* that is left is Abort.                                                  *)
(***************************************************************************)
Due(i, op) == i.op = op /\ \A j \in code : ~Earlier(j.at, i.at)

Become(i, relation) ==
    /\ db' = [db EXCEPT ![i.rel] = relation]
    /\ code' = code \ {i}
    /\ UNCHANGED <<caller, stratum, phase, iter, pipelines, exact>>

RebuildNew(i) ==
    /\ Due(i, "RebuildNew")
    /\ Become(i, [db[i.rel] EXCEPT !.new = TakeOwnership(@, i.spec)])

ClearDelta(i) ==
    /\ Due(i, "ClearDelta")
    /\ Become(i, [db[i.rel] EXCEPT !.delta = Clear(@)])

CheckSize(i) ==
    /\ Due(i, "CheckSize")
    /\ Become(i, [db[i.rel] EXCEPT !.new = EnsureIndex(@, i.spec, TRUE)])

ComputeDelta(i) ==
    /\ Due(i, "ComputeDelta")
    /\ HasIndex(db[i.rel].new, i.spec)
    /\ LET full == Registered(db[i.rel].full, i.spec)
           diff == SetDifference(db[i.rel].new.idx[i.spec], full.idx[i.spec])
       IN  Become(i, [full |-> full,
                      delta |-> Put(Clear(db[i.rel].delta), i.spec, diff),
                      new |-> Clear(db[i.rel].new)])

ClearNew(i) ==
    /\ Due(i, "ClearNew")
    /\ Become(i, [db[i.rel] EXCEPT !.new = Clear(@)])

BuildFromIndex(i) ==
    /\ Due(i, "IndexFromIndex")
    /\ LET from == Canonical[stratum][i.rel]
       IN  /\ HasIndex(db[i.rel].delta, from)
           /\ Become(i, [db[i.rel] EXCEPT !.delta = IndexFromIndex(@, from, i.spec)])

MergeIndex(i) ==
    /\ Due(i, "MergeIndex")
    /\ HasIndex(db[i.rel].delta, i.spec)
    /\ LET full   == Registered(db[i.rel].full, i.spec)
           merged == MergeInto(full.idx[i.spec], db[i.rel].delta.idx[i.spec])
       IN  Become(i, [db[i.rel] EXCEPT !.full = Put(full, i.spec, merged)])

ReconstructColumns(i) ==
    /\ Due(i, "Reconstruct")
    /\ Become(i, [db[i.rel] EXCEPT !.full = Reconstruct(@, i.spec)])

Instruction(i) ==
    \/ RebuildNew(i)
    \/ ClearDelta(i)
    \/ CheckSize(i)
    \/ ComputeDelta(i)
    \/ ClearNew(i)
    \/ BuildFromIndex(i)
    \/ MergeIndex(i)
    \/ ReconstructColumns(i)

EndIteration ==
    /\ phase = "maintain"
    /\ code = {}
    /\ phase' = "check"
    /\ iter' = iter + 1
    /\ UNCHANGED <<caller, db, stratum, pipelines, code, exact>>

(* The loop ends at its limit, or when nothing new was derived.            *)
Leave ==
    /\ phase = "check"
    /\ iter > 0
    /\ Recursive(stratum) => iter >= maxIter \/ DeltaEmpty
    /\ phase' = "epilogue"
    /\ code' = Epilogue[stratum]
    /\ UNCHANGED <<caller, db, stratum, iter, pipelines, exact>>

NextStratum ==
    /\ phase = "epilogue"
    /\ code = {}
    /\ iter' = 0
    /\ IF stratum = Len(Strata)
       THEN stratum' = 0 /\ phase' = "idle" /\ status' = "ok"
       ELSE stratum' = stratum + 1 /\ phase' = "prepare" /\ UNCHANGED status
    /\ exact' = (exact /\ (Recursive(stratum) /\ iter >= maxIter => DeltaEmpty))
    /\ UNCHANGED <<open, host, live, maxIter, input, db, pipelines, code>>

(* A device error leaves the database as it is at that instruction.        *)
Abort ==
    /\ phase # "idle"
    /\ phase' = "idle"
    /\ status' = "failed"
    /\ UNCHANGED <<open, host, live, maxIter, input, db, stratum, iter,
                   pipelines, code, exact>>

Step ==
    \/ Prepare
    \/ StartIteration
    \/ \E v \in pipelines : Execute(v)
    \/ StartMaintenance
    \/ \E i \in code : Instruction(i)
    \/ EndIteration
    \/ Leave
    \/ NextStratum

Next ==
    \/ \E file \in Files \cup {{}} : Load(file)
    \/ \E max \in MaxIters : Run(max)
    \/ RunFails
    \/ Shutdown
    \/ phase # "idle" /\ Step
    \/ Abort

Spec == Init /\ [][Next]_vars

-----------------------------------------------------------------------------
(***************************************************************************)
(* Properties                                                              *)
(***************************************************************************)

Facts(q) == {f \in Fact : RelOf[f] = q}

(* While a relation is being maintained its canonical index is what holds  *)
(* FULL; otherwise the columns are.                                        *)
FullRows(q) ==
    IF live /\ stratum # 0 /\ q \in Members(stratum)
    THEN Rows(db[q].full, Canonical[stratum][q])
    ELSE db[q].full.cols

(* NEW has been moved into its index but not yet compared with FULL.       *)
Comparing(q) ==
    \E i \in code : /\ i.op = "ComputeDelta" /\ i.rel = q
                           /\ \A j \in code : ~(j.op = "RebuildNew" /\ j.block = i.block)

DeltaRows(q) ==
    IF Comparing(q) THEN Rows(db[q].new, Canonical[stratum][q]) \ FullRows(q)
    ELSE UNION {db[q].delta.idx[spec].rows : spec \in DOMAIN db[q].delta.idx}

(***************************************************************************)
(* The runner with indexes implements the runner on tuple sets.  A block   *)
(* of maintenance takes effect when its first instruction has run.         *)
(***************************************************************************)
FullFacts  == UNION {FullRows(q) \cup DeltaRows(q) : q \in Relation}
DeltaFacts == UNION {DeltaRows(q) : q \in Relation}
NewFacts   == UNION {db[q].new.cols : q \in Relation}

RunStratum == IF phase = "idle" THEN 0 ELSE stratum
RunPhase   == IF phase \in {"prepare", "epilogue"} THEN "check" ELSE phase
RunIter    == IF phase = "idle" THEN 0 ELSE iter
RunTodo    == CASE phase = "run" -> pipelines
                [] phase = "maintain" -> {i.block : i \in {j \in code : j.op = "RebuildNew"}}
                [] OTHER -> {}

Tuples == INSTANCE SemiNaive WITH
    host <- HostFacts, full <- FullFacts, delta <- DeltaFacts, newt <- NewFacts,
    stratum <- RunStratum, phase <- RunPhase, iter <- RunIter, todo <- RunTodo

ImplementsTuples == Tuples!Spec

(* Every index a pipeline of this iteration reads, for a clause or for a   *)
(* negated clause, holds exactly the facts of the version it stands for,   *)
(* whichever column order it has: what the columns hold when the stratum   *)
(* starts, what maintenance left afterwards.                               *)
CurrentFull(q) == IF iter = 0 THEN db[q].full.cols ELSE FullRows(q)

ReadsAreCurrent ==
    phase = "run" => \A v \in pipelines :
        /\ \A i \in DOMAIN Body[v.rule] :
              LET q == Body[v.rule][i] IN
              View(Opened(v), q, VersionOf(v, i), Access[v][i]) =
                  IF VersionOf(v, i) = "delta" THEN DeltaRows(q) ELSE CurrentFull(q)
        /\ \A q \in Negated[v.rule] :
              View(Opened(v), q, "full", NegAccess[v][q]) = CurrentFull(q)

(* An index whose row count says it is up to date is: between strata the   *)
(* comparison of counts never takes a stale index for a current one.       *)
CleanMeansCurrent ==
    phase = "prepare" => \A q \in Relation : \A spec \in DOMAIN db[q].full.idx :
        ~IsDirty(db[q].full, spec) => db[q].full.idx[spec].rows = db[q].full.cols

(* The columns the caller reads after a successful run hold every fact of  *)
(* FULL, the loaded ones included, once.                                   *)
ResultInColumns ==
    status = "ok" => \A q \in Relation :
        /\ Contents(db[q].full) \subseteq db[q].full.cols
        /\ In(input, q) \subseteq db[q].full.cols
        /\ (\E s \in Level : q \in Maintained[s]) =>
              db[q].full.n = Cardinality(db[q].full.cols)


(***************************************************************************)
(* The programs the theorems speak of.  Files load only relations that no  *)
(* stratum computes, since the rows of a computed relation are taken from  *)
(* an index when a stratum ends; a relation is computed by no stratum      *)
(* after a fixpoint that computes it, as the fixpoint leaves the indexes   *)
(* it does not read behind.                                                *)
(***************************************************************************)
IndexedSupported ==
    /\ IsFiniteSet(Fact) /\ IsFiniteSet(Rule) /\ IsFiniteSet(Ground)
    /\ \A file \in Files : \A f \in file : \A s \in Level : RelOf[f] \notin Members(s)
    /\ \A s, t \in Level : s < t /\ Recursive(s) => Members(s) \cap Members(t) = {}
    /\ \A s \in Level : \A v \in Variants(s) :
          /\ \A i \in DOMAIN Body[v.rule] : Access[v][i] \in Nat
          /\ \A q \in Negated[v.rule] : NegAccess[v][q] \in Nat
    /\ \A s \in Level : BlockOrder[s] \in Seq(Blocks(s))
=============================================================================
