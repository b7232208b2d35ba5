-------------------------- MODULE TemplateExecutor --------------------------
(***************************************************************************)
(* The template executor with its two back ends, and what a program is     *)
(* supposed to compute on either.                                          *)
(*                                                                         *)
(* On the host, sets of rules are applied once.  There is one pipeline per *)
(* rule, its operations are nested loops over hash tries, and a row is     *)
(* pushed to the columns of FULL unless the index that was opened when the *)
(* pipeline started has it.  Rows pushed for one rule are read by the      *)
(* next, so the rules of a set must not read what the set derives.         *)
(***************************************************************************)
EXTENDS TemplateDevice

HostPlan == program.queries[query].host
HostInstruction == HostPlan.instructions[pc]
OnHost == place = "host" /\ ~Done

(* The index a head is looked up in: the first one its rule reads its      *)
(* relation through, in FULL.                                              *)
DestSpec(rule, head) ==
    InVersion(CanonicalSpec(<<rule>>, NaiveIndices(rule), head.rel), "full")

DestSpecs(rule) == [k \in DOMAIN rule.heads |-> DestSpec(rule, rule.heads[k])]

Opened(d, instruction) ==
    EnsuredAll(EnsuredAll(d, ReadSpecs(instruction.ops), TRUE), DestSpecs(instruction.rule), TRUE)

(* A row for each binding whose row was not in FULL: duplicates among the  *)
(* rows of one pipeline are pushed.                                        *)
Pushed(d, rule, head, found) ==
    {<<b, HeadRow(head, b)>> : b \in
        {e \in found : HeadRow(head, e) \notin IndexRows(d, DestSpec(rule, head))}}

HostExecuted(d, instruction) ==
    LET opened == Opened(d, instruction)
        rule == instruction.rule
        found == Found(instruction.ops, SourceRows(opened, instruction.ops))
        write(acc, head) ==
            LET rows == Pushed(opened, rule, head, found)
            IN  [acc EXCEPT ![head.rel]["full"] = AppendRows(@, {r[2] : r \in rows}, Cardinality(rows))]
    IN  FoldLeft(write, opened, rule.heads)

WithoutIndexes(d) ==
    [rel \in DOMAIN d |->
       [ver \in Versions |->
          [d[rel][ver] EXCEPT !.idx = [s \in DOMAIN d[rel][ver].idx |-> NoRows]]]]

HostPrepare ==
    /\ OnHost
    /\ pc = 0
    /\ db' = EnsuredAll(db, HostPlan.canonical, TRUE)
    /\ pc' = 1
    /\ UNCHANGED <<program, place, query, iteration, host>>

HostPipeline ==
    /\ OnHost
    /\ pc \in DOMAIN HostPlan.instructions
    /\ db' = HostExecuted(db, HostInstruction)
    /\ pc' = pc + 1
    /\ UNCHANGED <<program, place, query, iteration, host>>

(* The indexes of the heads are brought up to date, then all are emptied.  *)
HostFinish ==
    /\ OnHost
    /\ pc > Len(HostPlan.instructions)
    /\ db' = WithoutIndexes(EnsuredAll(db, HostPlan.filtered, TRUE))
    /\ host' = Reflect(db')
    /\ query' = query + 1
    /\ pc' = 0
    /\ UNCHANGED <<program, place, iteration>>

OnlyOnce(p) == \A q \in ToSet(p.queries) : q.limit = 1

HostInit ==
    /\ program \in {p \in Programs : OnlyOnce(p)}
    /\ place = "host"
    /\ query = 1 /\ iteration = 0 /\ pc = 0
    /\ host = program.facts
    /\ db = CopyHostToDevice(program.facts)

HostNext == HostPrepare \/ HostPipeline \/ HostFinish

-----------------------------------------------------------------------------
Spec ==
    /\ Init \/ HostInit
    /\ [][Next \/ HostNext]_vars

Current == IF place = "host" THEN HostInstruction ELSE Instruction
InPipeline ==
    IF place = "host" THEN OnHost /\ pc \in DOMAIN HostPlan.instructions ELSE At("pipeline")

(* The database as the pipeline about to run reads it.                     *)
AsRead == IF place = "host" THEN Opened(db, Current) ELSE db

-----------------------------------------------------------------------------
(* What a program means: its clauses are read without their versions, an   *)
(* aggregate is the fold of what its relation offers for the variables     *)
(* bound by the other clauses.                                             *)
FreeColumn(c, b) == CHOOSE k \in DOMAIN c.args : c.args[k] \notin DOMAIN b
                       /\ \A j \in 1..(k - 1) : c.args[j] \in DOMAIN b

AggregateHolds(c, rows, b) ==
    LET known == [v \in {t \in DOMAIN b : t \in ToSet(c.args)} |-> b[v]]
    IN  b[c.var] = Fold(c.fold, {row[FreeColumn(c, known)] : row \in {r \in rows : Agrees(c.args, r, known)}})

ClauseHolds(c, rows, b) == IF c.kind = "agg" THEN AggregateHolds(c, rows, b) ELSE Holds(c, rows, b)

RuleBound(body) == BoundBy(body) \cup {body[i].var : i \in OfKind(body, "agg")}

RuleMatches(body, rows) ==
    {b \in [RuleBound(body) -> Value] : \A i \in DOMAIN body : ClauseHolds(body[i], rows[i], b)}

(* What a rule derives when its clauses read contents(c).                  *)
DerivedFrom(rule, contents(_)) ==
    LET rows == [i \in DOMAIN rule.body |->
                   IF rule.body[i].kind \in {"atom", "not", "agg"} THEN contents(rule.body[i]) ELSE {}]
    IN  UNION {{<<h.rel, HeadRow(h, b)>> : h \in ToSet(rule.heads)} : b \in RuleMatches(rule.body, rows)}

Applied(rules, facts) ==
    LET derived == UNION {DerivedFrom(r, LAMBDA c : facts[c.rel]) : r \in ToSet(rules)}
    IN  [rel \in DOMAIN facts |-> facts[rel] \cup {f[2] : f \in {g \in derived : g[1] = rel}}]

QueryMeaning(q, facts) ==
    FoldLeft(LAMBDA acc, i : Applied(q.rules, acc), facts, [i \in 1..q.limit |-> i])

ProgramMeaning(p) == FoldLeft(LAMBDA acc, q : QueryMeaning(q, acc), p.facts, p.queries)

(* When all queries are done the host holds exactly the meaning of the     *)
(* program: the rules of each query applied as often as its limit allows   *)
(* or to their least fixpoint, whether the query ran on the host, on a     *)
(* copy on the device or on a database that stays there                    *)
(* (GPUPlanExecutor::execute, ExecuteRulesForNonIterativeRuleSets).        *)
ResultIsModel == Done => host = ProgramMeaning(program)

(* The pipeline about to run derives exactly what its rule derives from    *)
(* the contents of the versions its clauses name, whatever order the       *)
(* variables are bound in and whichever joins the optimiser merged         *)
(* (CompileRuleToMIR, TransformToCartesian, execute_pipeline).             *)
PipelineExact ==
    InPipeline =>
        Emitted(Current.ops, SourceRows(AsRead, Current.ops))
            = DerivedFrom(Current.rule, LAMBDA c : Contents(db[c.rel][ReadVersion(c)]))

(* Every index the pipeline about to run reads holds all its version has.  *)
(* On the device nothing is rebuilt when a pipeline starts: the prologue,  *)
(* the merges and the rebuilds of DELTA keep it so.  On the host row       *)
(* counts decide what is rebuilt (GPUPlanExecutor::execute, MergeIndex,    *)
(* RebuildIndex, build_all_indexes_from_mir).                              *)
SourcesAreCurrent ==
    InPipeline =>
        \A s \in ToSet(ReadSpecs(Current.ops)) :
            IndexRows(AsRead, s) = Contents(db[s.rel][s.ver])
=============================================================================
