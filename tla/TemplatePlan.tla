---------------------------- MODULE TemplatePlan ----------------------------
(***************************************************************************)
(* The compiler of the template executor: rules whose variables carry an   *)
(* order become pipelines of operations, a fixpoint of rules becomes a list*)
(* of instructions, and the device's optimiser rewrites the pipelines.     *)
(*                                                                         *)
(* A rule is [heads, body, order].  A clause that reads a relation carries *)
(* the version it reads; an aggregate folds what a relation offers for the *)
(* variables bound before it.  Each source of an operation has a handle, a *)
(* numbered position in an index; `moves` holds the pairs <<x, h>> such    *)
(* that binding x moves handle h one column deeper.                        *)
(***************************************************************************)
EXTENDS Rules

Reads(version, c) == c @@ [ver |-> version]
Aggregate(var, fold, rel, args) ==
    [kind |-> "agg", var |-> var, fold |-> fold, rel |-> rel, args |-> args]
RuleOf(heads, body, order) == [heads |-> heads, body |-> body, order |-> order]

Common(order, vars)  == SelectSeq(order, LAMBDA v : v \in vars)
Without(order, vars) == SelectSeq(order, LAMBDA v : v \notin vars)
Concat(lists) == FoldLeft(LAMBDA acc, l : acc \o l, <<>>, lists)
Distinct(list) ==
    FoldLeft(LAMBDA acc, e : IF e \in ToSet(acc) THEN acc ELSE Append(acc, e), <<>>, list)

Terms(c) == SelectSeq(c.args, IsVar)
ColumnOf(c, v) == CHOOSE k \in DOMAIN c.args : c.args[k] = v /\ \A j \in 1..(k - 1) : c.args[j] # v

-----------------------------------------------------------------------------

(* The columns of an index follow the order of the rule's variables; an    *)
(* aggregate's own variables come last.                                    *)
AccessOrder(c, order) ==
    LET bound == Common(order, ToSet(Terms(c)))
    IN  IF c.kind = "agg" THEN bound \o Without(Terms(c), ToSet(bound)) ELSE bound

IndexFor(c, order) ==
    LET vars == AccessOrder(c, order)
    IN  [rel |-> c.rel, cols |-> [k \in DOMAIN vars |-> ColumnOf(c, vars[k])], ver |-> c.ver]

(* The indexes of a rule: those of its atoms and aggregates.  Negations    *)
(* are not among them.                                                     *)
NaiveIndices(rule) ==
    LET clauses == SelectSeq(rule.body, LAMBDA c : c.kind \in {"atom", "agg"})
    IN  Distinct([k \in DOMAIN clauses |-> IndexFor(clauses[k], rule.order)])

SourceFor(c, bound, order) ==
    [index |-> IndexFor(c, order), prefix |-> Common(bound, ToSet(Terms(c)))]

(* The handles of a list of sources that move when a variable is bound.    *)
PrefixMoves_FirstSourceOnly(sources, handle) == {<<v, handle>> : v \in ToSet(sources[1].prefix)}

PrefixMoves(sources, handle) ==
    UNION {{<<v, handle + k - 1>> : v \in ToSet(sources[k].prefix)} : k \in DOMAIN sources}

JoinOp(v, sources, handle) ==
    [kind |-> "join", vars |-> <<v>>, sources |-> sources, handle |-> handle,
     moves |-> PrefixMoves(sources, handle)]

(* The operations that descend on their own: their map names the handles   *)
(* that bound the prefix, which nothing reads any more.                    *)
Bound(active, vars) == {m \in active : m[1] \in ToSet(vars)}

AggregateOp(c, st, handle) ==
    LET source == SourceFor(c, st.bound, st.bound)
    IN  [kind |-> "agg", var |-> c.var, fold |-> c.fold, sources |-> <<source>>,
         handle |-> handle, moves |-> Bound(st.active, source.prefix)]

NegationOp(c, st, order) ==
    LET source == SourceFor(c, st.bound, order)
    IN  [kind |-> "not", sources |-> <<source>>, handle |-> st.next,
         moves |-> Bound(st.active, source.prefix)]

(* One variable of the order: the lets and aggregates that define it, then *)
(* the join of every atom that has it.                                     *)
ProcessOneVariable(rule, st, v) ==
    LET defines(kind) == SelectSeq(rule.body, LAMBDA c : c.kind = kind /\ c.var = v)
        aggs == defines("agg")
        atoms == SelectSeq(rule.body, LAMBDA c : c.kind = "atom" /\ v \in ToSet(c.args))
        first == st.next + Len(aggs)
        join == JoinOp(v, [k \in DOMAIN atoms |-> SourceFor(atoms[k], st.bound, rule.order)], first)
    IN  [bound |-> Append(st.bound, v),
         ops |-> st.ops \o defines("let")
                    \o [k \in DOMAIN aggs |-> AggregateOp(aggs[k], st, st.next + k - 1)]
                    \o IF atoms = <<>> THEN <<>> ELSE <<join>>,
         active |-> st.active \cup {<<v, h>> : h \in st.next..(first + Len(atoms) - 1)},
         next |-> first + Len(atoms)]

ProcessNegation(rule, st, c) ==
    [st EXCEPT !.ops = Append(@, NegationOp(c, st, rule.order)), !.next = @ + 1]

EmitOp(head) == [kind |-> "emit", head |-> head]

CompileRuleToMIR(rule) ==
    LET ofKind(kind) == SelectSeq(rule.body, LAMBDA c : c.kind = kind)
        joined == FoldLeft(LAMBDA st, v : ProcessOneVariable(rule, st, v),
                           [bound |-> <<>>, ops |-> <<>>, active |-> {}, next |-> 0], rule.order)
        negated == FoldLeft(LAMBDA st, c : ProcessNegation(rule, st, c), joined, ofKind("not"))
    IN  negated.ops \o ofKind("filter") \o [k \in DOMAIN rule.heads |-> EmitOp(rule.heads[k])]

(* The indexes the operations read, by handle.                             *)
HasSources(op) == op.kind \in {"join", "scan", "product", "agg", "not"}
SourceSpecs(ops) ==
    Concat([i \in DOMAIN ops |->
        IF HasSources(ops[i])
        THEN [k \in DOMAIN ops[i].sources |-> ops[i].sources[k].index] ELSE <<>>])

-----------------------------------------------------------------------------
(* The plan of a fixpoint.  The canonical index of a head relation is the  *)
(* first one any rule reads it through, or all its columns in order.       *)
HeadRelations(rules) ==
    Distinct(Concat([i \in DOMAIN rules |-> [k \in DOMAIN rules[i].heads |-> rules[i].heads[k].rel]]))

Arity(rules, rel) ==
    Len((CHOOSE h \in UNION {ToSet(r.heads) : r \in ToSet(rules)} : h.rel = rel).args)

CanonicalSpec(rules, specs, rel) ==
    LET found == SelectSeq(specs, LAMBDA s : s.rel = rel)
    IN  IF found # <<>> THEN found[1]
        ELSE [rel |-> rel, cols |-> [k \in 1..Arity(rules, rel) |-> k], ver |-> "full"]

InVersion(spec, version) == [spec EXCEPT !.ver = version]

Pipeline(rule) ==
    [do |-> "pipeline", ops |-> CompileRuleToMIR(rule),
     heads |-> [k \in DOMAIN rule.heads |-> rule.heads[k].rel], rule |-> rule]

ComputeDeltaOps(spec) == <<
    [do |-> "clear", rel |-> spec.rel, ver |-> "delta"],
    [do |-> "check", rel |-> spec.rel, ver |-> "new"],
    [do |-> "delta", rel |-> spec.rel, index |-> InVersion(spec, "full")],
    [do |-> "clear", rel |-> spec.rel, ver |-> "new"]>>

CompileFixpointToPlan(rules) ==
    LET heads == HeadRelations(rules)
        specs == Concat([i \in DOMAIN rules |-> NaiveIndices(rules[i])])
        canonical == [k \in DOMAIN heads |-> CanonicalSpec(rules, specs, heads[k])]
        secondary == SelectSeq(specs, LAMBDA s : s.rel \in ToSet(heads) /\ s \notin ToSet(canonical))
        of(ver) == SelectSeq(secondary, LAMBDA s : s.ver = ver)
        full == [k \in DOMAIN canonical |-> InVersion(canonical[k], "full")]
        merged == Distinct(of("full") \o full)
    IN  [heads |-> heads,
         canonical |-> canonical,
         instructions |->
            [i \in DOMAIN rules |-> Pipeline(rules[i])]
            \o [k \in DOMAIN canonical |->
                  [do |-> "rebuild", index |-> InVersion(canonical[k], "new")]]
            \o Concat([k \in DOMAIN canonical |-> ComputeDeltaOps(canonical[k])])
            \o [k \in DOMAIN merged |-> [do |-> "merge", index |-> merged[k]]]
            \o LET delta == Distinct(of("delta"))
               IN  [k \in DOMAIN delta |-> [do |-> "rebuild", index |-> delta[k]]]]

-----------------------------------------------------------------------------
(* The device's optimiser: joins of one source each, up to the end of the  *)
(* pipeline, become one operation that enumerates their rows.  A join      *)
(* whose prefix has none of the variables collected so far opens a source; *)
(* one that reads the last source further widens it; any other ends the    *)
(* match.                                                                  *)
NoMatch == [vars |-> <<>>, sources |-> <<>>, ok |-> FALSE]

Widens(m, source) ==
    LET last == m.sources[Len(m.sources)]
    IN  /\ last.index.rel = source.index.rel
        /\ last.index.ver = source.index.ver
        /\ source.prefix = last.prefix \o m.vars

Collect(m, op) ==
    IF op.kind \in {"let", "filter"} \/ ~m.ok THEN m
    ELSE IF op.kind # "join" \/ Len(op.sources) # 1 THEN NoMatch
    ELSE LET source == op.sources[1]
             n == Len(m.sources)
         IN  IF ToSet(source.prefix) \cap ToSet(m.vars) = {}
             THEN [m EXCEPT !.vars = @ \o op.vars, !.sources = Append(@, source)]
             ELSE IF Widens(m, source)
             THEN [m EXCEPT !.vars = @ \o op.vars,
                            !.sources[n] = [source EXCEPT !.prefix = m.sources[n].prefix]]
             ELSE NoMatch

EmitsFrom(ops) == CHOOSE i \in DOMAIN ops : ops[i].kind = "emit" /\ \A j \in 1..(i - 1) : ops[j].kind # "emit"

MatchFrom(ops, i) ==
    FoldLeft(Collect, [vars |-> <<>>, sources |-> <<>>, ok |-> TRUE],
             SubSeq(ops, i, EmitsFrom(ops) - 1))

Merged(ops, i) ==
    LET m == MatchFrom(ops, i)
        joins == {j \in i..(EmitsFrom(ops) - 1) : ops[j].kind = "join"}
        handle == ops[Min(joins)].handle
    IN  [kind |-> IF Len(m.sources) = 1 THEN "scan" ELSE "product",
         vars |-> m.vars, sources |-> m.sources, handle |-> handle,
         moves |-> PrefixMoves(m.sources, handle)]

TransformToCartesian(ops) ==
    LET starts == {i \in 1..(EmitsFrom(ops) - 1) : Len(MatchFrom(ops, i).vars) >= 2}
    IN  IF starts = {} THEN ops
        ELSE LET i == Min(starts)
             IN  SubSeq(ops, 1, i - 1) \o <<Merged(ops, i)>>
                   \o SelectSeq(SubSeq(ops, i, Len(ops)), LAMBDA op : op.kind # "join")

OptimizeFixpointPlanForGPU(plan) ==
    [plan EXCEPT !.instructions =
        LET kept == SelectSeq(@, LAMBDA n : ~(n.do = "rebuild" /\ n.index.ver = "full"))
        IN  [i \in DOMAIN kept |->
               IF kept[i].do = "pipeline"
               THEN [kept[i] EXCEPT !.ops = TransformToCartesian(@)] ELSE kept[i]]]

-----------------------------------------------------------------------------
(* On the host rules that are applied once are one pipeline each.          *)
RulePipelines(rules) ==
    LET heads == HeadRelations(rules)
        specs == Concat([i \in DOMAIN rules |-> NaiveIndices(rules[i])])
    IN  [canonical |-> [k \in DOMAIN heads |-> InVersion(CanonicalSpec(rules, specs, heads[k]), "full")],
         filtered |-> LET own == SelectSeq(specs, LAMBDA s : s.rel \in ToSet(heads))
                      IN  [k \in DOMAIN own |-> InVersion(own[k], "full")],
         instructions |-> [i \in DOMAIN rules |-> Pipeline(rules[i])]]

(* A query with the plans of the two back ends.                            *)
Compiled(rules, limit) ==
    [rules |-> rules, limit |-> limit,
     device |-> OptimizeFixpointPlanForGPU(CompileFixpointToPlan(rules)),
     host |-> RulePipelines(rules)]
=============================================================================
