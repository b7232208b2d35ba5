------------------------------ MODULE Compiler ------------------------------
(***************************************************************************)
(* One rule's way through the compiler and onto the device: the rewriting  *)
(* passes over the whole program, then the plan of one variant, its        *)
(* lowering and the passes over the pipeline, then the two kernels: one    *)
(* counts, one writes.  Stratification and index selection, which do not   *)
(* change a rule, have modules of their own.                               *)
(*                                                                         *)
(* D_Fault is definition D with a plausible mistake, see SemiNaive.        *)
(***************************************************************************)
EXTENDS RuleRewrite, KernelJoin

CONSTANTS
    Programs,   \* sequences of rules
    Databases   \* records [full, delta]: relation -> rows; delta of some of them

ASSUME InputsOK ==
    \A db \in Databases : \A q \in DOMAIN db.delta :
        q \in DOMAIN db.full /\ db.delta[q] \subseteq db.full[q]

VARIABLES
    input,    \* the program as written
    db,       \* the contents of its relations
    rules,    \* the program after the passes so far
    phase,    \* the pass at hand
    variant,  \* [rule, delta, shared]: what is planned; shared: concurrent_write
    orders,   \* its clause and variable order
    ops,      \* its pipeline
    counts,   \* thread -> rows it announced
    written   \* thread -> bindings it wrote

vars == <<input, db, rules, phase, variant, orders, ops, counts, written>>
planning == <<variant, orders, ops, counts, written>>

Init ==
    /\ input \in Programs
    /\ db \in Databases
    /\ rules = input
    /\ phase = "wildcards"
    /\ variant = [rule |-> 0, delta |-> 0, shared |-> FALSE]
    /\ orders = [clauses |-> <<>>, vars |-> <<>>]
    /\ ops = <<>>
    /\ counts = <<>> /\ written = <<>>

RewritePass(this, next, Rewrite(_)) ==
    /\ phase = this
    /\ rules' = [i \in DOMAIN rules |-> Rewrite(rules[i])]
    /\ phase' = next
    /\ UNCHANGED <<input, db, planning>>

WildcardPass == RewritePass("wildcards", "constants", RewriteWildcards)
ConstantPass == RewritePass("constants", "head_constants", RewriteConstants)
HeadConstantPass == RewritePass("head_constants", "semi_joins", RewriteHeadConstants)

(* One round; rounds go on until none adds a rule.                         *)
SemiJoinPass ==
    /\ phase = "semi_joins"
    /\ rules' = OptimizeSemiJoins(rules)
    /\ phase' = IF Len(rules') = Len(rules) THEN "plan" ELSE "semi_joins"
    /\ UNCHANGED <<input, db, planning>>

Deltas(body) == {0} \cup {i \in OfKind(body, "atom") : body[i].rel \in DOMAIN db.delta}

PlanVariant ==
    /\ phase = "plan"
    /\ \E i \in DOMAIN rules : \E d \in Deltas(rules[i].body), shared \in BOOLEAN :
          /\ variant' = [rule |-> i, delta |-> d, shared |-> shared]
          /\ orders' = Orders(rules[i], d)
    /\ phase' = "lower"
    /\ UNCHANGED <<input, db, rules, ops, counts, written>>

TheRule == rules[variant.rule]

PipelinePass(this, next, pipeline) ==
    /\ phase = this
    /\ ops' = pipeline
    /\ phase' = next
    /\ UNCHANGED <<input, db, rules, variant, orders, counts, written>>

LowerPass == PipelinePass("lower", "clause_order", LowerVariant(TheRule, orders.vars))
ClauseOrderPass == PipelinePass("clause_order", "prefix", ClauseOrderReorder(ops, orders.clauses))
PrefixPass == PipelinePass("prefix", "count", PrefixSourceReorder(ops))

(* What each clause of the variant reads.                                  *)
Rows ==
    LET body == TheRule.body
        full == RowsOf(body, Extended(rules, db.full))
    IN  [i \in DOMAIN body |-> IF i = variant.delta THEN db.delta[body[i].rel] ELSE full[i]]

CanRun == Supported(ops, variant.shared) /\ WellScoped(TheRule, ops)

RunCount ==
    /\ phase = "count"
    /\ CanRun
    /\ counts' = [t \in Thread |-> Counted(TheRule.body, ops, Rows, t)]
    /\ phase' = "write"
    /\ UNCHANGED <<input, db, rules, variant, orders, ops, written>>

RunWrite ==
    /\ phase = "write"
    /\ written' = [t \in Thread |-> Written(TheRule.body, ops, Rows, t, variant.shared)]
    /\ phase' = "done"
    /\ UNCHANGED <<input, db, rules, variant, orders, ops, counts>>

(* The pipeline has no lowering, or its kernel does not compile.           *)
Refuse ==
    /\ phase = "count"
    /\ ~CanRun
    /\ phase' = "refused"
    /\ UNCHANGED <<input, db, rules, planning>>

Terminated == phase \in {"done", "refused"} /\ UNCHANGED vars

Next ==
    \/ WildcardPass
    \/ ConstantPass
    \/ HeadConstantPass
    \/ SemiJoinPass
    \/ PlanVariant
    \/ LowerPass
    \/ ClauseOrderPass
    \/ PrefixPass
    \/ RunCount
    \/ RunWrite
    \/ Refuse
    \/ Terminated

Spec == Init /\ [][Next]_vars

-----------------------------------------------------------------------------
(* The rewritten program derives from the database what the program as     *)
(* written derives from it.                                                *)
MeaningKept == Derived(rules, db.full) = Derived(input, db.full)

(* The writing kernel writes one row for every match of the body, whatever *)
(* warp and lane finds it, and none for anything else.                     *)
EachMatchOnce ==
    phase = "done" =>
        LET matches == Matches(TheRule.body, Rows)
            all == FlattenSeq([w \in 1 .. NumWarps |-> FlattenSeq([l \in 1 .. GroupSize |->
                                   written[<<w - 1, l - 1>>]])])
        IN  /\ ToSet(all) = matches
            /\ Len(all) = Cardinality(matches)

(* A thread writes as many rows as it announced, and where the lanes of a  *)
(* warp share one region, the warp does: no row lands in a region that     *)
(* another thread was given.                                               *)
WarpSum(f, w) == FoldLeft(LAMBDA acc, l : acc + f[<<w, l - 1>>], 0, [l \in 1 .. GroupSize |-> l])

CountsMatchWrites ==
    phase = "done" =>
        LET wrote == [t \in Thread |-> Len(written[t])]
        IN  /\ \A w \in Warp : WarpSum(counts, w) = WarpSum(wrote, w)
            /\ ~IsTiled(ops, variant.shared) => counts = wrote

(* Whatever operation reads a clause, it reads the index that was planned  *)
(* for it (the only one that is built), and what it takes as given is a    *)
(* prefix of that index's columns.                                         *)
PlannedIndexRead ==
    phase \in {"count", "write", "done"} =>
        \A o \in {ops[k] : k \in {m \in DOMAIN ops : ops[m].op \in {"scan", "join", "cart"}}} :
            \A s \in ToSet(o.sources) :
                LET p == AccessPattern(TheRule.body, s.clause, orders.vars)
                IN  /\ s.cols = p.cols
                    /\ \A k \in DOMAIN s.prefix :
                          TheRule.body[s.clause].args[s.cols[k]] = s.prefix[k]

(* A rule is refused only for one of two reasons: a filter, let or         *)
(* negation reads a variable that no atom, and no let before it in source  *)
(* order, binds, or a negation has a constant.  In particular the planner's*)
(* order of filters and lets is not needed for the kernel to compile.      *)
InOrder(body) ==
    \A i \in DOMAIN body :
        LET atoms == UNION {ClauseVars(body[k]) : k \in OfKind(body, "atom")}
            lets == {body[k].var : k \in {m \in OfKind(body, "let") : m < i}}
        IN  CASE body[i].kind = "atom" -> TRUE
              [] body[i].kind = "not"  -> {v \in ClauseVars(body[i]) : ~Underscored(v)} \subseteq atoms
              [] OTHER                 -> ToSet(body[i].args) \subseteq atoms \cup lets

RefusedForCause ==
    phase = "refused" =>
        \/ ~InOrder(TheRule.body)
        \/ \E i \in OfKind(TheRule.body, "not") : \E t \in ToSet(TheRule.body[i].args) : IsConst(t)
=============================================================================
