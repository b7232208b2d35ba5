------------------------------ MODULE JoinPlan ------------------------------
(***************************************************************************)
(* Join planning and lowering of one variant of a rule: the order of its   *)
(* clauses, the order its variables are bound in, the column order in      *)
(* which each clause is read, and the pipeline of operations that the      *)
(* kernel is generated from.  d is the clause the variant reads in the     *)
(* delta version, 0 for the base variant.                                  *)
(***************************************************************************)
EXTENDS Rules

Dedup(s) == FoldLeft(LAMBDA acc, x : IF Contains(acc, x) THEN acc ELSE Append(acc, x), <<>>, s)
Vars(args) == SelectSeq(args, IsVar)
IndexOf(s, x) == Min({k \in DOMAIN s : s[k] = x})

(* _clause_lvar_names, _get_dependencies, _get_produced_vars               *)
Names(c) == IF c.kind = "let" THEN <<c.var>> ELSE Vars(c.args)

Needs(c) == IF c.kind = "atom" THEN {} ELSE ToSet(Vars(c.args))

Produces(c) ==
    CASE c.kind = "atom" -> ToSet(Vars(c.args))
      [] c.kind = "let"  -> {c.var}
      [] OTHER           -> {}

JoinVars_Fault(body) ==
    LET all == FlattenSeq([i \in DOMAIN body |-> IF body[i].kind \in {"atom", "not"} THEN Vars(body[i].args) ELSE <<>>])
    IN  {v \in ToSet(all) : Cardinality({k \in DOMAIN all : all[k] = v}) > 1}

(* analyze_rule: variables that occur more than once in positive clauses.  *)
JoinVars(body) ==
    LET all == FlattenSeq([i \in DOMAIN body |-> IF body[i].kind = "atom" THEN Vars(body[i].args) ELSE <<>>])
    IN  {v \in ToSet(all) : Cardinality({k \in DOMAIN all : all[k] = v}) > 1}

-----------------------------------------------------------------------------
(***************************************************************************)
(* Clause order without a plan: filters as soon as they can run, then the  *)
(* delta clause, then the clause most of whose variables are bound.        *)
(***************************************************************************)
Runnable(body, left, bound) ==
    LET ready == {i \in left : Needs(body[i]) \subseteq bound}
        atoms == left \cap OfKind(body, "atom")
    IN  IF ready # {} THEN ready ELSE {Min(IF atoms # {} THEN atoms ELSE left)}

PickClause(body, ready, bound, d) ==
    LET filters == ready \cap OfKind(body, "filter")
        Overlap(i) == IF body[i].kind # "atom" THEN 0
                      ELSE Len(SelectSeq(Names(body[i]), LAMBDA v : v \in bound))
        best == {i \in ready : \A j \in ready : Overlap(j) <= Overlap(i)}
    IN  IF filters # {} THEN Min(filters) ELSE IF d \in ready THEN d ELSE Min(best)

ComputeClauseOrder(body, d) ==
    LET Schedule(acc, n) ==
            LET left == DOMAIN body \ ToSet(acc.order)
                i == PickClause(body, Runnable(body, left, acc.bound), acc.bound, d)
            IN  [order |-> Append(acc.order, i), bound |-> acc.bound \cup Produces(body[i])]
    IN  FoldLeft(Schedule, [order |-> <<>>, bound |-> {}], [n \in DOMAIN body |-> n]).order

(* Clause order of a plan that names variables only: for each of them the  *)
(* clause that introduces it, then the rest, filters first.                *)
DeriveClauseOrder(body, vars, d) ==
    LET Ready(acc, i) == i \notin ToSet(acc.order) /\ Needs(body[i]) \subseteq acc.bound
        Take(acc, i) == [order |-> Append(acc.order, i), bound |-> acc.bound \cup ToSet(Names(body[i]))]
        ForVar(acc, v) ==
            LET c == {i \in DOMAIN body : Ready(acc, i) /\ v \in ToSet(Names(body[i]))}
            IN  IF v \in acc.bound \/ c = {} THEN acc
                ELSE Take(acc, IF d \in c THEN d ELSE Min(c))
        Sweep(acc, n) ==
            LET left == DOMAIN body \ ToSet(acc.order)
                ready == {i \in left : Ready(acc, i)}
                filters == ready \cap OfKind(body, "filter")
            IN  IF left = {} THEN acc
                ELSE Take(acc, Min(IF filters # {} THEN filters
                                   ELSE IF ready # {} THEN ready ELSE left))
    IN  FoldLeft(Sweep, FoldLeft(ForVar, [order |-> <<>>, bound |-> {}], vars),
                 [n \in DOMAIN body |-> n]).order

(* Join variables of the delta clause, other join variables, the rest.     *)
ComputeVarOrder(body, order, d) ==
    LET all == FlattenSeq([k \in DOMAIN order |-> Names(body[order[k]])])
        first == IF d = 0 THEN <<>> ELSE Names(body[d])
        joins == JoinVars(body)
    IN  Dedup(SelectSeq(first \o all, LAMBDA v : v \in joins)
                  \o SelectSeq(all, LAMBDA v : v \notin joins))

(* _plan_variant: the plan for this delta, if it orders variables.         *)
Planned(rule, d) == SelectSeq(rule.plans, LAMBDA p : p.delta = d)

Orders(rule, d) ==
    LET plans == Planned(rule, d)
        auto == ComputeClauseOrder(rule.body, d)
    IN  IF plans = <<>> \/ plans[1].var_order = <<>>
        THEN [clauses |-> auto, vars |-> ComputeVarOrder(rule.body, auto, d)]
        ELSE [clauses |-> IF plans[1].clause_order # <<>> THEN plans[1].clause_order
                          ELSE DeriveClauseOrder(rule.body, plans[1].var_order, d),
              vars |-> plans[1].var_order]

IndexColumns_Fault(c, access, consts) ==
    Dedup((IF c.kind = "not" THEN consts ELSE <<>>) \o [k \in DOMAIN c.args |-> k])

(* The columns of the index, in the order the clause's variables are bound.*)
IndexColumns(c, access, consts) ==
    Dedup((IF c.kind = "not" THEN consts ELSE <<>>)
              \o [n \in DOMAIN access |-> IndexOf(c.args, access[n])]
              \o [k \in DOMAIN c.args |-> k])

(***************************************************************************)
(* compute_access_pattern.  Variables a plan leaves out follow in the      *)
(* order of their names: those of constants, then those of wildcards.      *)
(***************************************************************************)
AccessPattern(body, i, vars) ==
    LET c == body[i]
        mine == ToSet(Vars(c.args))
        rest == SelectSeq(Dedup(Vars(c.args)), LAMBDA v : ~Contains(vars, v))
        access == SelectSeq(vars, LAMBDA v : v \in mine)
                      \o SelectSeq(rest, LAMBDA v : v[1] = "_c")
                      \o SelectSeq(rest, LAMBDA v : v[1] # "_c")
        consts == SelectSeq([k \in DOMAIN c.args |-> k], LAMBDA k : IsConst(c.args[k]))
        joins == JoinVars(body)
    IN  [clause |-> i, rel |-> c.rel, access |-> access,
         cols |-> IndexColumns(c, access, consts),
         prefix_len |-> Len(SelectSeq(access, LAMBDA v :
                            IF c.kind = "not" THEN ~Underscored(v) ELSE v \in joins)),
         consts |-> [n \in DOMAIN consts |-> c.args[consts[n]][2]]]

Patterns(body, vars, kind) ==
    LET order == Ascending(OfKind(body, kind))
    IN  [n \in DOMAIN order |-> AccessPattern(body, order[n], vars)]

-----------------------------------------------------------------------------
(***************************************************************************)
(* Lowering: one join per join variable, one Cartesian product of what is  *)
(* left, the negations, the filters and lets in source order, the inserts. *)
(* A source reads the columns cols, the first Len(prefix) of them at the   *)
(* values of variables bound before.                                       *)
(***************************************************************************)
Source(p, cols, prefix, gives) ==
    [clause |-> p.clause, cols |-> cols, prefix |-> prefix, gives |-> gives]

ColumnJoins(pats, vars, joins) ==
    LET order == SelectSeq(vars, LAMBDA v : v \in joins)
        SourcesOf(v, bound) ==
            LET ps == SelectSeq(pats, LAMBDA p : Contains(p.access, v))
            IN  [n \in DOMAIN ps |->
                    Source(ps[n], ps[n].cols, SelectSeq(ps[n].access, LAMBDA x : x \in bound), <<v>>)]
        all == [k \in DOMAIN order |->
                   [op |-> "join", var |-> order[k],
                    sources |-> SourcesOf(order[k], ToSet(SubSeq(order, 1, k - 1)))]]
    IN  SelectSeq(all, LAMBDA o : o.sources # <<>>)

(* A clause no join read gets an index with its bound columns first.       *)
CartesianIndex(p, joined, bound) ==
    LET early == SelectSeq(bound, LAMBDA v : Contains(p.access, v))
    IN  IF p.clause \in joined THEN p.cols
        ELSE Dedup([n \in DOMAIN early |-> p.cols[IndexOf(p.access, early[n])]] \o p.cols)

(* The variables of the pattern, in the order of the index columns.        *)
VarsInOrder(p, cols) ==
    LET held == SelectSeq(cols, LAMBDA c : IndexOf(p.cols, c) <= Len(p.access))
    IN  [n \in DOMAIN held |-> p.access[IndexOf(p.cols, held[n])]]

Cartesian(body, pats, negs, vars, joins, joinOps) ==
    LET positive == UNION {ToSet(p.access) : p \in ToSet(pats)}
        negOnly == UNION {ToSet(p.access) : p \in ToSet(negs)} \ positive
        lets == {body[i].var : i \in OfKind(body, "let")}
        listed == SelectSeq(vars, LAMBDA v : v \notin joins \cup negOnly \cup lets)
        inBody == FlattenSeq([n \in DOMAIN pats |-> Vars(body[pats[n].clause].args)])
        free == Dedup(listed \o SelectSeq(inBody, LAMBDA v : v \notin joins \cup negOnly))
        joined == UNION {{s.clause : s \in ToSet(o.sources)} : o \in ToSet(joinOps)}
        bound == [n \in DOMAIN joinOps |-> joinOps[n].var]
        ps == SelectSeq(pats, LAMBDA p : \E v \in ToSet(p.access) : Contains(free, v))
        Cart(p) ==
            LET cols == CartesianIndex(p, joined, bound)
            IN  Source(p, cols,
                       SelectSeq(VarsInOrder(p, cols), LAMBDA v : Contains(bound, v)),
                       SelectSeq(VarsInOrder(p, cols), LAMBDA v : Contains(free, v)))
    IN  IF free = <<>> \/ ps = <<>> THEN <<>>
        ELSE <<[op |-> "cart", sources |-> [n \in DOMAIN ps |-> Cart(ps[n])]]>>

ScanOf(p) == [op |-> "scan", sources |-> <<Source(p, p.cols, <<>>, p.access)>>]

NegationOf(p) ==
    [op |-> "not", clause |-> p.clause, cols |-> p.cols,
     prefix |-> SubSeq(p.access, 1, p.prefix_len), consts |-> p.consts]

LowerVariant(rule, vars) ==
    LET body == rule.body
        pats == Patterns(body, vars, "atom")
        negs == Patterns(body, vars, "not")
        joins == ColumnJoins(pats, vars, JoinVars(body))
        tests == Ascending(OfKind(body, "filter") \cup OfKind(body, "let"))
    IN  (CASE pats = <<>>   -> <<>>
           [] Len(pats) = 1 -> <<ScanOf(pats[1])>>
           [] OTHER         -> joins \o Cartesian(body, pats, negs, vars, JoinVars(body), joins))
        \o [n \in DOMAIN negs |-> NegationOf(negs[n])]
        \o [n \in DOMAIN tests |-> [op |-> body[tests[n]].kind, clause |-> tests[n]]]
        \o [h \in DOMAIN rule.heads |-> [op |-> "insert", head |-> h]]

-----------------------------------------------------------------------------
(***************************************************************************)
(* The passes over the pipeline: sources in clause order, then, unless the *)
(* first is, those narrowed by a bound variable first.  Both sorts are     *)
(* stable.                                                                 *)
(***************************************************************************)
Joining(o) == o.op \in {"join", "cart"}

ByClauseOrder(order, sources) ==
    LET Rank(s) == IF Contains(order, s.clause) THEN IndexOf(order, s.clause) ELSE Len(order) + 1
    IN  IF order = <<>> THEN sources
        ELSE FlattenSeq([r \in 1 .. Len(order) + 1 |-> SelectSeq(sources, LAMBDA s : Rank(s) = r)])

PrefixedFirst(sources) ==
    LET Prefixed(s) == s.prefix # <<>>
        Bare(s) == s.prefix = <<>>
    IN  IF Prefixed(sources[1]) THEN sources
        ELSE SelectSeq(sources, Prefixed) \o SelectSeq(sources, Bare)

ClauseOrderReorder(ops, order) ==
    [k \in DOMAIN ops |-> IF Joining(ops[k]) THEN [ops[k] EXCEPT !.sources = ByClauseOrder(order, @)]
                          ELSE ops[k]]

PrefixSourceReorder(ops) ==
    [k \in DOMAIN ops |-> IF Joining(ops[k]) THEN [ops[k] EXCEPT !.sources = PrefixedFirst(@)]
                          ELSE ops[k]]
=============================================================================
