---------------------------- MODULE RuleRewrite ----------------------------
(***************************************************************************)
(* The source-to-source passes the compiler runs before stratification:    *)
(* wildcards become variables, constants of positive clauses become        *)
(* variables with an equality filter, constants of heads variables bound   *)
(* by a let, and the semi-join pass replaces a clause and a clause over    *)
(* part of its variables by one generated relation.                        *)
(*                                                                         *)
(* A rule is [heads, body, semi_join, plans, generated]; a plan is         *)
(* [delta, clause_order, var_order], delta 0 for the base variant.         *)
(***************************************************************************)
EXTENDS Rules

(* rewrite_wildcards: every occurrence becomes a variable of its own.      *)
NameWildcards(args, at) ==
    [k \in DOMAIN args |-> IF IsWild(args[k]) THEN <<"_gen", at, k>> ELSE args[k]]

RewriteWildcards(rule) ==
    [rule EXCEPT
        !.heads = [h \in DOMAIN @ |-> [@[h] EXCEPT !.args = NameWildcards(@, 100 + h)]],
        !.body = [i \in DOMAIN @ |->
            IF @[i].kind \in {"atom", "not"}
            THEN [@[i] EXCEPT !.args = NameWildcards(@, i)] ELSE @[i]]]

(* rewrite_constants: an atom with constants is followed by their filter.  *)
ConstColumns(args) == Ascending({k \in DOMAIN args : IsConst(args[k])})

NameConstants(kind, args, at) ==
    [k \in DOMAIN args |-> IF IsConst(args[k]) THEN <<kind, at, k>> ELSE args[k]]

WithoutConstants(c, at) ==
    LET cols == ConstColumns(c.args) IN
    IF c.kind # "atom" \/ cols = <<>> THEN <<c>>
    ELSE <<Atom(c.rel, NameConstants("_c", c.args, at)),
           Filter([n \in DOMAIN cols |-> <<"_c", at, cols[n]>>],
                  {[n \in DOMAIN cols |-> c.args[cols[n]][2]]})>>

RewriteConstants(rule) ==
    [rule EXCEPT !.body = FlattenSeq([i \in DOMAIN @ |-> WithoutConstants(@[i], i)])]

(* rewrite_head_constants: the lets go behind the whole body.              *)
LetsOf(head, at) ==
    LET cols == ConstColumns(head.args)
    IN  [n \in DOMAIN cols |-> Let(<<"_hc", at, cols[n]>>, <<>>, <<>> :> head.args[cols[n]][2])]

RewriteHeadConstants(rule) ==
    [rule EXCEPT
        !.heads = [h \in DOMAIN @ |-> [@[h] EXCEPT !.args = NameConstants("_hc", @, h)]],
        !.body = @ \o FlattenSeq([h \in DOMAIN rule.heads |-> LetsOf(rule.heads[h], h)])]

-----------------------------------------------------------------------------
(***************************************************************************)
(* The semi-join pass.  Filter j can be joined into target i when its      *)
(* variables are some, but not all, of the variables of i.                 *)
(***************************************************************************)
IsSemiJoinRelation(rel) == rel[1] = "_SJ_"

IsCandidate(filt, target) ==
    /\ filt.kind = "atom" /\ target.kind = "atom"
    /\ ClauseVars(filt) # {}
    /\ ClauseVars(filt) \subseteq ClauseVars(target)
    /\ ClauseVars(filt) # ClauseVars(target)

FiltersFor(body, i) ==
    IF body[i].kind = "atom" /\ ~IsSemiJoinRelation(body[i].rel)
    THEN {j \in DOMAIN body \ {i} : IsCandidate(body[j], body[i])} ELSE {}

(* target -> the first clause that can be its filter                       *)
Rewrites(body) ==
    [i \in {t \in DOMAIN body : FiltersFor(body, t) # {}} |-> Min(FiltersFor(body, i))]

(* A clause that a filter was to be joined into is dropped as the filter   *)
(* of another: the relation generated for the two is read by nobody, and   *)
(* what the first filter demands is lost.                                  *)
Chained(body) == \E j \in Range(Rewrites(body)) : j \in DOMAIN Rewrites(body)

KeptColumns_Fault(rule, i, j) ==
    LET args == rule.body[i].args
        elsewhere == {t \in ToSet(rule.heads[1].args) : IsVar(t)}
    IN  Ascending({k \in DOMAIN args :
            args[k] \notin ClauseVars(rule.body[j]) \/ args[k] \in elsewhere})

(* Columns of the target that the rest of the rule still needs.            *)
KeptColumns(rule, i, j) ==
    LET args == rule.body[i].args
        elsewhere == {t \in ToSet(rule.heads[1].args) : IsVar(t)}
            \cup UNION {ClauseVars(rule.body[k]) : k \in DOMAIN rule.body \ {i, j}}
    IN  Ascending({k \in DOMAIN args :
            args[k] \notin ClauseVars(rule.body[j]) \/ args[k] \in elsewhere})

SemiJoinName(rule, i, j) ==
    <<"_SJ_", rule.body[i].rel, rule.body[j].rel, KeptColumns(rule, i, j)>>

SemiJoinAtom(rule, i, j) ==
    Atom(SemiJoinName(rule, i, j),
         [n \in DOMAIN KeptColumns(rule, i, j) |-> rule.body[i].args[KeptColumns(rule, i, j)[n]]])

(* _SJ_...(kept columns) <- target(v1, ..), filter(its columns in target). *)
SemiJoinRule(rule, i, j) ==
    LET target == rule.body[i]
        filt == rule.body[j]
        V(k) == <<"v", k>>
        ColumnOf(t) == Min({k \in DOMAIN target.args : target.args[k] = t})
    IN  [heads |-> <<Atom(SemiJoinName(rule, i, j),
                          [n \in DOMAIN KeptColumns(rule, i, j) |-> V(KeptColumns(rule, i, j)[n])])>>,
         body |-> <<Atom(target.rel, [k \in DOMAIN target.args |-> V(k)]),
                    Atom(filt.rel, [k \in DOMAIN filt.args |-> V(ColumnOf(filt.args[k]))])>>,
         semi_join |-> FALSE, plans |-> <<>>, generated |-> TRUE]

Optimised(rule) == rule.semi_join /\ Len(rule.body) > 2

GeneratedFrom(rule) ==
    LET rw == Rewrites(rule.body)
        targets == Ascending(DOMAIN rw)
    IN  IF Optimised(rule)
        THEN [n \in DOMAIN targets |-> SemiJoinRule(rule, targets[n], rw[targets[n]])]
        ELSE <<>>

(* Index of clause i in the new body; 0 when a plan can no longer name it. *)
NewIndex(body, i) ==
    LET rw == Rewrites(body)
        gone == Range(rw)
        At(t) == Cardinality({k \in 1 .. t : k \notin gone})
        owners == {t \in DOMAIN rw \ gone : rw[t] = i /\ t > i}
    IN  IF i \notin gone THEN At(i)
        ELSE IF owners # {} THEN At(Min(owners)) ELSE 0

TranslatePlans(rule, body) ==
    LET names == UNION {ClauseVars(body[k]) : k \in DOMAIN body}
        New(k) == IF k = 0 THEN 0 ELSE NewIndex(rule.body, k)
        Present(k) == New(k) # 0
    IN  [n \in DOMAIN SelectSeq(rule.plans, LAMBDA p : p.delta = 0 \/ Present(p.delta)) |->
            LET p == SelectSeq(rule.plans, LAMBDA q : q.delta = 0 \/ Present(q.delta))[n]
                kept == SelectSeq(p.clause_order, Present)
            IN  [delta |-> New(p.delta),
                 clause_order |-> [k \in DOMAIN kept |-> New(kept[k])],
                 var_order |-> SelectSeq(p.var_order, LAMBDA v : v \in names)]]

WithSemiJoins(rule) ==
    LET rw == Rewrites(rule.body)
        left == Ascending(DOMAIN rule.body \ Range(rw))
        body == [n \in DOMAIN left |->
                    IF left[n] \in DOMAIN rw THEN SemiJoinAtom(rule, left[n], rw[left[n]])
                    ELSE rule.body[left[n]]]
    IN  IF Optimised(rule)
        THEN [rule EXCEPT !.body = body, !.plans = TranslatePlans(rule, body)] ELSE rule

(* optimize_semi_joins: one generated rule for each name, before the rest. *)
FirstOfEachName(rules) ==
    FoldLeft(LAMBDA acc, r : IF \E s \in ToSet(acc) : s.heads[1].rel = r.heads[1].rel
                             THEN acc ELSE Append(acc, r), <<>>, rules)

OptimizeSemiJoins(rules) ==
    FirstOfEachName(FlattenSeq([i \in DOMAIN rules |-> GeneratedFrom(rules[i])]))
        \o [i \in DOMAIN rules |-> WithSemiJoins(rules[i])]
=============================================================================
