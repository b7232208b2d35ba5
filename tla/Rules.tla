------------------------------- MODULE Rules -------------------------------
(***************************************************************************)
(* Datalog rules as the compiler's passes exchange them, and what a rule   *)
(* means.  A term is a tuple whose first component is its kind: a source   *)
(* variable <<"src", x>>, a wildcard <<"_", x>>, a constant <<"const", v>>,*)
(* or a variable the compiler made up, named after the place it stands for *)
(* (the code numbers them with a counter).  Names of relations are tuples. *)
(* The code of a filter is the set of argument tuples it accepts, that of  *)
(* a let a function of its arguments.                                      *)
(***************************************************************************)
EXTENDS Naturals, Sequences, FiniteSets, SequencesExt, FiniteSetsExt, TLC

CONSTANT Value    \* the column values

Src(x)    == <<"src", x>>
Const(v)  == <<"const", v>>
Wild      == <<"_", "">>

IsConst(t) == t[1] = "const"
IsWild(t)  == t[1] = "_"
IsVar(t)   == ~IsConst(t)
Underscored(t) == t[1] \in {"_", "_gen", "_c", "_hc"}

Atom(rel, args)     == [kind |-> "atom", rel |-> rel, args |-> args]
Negation(rel, args) == [kind |-> "not", rel |-> rel, args |-> args]
Filter(vars, pass)  == [kind |-> "filter", args |-> vars, pass |-> pass]
Let(var, deps, val) == [kind |-> "let", var |-> var, args |-> deps, val |-> val]

(* The elements of a set in some order, and numbers in ascending order.    *)
Listed(S) == FoldSet(LAMBDA e, acc : Append(acc, e), <<>>, S)
Ascending(S) == SortSeq(Listed(S), <)

OfKind(body, kind) == {i \in DOMAIN body : body[i].kind = kind}

(* _clause_vars: variables of a relation clause, none for a filter or let. *)
ClauseVars(c) ==
    IF c.kind \in {"atom", "not"} THEN {t \in ToSet(c.args) : IsVar(t)} ELSE {}

-----------------------------------------------------------------------------
(***************************************************************************)
(* The meaning of a rule: the bindings of its variables under which every  *)
(* clause holds.  Variables that no positive clause or let binds are local *)
(* to the negation they occur in, and wildcards to their place.            *)
(***************************************************************************)
BoundBy(body) ==
    {t \in UNION {ClauseVars(body[i]) : i \in OfKind(body, "atom")} : ~IsWild(t)}
        \cup {body[i].var : i \in OfKind(body, "let")}

Agrees(args, row, b) ==
    \A k \in DOMAIN args :
        /\ IsConst(args[k]) => row[k] = args[k][2]
        /\ args[k] \in DOMAIN b => row[k] = b[args[k]]

ValuesOf(vars, b) == [k \in DOMAIN vars |-> b[vars[k]]]

Holds(c, rows, b) ==
    CASE c.kind = "atom"   -> \E row \in rows : Agrees(c.args, row, b)
      [] c.kind = "not"    -> \A row \in rows : ~Agrees(c.args, row, b)
      [] c.kind = "filter" -> ValuesOf(c.args, b) \in c.pass
      [] c.kind = "let"    -> b[c.var] = c.val[ValuesOf(c.args, b)]

(* rows[i] is the set of rows clause i reads.                              *)
Matches(body, rows) ==
    {b \in [BoundBy(body) -> Value] : \A i \in DOMAIN body : Holds(body[i], rows[i], b)}

RowsOf(body, db) ==
    [i \in DOMAIN body |->
        IF body[i].kind \in {"atom", "not"} /\ body[i].rel \in DOMAIN db
        THEN db[body[i].rel] ELSE {}]

HeadRow(head, b) ==
    [k \in DOMAIN head.args |-> IF IsConst(head.args[k]) THEN head.args[k][2] ELSE b[head.args[k]]]

Derives(rule, db) ==
    UNION {{<<h.rel, HeadRow(h, b)>> : h \in ToSet(rule.heads)} :
             b \in Matches(rule.body, RowsOf(rule.body, db))}

(* The database with the relations the compiler added computed from it.    *)
Extended(rules, db) ==
    LET made == SelectSeq(rules, LAMBDA r : r.generated)
        names == {r.heads[1].rel : r \in ToSet(made)}
        Step(d) == [q \in DOMAIN db \cup names |->
                      IF q \in DOMAIN db THEN db[q]
                      ELSE {f[2] : f \in {g \in UNION {Derives(r, d) : r \in ToSet(made)} : g[1] = q}}]
    IN  FoldLeft(LAMBDA d, r : Step(d), db, made)

(* What the rules of the program derive from db, in one application.       *)
Derived(rules, db) ==
    LET full == Extended(rules, db)
    IN  UNION {Derives(rules[i], full) : i \in {k \in DOMAIN rules : ~rules[k].generated}}
=============================================================================
