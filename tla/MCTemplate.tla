----------------------------- MODULE MCTemplate -----------------------------
(***************************************************************************)
(* Programs for the template executor: every kind of operation, recursion  *)
(* with one and with two atoms of the relation being computed, several     *)
(* queries over a database that stays on the device or is copied, and a    *)
(* fixpoint that stops at its limit.                                       *)
(***************************************************************************)
EXTENDS TemplateExecutor

Rel(name) == <<name>>
x == Src("x")
y == Src("y")
z == Src("z")
w == Src("w")
n == Src("n")

Of(rel, args) == Reads("full", Atom(Rel(rel), args))
New(rel, args) == Reads("delta", Atom(Rel(rel), args))
Not(rel, args) == Reads("full", Negation(Rel(rel), args))
Count(rel, args) == Reads("full", Aggregate(n, "count", Rel(rel), args))
Largest(rel, args) == Reads("full", Aggregate(n, "max", Rel(rel), args))
Differ(a, b) == Filter(<<a, b>>, {p \in Value \X Value : p[1] # p[2]})
Swap(v, a) == Let(v, <<a>>, [p \in {<<k>> : k \in Value} |-> IF p[1] = 1 THEN 2 ELSE 1])

R(rel, args, body, order) == RuleOf(<<Atom(Rel(rel), args)>>, body, order)

Once(rules) == Compiled(rules, 1)
Fixpoint(rules) == Compiled(rules, 9)
AtMost(limit, rules) == Compiled(rules, limit)

Square == Value \X Value
Facts == (Rel("A") :> {<<1>>, <<2>>}) @@ (Rel("E") :> {<<2>>, <<3>>})
           @@ (Rel("B") :> {<<1, 2>>, <<2, 3>>, <<2, 1>>, <<3, 3>>})
           @@ (Rel("C") :> {<<2, 2>>, <<2, 3>>, <<3, 1>>})
           @@ (Rel("D") :> {<<1, 2, 3>>, <<2, 3, 1>>, <<2, 1, 1>>, <<3, 3, 2>>, <<1, 2, 2>>})
           @@ (Rel("H") :> {}) @@ (Rel("K") :> {}) @@ (Rel("S") :> {}) @@ (Rel("T") :> {})

Joins == {
    R("H", <<x, z>>, <<Of("B", <<x, y>>), Of("C", <<y, z>>)>>, <<y, x, z>>),
    R("H", <<x, z>>, <<Of("B", <<x, y>>), Of("C", <<y, z>>)>>, <<x, y, z>>),
    R("H", <<x, y, z>>, <<Of("B", <<x, y>>), Of("C", <<y, z>>), Of("B", <<z, x>>)>>, <<z, x, y>>),
    R("H", <<z, w>>, <<Of("A", <<x>>), Of("D", <<x, y, z>>), Of("B", <<y, w>>)>>, <<y, x, z, w>>),
    R("H", <<y, z>>, <<Of("A", <<x>>), Of("B", <<x, y>>), Of("B", <<x, z>>)>>, <<x, y, z>>),
    R("H", <<z, x, y>>, <<Of("D", <<x, y, z>>)>>, <<y, z, x>>),
    R("H", <<x, y>>, <<Of("A", <<x>>), Of("E", <<y>>)>>, <<x, y>>)}

Others == {
    R("H", <<x, w>>, <<Of("A", <<x>>), Of("B", <<x, y>>), Swap(w, y), Differ(x, y)>>, <<x, y, w>>),
    R("H", <<x, y>>, <<Of("B", <<x, y>>), Not("C", <<y, x>>), Not("A", <<y>>)>>, <<x, y>>),
    R("H", <<x, z>>, <<Of("B", <<x, y>>), Of("C", <<y, z>>), Not("B", <<z, x>>)>>, <<y, z, x>>),
    R("H", <<x, n>>, <<Of("E", <<x>>), Count("B", <<x, y>>)>>, <<x, n>>),
    R("H", <<x, n>>, <<Of("E", <<x>>), Of("C", <<x, y>>), Largest("D", <<y, z, x>>)>>, <<x, y, n>>)}

Closure == <<
    Once(<<R("T", <<x, y>>, <<Of("B", <<x, y>>)>>, <<x, y>>)>>),
    Fixpoint(<<R("T", <<x, z>>, <<New("T", <<x, y>>), Of("B", <<y, z>>)>>, <<y, x, z>>)>>),
    Once(<<R("H", <<x, y>>, <<Of("A", <<x>>), Of("T", <<y, x>>), Not("B", <<y, x>>)>>, <<x, y>>),
           R("K", <<x>>, <<Of("T", <<x, y>>), Of("E", <<y>>)>>, <<y, x>>)>>)>>

Symmetric == Fixpoint(<<
    R("S", <<x, y>>, <<Of("B", <<x, y>>)>>, <<x, y>>),
    R("S", <<x, z>>, <<New("S", <<x, y>>), Of("C", <<y, z>>)>>, <<x, y, z>>),
    R("S", <<x, y>>, <<New("S", <<y, x>>)>>, <<x, y>>)>>)

Siblings == <<
    R("S", <<x, y>>, <<Of("B", <<x, y>>)>>, <<x, y>>),
    R("S", <<x, y>>, <<New("S", <<x, z>>), Of("S", <<y, z>>)>>, <<z, x, y>>),
    R("S", <<x, y>>, <<Of("S", <<x, z>>), New("S", <<y, z>>)>>, <<z, x, y>>)>>

Mutual == Fixpoint(<<
    R("S", <<x>>, <<Of("A", <<x>>)>>, <<x>>),
    R("T", <<y>>, <<New("S", <<x>>), Of("B", <<x, y>>)>>, <<x, y>>),
    R("S", <<y>>, <<New("T", <<x>>), Of("C", <<x, y>>)>>, <<x, y>>)>>)

TwoHeads == RuleOf(<<Atom(Rel("H"), <<x, z>>), Atom(Rel("K"), <<y>>)>>,
                   <<Of("B", <<x, y>>), Of("C", <<y, z>>)>>, <<y, x, z>>)

Layers == <<
    Once(<<R("T", <<x, y>>, <<Of("B", <<x, y>>)>>, <<x, y>>),
           R("T", <<y, x>>, <<Of("C", <<x, y>>), Of("A", <<y>>)>>, <<y, x>>)>>),
    Once(<<R("S", <<x, z>>, <<Of("T", <<x, y>>), Of("T", <<y, z>>)>>, <<y, x, z>>),
           R("S", <<x, x>>, <<Of("E", <<x>>)>>, <<x>>)>>),
    Once(<<R("T", <<x, z>>, <<Of("T", <<x, y>>), Of("S", <<y, z>>)>>, <<x, y, z>>)>>),
    Once(<<R("H", <<x, z>>, <<Of("S", <<x, y>>), Of("S", <<z, y>>)>>, <<y, x, z>>),
           R("K", <<x>>, <<Of("T", <<y, x>>), Of("S", <<x, y>>), Not("A", <<y>>)>>, <<x, y>>)>>)>>

ProgramOf(queries) == [facts |-> Facts, queries |-> queries]
MCPrograms ==
    {ProgramOf(<<Once(<<r>>)>>) : r \in Joins \cup Others}
      \cup {ProgramOf(<<Once(<<TwoHeads>>)>>), ProgramOf(Layers), ProgramOf(Closure), ProgramOf(<<Symmetric>>), ProgramOf(<<Mutual>>),
            ProgramOf(<<Fixpoint(Siblings)>>),
            ProgramOf(<<AtMost(2, Siblings), Symmetric>>)}
=============================================================================
