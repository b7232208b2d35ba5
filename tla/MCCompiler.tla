----------------------------- MODULE MCCompiler -----------------------------
(***************************************************************************)
(* Programs with every kind of clause, every shape of pipeline the code    *)
(* generator accepts inside a join or a scan, plans by the user, and the   *)
(* semi-join pass; databases that are full, sparse, skewed and empty.      *)
(***************************************************************************)
EXTENDS Compiler

Rel(name) == <<name>>
x == Src("x")
y == Src("y")
z == Src("z")
w == Src("w")
u == Src("u")

A(a)       == Atom(Rel("A"), <<a>>)
E(a)       == Atom(Rel("E"), <<a>>)
B(a, b)    == Atom(Rel("B"), <<a, b>>)
C(a, b)    == Atom(Rel("C"), <<a, b>>)
F(a, b)    == Atom(Rel("F"), <<a, b>>)
D(a, b, c) == Atom(Rel("D"), <<a, b, c>>)
NotA(a)    == Negation(Rel("A"), <<a>>)
NotF(a, b) == Negation(Rel("F"), <<a, b>>)
Differ(a, b) == Filter(<<a, b>>, {p \in Value \X Value : p[1] # p[2]})
NotOne(a)  == Filter(<<a>>, {<<v>> : v \in Value \ {1}})
Swap(v, a) == Let(v, <<a>>, [p \in {<<k>> : k \in Value} |-> IF p[1] = 1 THEN 2 ELSE 1])
ToH(args) == Atom(Rel("H"), args)
ToK(args) == Atom(Rel("K"), args)

RuleWith(heads, body, semi, plans) ==
    [heads |-> heads, body |-> body, semi_join |-> semi, plans |-> plans, generated |-> FALSE]
Rule(args, body) == RuleWith(<<ToH(args)>>, body, FALSE, <<>>)
SemiJoined(args, body) == RuleWith(<<ToH(args)>>, body, TRUE, <<>>)
Plan(delta, order) == [delta |-> delta, clause_order |-> <<>>, var_order |-> order]

Joins == {
    Rule(<<x, z>>, <<B(x, y), C(y, z)>>),
    Rule(<<x, z>>, <<B(x, y), B(y, z)>>),
    Rule(<<x, y, z>>, <<B(x, y), C(y, z), F(x, z)>>),
    Rule(<<x, y, z, w>>, <<B(x, y), C(x, z), F(x, w)>>),
    Rule(<<x, y, w>>, <<D(x, y, z), C(x, w)>>),
    Rule(<<x, w>>, <<D(x, y, z), C(z, w), A(x)>>),
    Rule(<<x, u>>, <<B(x, y), C(y, z), F(z, w), D(w, u, x)>>),
    RuleWith(<<ToH(<<x, z>>), ToK(<<z>>)>>, <<C(y, z), B(x, y)>>, FALSE, <<>>)}

Selections == {
    Rule(<<x>>, <<B(x, Wild), A(x)>>),
    Rule(<<x, Const(1)>>, <<B(x, Const(2)), A(x)>>),
    Rule(<<x>>, <<D(Const(1), x, Wild)>>),
    Rule(<<x, w>>, <<B(x, y), A(x), Swap(w, y)>>),
    Rule(<<x, z>>, <<B(x, y), C(y, z), Differ(x, z), NotOne(y)>>),
    Rule(<<x, w>>, <<B(x, y), Swap(w, x), NotOne(w), C(y, z)>>)}

Refused == {
    Rule(<<x, w>>, <<NotOne(w), B(x, y), Swap(w, x), C(y, z)>>),
    Rule(<<x>>, <<B(x, y), NotF(Const(1), y)>>)}

Negations == {
    Rule(<<x, y>>, <<B(x, y), NotA(y)>>),
    Rule(<<x>>, <<NotF(x, Wild), B(x, y)>>),
    Rule(<<x, z>>, <<B(x, y), C(y, z), NotF(z, x), NotA(y)>>),
    Rule(<<x, z>>, <<B(x, y), C(y, z), NotF(y, z), NotOne(z)>>),
    Rule(<<x, z>>, <<D(x, y, u), C(y, z), NotF(Const(1), z)>>)}

UserPlans == {
    RuleWith(<<ToH(<<x, z>>)>>, <<B(x, y), C(y, z)>>, FALSE, <<Plan(0, <<y, z, x>>), Plan(2, <<y, x, z>>)>>),
    RuleWith(<<ToH(<<x, z>>)>>, <<B(x, y), C(y, z), F(z, x), NotA(y)>>, FALSE,
             <<Plan(0, <<z, y, x>>), Plan(1, <<x, z, y>>)>>),
    RuleWith(<<ToH(<<z>>)>>, <<D(x, y, z), E(y), A(x)>>, TRUE, <<Plan(0, <<x, y, z>>), Plan(1, <<y, x, z>>)>>)}

SemiJoins == {
    SemiJoined(<<x, z>>, <<D(x, y, z), E(y), C(z, x)>>),
    SemiJoined(<<x, z>>, <<E(y), D(x, y, z), A(x)>>),
    SemiJoined(<<x, w>>, <<D(x, y, z), E(y), C(y, w)>>),
    SemiJoined(<<x, y>>, <<D(x, y, Wild), A(x), Differ(x, y)>>),
    SemiJoined(<<x, z>>, <<D(x, y, z), B(x, y), F(z, x), NotA(z)>>),
    SemiJoined(<<x, w>>, <<D(x, y, z), B(x, y), D(y, z, w), A(w)>>),
    SemiJoined(<<z>>, <<D(x, y, z), A(x), B(x, y)>>)}

MCPrograms == {<<r>> : r \in Joins \cup Selections \cup Negations \cup UserPlans \cup Refused \cup SemiJoins}
                \cup {<<SemiJoined(<<x, z>>, <<D(x, y, z), E(y), C(z, x)>>),
                        SemiJoined(<<x>>, <<D(x, y, z), E(y), C(z, x), NotA(x)>>)>>}

(* In these programs no filter is lost; in MCChains one is: B(x, y) is the *)
(* filter of D(x, y, z) and the target of A(x).                            *)
MCChains == {<<SemiJoined(<<z>>, <<D(x, y, z), B(x, y), A(x)>>)>>}

ASSUME NothingChained ==
    \A program \in MCPrograms : \A r \in ToSet(program) :
        r.semi_join => ~Chained(RewriteConstants(RewriteWildcards(r)).body)

Square == Value \X Value
Cube == {<<a, b, c>> : a \in Value, b \in Value, c \in Value}
Contents(a, e, b, c, f, d) ==
    (Rel("A") :> a) @@ (Rel("E") :> e) @@ (Rel("B") :> b) @@ (Rel("C") :> c)
        @@ (Rel("F") :> f) @@ (Rel("D") :> d)

MCDatabases == {
    [full |-> Contents({<<1>>, <<2>>}, {<<2>>, <<3>>}, Square, {p \in Square : p[1] # 3},
                       {<<1, 2>>, <<2, 2>>, <<3, 1>>}, {t \in Cube : t[1] # t[2]}),
     delta |-> (Rel("B") :> {p \in Square : p[1] = 2}) @@ (Rel("C") :> {<<2, 1>>, <<2, 2>>, <<1, 3>>})],
    [full |-> Contents({<<2>>, <<3>>}, {<<1>>}, {<<1, 2>>, <<1, 3>>, <<2, 2>>, <<3, 1>>},
                       {p \in Square : p[1] = 2}, Square \ {<<2, 2>>},
                       {<<1, 2, 3>>, <<2, 1, 3>>, <<2, 1, 1>>, <<1, 1, 2>>}),
     delta |-> Rel("B") :> {<<1, 2>>, <<1, 3>>}],
    [full |-> Contents({<<1>>}, {}, {<<1, 1>>}, {<<1, 1>>, <<1, 2>>, <<3, 2>>}, {}, {<<1, 1, 1>>, <<1, 2, 1>>}),
     delta |-> Rel("B") :> {}]}
=============================================================================
