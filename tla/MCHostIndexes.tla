---------------------------- MODULE MCHostIndexes ----------------------------
EXTENDS HostIndexes

Pairs == {<<1, 1>>, <<1, 2>>, <<2, 1>>}
MCRows == [k \in Kinds |-> IF k = "btree" THEN Pairs \cup {<<1, 3>>} ELSE Pairs]
MCOrders == {<<2, 1>>}
MCMaxRows == [trie |-> 3, hashmap |-> 3, sorted |-> 4, btree |-> 3]
=============================================================================
