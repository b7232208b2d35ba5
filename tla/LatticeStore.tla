---------------------------- MODULE LatticeStore ----------------------------
(***************************************************************************)
(* What a lattice relation promises, see "Functional lattice relations and *)
(* delta" of docs/ir_lowering_semantics.md: it gives each key at most one  *)
(* value; rules offer candidates; a merge, in one step, joins every        *)
(* candidate to the value of its key and leaves as delta the keys whose    *)
(* value is another one than before.  The delta of the merge before may be *)
(* dropped at any time.                                                    *)
(***************************************************************************)
EXTENDS FiniteSets, FiniteSetsExt

CONSTANTS
    Key,
    Value,
    Join(_, _),
    NoValue     \* no member of Value; stands for the value of a key that has none

VARIABLES
    store,     \* key -> value, or NoValue
    changed,   \* keys whose value the last merge changed
    offered    \* candidates since the last merge, <<key, value>>

vars == <<store, changed, offered>>

Init ==
    /\ store \in [Key -> Value \cup {NoValue}]
    /\ changed = {}
    /\ offered = {}

Offer ==
    /\ offered' \in SUBSET (Key \X Value)
    /\ offered \subseteq offered'
    /\ UNCHANGED <<store, changed>>

Joined(k) ==
    FoldSet(LAMBDA c, v : IF v = NoValue THEN c[2] ELSE Join(v, c[2]),
            store[k], {c \in offered : c[1] = k})

Merge ==
    /\ store' = [k \in Key |-> Joined(k)]
    /\ changed' = {k \in Key : Joined(k) # store[k]}
    /\ offered' = {}

Forget ==
    /\ changed' = {}
    /\ UNCHANGED <<store, offered>>

Next == Offer \/ Merge \/ Forget

Spec == Init /\ [][Next]_vars
=============================================================================
