-------------------------- MODULE LatticeFixpoint --------------------------
(***************************************************************************)
(* A fixpoint over one lattice relation: rules that read its values        *)
(* through several indexes and offer candidates, the merge that reduces    *)
(* the candidates by key and updates the sorted array of FULL in place     *)
(* with one thread per reduced row, and the maintenance of the other       *)
(* indexes.  Afterwards a later stratum reads the result through one of    *)
(* the indexes.                                                            *)
(*                                                                         *)
(* A row is <<key, value>>.  Index specs are "canonical" (key columns      *)
(* first, the one that is merged) and others, which hold the same rows.    *)
(*                                                                         *)
(* D_Fault is definition D with a plausible mistake, see SemiNaive.        *)
(***************************************************************************)
EXTENDS DeviceRelation, Sequences, SequencesExt, FiniteSetsExt

CONSTANTS
    Key,      \* keys, numbers
    Bound,    \* the largest bound of a value
    Spec2,    \* the specs other than "canonical"
    Programs, \* sequences of rules, records [reads, via, to, value]: the keys of the
              \* body, the index of each clause, the key of the head, a function of
              \* the values read
    Problems  \* records [program, rows]; rows: what FULL starts with

Bounds == 0 .. Bound
Interval == Bounds \X Bounds
RankedPair == Bounds \X Bounds \X Bounds
Value == Interval \cup RankedPair
Specs == {"canonical"} \cup Spec2

ASSUME ProblemsOK ==
    \A p \in Problems : \A r, s \in p.rows : r[1] = s[1] => r = s

Larger(a, b) == IF a > b THEN a ELSE b
Smaller(a, b) == IF a < b THEN a ELSE b

IntervalMeetTuple(v, w) == <<Larger(v[1], w[1]), Smaller(v[2], w[2])>>

(* Values are <<rank, lower, upper>>.                                      *)
MaxLowerFirstRankTuple(v, w) ==
    IF w[2] > v[2] \/ (w[2] = v[2] /\ w[1] < v[1]) THEN w ELSE v

(* The join is chosen by the declaration of the relation, hence by the     *)
(* shape of its values.                                                    *)
Join(v, w) ==
    IF v \in Interval /\ w \in Interval THEN IntervalMeetTuple(v, w)
                                        ELSE MaxLowerFirstRankTuple(v, w)

VARIABLES
    program,           \* the rules of the fixpoint
    full, delta, new,  \* the three versions, see DeviceRelation
    phase,
    first,      \* this is iteration 0
    pipelines,  \* variants that have not run in this iteration
    array,      \* the sorted rows of the canonical index of FULL, while merging
    reduced,    \* the candidates reduced by key, in key order
    probe,      \* what became of each: "none", "same", "changed", "missing"
    seed        \* history: the rows FULL started with

vars == <<program, full, delta, new, phase, first, pipelines, array, reduced, probe, seed>>
merging == <<array, reduced, probe>>
given == <<program, seed>>

rules == Programs[program]

ByKey(r, s) == r[1] < s[1]
SortedRows(rows) == SetToSortSeq(rows, ByKey)

Variants == {[rule |-> r, delta |-> i] : r \in DOMAIN rules, i \in 1 .. 2}
Recursive == {v \in Variants : v.delta \in DOMAIN rules[v.rule].reads}

(* The specs some clause reads in version FULL, in version DELTA.          *)
FullNeeded == UNION {{rules[v.rule].via[i] : i \in DOMAIN rules[v.rule].reads \ {v.delta}} : v \in Recursive}
DeltaRead == {rules[v.rule].via[v.delta] : v \in Recursive}
Required == DeltaRead \cup FullNeeded

(* A FULL relation as the simple stratum that seeded it leaves it.         *)
Seeded(rows) ==
    LET r == Put(Columns(rows, Cardinality(rows)), "canonical", Index(rows, Cardinality(rows)))
    IN  FoldSet(LAMBDA spec, acc : IndexFromIndex(acc, "canonical", spec), r, Specs \ {"canonical"})

Init ==
    /\ \E p \in Problems : program = p.program /\ seed = p.rows
    /\ full = Seeded(seed)
    /\ delta = NoColumns
    /\ new = NoColumns
    /\ phase = "prologue"
    /\ first = TRUE
    /\ pipelines = {}
    /\ array = <<>> /\ reduced = <<>> /\ probe = <<>>

EnsureAll(r, specs) == FoldSet(LAMBDA spec, acc : EnsureIndex(acc, spec, TRUE), r, specs)

Prologue ==
    /\ phase = "prologue"
    /\ full' = EnsureAll(full, Required)
    /\ delta' = EnsureAll(delta, DeltaRead)
    /\ new' = EnsureIndex(new, "canonical", TRUE)
    /\ pipelines' = Recursive
    /\ phase' = "run"
    /\ UNCHANGED <<first, merging, given>>

(* A clause sees the rows of its key in its index; in iteration 0 the      *)
(* delta clause is redirected to FULL.                                     *)
ReadFrom(v, i) ==
    LET version == IF i = v.delta /\ ~first THEN delta ELSE full
    IN  {r[2] : r \in {s \in Rows(version, rules[v.rule].via[i]) : s[1] = rules[v.rule].reads[i]}}

Candidates(v) ==
    LET rule == rules[v.rule]
        one == ReadFrom(v, 1)
        two == IF Len(rule.reads) = 2 THEN ReadFrom(v, 2) ELSE {}
    IN  IF Len(rule.reads) = 1 THEN {<<rule.to, rule.value[<<a>>]>> : a \in one}
        ELSE {<<rule.to, rule.value[<<p[1], p[2]>>]>> : p \in one \X two}

RunPipeline ==
    /\ phase = "run"
    /\ \E v \in pipelines :
          /\ new' = AppendRows(new, Candidates(v), Cardinality(Candidates(v)))
          /\ pipelines' = pipelines \ {v}
    /\ UNCHANGED <<full, delta, phase, first, merging, given>>

(* reduce_by_key over the sorted candidates.                               *)
JoinAll(values) == FoldSet(Join, CHOOSE v \in values : TRUE, values)

Reduced_Fault(rows) == SortedRows(rows)

Reduced(rows) ==
    SortedRows({<<k, JoinAll({r[2] : r \in {s \in rows : s[1] = k}})>> : k \in {r[1] : r \in rows}})

(* lattice_merge_delta_fn up to the launch of the probe kernel: NEW is     *)
(* built, DELTA is cleared; an empty FULL takes the reduced rows as they   *)
(* are, and without candidates nothing is left to do.                      *)
BeginMerge ==
    /\ phase = "run" /\ pipelines = {}
    /\ LET built == TakeOwnership(new, "canonical")
           fresh == Reduced(Rows(built, "canonical"))
           cleared == EnsureIndex(Clear(delta), "canonical", FALSE)
           taken == Index(ToSet(fresh), Len(fresh))
       IN  IF fresh = <<>> \/ Rows(full, "canonical") = {}
           THEN /\ delta' = Put(cleared, "canonical", taken)
                /\ full' = IF fresh = <<>> THEN full ELSE Put(full, "canonical", taken)
                /\ new' = Clear(built)
                /\ phase' = "indexes"
                /\ UNCHANGED merging
           ELSE /\ delta' = cleared
                /\ new' = built
                /\ array' = SortedRows(Rows(full, "canonical"))
                /\ reduced' = fresh
                /\ probe' = [i \in DOMAIN fresh |-> "none"]
                /\ phase' = "probe"
                /\ UNCHANGED full
    /\ UNCHANGED <<first, pipelines, given>>

(* The lower bound of a key among the rows of the array, by bisection.     *)
LowerBound(rows, k) ==
    LET search[lo \in 0 .. Len(rows), hi \in 0 .. Len(rows)] ==
            IF lo >= hi THEN lo
            ELSE LET mid == lo + (hi - lo) \div 2
                 IN  IF rows[mid + 1][1] < k THEN search[mid + 1, hi] ELSE search[lo, mid]
    IN  search[0, Len(rows)] + 1

Outcome_Fault(old, joined) == "changed"

Outcome(old, joined) == IF old[2] = joined THEN "same" ELSE "changed"

(* One thread of pair_lattice_probe_update_kernel.                         *)
ProbeUpdate(i) ==
    /\ phase = "probe" /\ probe[i] = "none"
    /\ LET at == LowerBound(array, reduced[i][1])
           found == at <= Len(array) /\ array[at][1] = reduced[i][1]
           joined == Join(array[at][2], reduced[i][2])
       IN  IF found
           THEN /\ reduced' = [reduced EXCEPT ![i][2] = joined]
                /\ array' = [array EXCEPT ![at][2] = joined]
                /\ probe' = [probe EXCEPT ![i] = Outcome(array[at], joined)]
           ELSE /\ probe' = [probe EXCEPT ![i] = "missing"]
                /\ UNCHANGED <<array, reduced>>
    /\ UNCHANGED <<full, delta, new, phase, first, pipelines, given>>

(* Changed and missing rows become DELTA, the missing ones are merged into *)
(* FULL; NEW is cleared.                                                   *)
EndMerge ==
    /\ phase = "probe" /\ \A i \in DOMAIN probe : probe[i] # "none"
    /\ LET With(outcomes) == {reduced[i] : i \in {j \in DOMAIN probe : probe[j] \in outcomes}}
           differs == With({"changed", "missing"})
           updated == Index(ToSet(array), full.idx["canonical"].seen)
           missing == Index(With({"missing"}), Cardinality(With({"missing"})))
       IN  /\ delta' = IF differs = {} THEN delta
                       ELSE Put(delta, "canonical", Index(differs, Cardinality(differs)))
           /\ full' = Put(full, "canonical", MergeInto(updated, missing))
    /\ new' = Clear(new)
    /\ array' = <<>> /\ reduced' = <<>> /\ probe' = <<>>
    /\ phase' = "indexes"
    /\ UNCHANGED <<first, pipelines, given>>

(* The other indexes of FULL that are rebuilt in the loop: only those some *)
(* clause reads in version FULL.                                           *)
MaintainedFull == FullNeeded

FromCanonical(r, specs) ==
    FoldSet(LAMBDA spec, acc : IndexFromIndex(acc, "canonical", spec), r, specs \ {"canonical"})

MaintainIndexes ==
    /\ phase = "indexes"
    /\ delta' = FromCanonical(delta, Required)
    /\ full' = FromCanonical(full, MaintainedFull)
    /\ phase' = "test"
    /\ UNCHANGED <<new, first, pipelines, merging, given>>

NextIteration ==
    /\ phase = "test"
    /\ Rows(delta, "canonical") # {}
    /\ first' = FALSE
    /\ pipelines' = Recursive
    /\ phase' = "run"
    /\ UNCHANGED <<full, delta, new, merging, given>>

Finish ==
    /\ phase = "test"
    /\ Rows(delta, "canonical") = {}
    /\ full' = Reconstruct(full, "canonical")
    /\ phase' = "later"
    /\ UNCHANGED <<delta, new, first, pipelines, merging, given>>

(* A later stratum makes sure of the index it reads through.  The rebuild  *)
(* steps inserted before it (insert_pre_reconstruct_rebuilds) are not      *)
(* generated.                                                              *)
OpenLater ==
    /\ phase = "later"
    /\ full' = EnsureAll(full, Specs)
    /\ phase' = "done"
    /\ UNCHANGED <<delta, new, first, pipelines, merging, given>>

Terminated == phase = "done" /\ UNCHANGED vars

Next ==
    \/ Prologue
    \/ RunPipeline
    \/ BeginMerge
    \/ \E i \in DOMAIN probe : ProbeUpdate(i)
    \/ EndMerge
    \/ MaintainIndexes
    \/ NextIteration
    \/ Finish
    \/ OpenLater
    \/ Terminated

(* The runner is a sequential program whose kernels finish.                *)
Spec == Init /\ [][Next]_vars /\ WF_vars(Next)

-----------------------------------------------------------------------------
(* The relation promised: while the probe kernel runs, FULL is already     *)
(* half updated, the merge has not happened yet.                           *)
NoValue == <<>>
AsFunction(rows) ==
    [k \in Key |-> IF \E r \in rows : r[1] = k THEN (CHOOSE r \in rows : r[1] = k)[2] ELSE NoValue]

Store == INSTANCE LatticeStore WITH
    store   <- AsFunction(Rows(full, "canonical")),
    changed <- {r[1] : r \in Rows(delta, "canonical")},
    offered <- Contents(new)

Implements == Store!Spec

-----------------------------------------------------------------------------

(* The least assignment of values that contains the seed and is closed     *)
(* under the rules, by naive iteration with all values of all keys.        *)
Improved(rows) ==
    LET f == AsFunction(rows)
        keys == {r[1] : r \in rows}
        Offered == rows \cup {<<r.to, r.value[[i \in DOMAIN r.reads |-> f[r.reads[i]]]]>> :
                                  r \in {q \in ToSet(rules) : ToSet(q.reads) \subseteq keys}}
    IN  {<<k, JoinAll({c[2] : c \in {o \in Offered : o[1] = k}})>> : k \in {o[1] : o \in Offered}}

LeastFixpoint ==
    LET height == 2 * (Bound + 1) * Cardinality(Key)
        after[n \in 0 .. height] == IF n = 0 THEN seed ELSE Improved(after[n - 1])
    IN  after[height]

ResultIsLeastFixpoint == phase = "done" => full.cols = LeastFixpoint

Terminates == <>(phase = "done")

(* A later stratum reads the result of the fixpoint through any index.     *)
LaterReadsCurrent == phase = "done" => \A spec \in Specs : Rows(full, spec) = full.cols
=============================================================================
