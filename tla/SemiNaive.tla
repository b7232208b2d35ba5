----------------------------- MODULE SemiNaive -----------------------------
(***************************************************************************)
(* The generated runner at the level of tuple sets.  Each relation exists  *)
(* in three versions, FULL, DELTA and NEW.  A stratum of rules runs its    *)
(* pipelines, which only append to NEW, then maintains the relations one   *)
(* by one: DELTA becomes NEW minus FULL, FULL absorbs DELTA, NEW is        *)
(* emptied.  A recursive stratum has one pipeline per rule and per body    *)
(* clause over a relation of the stratum (that clause reads DELTA, or FULL *)
(* in the first iteration) and repeats until every DELTA is empty or the   *)
(* iteration limit is reached; any other stratum has one pipeline per rule *)
(* and runs once.                                                          *)
(*                                                                         *)
(* A definition named D_Fault is D with a plausible mistake; no other      *)
(* definition uses it.  Putting it in D's place must break a property.     *)
(***************************************************************************)
EXTENDS DatalogProgram

VARIABLES
    open,     \* g_host_db exists
    host,     \* FULL facts of the host database
    live,     \* g_device_db exists
    full,     \* FULL facts of the device database
    delta,    \* DELTA facts
    newt,     \* NEW facts
    stratum,  \* step being executed
    phase,    \* "idle", or what the current step does next
    iter,     \* iterations this stratum has completed
    maxIter,  \* iteration limit of this run
    todo,     \* pipelines or maintenance blocks of this iteration still to run
    status,   \* return code of the last run
    exact,    \* history: no stratum of this run was cut short
    input     \* history: the host facts this run was given

vars == <<open, host, live, full, delta, newt, stratum, phase, iter, maxIter,
          todo, status, exact, input>>
caller == <<open, host, live, maxIter, status, input>>

(***************************************************************************)
(* The pipelines and the maintenance blocks of a stratum.  A recursive     *)
(* stratum maintains each of its relations once, at the end of the loop    *)
(* body; any other stratum maintains each head of each of its rules.       *)
(***************************************************************************)
Variants_FirstClauseOnly(s) ==
    {[rule |-> r, clause |-> IF Recursive(s) THEN CHOOSE i \in SccClauses(s, r) :
                                 \A k \in SccClauses(s, r) : i <= k ELSE 0] : r \in RulesOf(s)}

Variants(s) ==
    IF Recursive(s)
    THEN UNION {{[rule |-> r, clause |-> i] : i \in SccClauses(s, r)} : r \in RulesOf(s)}
    ELSE {[rule |-> r, clause |-> 0] : r \in RulesOf(s)}

Blocks(s) ==
    IF Recursive(s)
    THEN {[by |-> "loop", rel |-> q] : q \in Members(s)}
    ELSE UNION {{[by |-> r, rel |-> q] : q \in Heads[r]} : r \in RulesOf(s)}

(* What the clause that has the delta version reads.                       *)
DeltaSource == IF iter = 0 THEN full ELSE delta

MatchesIn_NoNegation(g, i, D, F) == \A k \in DOMAIN g.pos : g.pos[k] \in (IF k = i THEN D ELSE F)

(* Clause i of instance g has its fact in D, the others have theirs in F.  *)
MatchesIn(g, i, D, F) ==
    /\ \A k \in DOMAIN g.pos : g.pos[k] \in (IF k = i THEN D ELSE F)
    /\ g.neg \cap F = {}

(* Instance g is produced by the pipeline whose delta clause is i.         *)
Matches(g, i) == MatchesIn(g, i, DeltaSource, full)

Outputs(v, D, F) ==
    UNION {g.heads : g \in {h \in Ground : h.rule = v.rule /\ MatchesIn(h, v.clause, D, F)}}

Produced(v) == Outputs(v, DeltaSource, full)

NoDelta_SomeRelation == \E q \in Members(stratum) : In(delta, q) = {}

(* The convergence test: no relation of the stratum has a delta.           *)
NoDelta == \A q \in Members(stratum) : In(delta, q) = {}

-----------------------------------------------------------------------------
Init ==
    /\ open = FALSE /\ host = {}
    /\ live = FALSE /\ full = {} /\ delta = {} /\ newt = {}
    /\ stratum = 0 /\ phase = "idle" /\ iter = 0 /\ maxIter = 0 /\ todo = {}
    /\ status = "none"
    /\ exact = TRUE /\ input = {}

(* srdatalog_load_csv and srdatalog_load_all: the host database is created *)
(* on first use, before the file is known to be readable.                  *)
Load(file) ==
    /\ phase = "idle"
    /\ open' = TRUE
    /\ host' = host \cup file
    /\ UNCHANGED <<live, full, delta, newt, stratum, phase, iter, maxIter,
                   todo, status, exact, input>>

(* srdatalog_run drops the previous device database and copies the host's. *)
Run(max) ==
    /\ phase = "idle"
    /\ open
    /\ live' = TRUE
    /\ full' = host /\ delta' = {} /\ newt' = {}
    /\ stratum' = 1 /\ phase' = "check" /\ iter' = 0 /\ maxIter' = max
    /\ todo' = {}
    /\ status' = "running"
    /\ exact' = TRUE /\ input' = host
    /\ UNCHANGED <<open, host>>

(* The copy throws after the previous device database is deleted.          *)
RunFails ==
    /\ phase = "idle"
    /\ open
    /\ live' = FALSE
    /\ full' = {} /\ delta' = {} /\ newt' = {}
    /\ status' = "failed"
    /\ exact' = TRUE /\ input' = host
    /\ UNCHANGED <<open, host, stratum, phase, iter, maxIter, todo>>

Shutdown ==
    /\ phase = "idle"
    /\ open' = FALSE /\ host' = {}
    /\ live' = FALSE /\ full' = {} /\ delta' = {} /\ newt' = {}
    /\ status' = "none"
    /\ exact' = TRUE /\ input' = {}
    /\ UNCHANGED <<stratum, phase, iter, maxIter, todo>>

-----------------------------------------------------------------------------
(* The loop head of a recursive stratum tests the limit, and from the      *)
(* second iteration on whether any delta is left.                          *)
StartIteration ==
    /\ phase = "check"
    /\ IF Recursive(stratum) THEN iter < maxIter /\ (iter > 0 => ~NoDelta)
                             ELSE iter = 0
    /\ phase' = "run"
    /\ todo' = Variants(stratum)
    /\ UNCHANGED <<caller, full, delta, newt, stratum, iter, exact>>

Execute(v) ==
    /\ phase = "run"
    /\ v \in todo
    /\ newt' = newt \cup Produced(v)
    /\ todo' = todo \ {v}
    /\ UNCHANGED <<caller, full, delta, stratum, phase, iter, exact>>

(* The pipelines are synchronised before the first maintenance block.      *)
StartMaintenance ==
    /\ phase = "run"
    /\ todo = {}
    /\ phase' = "maintain"
    /\ todo' = Blocks(stratum)
    /\ UNCHANGED <<caller, full, delta, newt, stratum, iter, exact>>

Fresh_NotMinusFull(q) == In(newt, q)

(* compute_delta_index: what NEW has and FULL does not.                    *)
Fresh(q) == In(newt, q) \ full

(* One relation: rebuild NEW, compute DELTA, clear NEW, merge DELTA into   *)
(* FULL.                                                                   *)
Maintain(b) ==
    /\ phase = "maintain"
    /\ b \in todo
    /\ delta' = (delta \ In(delta, b.rel)) \cup Fresh(b.rel)
    /\ full' = full \cup Fresh(b.rel)
    /\ newt' = newt \ In(newt, b.rel)
    /\ todo' = todo \ {b}
    /\ UNCHANGED <<caller, stratum, phase, iter, exact>>

EndIteration_Uncounted ==
    /\ phase = "maintain"
    /\ todo = {}
    /\ phase' = "check"
    /\ UNCHANGED <<caller, full, delta, newt, stratum, iter, todo, exact>>

EndIteration ==
    /\ phase = "maintain"
    /\ todo = {}
    /\ phase' = "check"
    /\ iter' = iter + 1
    /\ UNCHANGED <<caller, full, delta, newt, stratum, todo, exact>>

(* The next step of the run, or its end.                                   *)
NextStratum ==
    /\ iter' = 0
    /\ IF stratum = Len(Strata)
       THEN stratum' = 0 /\ phase' = "idle" /\ status' = "ok"
       ELSE stratum' = stratum + 1 /\ UNCHANGED <<phase, status>>
    /\ UNCHANGED <<open, host, live, maxIter, input, full, delta, newt, todo>>

Finish ==
    /\ phase = "check"
    /\ ~Recursive(stratum)
    /\ iter = 1
    /\ NextStratum
    /\ UNCHANGED exact

Converge ==
    /\ phase = "check"
    /\ Recursive(stratum)
    /\ 0 < iter /\ iter < maxIter
    /\ NoDelta
    /\ NextStratum
    /\ UNCHANGED exact

CutOff_CountsAsConverged ==
    /\ phase = "check"
    /\ Recursive(stratum)
    /\ iter >= maxIter
    /\ NextStratum
    /\ UNCHANGED exact

(* The limit is reached: whether anything was left to derive is not known. *)
CutOff ==
    /\ phase = "check"
    /\ Recursive(stratum)
    /\ iter >= maxIter
    /\ NextStratum
    /\ exact' = (exact /\ NoDelta)

Abort_KeepsPipelines ==
    /\ phase # "idle"
    /\ phase' = "idle" /\ stratum' = 0 /\ iter' = 0
    /\ status' = "failed"
    /\ UNCHANGED <<open, host, live, maxIter, input, full, delta, newt, todo, exact>>

(* A device error unwinds to srdatalog_run, which keeps the device         *)
(* database as it is and returns an error.                                 *)
Abort ==
    /\ phase # "idle"
    /\ phase' = "idle" /\ stratum' = 0 /\ iter' = 0 /\ todo' = {}
    /\ status' = "failed"
    /\ UNCHANGED <<open, host, live, maxIter, input, full, delta, newt, exact>>

Step ==
    \/ StartIteration
    \/ \E v \in todo : Execute(v)
    \/ StartMaintenance
    \/ \E b \in todo : Maintain(b)
    \/ EndIteration
    \/ Finish
    \/ Converge
    \/ CutOff

Next ==
    \/ \E file \in Files \cup {{}} : Load(file)
    \/ \E max \in MaxIters : Run(max)
    \/ RunFails
    \/ Shutdown
    \/ Step
    \/ Abort

Spec == Init /\ [][Next]_vars

(* srdatalog_run is one synchronous call: once entered it keeps executing  *)
(* its next step.                                                          *)
FairSpec == Spec /\ WF_vars(Step)

-----------------------------------------------------------------------------
(***************************************************************************)
(* Properties                                                              *)
(***************************************************************************)

(* The variables have their types; pipelines and maintenance blocks left   *)
(* to run are those of the current stratum; nothing is left over between   *)
(* iterations or runs.                                                     *)
TypeOK ==
    /\ open \in BOOLEAN /\ live \in BOOLEAN /\ exact \in BOOLEAN
    /\ host \subseteq Fact /\ input \subseteq Fact
    /\ full \subseteq Fact /\ delta \subseteq Fact /\ newt \subseteq Fact
    /\ phase \in {"idle", "check", "run", "maintain"}
    /\ status \in {"none", "running", "ok", "failed"}
    /\ iter \in Nat /\ maxIter \in Nat
    /\ IF phase = "idle" THEN stratum = 0 /\ status # "running"
                         ELSE stratum \in Level /\ status = "running" /\ maxIter > 0 /\ live
    /\ phase = "run" => todo \subseteq Variants(stratum)
    /\ phase = "maintain" => todo \subseteq Blocks(stratum)
    /\ phase \in {"idle", "check"} => todo = {}

(* NEW holds only consequences of FULL under the rules of the stratum, a   *)
(* block is pending for each relation that has any, and DELTA is part of   *)
(* FULL: no fact is derived twice from a stale version, none is stranded   *)
(* in NEW when the iteration ends, and a clause that reads FULL never      *)
(* misses what the delta clause of the same pipeline reads.                *)
VersionsConsistent ==
    phase # "idle" =>
        /\ delta \subseteq full
        /\ newt \subseteq Consequence(stratum, full)
        /\ phase = "check" => newt = {}
        /\ phase = "maintain" => \A f \in newt : \E b \in todo : b.rel = RelOf[f]

(* Some clause of g over a relation of the stratum has its fact in D.      *)
DeltaClause(g, D) == \E i \in SccClauses(stratum, g.rule) : g.pos[i] \in D

(* Semi-naive evaluation skips no derivation: at each point of a stratum,  *)
(* an instance that fires on FULL has been derived already, or a pipeline  *)
(* that will derive it is still to run in this iteration, or a fact that   *)
(* is in DELTA (and will be read as DELTA by one of its clauses in the     *)
(* next iteration) triggers it.                                            *)
NothingSkipped ==
    phase # "idle" =>
        \A g \in GroundOf(stratum) : Fires(g, full) =>
            \/ g.heads \subseteq full
            \/ phase = "check" /\ (iter = 0 \/ DeltaClause(g, delta))
            \/ phase = "run" /\ g.heads \subseteq full \cup newt
            \/ phase = "run" /\ \E v \in todo : v.rule = g.rule /\ Matches(g, v.clause)
            \/ phase = "maintain" /\ g.heads \subseteq full \cup newt
            \/ phase = "maintain" /\ DeltaClause(g, {f \in delta : \A b \in todo : b.rel # RelOf[f]})

(* Strata that are done stay done: FULL is closed under the rules of every *)
(* completed stratum, whatever later strata add, and at the end of a run   *)
(* that was not cut short it is closed under all rules.                    *)
CompletedClosed ==
    exact => \A s \in Level :
        s < stratum \/ (stratum = 0 /\ status = "ok") => Closed(s, full)

(* No loaded fact is lost by a run, and the loaded facts a run worked on   *)
(* are those present when it was called, whatever was loaded since.        *)
InputKept == live => input \subseteq full /\ input \subseteq host

(* A fact enters DELTA only in the step that first puts it into FULL, so   *)
(* no iteration treats a known fact as new: what makes the loop end.       *)
DeltaIsFresh == [][delta' \ delta \subseteq full' \ full]_vars

(* Every run returns, with or without success.                             *)
Returns == phase # "idle" ~> phase = "idle"

(* The runner implements the promise of StratifiedDatalog.                 *)
Abstract == INSTANCE StratifiedDatalog WITH level <- stratum, facts <- full
Implements == Abstract!Spec
=============================================================================
