------------------------- MODULE StratifiedDatalog -------------------------
(***************************************************************************)
(* What the C interface of a compiled program promises its caller.  CSV    *)
(* files accumulate in a host database; a run starts from the facts loaded *)
(* so far and raises them, stratum by stratum and only with consequences   *)
(* of what is already known, to a set closed under every stratum, unless   *)
(* the iteration limit cuts a stratum short; a run may also fail, and then *)
(* the next run starts from the loaded facts again.                        *)
(***************************************************************************)
EXTENDS DatalogProgram

VARIABLES
    open,    \* a host database exists
    host,    \* facts loaded so far
    input,   \* facts the current or last run started from
    facts,   \* facts known to the current or last run
    level,   \* stratum being evaluated, 0 when no run is in progress
    status,  \* outcome of the last run
    exact    \* no stratum of the current or last run was cut short

vars == <<open, host, input, facts, level, status, exact>>

Init ==
    /\ open = FALSE
    /\ host = {} /\ input = {} /\ facts = {}
    /\ level = 0
    /\ status = "none"
    /\ exact = TRUE

(* A load that fails leaves an empty host database behind, so {} is added. *)
Load(file) ==
    /\ level = 0
    /\ open' = TRUE
    /\ host' = host \cup file
    /\ UNCHANGED <<input, facts, level, status, exact>>

Start ==
    /\ level = 0
    /\ open
    /\ input' = host
    /\ facts' = host
    /\ level' = 1
    /\ exact' = TRUE
    /\ status' = "running"
    /\ UNCHANGED <<open, host>>

(* New facts are consequences, by one rule of this stratum, of known ones. *)
Derive ==
    /\ level > 0
    /\ facts \subseteq facts'
    /\ facts' \subseteq facts \cup Consequence(level, facts)
    /\ UNCHANGED <<open, host, input, level, status, exact>>

Advance ==
    /\ level > 0
    /\ \/ Closed(level, facts) /\ exact' = exact
       \/ Recursive(level) /\ exact' = FALSE
    /\ IF level = Len(Strata)
       THEN level' = 0 /\ status' = "ok"
       ELSE level' = level + 1 /\ UNCHANGED status
    /\ UNCHANGED <<open, host, input, facts>>

(* A run that throws keeps the facts it had; when what failed is the copy  *)
(* of the database to the device, there are none.                          *)
FailRunning ==
    /\ level > 0
    /\ level' = 0
    /\ status' = "failed"
    /\ UNCHANGED <<open, host, input, facts, exact>>

FailStarting ==
    /\ level = 0
    /\ open
    /\ input' = host /\ facts' = {}
    /\ exact' = TRUE
    /\ status' = "failed"
    /\ UNCHANGED <<open, host, level>>

Shutdown ==
    /\ level = 0
    /\ open' = FALSE
    /\ host' = {} /\ input' = {} /\ facts' = {}
    /\ status' = "none"
    /\ exact' = TRUE
    /\ UNCHANGED level

Next ==
    \/ \E file \in Files \cup {{}} : Load(file)
    \/ Start
    \/ Derive
    \/ Advance
    \/ FailRunning
    \/ FailStarting
    \/ Shutdown

Spec == Init /\ [][Next]_vars

-----------------------------------------------------------------------------
Layers == [0 .. Len(Strata) -> SUBSET Fact]

(* A run that succeeds without being cut short ends with the perfect model *)
(* of the facts it started from, no fact more and no fact less.            *)
EndsInPerfectModel ==
    \A M \in Layers : PerfectModelOver(input, M) =>
        (status = "ok" /\ exact => facts = M[Len(Strata)])
=============================================================================
