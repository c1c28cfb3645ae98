------------------------------ MODULE PlanRuns ------------------------------
(***************************************************************************)
(* The runs of PlanService as RunSpec sees them.                           *)
(***************************************************************************)
EXTENDS PlanService

(* The progress of the run in memory if there is one, else what its row     *)
(* says of the plan as it is; a run whose plan is gone cannot be had.       *)
Seen(done, order, status) ==
    [done |-> done, of |-> Len(order),
     status |-> IF status \in {"success", "error"} THEN status ELSE "open"]

ProgressOf(r) ==
    IF store[r] # None
    THEN LET run == heap[store[r]] IN Seen(run.k, run.order, run.status)
    ELSE IF dbRun[r] = None \/ Loaded = None THEN None
    ELSE Seen(Cardinality(PositionsIn(dbRun[r], Loaded, "success")), Loaded.order, dbRun[r].status)

Promised ==
    INSTANCE RunSpec WITH
        progress <- [r \in Runs |-> ProgressOf(r)],
        saved <- dbPlan # None

(* None stands for a run nobody created: it is no progress.                *)
ASSUME ProgressAssumption == None \notin Promised!Progress

(* For a client that awaits its answers, memory and database together are  *)
(* that counter: an edit takes the run out of memory, a restart empties    *)
(* it, a request rebuilds the run from its row, a step answers late, and   *)
(* none of this is seen in its progress.                                   *)
RunIsCounter == Promised!Spec

=============================================================================
