------------------------------- MODULE RunSpec -------------------------------
(***************************************************************************)
(* What a plan run promises those who step it (query_plan_routes.py): a    *)
(* counter that walks to the end of the plan, fails, or starts again, and  *)
(* that nothing else moves.  There is no memory and no database here, no   *)
(* restart, and nobody who waits: the progress of a run is one thing.      *)
(***************************************************************************)
EXTENDS Integers

CONSTANTS Runs, None

VARIABLES
    progress,  \* [Runs -> what became of the run; None when there is none]
    saved      \* the plan itself is in the database

vars == <<progress, saved>>

Progress == [done : Nat, of : Nat \ {0}, status : {"open", "success", "error"}]

Init ==
    /\ progress = [r \in Runs |-> None]
    /\ saved \in BOOLEAN

Becomes(r, new) ==
    /\ new \in Progress
    /\ progress' = [progress EXCEPT ![r] = new]

(* A run of a plan with n nodes is created.                                *)
Start(r) ==
    /\ progress[r] = None
    /\ progress'[r] \in Progress
    /\ Becomes(r, [done |-> 0, of |-> progress'[r].of, status |-> "open"])
    /\ UNCHANGED saved

(* A step ends well, the last one by an execution, which saves the plan.   *)
Step(r) ==
    /\ progress[r] # None /\ progress[r].status = "open"
    /\ LET old == progress[r]
       IN  Becomes(r, [done |-> old.done + 1, of |-> old.of,
                       status |-> IF old.done + 1 = old.of THEN "success" ELSE "open"])
    /\ saved => saved'

(* It fails: the run keeps what it did.                                    *)
Fail(r) ==
    /\ progress[r] # None /\ progress[r].status = "open"
    /\ Becomes(r, [progress[r] EXCEPT !.status = "error"])
    /\ UNCHANGED saved

Reset(r) ==
    /\ progress[r] # None
    /\ Becomes(r, [done |-> 0, of |-> progress[r].of, status |-> "open"])
    /\ UNCHANGED saved

(* Nodes of the plan are merged: each run has that many less to do, or     *)
(* less done.                                                              *)
Shortened(old, new) ==
    IF old = None THEN new = None
    ELSE /\ new \in Progress
         /\ new.status = old.status
         /\ new.of < old.of
         /\ 0 <= old.done - new.done /\ old.done - new.done <= old.of - new.of

Merge ==
    /\ progress' = [r \in Runs |-> progress'[r]]
    /\ \A r \in Runs : Shortened(progress[r], progress'[r])
    /\ saved'

(* The plan is edited or executed.                                         *)
Save == saved' /\ UNCHANGED progress

(* A plan that never was is forgotten together with its runs.              *)
Lose ==
    /\ ~ saved
    /\ progress' = [r \in Runs |-> None]
    /\ UNCHANGED saved

Next ==
    \/ \E r \in Runs : Start(r) \/ Step(r) \/ Fail(r) \/ Reset(r)
    \/ Merge \/ Save \/ Lose

Spec == Init /\ [][Next]_vars

=============================================================================
