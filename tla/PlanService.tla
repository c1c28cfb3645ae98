---------------------------- MODULE PlanService ----------------------------
(***************************************************************************)
(* The plan service of backend/app/demo_pipeline.py for one plan: its      *)
(* entry in PLAN_STORE, the step-by-step runs in PLAN_RUN_STORE, the rows  *)
(* both have in the database, and the requests that change them.           *)
(*                                                                         *)
(* The routes are synchronous functions served by a thread pool, the       *)
(* stores are plain dictionaries and no lock is taken.  A request runs     *)
(* here without interruption between the points where it waits for the     *)
(* SQL engine: the preview of a step, the execution of the last one, and   *)
(* the gap between two steps of a full run.  Runs are mutable objects: an  *)
(* edit takes them out of the store while a waiting request still holds    *)
(* its own, and a later request may rebuild a second one from the          *)
(* database.  So `store` maps a run id to an object and `heap` holds the   *)
(* objects.                                                                *)
(***************************************************************************)
EXTENDS PlanRecord, FiniteSets

CONSTANTS
    Runs,          \* run ids
    Threads,       \* concurrent requests that wait for the SQL engine
    Objs,          \* identities of run objects
    Serial,        \* at most one request per run at a time
    DbMayFail,     \* a best-effort write to the database may be lost
    MaxEdits,      \* bound: edits, merges and refused merges of the plan
    MaxGenerates,  \* bound: how often an evaluation asks the question again
    MaxResets,     \* bound: resets of runs
    MaxRestarts    \* bound: restarts of the backend

ASSUME ServiceAssumption ==
    /\ {Serial, DbMayFail} \subseteq BOOLEAN
    /\ {MaxEdits, MaxGenerates, MaxResets, MaxRestarts} \subseteq Nat
    /\ None \notin Runs \cup Threads \cup Objs

VARIABLES
    plan,    \* the PLAN_STORE entry, or None
    store,   \* PLAN_RUN_STORE: run id -> object, or None
    heap,    \* the run objects
    thr,     \* the requests in flight
    dbPlan,  \* the query_plans row, or None
    dbRun,   \* the execution_runs row of each run, or None
    count    \* how much of the Max bounds is used

vars == <<plan, store, heap, thr, dbPlan, dbRun, count>>

-----------------------------------------------------------------------------
(* Run objects.                                                            *)

NodeAt(order, i) == IF i \in 1..Len(order) THEN order[i] ELSE None

(* own is a history flag: the object was created in this process, for the  *)
(* plan as last generated, and not rebuilt from the database.              *)
NewRun(p) ==
    [status |-> "idle",
     order |-> p.order,
     next |-> NodeAt(p.order, 1),
     ns |-> [n \in Nodes |-> IF OnPlan(p, n) THEN "pending" ELSE None],
     k |-> 0,
     result |-> None,
     error |-> FALSE,
     own |-> TRUE]

(* The content of a cell of the heap that holds no run.                    *)
NoRun == [NewRun(NewPlan("other", Gold)) EXCEPT !.own = FALSE]

(* The positions whose recorded state is state, and the first of them.     *)
PositionsIn(rec, p, state) == {i \in 1..Len(p.order) : rec.ns[p.order[i]] = state}

FirstNode(p, S) ==
    IF S = {} THEN None ELSE NodeAt(p.order, CHOOSE i \in S : \A j \in S : i <= j)

(* Seeded faults of RestoredRun: the next node as an index, and a failed   *)
(* node counted as completed.                                              *)
RestoredRun_NextIndex(rec, p) ==
    LET k == Cardinality(PositionsIn(rec, p, "success"))
    IN  [NewRun(p) EXCEPT !.status = rec.status, !.ns = rec.ns, !.own = FALSE,
                          !.k = k, !.next = k + 1]

RestoredRun_CountsFailed(rec, p) ==
    [NewRun(p) EXCEPT !.status = rec.status, !.ns = rec.ns, !.own = FALSE,
                      !.k = Len(p.order) - Cardinality(PositionsIn(rec, p, "pending")),
                      !.result = rec.result, !.error = rec.error]

(* The object of _restore_plan_run_from_database: progress is recomputed   *)
(* from the recorded node states along the order of the plan as it is now. *)
RestoredRun(rec, p) ==
    [status |-> rec.status,
     order |-> p.order,
     next |-> IF rec.status \in {"success", "error"} THEN None
              ELSE FirstNode(p, PositionsIn(rec, p, "pending")),
     ns |-> rec.ns,
     k |-> Cardinality(PositionsIn(rec, p, "success")),
     result |-> IF rec.result = None /\ rec.error THEN "failure" ELSE rec.result,
     error |-> rec.error,
     own |-> FALSE]

(* What _persist_execution writes of a run.                                *)
RunRecord(run) ==
    [status |-> run.status, ns |-> run.ns, result |-> run.result, error |-> run.error]

(* Just before the last step waits for its SQL: the node is running and    *)
(* nothing follows it.                                                     *)
RunningAt(run, i) ==
    [run EXCEPT !.status = "running",
                !.next = NodeAt(run.order, i + 1),
                !.ns[run.order[i]] = "running"]

(* Seeded faults of StepSucceeded: the count of completed steps one too    *)
(* high, and not advanced at all.                                          *)
StepSucceeded_OffByOne(run, i, res) ==
    [run EXCEPT !.status = IF i + 1 >= Len(run.order) THEN "success" ELSE "running",
                !.next = NodeAt(run.order, i + 1),
                !.ns[run.order[i]] = "success",
                !.k = i + 1,
                !.result = IF i = Len(run.order) THEN res ELSE @]

StepSucceeded_NotCounted(run, i, res) ==
    [run EXCEPT !.status = "running",
                !.next = NodeAt(run.order, i + 1),
                !.ns[run.order[i]] = "success"]

(* A step that ends well, with the outcome res of the execution or None.   *)
StepSucceeded(run, i, res) ==
    [run EXCEPT !.status = IF i = Len(run.order) THEN "success" ELSE "running",
                !.next = NodeAt(run.order, i + 1),
                !.ns[run.order[i]] = "success",
                !.k = i,
                !.result = IF i = Len(run.order) THEN res ELSE @]

(* A step whose preview failed.                                            *)
StepFailed(run, i) ==
    [run EXCEPT !.status = "error",
                !.next = NodeAt(run.order, i + 1),
                !.ns[run.order[i]] = "error",
                !.error = TRUE]

(* A step asked for when every node of the order already succeeded.        *)
Finished(run) == [run EXCEPT !.status = "success", !.next = None]

(* Seeded fault of ResetRun: the node states are kept.                     *)
ResetRun_KeepsStates(run) ==
    [run EXCEPT !.status = "idle", !.next = NodeAt(run.order, 1), !.k = 0,
                !.result = None, !.error = FALSE]

ResetRun(run) ==
    [run EXCEPT !.status = "idle",
                !.next = NodeAt(run.order, 1),
                !.ns = [n \in Nodes |-> IF \E i \in 1..Len(run.order) : run.order[i] = n
                                        THEN "pending" ELSE None],
                !.k = 0,
                !.result = None,
                !.error = FALSE]

Terminal(run) == run.status \in {"success", "error"}

RunSummary(r, run) ==
    [run |-> r, status |-> run.status, k |-> run.k, next |-> run.next]

(* Seeded fault of RunApplied: a summary already shown is not replaced.    *)
RunApplied_FirstSummary(p, r, run) ==
    [p EXCEPT !.runStatus = IF @ = None THEN RunSummary(r, run) ELSE @,
              !.st = [n \in Nodes |-> IF OnPlan(p, n) /\ run.ns[n] # None
                                      THEN run.ns[n] ELSE p.st[n]]]

(* _apply_plan_run_to_graph.                                               *)
RunApplied(p, r, run) ==
    [p EXCEPT !.runStatus = RunSummary(r, run),
              !.st = [n \in Nodes |-> IF OnPlan(p, n) /\ run.ns[n] # None
                                      THEN run.ns[n] ELSE p.st[n]]]

-----------------------------------------------------------------------------
(* Requests in flight.                                                     *)

Idle == [phase |-> "idle", run |-> None, obj |-> None, i |-> 0,
         full |-> FALSE, sql |-> None]

(* Objects that a store or a request in flight refers to; the rest are     *)
(* garbage, and their cells are blanked.                                   *)
Referenced(s, th) ==
    {o \in Objs : (\E r \in Runs : s[r] = o) \/ (\E t \in Threads : th[t].obj = o)}

Swept(h, s, th) == [o \in Objs |-> IF o \in Referenced(s, th) THEN h[o] ELSE NoRun]

Free   == Objs \ Referenced(store, thr)
NewObj == CHOOSE o \in Objs : o \in Free

(* The plan as a handler finds it: in memory, else from the database.      *)
Loaded == IF plan # None THEN plan ELSE dbPlan

(* A run as a handler finds it: PLAN_RUN_STORE.get(run_id), else           *)
(* _restore_plan_run_from_database, which also loads the plan, stores the  *)
(* object and applies it to the graph.                                     *)
CanOpen(r) == store[r] # None \/ (dbRun[r] # None /\ Loaded # None /\ Free # {})

Opened(r) ==
    IF store[r] # None
    THEN [obj |-> store[r], run |-> heap[store[r]], plan |-> plan]
    ELSE LET run == RestoredRun(dbRun[r], Loaded)
         IN  [obj |-> NewObj, run |-> run, plan |-> RunApplied(Loaded, r, run)]

(* One client awaits the answer to a request on a run before it sends the  *)
(* next one; clients that give up after 30 seconds do not.                 *)
MayCall(r) == Serial => \A t \in Threads : thr[t].run # r

(* A best-effort write of v over old.                                      *)
Written(old, v) == IF DbMayFail THEN {old, v} ELSE {v}

Init ==
    /\ \E template \in Templates : \E sql \in GeneratedSqls(template) :
           plan = NewPlan(template, sql)
    /\ store = [r \in Runs |-> None]
    /\ heap = [o \in Objs |-> NoRun]
    /\ thr = [t \in Threads |-> Idle]
    /\ dbPlan = None
    /\ dbRun = [r \in Runs |-> None]
    /\ count = [edits |-> 0, generates |-> 0, resets |-> 0, restarts |-> 0]

-----------------------------------------------------------------------------
(* Plans.                                                                  *)

(* generate_plan_for_message, called by an evaluation of the same question: *)
(* the entry is replaced, the runs and the database rows are not touched.  *)
(* A plan of an LLM has an id of its own each time.                        *)
Generate(template) ==
    /\ count.generates < MaxGenerates
    /\ count' = [count EXCEPT !.generates = @ + 1]
    /\ template # "llm"
    /\ Loaded # None => Loaded.template = template
    /\ plan' = NewPlan(template, Gold)
    /\ heap' = [o \in Objs |-> [heap[o] EXCEPT !.own = FALSE]]
    /\ UNCHANGED <<store, thr, dbPlan, dbRun>>

(* get_plan_graph: a plan that memory lost is loaded, an unknown one is    *)
(* answered with 404.                                                      *)
GetPlan ==
    /\ plan' = Loaded
    /\ UNCHANGED <<store, heap, thr, dbPlan, dbRun, count>>

(* Seeded fault of ClearedStore: the runs survive the edit.                *)
ClearedStore_Nothing(s) == s

(* _clear_plan_run_state: every run of the plan leaves the store.          *)
ClearedStore(s) == [r \in Runs |-> None]

CountEdit ==
    /\ count.edits < MaxEdits
    /\ count' = [count EXCEPT !.edits = @ + 1]

(* update_plan_node at position i of the chain; the client asks for s.     *)
UpdatePlanNode(i, valid, s) ==
    /\ CountEdit
    /\ Loaded # None
    /\ i \in 1..Len(Loaded.order)
    /\ plan' = EditedPlan(Loaded, i, valid, s)
    /\ dbPlan' \in Written(dbPlan, PersistedEdit(Loaded, plan'))
    /\ store' = ClearedStore(store)
    /\ heap' = Swept(heap, store', thr)
    /\ UNCHANGED <<thr, dbRun>>

MergePlanNodes(i, j) ==
    /\ CountEdit
    /\ Loaded # None
    /\ i < j /\ j <= Len(Loaded.order)
    /\ MergeSupported(Loaded, i, j)
    /\ plan' = MergedPlan(Loaded, i, j)
    /\ dbPlan' \in Written(dbPlan, plan')
    /\ store' = ClearedStore(store)
    /\ heap' = Swept(heap, store', thr)
    /\ UNCHANGED <<thr, dbRun>>

(* merge_plan_nodes with a selection it refuses; nothing is persisted.     *)
RefuseMerge ==
    /\ CountEdit
    /\ Loaded # None
    /\ plan' = RefusedMerge(Loaded)
    /\ UNCHANGED <<store, heap, thr, dbPlan, dbRun>>

-----------------------------------------------------------------------------
(* Runs.                                                                   *)

(* The object o of run r becomes run, the request t becomes req.           *)
Put(r, o, run, t, req) ==
    /\ thr' = [thr EXCEPT ![t] = req]
    /\ heap' = Swept([heap EXCEPT ![o] = run], store', thr')

Persisted(r, run) ==
    \E rec \in Written(dbRun[r], RunRecord(run)) : dbRun' = [dbRun EXCEPT ![r] = rec]

CreatePlanRun(r) ==
    /\ Loaded # None /\ Free # {}
    /\ store[r] = None /\ dbRun[r] = None
    /\ \A t \in Threads : thr[t].run # r
    /\ store' = [store EXCEPT ![r] = NewObj]
    /\ heap' = [heap EXCEPT ![NewObj] = NewRun(Loaded)]
    /\ plan' = RunApplied(Loaded, r, NewRun(Loaded))
    /\ Persisted(r, NewRun(Loaded))
    /\ UNCHANGED <<thr, dbPlan, count>>

(* get_plan_run, which rebuilds a run that memory no longer has.           *)
GetPlanRun(r) ==
    /\ MayCall(r)
    /\ store[r] = None /\ CanOpen(r)
    /\ LET op == Opened(r)
       IN  /\ store' = [store EXCEPT ![r] = op.obj]
           /\ heap' = [heap EXCEPT ![op.obj] = op.run]
           /\ plan' = op.plan
    /\ UNCHANGED <<thr, dbPlan, dbRun, count>>

ResetPlanRun(r) ==
    /\ count.resets < MaxResets
    /\ count' = [count EXCEPT !.resets = @ + 1]
    /\ MayCall(r)
    /\ CanOpen(r)
    /\ LET op  == Opened(r)
           run == ResetRun(op.run)
       IN  /\ store' = [store EXCEPT ![r] = op.obj]
           /\ heap' = [heap EXCEPT ![op.obj] = run]
           /\ plan' = RunApplied(op.plan, r, run)
           /\ Persisted(r, run)
    /\ UNCHANGED <<thr, dbPlan>>

-----------------------------------------------------------------------------
(* Steps.  t is the request, r the run, op what Opened found, full whether *)
(* the step belongs to run_full_plan.                                      *)

AfterStep(r, full) ==
    IF full THEN [Idle EXCEPT !.phase = "between", !.run = r, !.full = TRUE] ELSE Idle

(* The run already ended: the answer is its present state.                 *)
StepOfEnded(t, r, op) ==
    /\ Terminal(op.run)
    /\ store' = [store EXCEPT ![r] = op.obj]
    /\ Put(r, op.obj, op.run, t, Idle)
    /\ plan' = op.plan
    /\ UNCHANGED <<dbPlan, dbRun, count>>

(* Every node succeeded, yet the status does not say so.                   *)
StepBeyond(t, r, op) ==
    /\ ~ Terminal(op.run)
    /\ op.run.k >= Len(op.run.order)
    /\ store' = [store EXCEPT ![r] = op.obj]
    /\ Put(r, op.obj, Finished(op.run), t, Idle)
    /\ plan' = RunApplied(op.plan, r, Finished(op.run))
    /\ UNCHANGED <<dbPlan, dbRun, count>>

Steps(op, i) == ~ Terminal(op.run) /\ i = op.run.k + 1 /\ i <= Len(op.run.order)

(* An intent node materializes nothing: the step ends at once.             *)
StepIntent(t, r, op, full) ==
    \E i \in 1..Len(op.run.order) :
        /\ Steps(op, i) /\ op.run.order[i] = Intent
        /\ store' = [store EXCEPT ![r] = op.obj]
        /\ LET run == StepSucceeded(op.run, i, None)
           IN  /\ Put(r, op.obj, run, t, AfterStep(r, full))
               /\ plan' = RunApplied(op.plan, r, run)
               /\ Persisted(r, run)
        /\ UNCHANGED <<dbPlan, count>>

(* The preview of an operation is asked of the SQL engine before the run   *)
(* is touched.                                                             *)
StepOperation(t, r, op, full) ==
    \E i \in 1..Len(op.run.order) :
        /\ Steps(op, i) /\ op.run.order[i] \in OpSet
        /\ store' = [store EXCEPT ![r] = op.obj]
        /\ Put(r, op.obj, op.run, t,
               [phase |-> "preview", run |-> r, obj |-> op.obj, i |-> i,
                full |-> full, sql |-> None])
        /\ plan' = op.plan
        /\ UNCHANGED <<dbPlan, dbRun, count>>

(* The last step executes the plan.                                        *)
StepResult(t, r, op, full) ==
    \E i \in 1..Len(op.run.order) :
        /\ Steps(op, i) /\ op.run.order[i] = Result
        /\ ~ op.plan.replan
        /\ store' = [store EXCEPT ![r] = op.obj]
        /\ Put(r, op.obj, RunningAt(op.run, i), t,
               [phase |-> "exec", run |-> r, obj |-> op.obj, i |-> i,
                full |-> full, sql |-> ExecutionSql(op.plan, "stub")])
        /\ plan' = RunApplied(op.plan, r, RunningAt(op.run, i))
        /\ UNCHANGED <<dbPlan, dbRun, count>>

(* ... unless it must be regenerated: then the result says so at once.     *)
StepResultRefused(t, r, op, full) ==
    \E i \in 1..Len(op.run.order) :
        /\ Steps(op, i) /\ op.run.order[i] = Result
        /\ op.plan.replan
        /\ store' = [store EXCEPT ![r] = op.obj]
        /\ LET run == StepSucceeded(op.run, i, "replan")
           IN  /\ Put(r, op.obj, run, t, AfterStep(r, full))
               /\ plan' = RunApplied(op.plan, r, run)
               /\ Persisted(r, run)
        /\ UNCHANGED <<dbPlan, count>>

BeginStep(t, r, op, full) ==
    \/ StepOfEnded(t, r, op)
    \/ StepBeyond(t, r, op)
    \/ StepIntent(t, r, op, full)
    \/ StepOperation(t, r, op, full)
    \/ StepResult(t, r, op, full)
    \/ StepResultRefused(t, r, op, full)

(* step_plan_run and, with full, run_full_plan.                            *)
CallStep(t, r, full) ==
    /\ thr[t] = Idle
    /\ MayCall(r)
    /\ CanOpen(r)
    /\ BeginStep(t, r, Opened(r), full)

(* The preview of an operation is answered.                                *)
PreviewDone(t, ok) ==
    /\ thr[t].phase = "preview"
    /\ LET r   == thr[t].run
           o   == thr[t].obj
           run == IF ok THEN StepSucceeded(heap[o], thr[t].i, None)
                  ELSE StepFailed(heap[o], thr[t].i)
       IN  /\ UNCHANGED store
           /\ Put(r, o, run, t, AfterStep(r, thr[t].full))
           /\ plan' = RunApplied(plan, r, run)
           /\ Persisted(r, run)
    /\ UNCHANGED <<dbPlan, count>>

(* The execution of the last step is answered, with rows or an error row:  *)
(* the step ends well in both cases.                                       *)
StepExecuted(t, err) ==
    /\ thr[t].phase = "exec" /\ thr[t].obj # None
    /\ LET r   == thr[t].run
           o   == thr[t].obj
           run == StepSucceeded(heap[o], thr[t].i, thr[t].sql)
       IN  /\ UNCHANGED store
           /\ Put(r, o, run, t, AfterStep(r, thr[t].full))
           /\ plan' = RunApplied(ResultApplied(plan, err), r, run)
           /\ Persisted(r, run)
    /\ dbPlan' \in Written(dbPlan, ResultApplied(plan, err))
    /\ UNCHANGED count

(* The loop of run_full_plan: PLAN_RUN_STORE[run_id] fails when an edit    *)
(* took the run away, else the loop ends or takes the next step.           *)
FullRunOver(r) ==
    store[r] # None => \/ Terminal(heap[store[r]])
                       \/ heap[store[r]].k >= Len(heap[store[r]].order)

FullRunNext(t) ==
    /\ thr[t].phase = "between"
    /\ \/ /\ FullRunOver(thr[t].run)
          /\ thr' = [thr EXCEPT ![t] = Idle]
          /\ UNCHANGED <<plan, store, heap, dbPlan, dbRun, count>>
       \/ /\ ~ FullRunOver(thr[t].run)
          /\ BeginStep(t, thr[t].run, Opened(thr[t].run), TRUE)

-----------------------------------------------------------------------------
(* Direct executions: POST /execute with a plan id and the client's text.  *)

Execute(t, client) ==
    /\ thr[t] = Idle
    /\ Loaded # None
    /\ plan' = Loaded
    /\ \/ /\ ~ Loaded.replan
          /\ thr' = [thr EXCEPT ![t] = [Idle EXCEPT !.phase = "exec",
                                                   !.sql = ExecutionSql(Loaded, client)]]
       \/ Loaded.replan /\ UNCHANGED thr
    /\ UNCHANGED <<store, heap, dbPlan, dbRun, count>>

DirectlyExecuted(t, err) ==
    /\ thr[t].phase = "exec" /\ thr[t].obj = None
    /\ plan' = ResultApplied(plan, err)
    /\ dbPlan' \in Written(dbPlan, plan')
    /\ thr' = [thr EXCEPT ![t] = Idle]
    /\ UNCHANGED <<store, heap, dbRun, count>>

-----------------------------------------------------------------------------
(* The backend stops and starts: memory and the requests in flight are     *)
(* gone.                                                                   *)
Restart ==
    /\ count.restarts < MaxRestarts
    /\ count' = [count EXCEPT !.restarts = @ + 1]
    /\ plan' = None
    /\ store' = [r \in Runs |-> None]
    /\ heap' = [o \in Objs |-> NoRun]
    /\ thr' = [t \in Threads |-> Idle]
    /\ UNCHANGED <<dbPlan, dbRun>>

Advance(t) ==
    \/ \E ok \in BOOLEAN : PreviewDone(t, ok)
    \/ \E err \in BOOLEAN : StepExecuted(t, err) \/ DirectlyExecuted(t, err)
    \/ FullRunNext(t)

Next ==
    \/ \E template \in Templates : Generate(template)
    \/ GetPlan
    \/ \E i \in 1..(Len(Ops) + 2), valid \in BOOLEAN, s \in Sqls : UpdatePlanNode(i, valid, s)
    \/ \E i, j \in 1..(Len(Ops) + 2) : MergePlanNodes(i, j)
    \/ RefuseMerge
    \/ \E r \in Runs : CreatePlanRun(r) \/ GetPlanRun(r) \/ ResetPlanRun(r)
    \/ \E t \in Threads, r \in Runs, full \in BOOLEAN : CallStep(t, r, full)
    \/ \E t \in Threads, client \in Sqls \cup {"stub"} : Execute(t, client)
    \/ \E t \in Threads : Advance(t)
    \/ Restart

Spec == Init /\ [][Next]_vars

(* The SQL engine answers every request it is sent, and the thread pool    *)
(* runs every request it has admitted.                                     *)
FairSpec == Spec /\ \A t \in Threads : WF_vars(Advance(t))

-----------------------------------------------------------------------------
(* Type correctness.                                                       *)

OptSql == Sqls \cup {None}

SummaryType ==
    [run : Runs, status : RunState, k : Nat, next : Nodes \cup {None}]

PlanType ==
    [order : Seq(Nodes), template : {"gold", "llm", "other"}, sql : OptSql,
     replan : BOOLEAN, needsReplan : BOOLEAN, lastNeedsReplan : BOOLEAN,
     merged : SUBSET OpSet, st : [Nodes -> NodeState],
     runStatus : SummaryType \cup {None}]

RunType ==
    [status : RunState, order : Seq(Nodes), next : Nodes \cup {None},
     ns : [Nodes -> NodeState \cup {None}], k : Nat,
     result : Executed \cup {None}, error : BOOLEAN, own : BOOLEAN]

RecordType ==
    [status : RunState, ns : [Nodes -> NodeState \cup {None}],
     result : Executed \cup {None}, error : BOOLEAN]

RequestType ==
    [phase : {"idle", "preview", "exec", "between"}, run : Runs \cup {None},
     obj : Objs \cup {None}, i : Nat, full : BOOLEAN,
     sql : Executed \cup {None}]

(* None stands for a missing object: it is neither a graph nor a record.   *)
ASSUME NoneAssumption == None \notin PlanType \cup RecordType

(* Every variable keeps its shape: what update, merge, restore and step    *)
(* leave in the stores is what the other handlers index and compare.       *)
TypeOK ==
    /\ plan \in PlanType \cup {None}
    /\ dbPlan \in PlanType \cup {None}
    /\ store \in [Runs -> Objs \cup {None}]
    /\ heap \in [Objs -> RunType]
    /\ thr \in [Threads -> RequestType]
    /\ dbRun \in [Runs -> RecordType \cup {None}]
    /\ count \in [edits : Nat, generates : Nat, resets : Nat, restarts : Nat]

-----------------------------------------------------------------------------
(* Safety with any interleaving of requests.                               *)

(* A run created for the plan as it is, still in memory and holding a      *)
(* result, holds the result of what the plan would execute now: every edit *)
(* that changes the SQL takes the runs out of PLAN_RUN_STORE first, also   *)
(* the run whose last step is waiting for the old SQL.                     *)
FreshInStore ==
    \A r \in Runs :
        store[r] # None /\ heap[store[r]].own /\ heap[store[r]].result # None
        => plan # None /\ heap[store[r]].result = ExecutionSql(plan, "stub")

(* A run that shows its result node as done has the rows to show, however  *)
(* steps, resets, edits and restores of it overlap.                        *)
DoneHasResult ==
    /\ \A r \in Runs : store[r] # None /\ heap[store[r]].ns[Result] = "success"
                         => heap[store[r]].result # None
    /\ \A r \in Runs : dbRun[r] # None /\ dbRun[r].ns[Result] = "success"
                         => dbRun[r].result # None

-----------------------------------------------------------------------------
(* Safety when a client awaits each answer (Serial) and the question is    *)
(* not evaluated again.                                                    *)

InFlight(r) == \E t \in Threads : thr[t].run = r

(* A run in memory is a walk along its order: the first k nodes succeeded, *)
(* the next is the one that runs or failed, the rest is pending; it is     *)
(* finished exactly when all succeeded; and the node announced as next is  *)
(* the one the next step takes.                                            *)
Walk(run) ==
    LET n     == Len(run.order)
        at(i) == run.ns[run.order[i]]
    IN  /\ \A i \in 1..n : at(i) = "success" <=> i <= run.k
        /\ \A i \in (run.k + 2)..n : at(i) = "pending"
        /\ run.status = "success" <=> run.k = n
        /\ run.status = "idle" => run.k = 0
        /\ run.status = "error" <=> run.error
        /\ run.status = "error" => \E m \in Nodes : run.ns[m] = "error"
        /\ run.status \in {"idle", "running"} /\ (\A i \in 1..n : at(i) # "running")
           => run.next = NodeAt(run.order, run.k + 1)

RunIsWalk == \A r \in Runs : store[r] # None => Walk(heap[store[r]])

(* The graph never disagrees with the run it says it shows: neither its    *)
(* summary nor the state of any node but the result, which a direct        *)
(* execution also colours.                                                 *)
GraphShowsRun ==
    \A r \in Runs :
        plan # None /\ plan.runStatus # None /\ store[r] # None
        /\ plan.runStatus.run = r
        => /\ plan.runStatus = RunSummary(r, heap[store[r]])
           /\ \A i \in 1..Len(plan.order) : plan.order[i] # Result
                 => plan.st[plan.order[i]] = heap[store[r]].ns[plan.order[i]]

(* With a database that takes every write, a restart at any moment loses   *)
(* no completed step: what a restore would rebuild is the run in memory    *)
(* between two requests on it.  A run that failed comes back with a result *)
(* made of its error message.                                              *)
DurableProgress ==
    \A r \in Runs : store[r] # None /\ ~ InFlight(r)
        => /\ dbRun[r] # None
           /\ LET run  == heap[store[r]]
                  back == RestoredRun(dbRun[r], plan)
              IN  /\ back.order = run.order
                  /\ back.k = run.k /\ back.ns = run.ns
                  /\ back.status = run.status
                  /\ Terminal(run) \/ back.next = run.next
                  /\ back.result = IF run.error THEN "failure" ELSE run.result

(* A run in memory advances one node at a time and keeps its order; it     *)
(* goes back only to the start, and a finished one only by a reset.        *)
StepByStep ==
    [][ \A r \in Runs :
            store[r] # None /\ store'[r] = store[r]
            => LET old == heap[store[r]]
                   new == heap'[store[r]]
               IN  /\ new.order = old.order
                   /\ \/ new.k = old.k /\ (Terminal(old) => new = old)
                      \/ new.k = old.k + 1 /\ ~ Terminal(old)
                      \/ new = ResetRun(old) ]_vars

(* Once an edit emptied the SQL of a gold plan no later edit, merge,       *)
(* execution or restart brings a text back: only asking the question again *)
(* does.                                                                   *)
EmptySqlStays ==
    [][ (Loaded # None /\ Loaded.template = "gold" /\ Loaded.sql = None)
        => \/ Loaded' # None /\ Loaded'.sql = None
           \/ count'.generates > count.generates ]_vars

(* "Re-execute the active plan using the latest stored SQL", says the hook *)
(* behind the Re-execute button, which is enabled while neither the graph  *)
(* nor its last edit asks for a new plan.                                  *)
ReexecuteUsesStoredSql ==
    [][ \A t \in Threads :
            /\ thr[t] = Idle /\ thr'[t].phase = "exec" /\ thr'[t].obj = None
            /\ ~ Loaded.needsReplan /\ ~ Loaded.lastNeedsReplan
            => thr'[t].sql = Loaded.sql ]_vars

-----------------------------------------------------------------------------
(* Liveness.                                                               *)

(* A request that runs the plan to its end is answered, also when an edit  *)
(* takes its run away in the middle.                                       *)
FullRunEnds == \A t \in Threads : thr[t].full ~> ~ thr[t].full

=============================================================================
