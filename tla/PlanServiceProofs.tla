------------------------- MODULE PlanServiceProofs -------------------------
(***************************************************************************)
(* Proofs about PlanService, for every plan, every set of runs, requests   *)
(* and objects and every value of the bounds.                              *)
(***************************************************************************)
EXTENDS PlanService, SequenceTheorems, FiniteSetTheorems, TLAPS

USE NodesAssumption, PlanAssumption, ExecutedAssumption, ServiceAssumption

-----------------------------------------------------------------------------
(* The operators on plans and runs keep the types.                         *)

LEMMA OrderType == <<Intent>> \o Ops \o <<Result>> \in Seq(Nodes)
<1>1. Ops \in Seq(Nodes)
  BY DEF Nodes
<1>2. <<Intent>> \in Seq(Nodes) /\ <<Result>> \in Seq(Nodes)
  BY DEF Nodes
<1>3. QED
  BY <1>1, <1>2, ConcatProperties

LEMMA NewPlanType ==
  ASSUME NEW template \in Templates, NEW sql \in GeneratedSqls(template)
  PROVE  NewPlan(template, sql) \in PlanType
<1>1. template \in {"gold", "llm", "other"}
  OBVIOUS
<1>2. sql \in OptSql
  BY DEF GeneratedSqls, OptSql
<1>3. QED
  BY <1>1, <1>2, OrderType DEF NewPlan, PlanType, NodeState

LEMMA EditedPlanType ==
  ASSUME NEW p \in PlanType, NEW i \in 1..Len(p.order), NEW valid \in BOOLEAN, NEW s \in Sqls
  PROVE  /\ EditedPlan(p, i, valid, s) \in PlanType
         /\ PersistedEdit(p, EditedPlan(p, i, valid, s)) \in PlanType
<1>1. EditedSql(p, p.order[i], valid, s) \in OptSql
  BY DEF EditedSql, OptSql, PlanType
<1>2. MarkedPending(p, i) \in [Nodes -> NodeState]
  BY DEF MarkedPending, PlanType, NodeState
<1>3. EditedReplan(p, p.order[i], valid) \in BOOLEAN
  BY DEF EditedReplan
<1>4. EditNeedsReplan(p, p.order[i], valid, s) \in BOOLEAN
  BY DEF EditNeedsReplan
<1>5. EditedPlan(p, i, valid, s) \in PlanType
  BY <1>1, <1>2, <1>3, <1>4 DEF EditedPlan, PlanType
<1>6. QED
  BY <1>5 DEF PersistedEdit, PlanType

LEMMA MergedPlanType ==
  ASSUME NEW p \in PlanType, NEW i \in Nat, NEW j \in Nat,
         1 <= i, i < j, j <= Len(p.order), MergeSupported(p, i, j)
  PROVE  MergedPlan(p, i, j) \in PlanType
<1>1. p.order \in Seq(Nodes) /\ Len(p.order) \in Nat
  BY LenProperties DEF PlanType
<1>2. SubSeq(p.order, 1, i) \in Seq(Nodes)
  BY <1>1, SubSeqProperties
<1>3. SubSeq(p.order, j + 1, Len(p.order)) \in Seq(Nodes)
  BY <1>1, SubSeqProperties
<1>4. SubSeq(p.order, 1, i) \o SubSeq(p.order, j + 1, Len(p.order)) \in Seq(Nodes)
  BY <1>2, <1>3, ConcatProperties
<1>5. p.order[i] \in OpSet
  BY DEF MergeSupported
<1>6. MarkedPending(p, i) \in [Nodes -> NodeState]
  BY DEF MarkedPending, PlanType, NodeState
<1>7. QED
  BY <1>4, <1>5, <1>6 DEF MergedPlan, PlanType

LEMMA NodeAtType ==
  ASSUME NEW order \in Seq(Nodes), NEW i
  PROVE  NodeAt(order, i) \in Nodes \cup {None}
BY LenProperties DEF NodeAt

LEMMA NewRunType ==
  ASSUME NEW p \in PlanType
  PROVE  NewRun(p) \in RunType
<1>1. p.order \in Seq(Nodes)
  BY DEF PlanType
<1>2. NodeAt(p.order, 1) \in Nodes \cup {None}
  BY <1>1, NodeAtType
<1>3. QED
  BY <1>1, <1>2 DEF NewRun, RunType, RunState, NodeState

LEMMA NoRunType == NoRun \in RunType
<1>1. NewPlan("other", Gold) \in PlanType
  BY OrderType DEF NewPlan, PlanType, NodeState, OptSql
<1>2. NewRun(NewPlan("other", Gold)) \in RunType
  BY <1>1, NewRunType
<1>3. QED
  BY ONLY <1>2 DEF NoRun, RunType

LEMMA PositionsCounted ==
  ASSUME NEW p \in PlanType, NEW rec, NEW state
  PROVE  Cardinality(PositionsIn(rec, p, state)) \in Nat
<1>1. 1 \in Int /\ Len(p.order) \in Int
  BY LenProperties DEF PlanType
<1>2. IsFiniteSet(1..Len(p.order))
  BY ONLY <1>1, FS_Interval
<1>3. PositionsIn(rec, p, state) \in SUBSET (1..Len(p.order))
  BY DEF PositionsIn
<1>4. IsFiniteSet(PositionsIn(rec, p, state))
  BY <1>2, <1>3, FS_Subset
<1>5. QED
  BY <1>4, FS_CardinalityType

LEMMA RestoredRunType ==
  ASSUME NEW rec \in RecordType, NEW p \in PlanType
  PROVE  RestoredRun(rec, p) \in RunType
<1>1. p.order \in Seq(Nodes)
  BY DEF PlanType
<1>2. FirstNode(p, PositionsIn(rec, p, "pending")) \in Nodes \cup {None}
  BY <1>1, NodeAtType DEF FirstNode
<1>3. Cardinality(PositionsIn(rec, p, "success")) \in Nat
  BY PositionsCounted
<1>4. QED
  BY <1>1, <1>2, <1>3 DEF RestoredRun, RecordType, RunType, Executed, Fallbacks

LEMMA RunRecordType ==
  ASSUME NEW run \in RunType
  PROVE  RunRecord(run) \in RecordType
BY DEF RunRecord, RunType, RecordType

LEMMA StepTypes ==
  ASSUME NEW run \in RunType, NEW i \in 1..Len(run.order), NEW res \in Executed \cup {None}
  PROVE  /\ RunningAt(run, i) \in RunType
         /\ StepSucceeded(run, i, res) \in RunType
         /\ StepFailed(run, i) \in RunType
<1>1. run.order \in Seq(Nodes) /\ run.ns \in [Nodes -> NodeState \cup {None}]
  BY DEF RunType
<1>2. NodeAt(run.order, i + 1) \in Nodes \cup {None}
  BY <1>1, NodeAtType
<1>3. i \in Nat /\ run.order[i] \in Nodes
  BY <1>1, LenProperties
<1>4. \A state \in NodeState : [run.ns EXCEPT ![run.order[i]] = state] \in [Nodes -> NodeState \cup {None}]
  BY <1>1
<1>5. RunningAt(run, i) \in RunType
  BY <1>2, <1>4 DEF RunningAt, RunType, RunState, NodeState
<1>6. StepSucceeded(run, i, res) \in RunType
  BY <1>2, <1>3, <1>4 DEF StepSucceeded, RunType, RunState, NodeState
<1>7. StepFailed(run, i) \in RunType
  BY <1>2, <1>4 DEF StepFailed, RunType, RunState, NodeState
<1>8. QED
  BY <1>5, <1>6, <1>7

LEMMA ResetTypes ==
  ASSUME NEW run \in RunType
  PROVE  ResetRun(run) \in RunType /\ Finished(run) \in RunType
<1>1. NodeAt(run.order, 1) \in Nodes \cup {None}
  BY NodeAtType DEF RunType
<1>2. QED
  BY <1>1 DEF ResetRun, Finished, RunType, RunState, NodeState

LEMMA RunAppliedType ==
  ASSUME NEW p \in PlanType, NEW r \in Runs, NEW run \in RunType
  PROVE  RunApplied(p, r, run) \in PlanType
<1>1. RunSummary(r, run) \in SummaryType
  BY DEF RunSummary, SummaryType, RunType
<1>2. [n \in Nodes |-> IF OnPlan(p, n) /\ run.ns[n] # None THEN run.ns[n] ELSE p.st[n]]
        \in [Nodes -> NodeState]
  BY DEF PlanType, RunType
<1>3. QED
  BY <1>1, <1>2 DEF RunApplied, PlanType

LEMMA ResultAppliedType ==
  ASSUME NEW p \in PlanType, NEW err \in BOOLEAN
  PROVE  ResultApplied(p, err) \in PlanType
BY DEF ResultApplied, PlanType, NodeState, Nodes

LEMMA ExecutionSqlType ==
  ASSUME NEW p \in PlanType, NEW client \in Sqls \cup {"stub"}
  PROVE  ExecutionSql(p, client) \in Executed
BY DEF ExecutionSql, PlanType, OptSql, Executed, Fallbacks

-----------------------------------------------------------------------------
(* The heap: which objects a step may touch.                               *)

LEMMA NewObjIsFree ==
  ASSUME Free # {}
  PROVE  NewObj \in Free
BY DEF NewObj, Free

LEMMA SweptType ==
  ASSUME NEW h \in [Objs -> RunType], NEW s, NEW th
  PROVE  Swept(h, s, th) \in [Objs -> RunType]
BY NoRunType DEF Swept

LEMMA SweptKeeps ==
  ASSUME NEW h, NEW s, NEW th, NEW t \in Threads, th[t].obj \in Objs
  PROVE  Swept(h, s, th)[th[t].obj] = h[th[t].obj]
BY DEF Swept, Referenced

-----------------------------------------------------------------------------
(* The type invariant is not inductive: a handler that resumes after the   *)
(* SQL engine answered uses the plan, the run object and the position it   *)
(* started with, so what a request in flight carries must be sound too.    *)

Loadedness ==
    /\ \A r \in Runs : store[r] # None => plan # None
    /\ \A t \in Threads : thr[t].phase # "idle" => plan # None

RequestSound(t) ==
    /\ thr[t].phase # "idle" /\ thr[t].obj # None
         => thr[t].run \in Runs /\ thr[t].i \in 1..Len(heap[thr[t].obj].order)
    /\ thr[t].phase = "preview" => thr[t].obj # None
    /\ thr[t].phase = "exec" => thr[t].sql \in Executed
    /\ thr[t].phase = "between" => thr[t].run \in Runs
    /\ thr[t].phase \in {"idle", "between"} => thr[t].obj = None

TypeInv == TypeOK /\ Loadedness /\ \A t \in Threads : RequestSound(t)

LEMMA LoadedType ==
  ASSUME TypeInv, Loaded # None
  PROVE  Loaded \in PlanType
BY DEF TypeInv, TypeOK, Loaded

(* What a handler knows of the run it opened.                              *)
SoundOpening(r, op) ==
    /\ op.obj \in Objs
    /\ op.run \in RunType
    /\ op.plan \in PlanType
    /\ \A t \in Threads : thr[t].obj = op.obj => op.run.order = heap[op.obj].order

LEMMA OpenedSound ==
  ASSUME TypeInv, NEW r \in Runs, CanOpen(r)
  PROVE  SoundOpening(r, Opened(r))
<1>1. CASE store[r] # None
  BY <1>1 DEF TypeInv, TypeOK, Loadedness, Opened, SoundOpening
<1>2. CASE store[r] = None
  <2>1. dbRun[r] \in RecordType /\ Loaded \in PlanType
    BY <1>2, LoadedType DEF CanOpen, TypeInv, TypeOK
  <2>2. RestoredRun(dbRun[r], Loaded) \in RunType
    BY <2>1, RestoredRunType
  <2>3. RunApplied(Loaded, r, RestoredRun(dbRun[r], Loaded)) \in PlanType
    BY <2>1, <2>2, RunAppliedType
  <2>4. NewObj \in Objs /\ \A t \in Threads : thr[t].obj # NewObj
    BY <1>2, NewObjIsFree DEF CanOpen, Free, Referenced
  <2>5. QED
    BY <1>2, <2>2, <2>3, <2>4 DEF Opened, SoundOpening
<1>3. QED
  BY <1>1, <1>2

LEMMA PersistedType ==
  ASSUME TypeInv, NEW r \in Runs, NEW run \in RunType, Persisted(r, run)
  PROVE  dbRun' \in [Runs -> RecordType \cup {None}]
BY RunRecordType DEF Persisted, Written, TypeInv, TypeOK

(* The requests a handler leaves behind: one that is over, or one that     *)
(* waits for the SQL engine with the object o, whose content is now run.   *)
SoundRequest(req, o, run) ==
    /\ req \in RequestType
    /\ \/ /\ req.phase \in {"idle", "between"} /\ req.obj = None
          /\ req.phase = "between" => req.run \in Runs
       \/ /\ req.phase \in {"preview", "exec"} /\ req.obj = o
          /\ req.run \in Runs /\ req.i \in 1..Len(run.order)
          /\ req.phase = "exec" => req.sql \in Executed

LEMMA PutSound ==
  ASSUME TypeInv, NEW t \in Threads, NEW r, NEW o \in Objs, NEW run \in RunType, NEW req,
         SoundRequest(req, o, run), Put(r, o, run, t, req),
         \A u \in Threads : thr[u].obj = o => run.order = heap[o].order
  PROVE  /\ thr' \in [Threads -> RequestType]
         /\ heap' \in [Objs -> RunType]
         /\ \A u \in Threads : RequestSound(u)'
<1>1. thr \in [Threads -> RequestType] /\ heap \in [Objs -> RunType]
  BY DEF TypeInv, TypeOK
<1>2. thr' = [thr EXCEPT ![t] = req] /\ thr' \in [Threads -> RequestType]
  BY <1>1 DEF Put, SoundRequest
<1>3. heap' = Swept([heap EXCEPT ![o] = run], store', thr') /\ heap' \in [Objs -> RunType]
  <2>1. [heap EXCEPT ![o] = run] \in [Objs -> RunType]
    BY <1>1
  <2>2. QED
    BY <2>1, SweptType DEF Put
<1>4. ASSUME NEW u \in Threads
      PROVE  RequestSound(u)'
  <2>1. thr'[u].obj # None => thr'[u].obj \in Objs
    BY <1>2 DEF RequestType
  <2>2. thr'[u].obj # None => heap'[thr'[u].obj] = [heap EXCEPT ![o] = run][thr'[u].obj]
    <3>1. \A h, s, th : th[u].obj \in Objs
            => Swept(h, s, th)[th[u].obj] = h[th[u].obj]
      BY SweptKeeps
    <3> HIDE DEF Swept
    <3> DEFINE h1 == [heap EXCEPT ![o] = run]
    <3>2. heap' = Swept(h1, store', thr')
      BY <1>3
    <3> HIDE DEF h1
    <3>3. thr'[u].obj \in Objs => Swept(h1, store', thr')[thr'[u].obj] = h1[thr'[u].obj]
      BY <3>1
    <3>4. QED
      BY <2>1, <3>2, <3>3 DEF h1
  <2>3. CASE u = t
    <3>1. thr'[u] = req
      BY <1>1, <1>2, <2>3
    <3>2. req.obj = o => heap'[o] = run
      BY <1>1, <2>2, <3>1, ServiceAssumption
    <3>3. QED
      BY <3>1, <3>2, ServiceAssumption DEF RequestSound, SoundRequest
  <2>4. CASE u # t
    <3>1. thr'[u] = thr[u] /\ RequestSound(u)
      BY <1>1, <1>2, <2>4 DEF TypeInv
    <3>2. thr[u].obj # None => heap'[thr[u].obj].order = heap[thr[u].obj].order
      BY <1>1, <2>1, <2>2, <3>1
    <3>3. QED
      BY <3>1, <3>2 DEF RequestSound
  <2>5. QED
    BY <2>3, <2>4
<1>5. QED
  BY <1>2, <1>3, <1>4

LEMMA IdleSound ==
  ASSUME NEW r \in Runs, NEW o, NEW run, NEW full \in BOOLEAN
  PROVE  SoundRequest(Idle, o, run) /\ SoundRequest(AfterStep(r, full), o, run)
BY DEF SoundRequest, Idle, AfterStep, RequestType

(* What has to be shown of a handler that touches neither the plan's row   *)
(* nor the counters.                                                       *)
Kept ==
    /\ plan' \in PlanType
    /\ store' \in [Runs -> Objs \cup {None}]
    /\ heap' \in [Objs -> RunType]
    /\ thr' \in [Threads -> RequestType]
    /\ dbRun' \in [Runs -> RecordType \cup {None}]
    /\ \A u \in Threads : RequestSound(u)'

LEMMA KeptSuffices ==
  ASSUME TypeInv, Kept,
         dbPlan' \in PlanType \cup {None},
         count' \in [edits : Nat, generates : Nat, resets : Nat, restarts : Nat]
  PROVE  TypeInv'
<1>1. plan' # None
  BY NoneAssumption DEF Kept
<1>2. TypeOK'
  BY DEF Kept, TypeOK
<1>3. Loadedness'
  BY <1>1 DEF Loadedness
<1>4. QED
  BY <1>2, <1>3 DEF Kept, TypeInv

(* The common end of every step: the object of r becomes run, the request  *)
(* becomes req, and the graph shows the run.                               *)
LEMMA StepKept ==
  ASSUME TypeInv, NEW t \in Threads, NEW r \in Runs, NEW op, SoundOpening(r, op),
         NEW run \in RunType, run.order = op.run.order,
         NEW req, SoundRequest(req, op.obj, run), Put(r, op.obj, run, t, req),
         store' = [store EXCEPT ![r] = op.obj],
         plan' \in {op.plan, RunApplied(op.plan, r, run)},
         Persisted(r, run) \/ dbRun' = dbRun
  PROVE  Kept
<1>1. plan' \in PlanType
  BY RunAppliedType DEF SoundOpening
<1>2. store' \in [Runs -> Objs \cup {None}]
  BY DEF TypeInv, TypeOK, SoundOpening
<1>3. dbRun' \in [Runs -> RecordType \cup {None}]
  BY PersistedType DEF TypeInv, TypeOK
<1>4. op.obj \in Objs /\ \A u \in Threads : thr[u].obj = op.obj => run.order = heap[op.obj].order
  BY DEF SoundOpening
<1>5. /\ thr' \in [Threads -> RequestType] /\ heap' \in [Objs -> RunType]
      /\ \A u \in Threads : RequestSound(u)'
  BY <1>4, PutSound
<1>6. QED
  BY <1>1, <1>2, <1>3, <1>5 DEF Kept

(* A step taken on a soundly opened run keeps the type invariant.          *)
LEMMA BeginStepKept ==
  ASSUME TypeInv, NEW t \in Threads, NEW r \in Runs, NEW op, NEW full \in BOOLEAN,
         SoundOpening(r, op), BeginStep(t, r, op, full)
  PROVE  Kept
<1>1. op.run \in RunType /\ op.obj \in Objs /\ op.plan \in PlanType
  BY DEF SoundOpening
<1>2. op.run.order \in Seq(Nodes) /\ Len(op.run.order) \in Nat
  BY <1>1, LenProperties DEF RunType
<1>3. CASE StepOfEnded(t, r, op)
  <2>1. SoundRequest(Idle, op.obj, op.run)
    BY IdleSound
  <2>2. QED
    BY <1>1, <1>3, <2>1, StepKept DEF StepOfEnded
<1>4. CASE StepBeyond(t, r, op)
  <2>1. Finished(op.run) \in RunType /\ Finished(op.run).order = op.run.order
    BY <1>1, ResetTypes DEF Finished, RunType
  <2>2. SoundRequest(Idle, op.obj, Finished(op.run))
    BY IdleSound
  <2>3. QED
    BY <1>4, <2>1, <2>2, StepKept DEF StepBeyond
<1>5. CASE StepIntent(t, r, op, full)
  <2>1. PICK i \in 1..Len(op.run.order) :
            /\ store' = [store EXCEPT ![r] = op.obj]
            /\ Put(r, op.obj, StepSucceeded(op.run, i, None), t, AfterStep(r, full))
            /\ plan' = RunApplied(op.plan, r, StepSucceeded(op.run, i, None))
            /\ Persisted(r, StepSucceeded(op.run, i, None))
    BY <1>5 DEF StepIntent
  <2>2. /\ StepSucceeded(op.run, i, None) \in RunType
        /\ StepSucceeded(op.run, i, None).order = op.run.order
    <3>1. op.run \in RunType
      BY <1>1
    <3>2. StepSucceeded(op.run, i, None) \in RunType
      BY <3>1, StepTypes
    <3>3. StepSucceeded(op.run, i, None).order = op.run.order
      BY <3>1 DEF StepSucceeded, RunType
    <3>4. QED
      BY <3>2, <3>3
  <2>3. SoundRequest(AfterStep(r, full), op.obj, StepSucceeded(op.run, i, None))
    BY IdleSound
  <2>4. QED
    BY <2>1, <2>2, <2>3, StepKept
<1>6. CASE StepOperation(t, r, op, full)
  <2>1. PICK i \in 1..Len(op.run.order) :
            /\ store' = [store EXCEPT ![r] = op.obj]
            /\ Put(r, op.obj, op.run, t,
                   [phase |-> "preview", run |-> r, obj |-> op.obj, i |-> i,
                    full |-> full, sql |-> None])
            /\ plan' = op.plan
            /\ dbRun' = dbRun
    BY <1>6 DEF StepOperation
  <2>2. SoundRequest([phase |-> "preview", run |-> r, obj |-> op.obj, i |-> i,
                      full |-> full, sql |-> None], op.obj, op.run)
    BY <1>1, <1>2 DEF SoundRequest, RequestType
  <2>3. QED
    BY <1>1, <2>1, <2>2, StepKept
<1>7. CASE StepResult(t, r, op, full)
  <2>1. PICK i \in 1..Len(op.run.order) :
            /\ store' = [store EXCEPT ![r] = op.obj]
            /\ Put(r, op.obj, RunningAt(op.run, i), t,
                   [phase |-> "exec", run |-> r, obj |-> op.obj, i |-> i,
                    full |-> full, sql |-> ExecutionSql(op.plan, "stub")])
            /\ plan' = RunApplied(op.plan, r, RunningAt(op.run, i))
            /\ dbRun' = dbRun
    BY <1>7 DEF StepResult
  <2>2. RunningAt(op.run, i) \in RunType /\ RunningAt(op.run, i).order = op.run.order
    BY <1>1, StepTypes DEF RunningAt, RunType
  <2>3. ExecutionSql(op.plan, "stub") \in Executed
    BY <1>1, ExecutionSqlType
  <2>4. SoundRequest([phase |-> "exec", run |-> r, obj |-> op.obj, i |-> i,
                      full |-> full, sql |-> ExecutionSql(op.plan, "stub")],
                     op.obj, RunningAt(op.run, i))
    BY <1>1, <1>2, <2>2, <2>3 DEF SoundRequest, RequestType
  <2>5. QED
    BY <2>1, <2>2, <2>4, StepKept
<1>8. CASE StepResultRefused(t, r, op, full)
  <2>1. PICK i \in 1..Len(op.run.order) :
            /\ store' = [store EXCEPT ![r] = op.obj]
            /\ Put(r, op.obj, StepSucceeded(op.run, i, "replan"), t, AfterStep(r, full))
            /\ plan' = RunApplied(op.plan, r, StepSucceeded(op.run, i, "replan"))
            /\ Persisted(r, StepSucceeded(op.run, i, "replan"))
    BY <1>8 DEF StepResultRefused
  <2>2. "replan" \in Executed
    BY DEF Executed, Fallbacks
  <2>3. /\ StepSucceeded(op.run, i, "replan") \in RunType
        /\ StepSucceeded(op.run, i, "replan").order = op.run.order
    <3>1. StepSucceeded(op.run, i, "replan") \in RunType
      BY <1>1, <2>2, StepTypes
    <3>2. StepSucceeded(op.run, i, "replan").order = op.run.order
      BY <1>1 DEF StepSucceeded, RunType
    <3>3. QED
      BY <3>1, <3>2
  <2>4. SoundRequest(AfterStep(r, full), op.obj, StepSucceeded(op.run, i, "replan"))
    BY IdleSound
  <2>5. QED
    BY <2>1, <2>3, <2>4, StepKept
<1>9. QED
  BY <1>3, <1>4, <1>5, <1>6, <1>7, <1>8 DEF BeginStep

-----------------------------------------------------------------------------
(* The requests that do not wait.                                          *)

(* A handler that replaces the content of one object and no request.       *)
LEMMA ReplacedSound ==
  ASSUME TypeInv, NEW o \in Objs, NEW run \in RunType,
         heap' = [heap EXCEPT ![o] = run], thr' = thr,
         \A u \in Threads : thr[u].obj = o => run.order = heap[o].order
  PROVE  /\ thr' \in [Threads -> RequestType]
         /\ heap' \in [Objs -> RunType]
         /\ \A u \in Threads : RequestSound(u)'
<1>1. thr \in [Threads -> RequestType] /\ heap \in [Objs -> RunType]
  BY DEF TypeInv, TypeOK
<1>2. ASSUME NEW u \in Threads
      PROVE  RequestSound(u)'
  <2>1. thr[u].obj # None => thr[u].obj \in Objs
    BY <1>1 DEF RequestType
  <2>2. thr[u].obj # None => heap'[thr[u].obj].order = heap[thr[u].obj].order
    BY <1>1, <2>1
  <2>3. RequestSound(u)
    BY DEF TypeInv
  <2>4. QED
    BY <2>2, <2>3 DEF RequestSound
<1>3. QED
  BY <1>1, <1>2

(* An edit takes the runs out of the store; a request in flight keeps its  *)
(* own object.                                                             *)
LEMMA ClearedSound ==
  ASSUME TypeInv, store' = ClearedStore(store), thr' = thr, heap' = Swept(heap, store', thr)
  PROVE  /\ store' \in [Runs -> Objs \cup {None}]
         /\ thr' \in [Threads -> RequestType]
         /\ heap' \in [Objs -> RunType]
         /\ \A u \in Threads : RequestSound(u)'
<1>1. thr \in [Threads -> RequestType] /\ heap \in [Objs -> RunType]
  BY DEF TypeInv, TypeOK
<1>2. heap' \in [Objs -> RunType]
  BY <1>1, SweptType
<1>3. store' \in [Runs -> Objs \cup {None}]
  BY DEF ClearedStore
<1>4. ASSUME NEW u \in Threads
      PROVE  RequestSound(u)'
  <2>1. thr[u].obj # None => thr[u].obj \in Objs
    BY <1>1 DEF RequestType
  <2>2. \A h, s : thr[u].obj \in Objs => Swept(h, s, thr)[thr[u].obj] = h[thr[u].obj]
    BY SweptKeeps
  <2>3. thr[u].obj # None => heap'[thr[u].obj] = heap[thr[u].obj]
    BY <2>1, <2>2
  <2>4. RequestSound(u)
    BY DEF TypeInv
  <2>5. QED
    BY <2>3, <2>4 DEF RequestSound
<1>5. QED
  BY <1>1, <1>2, <1>3, <1>4

(* A handler that leaves requests and run objects alone.                   *)
LEMMA RequestsUnchanged ==
  ASSUME TypeInv, thr' = thr, heap' = heap
  PROVE  /\ thr' \in [Threads -> RequestType]
         /\ heap' \in [Objs -> RunType]
         /\ \A u \in Threads : RequestSound(u)'
BY DEF TypeInv, TypeOK, RequestSound

LEMMA GenerateKeeps ==
  ASSUME TypeInv, NEW template \in Templates, Generate(template)
  PROVE  TypeInv'
<1>1. Gold \in GeneratedSqls(template)
  BY DEF Generate, GeneratedSqls
<1>2. plan' \in PlanType
  BY <1>1, NewPlanType DEF Generate
<1>3. thr' = thr /\ store' = store /\ dbRun' = dbRun /\ dbPlan' = dbPlan
  BY DEF Generate
<1>4. heap \in [Objs -> RunType] /\ thr \in [Threads -> RequestType]
  BY DEF TypeInv, TypeOK
<1>5. heap' = [o \in Objs |-> [heap[o] EXCEPT !.own = FALSE]]
  BY DEF Generate
<1>6. heap' \in [Objs -> RunType] /\ \A o \in Objs : heap'[o].order = heap[o].order
  <2>1. \A run \in RunType : /\ [run EXCEPT !.own = FALSE] \in RunType
                              /\ [run EXCEPT !.own = FALSE].order = run.order
    BY DEF RunType
  <2>2. \A o \in Objs : heap[o] \in RunType
    BY <1>4
  <2>3. QED
    BY <1>5, <2>1, <2>2
<1>7. ASSUME NEW u \in Threads PROVE RequestSound(u)'
  <2>1. thr[u].obj # None => thr[u].obj \in Objs
    BY <1>4 DEF RequestType
  <2>2. thr[u].obj # None => heap'[thr[u].obj].order = heap[thr[u].obj].order
    BY <1>6, <2>1
  <2>3. RequestSound(u)
    BY DEF TypeInv
  <2>4. QED
    BY <1>3, <2>2, <2>3 DEF RequestSound
<1>8. Kept
  BY <1>2, <1>3, <1>4, <1>6, <1>7 DEF Kept, TypeInv, TypeOK
<1>9. dbPlan' \in PlanType \cup {None}
  BY <1>3 DEF TypeInv, TypeOK
<1>10. count' \in [edits : Nat, generates : Nat, resets : Nat, restarts : Nat]
  BY SMTT(30) DEF Generate, TypeInv, TypeOK
<1>11. QED
  BY <1>8, <1>9, <1>10, KeptSuffices

LEMMA GetPlanKeeps ==
  ASSUME TypeInv, GetPlan
  PROVE  TypeInv'
<1>1. TypeOK'
  BY DEF GetPlan, Loaded, TypeInv, TypeOK
<1>2. Loadedness'
  BY DEF GetPlan, Loaded, TypeInv, Loadedness
<1>3. \A u \in Threads : RequestSound(u)'
  BY RequestsUnchanged DEF GetPlan
<1>4. QED
  BY <1>1, <1>2, <1>3 DEF TypeInv

LEMMA CountEditType ==
  ASSUME TypeInv, CountEdit
  PROVE  count' \in [edits : Nat, generates : Nat, resets : Nat, restarts : Nat]
<1>1. count \in [edits : Nat, generates : Nat, resets : Nat, restarts : Nat]
  BY DEF TypeInv, TypeOK
<1>2. QED
  BY ONLY <1>1, CountEdit DEF CountEdit

LEMMA UpdatePlanNodeKeeps ==
  ASSUME TypeInv, NEW i \in 1..(Len(Ops) + 2), NEW valid \in BOOLEAN, NEW s \in Sqls,
         UpdatePlanNode(i, valid, s)
  PROVE  TypeInv'
<1>1. Loaded \in PlanType /\ i \in 1..Len(Loaded.order)
  BY LoadedType DEF UpdatePlanNode
<1>2. plan' \in PlanType /\ PersistedEdit(Loaded, plan') \in PlanType
  BY <1>1, EditedPlanType DEF UpdatePlanNode
<1>3. dbPlan' \in PlanType \cup {None}
  BY <1>2 DEF UpdatePlanNode, Written, TypeInv, TypeOK
<1>4. /\ store' \in [Runs -> Objs \cup {None}] /\ thr' \in [Threads -> RequestType]
      /\ heap' \in [Objs -> RunType] /\ \A u \in Threads : RequestSound(u)'
  BY ClearedSound DEF UpdatePlanNode
<1>5. Kept
  BY <1>2, <1>4 DEF Kept, UpdatePlanNode, TypeInv, TypeOK
<1>6. QED
  BY <1>3, <1>5, CountEditType, KeptSuffices DEF UpdatePlanNode

LEMMA MergePlanNodesKeeps ==
  ASSUME TypeInv, NEW i \in 1..(Len(Ops) + 2), NEW j \in 1..(Len(Ops) + 2),
         MergePlanNodes(i, j)
  PROVE  TypeInv'
<1>1. Loaded \in PlanType
  BY LoadedType DEF MergePlanNodes
<1>2. i \in Nat /\ j \in Nat /\ 1 <= i
  BY LenProperties
<1>3. plan' \in PlanType
  BY <1>1, <1>2, MergedPlanType DEF MergePlanNodes
<1>4. dbPlan' \in PlanType \cup {None}
  BY <1>3 DEF MergePlanNodes, Written, TypeInv, TypeOK
<1>5. /\ store' \in [Runs -> Objs \cup {None}] /\ thr' \in [Threads -> RequestType]
      /\ heap' \in [Objs -> RunType] /\ \A u \in Threads : RequestSound(u)'
  BY ClearedSound DEF MergePlanNodes
<1>6. Kept
  BY <1>3, <1>5 DEF Kept, MergePlanNodes, TypeInv, TypeOK
<1>7. QED
  BY <1>4, <1>6, CountEditType, KeptSuffices DEF MergePlanNodes

LEMMA RefuseMergeKeeps ==
  ASSUME TypeInv, RefuseMerge
  PROVE  TypeInv'
<1>1. Loaded \in PlanType
  BY LoadedType DEF RefuseMerge
<1>2. plan' \in PlanType
  BY <1>1 DEF RefuseMerge, RefusedMerge, PlanType
<1>3. /\ thr' \in [Threads -> RequestType] /\ heap' \in [Objs -> RunType]
      /\ \A u \in Threads : RequestSound(u)'
  BY RequestsUnchanged DEF RefuseMerge
<1>4. Kept
  BY <1>2, <1>3 DEF Kept, RefuseMerge, TypeInv, TypeOK
<1>5. dbPlan' \in PlanType \cup {None}
  BY DEF RefuseMerge, TypeInv, TypeOK
<1>6. QED
  BY <1>4, <1>5, CountEditType, KeptSuffices DEF RefuseMerge

(* A handler on runs other than a step: the object of r becomes run, and   *)
(* the graph shows run or stays as the opening left it.                    *)
LEMMA RunReplacedKeeps ==
  ASSUME TypeInv, NEW r \in Runs, NEW o \in Objs, NEW run \in RunType,
         \A u \in Threads : thr[u].obj = o => run.order = heap[o].order,
         store' = [store EXCEPT ![r] = o], heap' = [heap EXCEPT ![o] = run], thr' = thr,
         plan' \in PlanType,
         Persisted(r, run) \/ dbRun' = dbRun,
         dbPlan' = dbPlan,
         count' \in [edits : Nat, generates : Nat, resets : Nat, restarts : Nat]
  PROVE  TypeInv'
<1>1. /\ thr' \in [Threads -> RequestType] /\ heap' \in [Objs -> RunType]
      /\ \A u \in Threads : RequestSound(u)'
  BY ReplacedSound
<1>2. store' \in [Runs -> Objs \cup {None}]
  BY DEF TypeInv, TypeOK
<1>3. dbRun' \in [Runs -> RecordType \cup {None}]
  BY PersistedType DEF TypeInv, TypeOK
<1>4. Kept
  BY <1>1, <1>2, <1>3 DEF Kept
<1>5. dbPlan' \in PlanType \cup {None}
  BY DEF TypeInv, TypeOK
<1>6. QED
  BY <1>4, <1>5, KeptSuffices

LEMMA CreatePlanRunKeeps ==
  ASSUME TypeInv, NEW r \in Runs, CreatePlanRun(r)
  PROVE  TypeInv'
<1>1. Loaded \in PlanType
  BY LoadedType DEF CreatePlanRun
<1>2. NewRun(Loaded) \in RunType
  BY <1>1, NewRunType
<1>3. plan' \in PlanType
  BY <1>1, <1>2, RunAppliedType DEF CreatePlanRun
<1>4. NewObj \in Objs /\ \A u \in Threads : thr[u].obj # NewObj
  BY NewObjIsFree DEF CreatePlanRun, Free, Referenced
<1>5. count' \in [edits : Nat, generates : Nat, resets : Nat, restarts : Nat]
  BY DEF CreatePlanRun, TypeInv, TypeOK
<1>6. QED
  BY <1>2, <1>3, <1>4, <1>5, RunReplacedKeeps DEF CreatePlanRun

LEMMA GetPlanRunKeeps ==
  ASSUME TypeInv, NEW r \in Runs, GetPlanRun(r)
  PROVE  TypeInv'
<1> DEFINE op == Opened(r)
<1>1. SoundOpening(r, op)
  BY OpenedSound DEF GetPlanRun
<1>2. count' \in [edits : Nat, generates : Nat, resets : Nat, restarts : Nat]
  BY DEF GetPlanRun, TypeInv, TypeOK
<1>3. /\ store' = [store EXCEPT ![r] = op.obj] /\ heap' = [heap EXCEPT ![op.obj] = op.run]
      /\ thr' = thr /\ plan' = op.plan /\ dbRun' = dbRun /\ dbPlan' = dbPlan
  BY DEF GetPlanRun
<1> HIDE DEF op
<1>4. QED
  BY <1>1, <1>2, <1>3, RunReplacedKeeps DEF SoundOpening

LEMMA ResetPlanRunKeeps ==
  ASSUME TypeInv, NEW r \in Runs, ResetPlanRun(r)
  PROVE  TypeInv'
<1> DEFINE op  == Opened(r)
           run == ResetRun(op.run)
<1>1. SoundOpening(r, op)
  BY OpenedSound DEF ResetPlanRun
<1>2. run \in RunType /\ run.order = op.run.order
  BY <1>1, ResetTypes DEF SoundOpening, ResetRun, RunType
<1>3. count' \in [edits : Nat, generates : Nat, resets : Nat, restarts : Nat]
  <2>1. count' = [count EXCEPT !.resets = @ + 1]
    BY DEF ResetPlanRun
  <2>2. count \in [edits : Nat, generates : Nat, resets : Nat, restarts : Nat]
    BY DEF TypeInv, TypeOK
  <2>3. QED
    BY ONLY <2>1, <2>2
<1>4. /\ store' = [store EXCEPT ![r] = op.obj] /\ heap' = [heap EXCEPT ![op.obj] = run]
      /\ thr' = thr /\ plan' = RunApplied(op.plan, r, run) /\ dbPlan' = dbPlan
      /\ Persisted(r, run)
  BY DEF ResetPlanRun
<1> HIDE DEF op, run
<1>5. plan' \in PlanType
  BY <1>1, <1>2, <1>4, RunAppliedType DEF SoundOpening
<1>6. op.obj \in Objs /\ \A u \in Threads : thr[u].obj = op.obj => run.order = heap[op.obj].order
  BY <1>1, <1>2 DEF SoundOpening
<1>7. QED
  BY <1>2, <1>3, <1>4, <1>5, <1>6, RunReplacedKeeps

-----------------------------------------------------------------------------
(* Steps and executions.                                                   *)

LEMMA BeginStepKeeps ==
  ASSUME TypeInv, NEW t \in Threads, NEW r \in Runs, NEW full \in BOOLEAN,
         CanOpen(r), BeginStep(t, r, Opened(r), full)
  PROVE  TypeInv'
<1>1. Kept
  BY OpenedSound, BeginStepKept
<1>2. dbPlan' = dbPlan /\ count' = count
  BY DEF BeginStep, StepOfEnded, StepBeyond, StepIntent, StepOperation, StepResult,
         StepResultRefused
<1>3. /\ dbPlan' \in PlanType \cup {None}
      /\ count' \in [edits : Nat, generates : Nat, resets : Nat, restarts : Nat]
  BY <1>2 DEF TypeInv, TypeOK
<1>4. QED
  BY <1>1, <1>3, KeptSuffices

(* A request that waits for the SQL engine knows its run and its object.   *)
LEMMA WaitingSound ==
  ASSUME TypeInv, NEW t \in Threads, thr[t].phase # "idle", thr[t].obj # None
  PROVE  /\ plan \in PlanType /\ thr[t].run \in Runs /\ thr[t].obj \in Objs
         /\ heap[thr[t].obj] \in RunType /\ thr[t].i \in 1..Len(heap[thr[t].obj].order)
         /\ thr[t].full \in BOOLEAN
<1>1. thr[t] \in RequestType
  BY DEF TypeInv, TypeOK
<1>2. thr[t].obj \in Objs /\ thr[t].full \in BOOLEAN
  BY <1>1 DEF RequestType
<1>3. heap[thr[t].obj] \in RunType
  BY <1>2 DEF TypeInv, TypeOK
<1>4. plan \in PlanType
  BY DEF TypeInv, TypeOK, Loadedness
<1>5. RequestSound(t)
  BY DEF TypeInv
<1>6. QED
  BY <1>2, <1>3, <1>4, <1>5 DEF RequestSound

(* The end of a step that waited.                                          *)
LEMMA AnsweredKept ==
  ASSUME TypeInv, NEW t \in Threads, thr[t].phase # "idle", thr[t].obj # None,
         NEW run \in RunType, run.order = heap[thr[t].obj].order,
         Put(thr[t].run, thr[t].obj, run, t, AfterStep(thr[t].run, thr[t].full)),
         UNCHANGED store, plan' \in PlanType, Persisted(thr[t].run, run)
  PROVE  Kept
<1>1. /\ thr[t].run \in Runs /\ thr[t].obj \in Objs /\ thr[t].full \in BOOLEAN
  BY WaitingSound
<1>2. SoundRequest(AfterStep(thr[t].run, thr[t].full), thr[t].obj, run)
  BY <1>1, IdleSound
<1>3. /\ thr' \in [Threads -> RequestType] /\ heap' \in [Objs -> RunType]
      /\ \A u \in Threads : RequestSound(u)'
  <2>1. \A u \in Threads : thr[u].obj = thr[t].obj => run.order = heap[thr[t].obj].order
    OBVIOUS
  <2> DEFINE o == thr[t].obj
             req == AfterStep(thr[t].run, thr[t].full)
  <2>2. o \in Objs /\ SoundRequest(req, o, run) /\ Put(thr[t].run, o, run, t, req)
    BY <1>1, <1>2
  <2>3. \A u \in Threads : thr[u].obj = o => run.order = heap[o].order
    BY <2>1
  <2> HIDE DEF o, req
  <2>4. QED
    BY <2>2, <2>3, PutSound
<1>4. dbRun' \in [Runs -> RecordType \cup {None}]
  BY <1>1, PersistedType
<1>5. QED
  BY <1>3, <1>4 DEF Kept, TypeInv, TypeOK

LEMMA PreviewDoneKeeps ==
  ASSUME TypeInv, NEW t \in Threads, NEW ok \in BOOLEAN, PreviewDone(t, ok)
  PROVE  TypeInv'
<1> DEFINE old == heap[thr[t].obj]
           run == IF ok THEN StepSucceeded(old, thr[t].i, None) ELSE StepFailed(old, thr[t].i)
<1>1. thr[t].phase # "idle" /\ thr[t].obj # None
  BY DEF PreviewDone, TypeInv, RequestSound
<1>2. /\ plan \in PlanType /\ thr[t].run \in Runs /\ old \in RunType
      /\ thr[t].i \in 1..Len(old.order)
  BY <1>1, WaitingSound
<1>3. run \in RunType
  BY <1>2, StepTypes
<1>4. run.order = old.order
  BY <1>2 DEF StepSucceeded, StepFailed, RunType
<1>5. /\ Put(thr[t].run, thr[t].obj, run, t, AfterStep(thr[t].run, thr[t].full))
      /\ UNCHANGED store /\ plan' = RunApplied(plan, thr[t].run, run)
      /\ Persisted(thr[t].run, run) /\ dbPlan' = dbPlan /\ count' = count
  BY DEF PreviewDone
<1> HIDE DEF run
<1>6. plan' \in PlanType
  BY <1>2, <1>3, <1>5, RunAppliedType
<1>7. Kept
  BY <1>1, <1>3, <1>4, <1>5, <1>6, AnsweredKept
<1>8. /\ dbPlan' \in PlanType \cup {None}
      /\ count' \in [edits : Nat, generates : Nat, resets : Nat, restarts : Nat]
  BY <1>5 DEF TypeInv, TypeOK
<1>9. QED
  BY <1>7, <1>8, KeptSuffices

LEMMA StepExecutedKeeps ==
  ASSUME TypeInv, NEW t \in Threads, NEW err \in BOOLEAN, StepExecuted(t, err)
  PROVE  TypeInv'
<1> DEFINE old == heap[thr[t].obj]
           run == StepSucceeded(old, thr[t].i, thr[t].sql)
<1>1. thr[t].phase = "exec" /\ thr[t].obj # None /\ thr[t].sql \in Executed
  BY DEF StepExecuted, TypeInv, RequestSound
<1>2. /\ plan \in PlanType /\ thr[t].run \in Runs /\ old \in RunType
      /\ thr[t].i \in 1..Len(old.order)
  BY <1>1, WaitingSound
<1>3. run \in RunType
  BY <1>1, <1>2, StepTypes
<1>4. run.order = old.order
  BY <1>2 DEF StepSucceeded, RunType
<1>5. ResultApplied(plan, err) \in PlanType
  BY <1>2, ResultAppliedType
<1>6. /\ Put(thr[t].run, thr[t].obj, run, t, AfterStep(thr[t].run, thr[t].full))
      /\ UNCHANGED store /\ plan' = RunApplied(ResultApplied(plan, err), thr[t].run, run)
      /\ Persisted(thr[t].run, run) /\ count' = count
      /\ dbPlan' \in Written(dbPlan, ResultApplied(plan, err))
  BY DEF StepExecuted
<1> HIDE DEF run
<1>7. plan' \in PlanType
  BY <1>2, <1>3, <1>5, <1>6, RunAppliedType
<1>8. Kept
  BY <1>1, <1>3, <1>4, <1>6, <1>7, AnsweredKept
<1>9. /\ dbPlan' \in PlanType \cup {None}
      /\ count' \in [edits : Nat, generates : Nat, resets : Nat, restarts : Nat]
  BY <1>5, <1>6 DEF Written, TypeInv, TypeOK
<1>10. QED
  BY <1>8, <1>9, KeptSuffices

(* A handler that changes only its own request, which holds no run.        *)
LEMMA RequestReplaced ==
  ASSUME TypeInv, NEW t \in Threads, NEW req \in RequestType,
         req.phase \in {"idle", "exec"}, req.obj = None,
         req.phase = "exec" => req.sql \in Executed,
         thr' = [thr EXCEPT ![t] = req], heap' = heap
  PROVE  /\ thr' \in [Threads -> RequestType]
         /\ heap' \in [Objs -> RunType]
         /\ \A u \in Threads : RequestSound(u)'
<1>1. thr \in [Threads -> RequestType] /\ heap \in [Objs -> RunType]
  BY DEF TypeInv, TypeOK
<1>2. ASSUME NEW u \in Threads PROVE RequestSound(u)'
  <2>1. CASE u = t
    <3>1. thr'[u] = req
      BY <1>1, <2>1
    <3>2. QED
      BY <3>1 DEF RequestSound
  <2>2. CASE u # t
    <3>1. thr'[u] = thr[u] /\ RequestSound(u)
      BY <1>1, <2>2 DEF TypeInv
    <3>2. QED
      BY <3>1 DEF RequestSound
  <2>3. QED
    BY <2>1, <2>2
<1>3. QED
  BY <1>1, <1>2

LEMMA ExecuteKeeps ==
  ASSUME TypeInv, NEW t \in Threads, NEW client \in Sqls \cup {"stub"}, Execute(t, client)
  PROVE  TypeInv'
<1>1. Loaded \in PlanType /\ plan' = Loaded
  BY LoadedType DEF Execute
<1>2. CASE UNCHANGED thr
  BY <1>1, <1>2, RequestsUnchanged, KeptSuffices DEF Execute, Kept, TypeInv, TypeOK
<1>3. CASE thr' = [thr EXCEPT ![t] = [Idle EXCEPT !.phase = "exec",
                                                 !.sql = ExecutionSql(Loaded, client)]]
  <2> DEFINE req == [Idle EXCEPT !.phase = "exec", !.sql = ExecutionSql(Loaded, client)]
  <2>1. ExecutionSql(Loaded, client) \in Executed
    BY <1>1, ExecutionSqlType
  <2>2. /\ req \in RequestType /\ req.phase \in {"idle", "exec"} /\ req.obj = None
        /\ req.sql \in Executed
    BY <2>1 DEF Idle, RequestType
  <2>3. heap' = heap /\ thr' = [thr EXCEPT ![t] = req]
    BY <1>3 DEF Execute
  <2> HIDE DEF req
  <2>4. /\ thr' \in [Threads -> RequestType] /\ heap' \in [Objs -> RunType]
        /\ \A u \in Threads : RequestSound(u)'
    BY <2>2, <2>3, RequestReplaced
  <2>5. store' = store /\ dbPlan' = dbPlan /\ dbRun' = dbRun /\ count' = count
    BY DEF Execute
  <2>6. Kept
    BY <1>1, <2>4, <2>5 DEF Kept, TypeInv, TypeOK
  <2>7. QED
    BY <2>5, <2>6, KeptSuffices DEF TypeInv, TypeOK
<1>4. QED
  BY <1>2, <1>3 DEF Execute

LEMMA DirectlyExecutedKeeps ==
  ASSUME TypeInv, NEW t \in Threads, NEW err \in BOOLEAN, DirectlyExecuted(t, err)
  PROVE  TypeInv'
<1>1. plan \in PlanType
  BY DEF DirectlyExecuted, TypeInv, TypeOK, Loadedness
<1>2. plan' \in PlanType
  BY <1>1, ResultAppliedType DEF DirectlyExecuted
<1>3. Idle \in RequestType /\ Idle.phase = "idle" /\ Idle.obj = None
  BY DEF Idle, RequestType
<1>4. /\ thr' \in [Threads -> RequestType] /\ heap' \in [Objs -> RunType]
      /\ \A u \in Threads : RequestSound(u)'
  BY <1>3, RequestReplaced DEF DirectlyExecuted
<1>5. store' = store /\ dbRun' = dbRun /\ count' = count
  BY DEF DirectlyExecuted
<1>6. Kept
  BY <1>2, <1>4, <1>5 DEF Kept, TypeInv, TypeOK
<1>7. dbPlan' \in PlanType \cup {None}
  BY <1>2 DEF DirectlyExecuted, Written, TypeInv, TypeOK
<1>8. QED
  BY <1>5, <1>6, <1>7, KeptSuffices DEF TypeInv, TypeOK

LEMMA FullRunNextKeeps ==
  ASSUME TypeInv, NEW t \in Threads, FullRunNext(t)
  PROVE  TypeInv'
<1>1. CASE thr' = [thr EXCEPT ![t] = Idle] /\ UNCHANGED <<plan, store, heap, dbPlan, dbRun, count>>
  <2>1. Idle \in RequestType /\ Idle.phase = "idle" /\ Idle.obj = None
    BY DEF Idle, RequestType
  <2>2. /\ thr' \in [Threads -> RequestType] /\ heap' \in [Objs -> RunType]
        /\ \A u \in Threads : RequestSound(u)'
    BY <1>1, <2>1, RequestReplaced
  <2>3. plan \in PlanType
    BY DEF FullRunNext, TypeInv, TypeOK, Loadedness
  <2>4. Kept
    BY <1>1, <2>2, <2>3 DEF Kept, TypeInv, TypeOK
  <2>5. QED
    BY <1>1, <2>4, KeptSuffices DEF TypeInv, TypeOK
<1>2. CASE ~ FullRunOver(thr[t].run) /\ BeginStep(t, thr[t].run, Opened(thr[t].run), TRUE)
  <2>1. thr[t].run \in Runs
    BY DEF FullRunNext, TypeInv, RequestSound
  <2>2. CanOpen(thr[t].run)
    BY <1>2 DEF FullRunOver, CanOpen
  <2>3. QED
    BY <1>2, <2>1, <2>2, BeginStepKeeps
<1>3. QED
  BY <1>1, <1>2 DEF FullRunNext

LEMMA RestartKeeps ==
  ASSUME TypeInv, Restart
  PROVE  TypeInv'
<1>1. /\ plan' = None /\ store' = [r \in Runs |-> None] /\ heap' = [o \in Objs |-> NoRun]
      /\ thr' = [t \in Threads |-> Idle] /\ dbPlan' = dbPlan /\ dbRun' = dbRun
      /\ count' = [count EXCEPT !.restarts = @ + 1]
  BY DEF Restart
<1>2. Idle \in RequestType
  BY DEF Idle, RequestType
<1>3. count' \in [edits : Nat, generates : Nat, resets : Nat, restarts : Nat]
  <2>1. count \in [edits : Nat, generates : Nat, resets : Nat, restarts : Nat]
    BY DEF TypeInv, TypeOK
  <2>2. QED
    BY ONLY <1>1, <2>1
<1>4. TypeOK'
  BY <1>1, <1>2, <1>3, NoRunType DEF TypeInv, TypeOK
<1>5. Loadedness'
  BY <1>1 DEF Loadedness, Idle
<1>6. \A u \in Threads : RequestSound(u)'
  BY <1>1 DEF RequestSound, Idle
<1>7. QED
  BY <1>4, <1>5, <1>6 DEF TypeInv

LEMMA InitSound == Init => TypeInv
<1> SUFFICES ASSUME Init PROVE TypeInv
  OBVIOUS
<1>1. plan \in PlanType
  BY NewPlanType DEF Init
<1>2. Idle \in RequestType
  BY DEF Idle, RequestType
<1>3. TypeOK
  BY <1>1, <1>2, NoRunType DEF Init, TypeOK
<1>4. Loadedness
  BY <1>1, NoneAssumption DEF Init, Loadedness
<1>5. \A u \in Threads : RequestSound(u)
  BY DEF Init, RequestSound, Idle
<1>6. QED
  BY <1>3, <1>4, <1>5 DEF TypeInv

(* The type invariant and what it rests on survive every step.             *)
LEMMA TypeInvInductive == TypeInv /\ [Next]_vars => TypeInv'
<1> SUFFICES ASSUME TypeInv, [Next]_vars PROVE TypeInv'
  OBVIOUS
<1>1. CASE \E template \in Templates : Generate(template)
  BY <1>1, GenerateKeeps
<1>2. CASE GetPlan
  BY <1>2, GetPlanKeeps
<1>3. CASE \E i \in 1..(Len(Ops) + 2), valid \in BOOLEAN, s \in Sqls : UpdatePlanNode(i, valid, s)
  BY <1>3, UpdatePlanNodeKeeps
<1>4. CASE \E i, j \in 1..(Len(Ops) + 2) : MergePlanNodes(i, j)
  BY <1>4, MergePlanNodesKeeps
<1>5. CASE RefuseMerge
  BY <1>5, RefuseMergeKeeps
<1>6. CASE \E r \in Runs : CreatePlanRun(r) \/ GetPlanRun(r) \/ ResetPlanRun(r)
  BY <1>6, CreatePlanRunKeeps, GetPlanRunKeeps, ResetPlanRunKeeps
<1>7. CASE \E t \in Threads, r \in Runs, full \in BOOLEAN : CallStep(t, r, full)
  BY <1>7, BeginStepKeeps DEF CallStep
<1>8. CASE \E t \in Threads, client \in Sqls \cup {"stub"} : Execute(t, client)
  BY <1>8, ExecuteKeeps
<1>9. CASE \E t \in Threads : Advance(t)
  BY <1>9, PreviewDoneKeeps, StepExecutedKeeps, DirectlyExecutedKeeps, FullRunNextKeeps
     DEF Advance
<1>10. CASE Restart
  BY <1>10, RestartKeeps
<1>11. CASE UNCHANGED vars
  <2>1. /\ plan' = plan /\ store' = store /\ heap' = heap /\ thr' = thr
        /\ dbPlan' = dbPlan /\ dbRun' = dbRun /\ count' = count
    BY <1>11 DEF vars
  <2>2. TypeOK'
    BY <2>1 DEF TypeInv, TypeOK
  <2>3. Loadedness'
    BY <2>1 DEF TypeInv, Loadedness
  <2>4. \A u \in Threads : RequestSound(u)'
    BY <2>1, RequestsUnchanged
  <2>5. QED
    BY <2>2, <2>3, <2>4 DEF TypeInv
<1>12. QED
  BY <1>1, <1>2, <1>3, <1>4, <1>5, <1>6, <1>7, <1>8, <1>9, <1>10, <1>11 DEF Next

(* No handler, in whatever order requests, edits, answers and restarts     *)
(* come, leaves a value in the stores that another handler cannot use.     *)
THEOREM TypeCorrect == Spec => []TypeOK
<1>1. TypeInv => TypeOK
  BY DEF TypeInv
<1>2. QED
  BY InitSound, TypeInvInductive, <1>1, PTL DEF Spec

=============================================================================
