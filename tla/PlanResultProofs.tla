-------------------------- MODULE PlanResultProofs --------------------------
(***************************************************************************)
(* What holds of plans and the results of their runs for every             *)
(* interleaving of requests, edits, resets, restores and restarts, every   *)
(* plan and every value of the bounds: a run that shows its result node as *)
(* done has a result, a run created for the plan as it is never shows the  *)
(* result of an older SQL, and an SQL text that an edit emptied stays      *)
(* empty.                                                                  *)
(***************************************************************************)
EXTENDS PlanServiceProofs

USE NodesAssumption, PlanAssumption, ExecutedAssumption, ServiceAssumption

-----------------------------------------------------------------------------
(* A run that shows its result node as done has a result.                  *)
(*                                                                         *)
(* The argument.  Only the step at the last position stores an outcome,    *)
(* and only that position holds the result node; so a run whose result     *)
(* node is done went through that step.  That the positions agree is not a *)
(* fact of one handler: a step that waited for the SQL engine uses the     *)
(* position it read before, on an object that was meanwhile reset, or      *)
(* taken out of the store by an edit.                                      *)

(* The result node is the last one.                                        *)
EndsInResult(order) == \A i \in 1..Len(order) : order[i] = Result <=> i = Len(order)

(* rec is a run or its database row.                                       *)
ResultShown(rec) == rec.ns[Result] = "success" => rec.result # None

SoundRun(run) == ResultShown(run) /\ EndsInResult(run.order)

ResultInv ==
    /\ plan # None => EndsInResult(plan.order)
    /\ dbPlan # None => EndsInResult(dbPlan.order)
    /\ \A o \in Objs : SoundRun(heap[o])
    /\ \A r \in Runs : dbRun[r] # None => ResultShown(dbRun[r])
    /\ \A t \in Threads : thr[t].phase = "preview"
                            => heap[thr[t].obj].order[thr[t].i] # Result

-----------------------------------------------------------------------------
(* Plans and runs keep their shape.                                        *)

LEMMA NewPlanEnds == ASSUME NEW template, NEW sql
                     PROVE  EndsInResult(NewPlan(template, sql).order)
<1> DEFINE order == <<Intent>> \o Ops \o <<Result>>
<1>1. Ops \in Seq(OpSet) /\ Len(Ops) \in Nat
  BY LenProperties
<1>2. Len(order) = Len(Ops) + 2
  BY <1>1
<1>3. order[1] = Intent /\ order[Len(Ops) + 2] = Result
  BY <1>1
<1>4. \A i \in 2..(Len(Ops) + 1) : order[i] = Ops[i - 1] /\ i - 1 \in 1..Len(Ops)
  BY <1>1
<1>5. \A j \in 1..Len(Ops) : Ops[j] \in OpSet
  BY <1>1
<1>6. \A i \in 2..(Len(Ops) + 1) : order[i] # Result
  BY <1>4, <1>5
<1>7. EndsInResult(order)
  <2> SUFFICES ASSUME NEW i \in 1..Len(order) PROVE order[i] = Result <=> i = Len(order)
    BY DEF EndsInResult
  <2>1. i = 1 \/ i \in 2..(Len(Ops) + 1) \/ i = Len(Ops) + 2
    BY <1>1, <1>2
  <2> HIDE DEF order
  <2>2. QED
    BY <1>1, <1>2, <1>3, <1>6, <2>1
<1>8. QED
  BY <1>7 DEF NewPlan

LEMMA MergedPlanEnds ==
  ASSUME NEW p \in PlanType, NEW i \in Nat, NEW j \in Nat,
         1 <= i, i < j, j <= Len(p.order), MergeSupported(p, i, j), EndsInResult(p.order)
  PROVE  EndsInResult(MergedPlan(p, i, j).order)
<1> DEFINE n    == Len(p.order)
           head == SubSeq(p.order, 1, i)
           tail == SubSeq(p.order, j + 1, n)
<1>1. p.order \in Seq(Nodes) /\ n \in Nat
  BY LenProperties DEF PlanType
<1>2. j < n
  <2>1. p.order[j] \in OpSet
    BY DEF MergeSupported
  <2>2. QED
    BY <1>1, <2>1 DEF EndsInResult
<1>3. head \in Seq(Nodes) /\ Len(head) = i /\ \A h \in 1..i : head[h] = p.order[h]
  BY <1>1, <1>2, SubSeqProperties
<1>4. tail \in Seq(Nodes) /\ Len(tail) = n - j /\ \A h \in 1..(n - j) : tail[h] = p.order[j + h]
  BY <1>1, <1>2, SubSeqProperties
<1> HIDE DEF head, tail
<1>5. /\ Len(head \o tail) = i + (n - j)
      /\ \A h \in 1..(i + (n - j)) : (head \o tail)[h] = IF h <= i THEN head[h] ELSE tail[h - i]
  <2>1. \A s1, s2 \in Seq(Nodes) :
          /\ Len(s1 \o s2) = Len(s1) + Len(s2)
          /\ \A h \in 1..(Len(s1) + Len(s2)) :
                (s1 \o s2)[h] = IF h <= Len(s1) THEN s1[h] ELSE s2[h - Len(s1)]
    BY ConcatProperties
  <2>2. head \in Seq(Nodes) /\ tail \in Seq(Nodes) /\ Len(head) = i /\ Len(tail) = n - j
    BY <1>3, <1>4
  <2>3. QED
    BY ONLY <2>1, <2>2
<1>6. EndsInResult(head \o tail)
  <2> SUFFICES ASSUME NEW h \in 1..(i + (n - j))
               PROVE  (head \o tail)[h] = Result <=> h = i + (n - j)
    BY <1>5 DEF EndsInResult
  <2>1. CASE h <= i
    <3>1. (head \o tail)[h] = p.order[h] /\ h \in 1..n /\ h # n
      BY <1>1, <1>2, <1>3, <1>5, <2>1
    <3>2. h # i + (n - j)
      BY <1>1, <1>2, <2>1
    <3>3. QED
      BY <3>1, <3>2 DEF EndsInResult
  <2>2. CASE h > i
    <3>1. h - i \in 1..(n - j)
      BY <1>1, <1>2, <2>2
    <3>2. (head \o tail)[h] = p.order[j + (h - i)] /\ j + (h - i) \in 1..n
      <4>1. (head \o tail)[h] = tail[h - i]
        BY <1>5, <2>2
      <4>2. tail[h - i] = p.order[j + (h - i)]
        BY <1>4, <3>1
      <4>3. j + (h - i) \in 1..n
        BY <1>1, <1>2, <3>1
      <4>4. QED
        BY <4>1, <4>2, <4>3
    <3>3. j + (h - i) = n <=> h = i + (n - j)
      <4>1. h \in Int /\ i \in Int /\ j \in Int /\ n \in Int
        BY <1>1
      <4>2. QED
        BY ONLY <4>1
    <3>4. QED
      BY <3>2, <3>3 DEF EndsInResult
  <2>3. h <= i \/ h > i
    BY <1>1
  <2>4. QED
    BY <2>1, <2>2, <2>3
<1>7. QED
  BY <1>6 DEF MergedPlan, PlanType, head, tail

LEMMA NewRunSound ==
  ASSUME NEW p \in PlanType, EndsInResult(p.order)
  PROVE  SoundRun(NewRun(p))
BY DEF NewRun, SoundRun, ResultShown, Nodes, NodeState

LEMMA NoRunSound == SoundRun(NoRun)
<1>1. NewPlan("other", Gold) \in PlanType
  BY OrderType DEF NewPlan, PlanType, NodeState, OptSql
<1>2. SoundRun(NewRun(NewPlan("other", Gold)))
  BY <1>1, NewPlanEnds, NewRunSound
<1>3. QED
  BY <1>2 DEF NoRun, SoundRun, ResultShown, NewRun

LEMMA RestoredRunSound ==
  ASSUME NEW rec \in RecordType, ResultShown(rec), NEW p \in PlanType, EndsInResult(p.order)
  PROVE  SoundRun(RestoredRun(rec, p))
BY DEF RestoredRun, SoundRun, ResultShown, RecordType

(* A step stores an outcome exactly when it is the step of the result.     *)
LEMMA StepSoundRun ==
  ASSUME NEW run \in RunType, SoundRun(run), NEW i \in 1..Len(run.order), NEW res,
         run.order[i] = Result => res # None
  PROVE  /\ SoundRun(StepSucceeded(run, i, res))
         /\ SoundRun(StepFailed(run, i))
         /\ SoundRun(RunningAt(run, i))
<1>1. /\ StepSucceeded(run, i, res).order = run.order
      /\ StepFailed(run, i).order = run.order
      /\ RunningAt(run, i).order = run.order
  BY DEF StepSucceeded, StepFailed, RunningAt, RunType
<1>2. run.order[i] = Result <=> i = Len(run.order)
  BY DEF SoundRun, EndsInResult
<1>3. /\ StepFailed(run, i).ns = [run.ns EXCEPT ![run.order[i]] = "error"]
      /\ StepFailed(run, i).result = run.result
      /\ RunningAt(run, i).ns = [run.ns EXCEPT ![run.order[i]] = "running"]
      /\ RunningAt(run, i).result = run.result
      /\ StepSucceeded(run, i, res).ns = [run.ns EXCEPT ![run.order[i]] = "success"]
      /\ StepSucceeded(run, i, res).result = IF i = Len(run.order) THEN res ELSE run.result
  BY DEF StepSucceeded, StepFailed, RunningAt, RunType
<1>4. run.ns \in [Nodes -> NodeState \cup {None}] /\ Result \in Nodes
  BY DEF RunType, Nodes
<1>5. /\ ResultShown(StepFailed(run, i))
      /\ ResultShown(RunningAt(run, i))
  BY <1>3, <1>4 DEF SoundRun, ResultShown
<1>6. ResultShown(StepSucceeded(run, i, res))
  BY <1>2, <1>3, <1>4 DEF SoundRun, ResultShown
<1>7. QED
  BY <1>1, <1>5, <1>6 DEF SoundRun

LEMMA ResetSoundRun ==
  ASSUME NEW run \in RunType, SoundRun(run)
  PROVE  SoundRun(ResetRun(run)) /\ SoundRun(Finished(run))
<1>1. /\ ResetRun(run).order = run.order /\ Finished(run).order = run.order
      /\ Finished(run).ns = run.ns /\ Finished(run).result = run.result
      /\ ResetRun(run).ns[Result] # "success"
  BY DEF ResetRun, Finished, RunType, Nodes, NodeState
<1>2. QED
  BY <1>1 DEF SoundRun, ResultShown

-----------------------------------------------------------------------------
(* The heap.                                                               *)

SoundHeap ==
    /\ \A o \in Objs : SoundRun(heap[o])
    /\ \A t \in Threads : thr[t].phase = "preview"
                            => heap[thr[t].obj].order[thr[t].i] # Result

LEMMA SweptSound ==
  ASSUME NEW h, NEW s, NEW th, \A o \in Objs : SoundRun(h[o])
  PROVE  \A o \in Objs : SoundRun(Swept(h, s, th)[o])
BY NoRunSound DEF Swept

LEMMA PutSoundHeap ==
  ASSUME TypeInv, ResultInv, NEW t \in Threads, NEW r, NEW o \in Objs,
         NEW run \in RunType, SoundRun(run), NEW req,
         req.phase = "preview" => req.obj = o /\ run.order[req.i] # Result,
         Put(r, o, run, t, req),
         \A u \in Threads : thr[u].obj = o => run.order = heap[o].order
  PROVE  SoundHeap'
<1>1. thr \in [Threads -> RequestType] /\ heap \in [Objs -> RunType]
  BY DEF TypeInv, TypeOK
<1>2. thr' = [thr EXCEPT ![t] = req]
  BY DEF Put
<1> DEFINE h1 == [heap EXCEPT ![o] = run]
<1>3. heap' = Swept(h1, store', thr')
  BY DEF Put
<1>4. \A x \in Objs : SoundRun(h1[x])
  BY <1>1 DEF ResultInv
<1>5. h1[o] = run /\ \A x \in Objs : x # o => h1[x] = heap[x]
  BY <1>1
<1> HIDE DEF h1
<1>6. \A x \in Objs : SoundRun(heap'[x])
  BY <1>3, <1>4, SweptSound
<1>7. ASSUME NEW u \in Threads, thr'[u].phase = "preview"
      PROVE  heap'[thr'[u].obj].order[thr'[u].i] # Result
  <2>1. CASE u = t
    <3>1. thr'[u] = req
      BY <1>1, <1>2, <2>1
    <3>2. thr'[u].obj = o /\ thr'[u].i = req.i /\ run.order[req.i] # Result
      BY <1>7, <3>1
    <3>3. Swept(h1, store', thr')[thr'[u].obj] = h1[thr'[u].obj]
      <4>1. \A h, s, th : th[u].obj \in Objs => Swept(h, s, th)[th[u].obj] = h[th[u].obj]
        BY SweptKeeps
      <4>2. QED
        BY <3>2, <4>1
    <3>4. QED
      BY <1>3, <1>5, <3>2, <3>3
  <2>2. CASE u # t
    <3>1. thr'[u] = thr[u]
      BY <1>1, <1>2, <2>2
    <3>2. thr[u].obj \in Objs /\ heap[thr[u].obj].order[thr[u].i] # Result
      <4>1. thr[u].obj # None
        BY <1>7, <3>1 DEF TypeInv, RequestSound
      <4>2. thr[u].obj \in Objs
        BY <1>1, <4>1 DEF RequestType
      <4>3. QED
        BY <1>7, <3>1, <4>2 DEF ResultInv
    <3>3. Swept(h1, store', thr')[thr'[u].obj] = h1[thr'[u].obj]
      <4>1. \A h, s, th : th[u].obj \in Objs => Swept(h, s, th)[th[u].obj] = h[th[u].obj]
        BY SweptKeeps
      <4>2. QED
        BY <3>1, <3>2, <4>1
    <3>4. h1[thr[u].obj].order = heap[thr[u].obj].order
      BY <1>5, <3>2
    <3>5. QED
      BY <1>3, <3>1, <3>2, <3>3, <3>4
  <2>3. QED
    BY <2>1, <2>2
<1>8. QED
  BY <1>6, <1>7 DEF SoundHeap

LEMMA ReplacedSoundHeap ==
  ASSUME TypeInv, ResultInv, NEW o \in Objs, NEW run \in RunType, SoundRun(run),
         heap' = [heap EXCEPT ![o] = run], thr' = thr,
         \A u \in Threads : thr[u].obj = o => run.order = heap[o].order
  PROVE  SoundHeap'
<1>1. thr \in [Threads -> RequestType] /\ heap \in [Objs -> RunType]
  BY DEF TypeInv, TypeOK
<1>2. \A x \in Objs : SoundRun(heap'[x])
  BY <1>1 DEF ResultInv
<1>3. ASSUME NEW u \in Threads, thr[u].phase = "preview"
      PROVE  heap'[thr[u].obj].order[thr[u].i] # Result
  <2>1. thr[u].obj # None
    BY <1>3 DEF TypeInv, RequestSound
  <2>2. thr[u].obj \in Objs
    BY <1>1, <2>1 DEF RequestType
  <2>3. heap'[thr[u].obj].order = heap[thr[u].obj].order
    BY <1>1, <2>2
  <2>4. QED
    BY <1>3, <2>3 DEF ResultInv
<1>4. QED
  BY <1>2, <1>3 DEF SoundHeap

LEMMA ClearedSoundHeap ==
  ASSUME TypeInv, ResultInv, thr' = thr, heap' = Swept(heap, store', thr)
  PROVE  SoundHeap'
<1>1. thr \in [Threads -> RequestType] /\ heap \in [Objs -> RunType]
  BY DEF TypeInv, TypeOK
<1>2. \A x \in Objs : SoundRun(heap'[x])
  <2>1. \A h, s, th : (\A x \in Objs : SoundRun(h[x]))
                        => \A x \in Objs : SoundRun(Swept(h, s, th)[x])
    BY SweptSound
  <2>2. QED
    BY <2>1 DEF ResultInv
<1>3. ASSUME NEW u \in Threads, thr[u].phase = "preview"
      PROVE  heap'[thr[u].obj].order[thr[u].i] # Result
  <2>1. thr[u].obj # None
    BY <1>3 DEF TypeInv, RequestSound
  <2>2. thr[u].obj \in Objs
    BY <1>1, <2>1 DEF RequestType
  <2>3. \A h, s : Swept(h, s, thr)[thr[u].obj] = h[thr[u].obj]
    BY <2>2, SweptKeeps
  <2>4. QED
    BY <1>3, <2>3 DEF ResultInv
<1>4. QED
  BY <1>2, <1>3 DEF SoundHeap

(* A handler that leaves the run objects alone and starts no preview.      *)
LEMMA SoundHeapKept ==
  ASSUME TypeInv, ResultInv, heap' = heap,
         \A u \in Threads : thr'[u].phase = "preview" => thr'[u] = thr[u]
  PROVE  SoundHeap'
BY DEF ResultInv, SoundHeap

(* What the database holds of a run after a write.                         *)
LEMMA PersistedShown ==
  ASSUME TypeInv, ResultInv, NEW r \in Runs, NEW run, SoundRun(run), Persisted(r, run)
  PROVE  \A q \in Runs : dbRun'[q] # None => ResultShown(dbRun'[q])
<1>1. dbRun \in [Runs -> RecordType \cup {None}]
  BY DEF TypeInv, TypeOK
<1>2. ResultShown(RunRecord(run))
  BY DEF SoundRun, ResultShown, RunRecord
<1>3. PICK rec \in Written(dbRun[r], RunRecord(run)) : dbRun' = [dbRun EXCEPT ![r] = rec]
  BY DEF Persisted
<1>4. rec # None => ResultShown(rec)
  BY <1>2, <1>3 DEF Written, ResultInv
<1>5. QED
  BY <1>1, <1>3, <1>4 DEF ResultInv

LEMMA ResultParts ==
  ASSUME plan' # None => EndsInResult(plan'.order),
         dbPlan' # None => EndsInResult(dbPlan'.order),
         \A q \in Runs : dbRun'[q] # None => ResultShown(dbRun'[q]),
         SoundHeap'
  PROVE  ResultInv'
BY DEF SoundHeap, ResultInv

-----------------------------------------------------------------------------
(* Steps.                                                                  *)

LEMMA LoadedEnds ==
  ASSUME ResultInv, Loaded # None
  PROVE  EndsInResult(Loaded.order)
BY DEF ResultInv, Loaded

LEMMA AppliedOrder ==
  ASSUME NEW p \in PlanType, NEW r, NEW run, NEW err
  PROVE  RunApplied(p, r, run).order = p.order /\ ResultApplied(p, err).order = p.order
BY DEF RunApplied, ResultApplied, PlanType

LEMMA OpenedEnds ==
  ASSUME TypeInv, ResultInv, NEW r \in Runs, CanOpen(r)
  PROVE  SoundRun(Opened(r).run) /\ EndsInResult(Opened(r).plan.order)
<1>1. CASE store[r] # None
  <2>1. store[r] \in Objs /\ plan # None
    BY <1>1 DEF TypeInv, TypeOK, Loadedness
  <2>2. QED
    BY <1>1, <2>1 DEF Opened, ResultInv
<1>2. CASE store[r] = None
  <2>1. /\ dbRun[r] \in RecordType /\ ResultShown(dbRun[r])
        /\ Loaded \in PlanType /\ EndsInResult(Loaded.order)
    BY <1>2, LoadedType, LoadedEnds DEF CanOpen, TypeInv, TypeOK, ResultInv
  <2>2. SoundRun(RestoredRun(dbRun[r], Loaded))
    BY <2>1, RestoredRunSound
  <2>3. RunApplied(Loaded, r, RestoredRun(dbRun[r], Loaded)).order = Loaded.order
    BY <2>1, AppliedOrder
  <2>4. QED
    BY <1>2, <2>1, <2>2, <2>3 DEF Opened
<1>3. QED
  BY <1>1, <1>2

(* The common end of every step of an opened run.                          *)
LEMMA StepResultKept ==
  ASSUME TypeInv, ResultInv, NEW t \in Threads, NEW r \in Runs, NEW op,
         SoundOpening(r, op), EndsInResult(op.plan.order),
         NEW run \in RunType, SoundRun(run), run.order = op.run.order,
         NEW req, req.phase = "preview" => req.obj = op.obj /\ run.order[req.i] # Result,
         Put(r, op.obj, run, t, req),
         plan' \in {op.plan, RunApplied(op.plan, r, run)},
         Persisted(r, run) \/ dbRun' = dbRun, dbPlan' = dbPlan
  PROVE  ResultInv'
<1>1. EndsInResult(plan'.order)
  <2>1. op.plan \in PlanType
    BY DEF SoundOpening
  <2>2. RunApplied(op.plan, r, run).order = op.plan.order
    BY <2>1, AppliedOrder, SMTT(30)
  <2>3. QED
    BY <2>2
<1>2. EndsInResult(dbPlan'.order) \/ dbPlan' = None
  BY DEF ResultInv
<1>3. \A q \in Runs : dbRun'[q] # None => ResultShown(dbRun'[q])
  BY PersistedShown DEF ResultInv
<1>4. op.obj \in Objs /\ \A u \in Threads : thr[u].obj = op.obj => run.order = heap[op.obj].order
  BY DEF SoundOpening
<1>5. SoundHeap'
  BY <1>4, PutSoundHeap
<1>6. QED
  BY <1>1, <1>2, <1>3, <1>5, ResultParts

LEMMA AfterStepPhase ==
  ASSUME NEW r, NEW full
  PROVE  Idle.phase # "preview" /\ AfterStep(r, full).phase # "preview"
BY DEF Idle, AfterStep

LEMMA BeginStepResult ==
  ASSUME TypeInv, ResultInv, NEW t \in Threads, NEW r \in Runs, NEW full \in BOOLEAN,
         CanOpen(r), NEW op, op = Opened(r), BeginStep(t, r, op, full)
  PROVE  ResultInv'
<1>1. SoundOpening(r, op) /\ SoundRun(op.run) /\ EndsInResult(op.plan.order)
  BY OpenedSound, OpenedEnds
<1>2. op.run \in RunType /\ op.obj \in Objs /\ op.plan \in PlanType
  BY <1>1 DEF SoundOpening
<1>3. CASE StepOfEnded(t, r, op)
  BY <1>1, <1>2, <1>3, AfterStepPhase, StepResultKept DEF StepOfEnded
<1>4. CASE StepBeyond(t, r, op)
  <2>1. /\ Finished(op.run) \in RunType /\ Finished(op.run).order = op.run.order
        /\ SoundRun(Finished(op.run))
    BY <1>1, <1>2, ResetTypes, ResetSoundRun DEF Finished, RunType
  <2>2. /\ Put(r, op.obj, Finished(op.run), t, Idle)
        /\ plan' = RunApplied(op.plan, r, Finished(op.run))
        /\ dbRun' = dbRun /\ dbPlan' = dbPlan
    BY <1>4 DEF StepBeyond
  <2>3. QED
    BY <1>1, <2>1, <2>2, AfterStepPhase, StepResultKept
<1>5. CASE StepIntent(t, r, op, full)
  <2> DEFINE run(i) == StepSucceeded(op.run, i, None)
  <2>1. PICK i \in 1..Len(op.run.order) :
            /\ op.run.order[i] = Intent
            /\ Put(r, op.obj, run(i), t, AfterStep(r, full))
            /\ plan' = RunApplied(op.plan, r, run(i))
            /\ Persisted(r, run(i)) /\ dbPlan' = dbPlan
    BY <1>5 DEF StepIntent
  <2>2. run(i) \in RunType /\ run(i).order = op.run.order
    <3>1. run(i) \in RunType
      BY <1>2, StepTypes
    <3>2. run(i).order = op.run.order
      BY <1>2 DEF StepSucceeded, RunType
    <3>3. QED
      BY <3>1, <3>2
  <2>3. SoundRun(run(i))
    BY <1>1, <1>2, <2>1, StepSoundRun
  <2> HIDE DEF run
  <2>4. QED
    BY <1>1, <2>1, <2>2, <2>3, AfterStepPhase, StepResultKept
<1>6. CASE StepOperation(t, r, op, full)
  <2> DEFINE req(i) == [phase |-> "preview", run |-> r, obj |-> op.obj, i |-> i,
                        full |-> full, sql |-> None]
  <2>1. PICK i \in 1..Len(op.run.order) :
            /\ op.run.order[i] \in OpSet
            /\ Put(r, op.obj, op.run, t, req(i))
            /\ plan' = op.plan
            /\ dbRun' = dbRun /\ dbPlan' = dbPlan
    BY <1>6 DEF StepOperation
  <2>2. req(i).obj = op.obj /\ op.run.order[req(i).i] # Result
    BY <2>1
  <2> HIDE DEF req
  <2>3. QED
    BY <1>1, <1>2, <2>1, <2>2, StepResultKept
<1>7. CASE StepResult(t, r, op, full)
  <2> DEFINE run(i) == RunningAt(op.run, i)
             req(i) == [phase |-> "exec", run |-> r, obj |-> op.obj, i |-> i,
                        full |-> full, sql |-> ExecutionSql(op.plan, "stub")]
  <2>1. PICK i \in 1..Len(op.run.order) :
            /\ op.run.order[i] = Result
            /\ Put(r, op.obj, run(i), t, req(i))
            /\ plan' = RunApplied(op.plan, r, run(i))
            /\ dbRun' = dbRun /\ dbPlan' = dbPlan
    BY <1>7 DEF StepResult
  <2>2. run(i) \in RunType /\ run(i).order = op.run.order
    <3>1. run(i) \in RunType
      BY <1>2, StepTypes
    <3>2. run(i).order = op.run.order
      BY <1>2 DEF RunningAt, RunType
    <3>3. QED
      BY <3>1, <3>2
  <2>3. SoundRun(run(i))
    <3>1. op.run.order[i] = Result => "stub" # None
      BY DEF Executed, Fallbacks
    <3>2. QED
      BY <1>1, <1>2, <3>1, StepSoundRun
  <2>4. req(i).phase # "preview"
    OBVIOUS
  <2> HIDE DEF run, req
  <2>5. QED
    BY <1>1, <2>1, <2>2, <2>3, <2>4, StepResultKept
<1>8. CASE StepResultRefused(t, r, op, full)
  <2> DEFINE run(i) == StepSucceeded(op.run, i, "replan")
  <2>1. PICK i \in 1..Len(op.run.order) :
            /\ Put(r, op.obj, run(i), t, AfterStep(r, full))
            /\ plan' = RunApplied(op.plan, r, run(i))
            /\ Persisted(r, run(i)) /\ dbPlan' = dbPlan
    BY <1>8 DEF StepResultRefused
  <2>2. "replan" \in Executed /\ "replan" # None
    BY DEF Executed, Fallbacks
  <2>3. run(i) \in RunType /\ run(i).order = op.run.order
    <3>1. run(i) \in RunType
      BY <1>2, <2>2, StepTypes
    <3>2. run(i).order = op.run.order
      BY <1>2 DEF StepSucceeded, RunType
    <3>3. QED
      BY <3>1, <3>2
  <2>4. SoundRun(run(i))
    BY <1>1, <1>2, <2>2, StepSoundRun
  <2> HIDE DEF run
  <2>5. QED
    BY <1>1, <2>1, <2>3, <2>4, AfterStepPhase, StepResultKept
<1>9. QED
  BY <1>3, <1>4, <1>5, <1>6, <1>7, <1>8 DEF BeginStep

-----------------------------------------------------------------------------
(* Answers of the SQL engine.                                              *)

LEMMA AnsweredResult ==
  ASSUME TypeInv, ResultInv, NEW t \in Threads, thr[t].phase # "idle", thr[t].obj # None,
         NEW run \in RunType, SoundRun(run), run.order = heap[thr[t].obj].order,
         Put(thr[t].run, thr[t].obj, run, t, AfterStep(thr[t].run, thr[t].full)),
         EndsInResult(plan'.order), EndsInResult(dbPlan'.order) \/ dbPlan' = None,
         Persisted(thr[t].run, run)
  PROVE  ResultInv'
<1>1. thr[t].run \in Runs /\ thr[t].obj \in Objs
  BY WaitingSound
<1>2. \A q \in Runs : dbRun'[q] # None => ResultShown(dbRun'[q])
  BY <1>1, PersistedShown
<1>3. SoundHeap'
  <2> DEFINE o == thr[t].obj
             req == AfterStep(thr[t].run, thr[t].full)
  <2>1. o \in Objs /\ req.phase # "preview" /\ Put(thr[t].run, o, run, t, req)
    BY <1>1, AfterStepPhase
  <2>2. \A u \in Threads : thr[u].obj = o => run.order = heap[o].order
    OBVIOUS
  <2> HIDE DEF o, req
  <2>3. QED
    BY <2>1, <2>2, PutSoundHeap
<1>4. QED
  BY <1>2, <1>3, ResultParts

LEMMA PreviewDoneResult ==
  ASSUME TypeInv, ResultInv, NEW t \in Threads, NEW ok \in BOOLEAN, PreviewDone(t, ok)
  PROVE  ResultInv'
<1> DEFINE old == heap[thr[t].obj]
           run == IF ok THEN StepSucceeded(old, thr[t].i, None) ELSE StepFailed(old, thr[t].i)
<1>1. thr[t].phase = "preview" /\ thr[t].obj # None
  BY DEF PreviewDone, TypeInv, RequestSound
<1>2. /\ plan \in PlanType /\ thr[t].run \in Runs /\ thr[t].obj \in Objs /\ old \in RunType
      /\ thr[t].i \in 1..Len(old.order)
  BY <1>1, WaitingSound
<1>3. SoundRun(old) /\ old.order[thr[t].i] # Result
  BY <1>1, <1>2 DEF ResultInv
<1>4. run \in RunType /\ run.order = old.order /\ SoundRun(run)
  <2>1. run \in RunType
    BY <1>2, StepTypes
  <2>2. run.order = old.order
    BY <1>2 DEF StepSucceeded, StepFailed, RunType
  <2>3. SoundRun(run)
    BY <1>2, <1>3, StepSoundRun
  <2>4. QED
    BY <2>1, <2>2, <2>3
<1>5. /\ Put(thr[t].run, thr[t].obj, run, t, AfterStep(thr[t].run, thr[t].full))
      /\ plan' = RunApplied(plan, thr[t].run, run)
      /\ Persisted(thr[t].run, run) /\ dbPlan' = dbPlan
  BY DEF PreviewDone
<1> HIDE DEF run
<1>6. EndsInResult(plan'.order)
  <2>1. RunApplied(plan, thr[t].run, run).order = plan.order
    BY <1>2, AppliedOrder
  <2>2. plan # None
    BY <1>2, NoneAssumption
  <2>3. QED
    BY <1>5, <2>1, <2>2 DEF ResultInv
<1>7. EndsInResult(dbPlan'.order) \/ dbPlan' = None
  BY <1>5 DEF ResultInv
<1>8. QED
  BY <1>1, <1>4, <1>5, <1>6, <1>7, AnsweredResult

LEMMA StepExecutedResult ==
  ASSUME TypeInv, ResultInv, NEW t \in Threads, NEW err \in BOOLEAN, StepExecuted(t, err)
  PROVE  ResultInv'
<1> DEFINE old == heap[thr[t].obj]
           run == StepSucceeded(old, thr[t].i, thr[t].sql)
           shown == ResultApplied(plan, err)
<1>1. /\ thr[t].phase = "exec" /\ thr[t].obj # None /\ thr[t].sql \in Executed
      /\ thr[t].sql # None
  BY DEF StepExecuted, TypeInv, RequestSound
<1>2. /\ plan \in PlanType /\ thr[t].run \in Runs /\ thr[t].obj \in Objs /\ old \in RunType
      /\ thr[t].i \in 1..Len(old.order)
  BY <1>1, WaitingSound
<1>3. SoundRun(old)
  BY <1>2 DEF ResultInv
<1>4. run \in RunType /\ run.order = old.order /\ SoundRun(run)
  <2>1. run \in RunType
    BY <1>1, <1>2, StepTypes
  <2>2. run.order = old.order
    BY <1>2 DEF StepSucceeded, RunType
  <2>3. SoundRun(run)
    BY <1>1, <1>2, <1>3, StepSoundRun
  <2>4. QED
    BY <2>1, <2>2, <2>3
<1>5. /\ Put(thr[t].run, thr[t].obj, run, t, AfterStep(thr[t].run, thr[t].full))
      /\ plan' = RunApplied(shown, thr[t].run, run)
      /\ Persisted(thr[t].run, run) /\ dbPlan' \in Written(dbPlan, shown)
  BY DEF StepExecuted
<1>6. shown \in PlanType /\ EndsInResult(shown.order)
  <2>1. shown.order = plan.order
    BY <1>2, AppliedOrder
  <2>2. plan # None
    BY <1>2, NoneAssumption
  <2>3. QED
    BY <1>2, <2>1, <2>2, ResultAppliedType DEF ResultInv
<1> HIDE DEF run, shown
<1>7. EndsInResult(plan'.order)
  <2>1. RunApplied(shown, thr[t].run, run).order = shown.order
    BY <1>6, AppliedOrder
  <2>2. QED
    BY <1>5, <1>6, <2>1
<1>8. EndsInResult(dbPlan'.order) \/ dbPlan' = None
  BY <1>5, <1>6 DEF Written, ResultInv
<1>9. QED
  BY <1>1, <1>4, <1>5, <1>7, <1>8, AnsweredResult

-----------------------------------------------------------------------------
(* Every step.                                                             *)

LEMMA PlanEditsResult ==
  ASSUME TypeInv, ResultInv,
         \/ \E template \in Templates : Generate(template)
         \/ GetPlan
         \/ \E i \in 1..(Len(Ops) + 2), valid \in BOOLEAN, s \in Sqls :
                UpdatePlanNode(i, valid, s)
         \/ \E i, j \in 1..(Len(Ops) + 2) : MergePlanNodes(i, j)
         \/ RefuseMerge
  PROVE  ResultInv'
<1>1. \A q \in Runs : dbRun'[q] # None => ResultShown(dbRun'[q])
  BY DEF Generate, GetPlan, UpdatePlanNode, MergePlanNodes, RefuseMerge, ResultInv
<1>2. ASSUME NEW template \in Templates, Generate(template)
      PROVE  ResultInv'
  <2>1. EndsInResult(plan'.order)
    BY <1>2, NewPlanEnds DEF Generate
  <2>2. heap \in [Objs -> RunType] /\ thr \in [Threads -> RequestType] /\ thr' = thr
    BY <1>2 DEF Generate, TypeInv, TypeOK
  <2>3. heap' = [o \in Objs |-> [heap[o] EXCEPT !.own = FALSE]]
    BY <1>2 DEF Generate
  <2>4. \A o \in Objs : /\ heap'[o].order = heap[o].order
                        /\ heap'[o].ns = heap[o].ns
                        /\ heap'[o].result = heap[o].result
    <3>1. \A run \in RunType : /\ [run EXCEPT !.own = FALSE].order = run.order
                               /\ [run EXCEPT !.own = FALSE].ns = run.ns
                               /\ [run EXCEPT !.own = FALSE].result = run.result
      BY DEF RunType
    <3>2. QED
      BY <2>2, <2>3, <3>1
  <2>5. ASSUME NEW u \in Threads, thr[u].phase = "preview"
        PROVE  heap'[thr[u].obj].order[thr[u].i] # Result
    <3>1. thr[u].obj # None
      BY <2>5 DEF TypeInv, RequestSound
    <3>2. thr[u].obj \in Objs
      BY <2>2, <3>1 DEF RequestType
    <3>3. QED
      BY <2>4, <2>5, <3>2 DEF ResultInv
  <2>6. SoundHeap'
    BY <2>2, <2>4, <2>5 DEF SoundHeap, SoundRun, ResultShown, ResultInv
  <2>7. dbPlan' = dbPlan
    BY <1>2 DEF Generate
  <2>8. QED
    BY <1>1, <2>1, <2>6, <2>7, ResultParts DEF ResultInv
<1>3. CASE GetPlan \/ RefuseMerge
  <2>1. plan' # None => EndsInResult(plan'.order)
    BY <1>3, LoadedEnds, LoadedType DEF GetPlan, RefuseMerge, RefusedMerge, PlanType
  <2>2. SoundHeap' /\ dbPlan' = dbPlan
    BY <1>3, SoundHeapKept DEF GetPlan, RefuseMerge
  <2>3. QED
    BY <1>1, <2>1, <2>2, ResultParts DEF ResultInv
<1>4. ASSUME NEW i \in 1..(Len(Ops) + 2), NEW valid \in BOOLEAN, NEW s \in Sqls,
             UpdatePlanNode(i, valid, s)
      PROVE  ResultInv'
  <2>1. Loaded \in PlanType /\ EndsInResult(Loaded.order)
    BY <1>4, LoadedType, LoadedEnds DEF UpdatePlanNode
  <2>2. /\ EditedPlan(Loaded, i, valid, s).order = Loaded.order
        /\ PersistedEdit(Loaded, EditedPlan(Loaded, i, valid, s)).order = Loaded.order
    BY <2>1 DEF EditedPlan, PersistedEdit, PlanType
  <2>3. /\ plan' = EditedPlan(Loaded, i, valid, s)
        /\ dbPlan' \in {dbPlan, PersistedEdit(Loaded, EditedPlan(Loaded, i, valid, s))}
        /\ thr' = thr /\ heap' = Swept(heap, store', thr)
    BY <1>4 DEF UpdatePlanNode, Written
  <2>4. SoundHeap'
    BY <2>3, ClearedSoundHeap
  <2>5. EndsInResult(plan'.order) /\ (dbPlan' # None => EndsInResult(dbPlan'.order))
    BY <2>1, <2>2, <2>3 DEF ResultInv
  <2>6. QED
    BY <1>1, <2>4, <2>5, ResultParts
<1>5. ASSUME NEW i \in 1..(Len(Ops) + 2), NEW j \in 1..(Len(Ops) + 2), MergePlanNodes(i, j)
      PROVE  ResultInv'
  <2>1. Loaded \in PlanType /\ EndsInResult(Loaded.order)
    BY <1>5, LoadedType, LoadedEnds DEF MergePlanNodes
  <2>2. i \in Nat /\ j \in Nat /\ 1 <= i
    BY LenProperties
  <2>3. EndsInResult(MergedPlan(Loaded, i, j).order)
    BY <1>5, <2>1, <2>2, MergedPlanEnds DEF MergePlanNodes
  <2>4. /\ plan' = MergedPlan(Loaded, i, j)
        /\ dbPlan' \in {dbPlan, MergedPlan(Loaded, i, j)}
        /\ thr' = thr /\ heap' = Swept(heap, store', thr)
    BY <1>5 DEF MergePlanNodes, Written
  <2>5. SoundHeap'
    BY <2>4, ClearedSoundHeap
  <2>6. EndsInResult(plan'.order) /\ (dbPlan' # None => EndsInResult(dbPlan'.order))
    BY <2>3, <2>4 DEF ResultInv
  <2>7. QED
    BY <1>1, <2>5, <2>6, ResultParts
<1>6. QED
  BY <1>2, <1>3, <1>4, <1>5

LEMMA RunRequestsResult ==
  ASSUME TypeInv, ResultInv, NEW r \in Runs, CreatePlanRun(r) \/ GetPlanRun(r) \/ ResetPlanRun(r)
  PROVE  ResultInv'
<1>1. dbPlan' = dbPlan /\ thr' = thr
  BY DEF CreatePlanRun, GetPlanRun, ResetPlanRun
<1>2. CASE CreatePlanRun(r)
  <2>1. Loaded \in PlanType /\ EndsInResult(Loaded.order)
    BY <1>2, LoadedType, LoadedEnds DEF CreatePlanRun
  <2>2. NewRun(Loaded) \in RunType /\ SoundRun(NewRun(Loaded))
    BY <2>1, NewRunType, NewRunSound
  <2>3. EndsInResult(plan'.order)
    <3>1. RunApplied(Loaded, r, NewRun(Loaded)).order = Loaded.order
      BY <2>1, AppliedOrder
    <3>2. QED
      BY <1>2, <2>1, <3>1 DEF CreatePlanRun
  <2>4. NewObj \in Objs /\ \A u \in Threads : thr[u].obj # NewObj
    BY <1>2, NewObjIsFree DEF CreatePlanRun, Free, Referenced
  <2>5. SoundHeap'
    BY <1>1, <1>2, <2>2, <2>4, ReplacedSoundHeap DEF CreatePlanRun
  <2>6. \A q \in Runs : dbRun'[q] # None => ResultShown(dbRun'[q])
    BY <1>2, <2>2, PersistedShown DEF CreatePlanRun
  <2>7. QED
    BY <1>1, <2>3, <2>5, <2>6, ResultParts DEF ResultInv
<1>3. CASE GetPlanRun(r)
  <2> DEFINE op == Opened(r)
  <2>1. SoundOpening(r, op) /\ SoundRun(op.run) /\ EndsInResult(op.plan.order)
    BY <1>3, OpenedSound, OpenedEnds DEF GetPlanRun
  <2>2. heap' = [heap EXCEPT ![op.obj] = op.run] /\ plan' = op.plan /\ dbRun' = dbRun
    BY <1>3 DEF GetPlanRun
  <2> HIDE DEF op
  <2>3. SoundHeap'
    BY <1>1, <2>1, <2>2, ReplacedSoundHeap DEF SoundOpening
  <2>4. QED
    BY <1>1, <2>1, <2>2, <2>3, ResultParts DEF ResultInv
<1>4. CASE ResetPlanRun(r)
  <2> DEFINE op  == Opened(r)
             run == ResetRun(op.run)
  <2>1. SoundOpening(r, op) /\ SoundRun(op.run) /\ EndsInResult(op.plan.order)
    BY <1>4, OpenedSound, OpenedEnds DEF ResetPlanRun
  <2>2. run \in RunType /\ run.order = op.run.order /\ SoundRun(run)
    BY <2>1, ResetTypes, ResetSoundRun DEF SoundOpening, ResetRun, RunType
  <2>3. /\ heap' = [heap EXCEPT ![op.obj] = run] /\ plan' = RunApplied(op.plan, r, run)
        /\ Persisted(r, run)
    BY <1>4 DEF ResetPlanRun
  <2> HIDE DEF op, run
  <2>4. op.obj \in Objs /\ \A u \in Threads : thr[u].obj = op.obj => run.order = heap[op.obj].order
    BY <2>1, <2>2 DEF SoundOpening
  <2>5. SoundHeap'
    BY <1>1, <2>2, <2>3, <2>4, ReplacedSoundHeap
  <2>6. EndsInResult(plan'.order)
    <3>1. op.plan \in PlanType
      BY <2>1 DEF SoundOpening
    <3>2. RunApplied(op.plan, r, run).order = op.plan.order
      BY <3>1, AppliedOrder, SMTT(30)
    <3>3. QED
      BY <2>1, <2>3, <3>2
  <2>7. \A q \in Runs : dbRun'[q] # None => ResultShown(dbRun'[q])
    BY <2>2, <2>3, PersistedShown
  <2>8. QED
    BY <1>1, <2>5, <2>6, <2>7, ResultParts DEF ResultInv
<1>5. QED
  BY <1>2, <1>3, <1>4

LEMMA ExecutionsResult ==
  ASSUME TypeInv, ResultInv, NEW t \in Threads,
         \/ \E client \in Sqls \cup {"stub"} : Execute(t, client)
         \/ \E err \in BOOLEAN : DirectlyExecuted(t, err)
         \/ FullRunNext(t) /\ FullRunOver(thr[t].run)
  PROVE  ResultInv'
<1>1. /\ thr \in [Threads -> RequestType] /\ plan \in PlanType \cup {None}
  BY DEF TypeInv, TypeOK
<1>2. CASE \E client \in Sqls \cup {"stub"} : Execute(t, client)
  <2>1. PICK client \in Sqls \cup {"stub"} : Execute(t, client)
    BY <1>2
  <2>2. /\ plan' = Loaded /\ heap' = heap /\ dbPlan' = dbPlan /\ dbRun' = dbRun
        /\ Loaded # None
    BY <2>1 DEF Execute
  <2>3. \A u \in Threads : thr'[u].phase = "preview" => thr'[u] = thr[u]
    <3>1. thr' = thr \/ \E sql : thr' = [thr EXCEPT ![t] = [Idle EXCEPT !.phase = "exec", !.sql = sql]]
      BY <2>1 DEF Execute
    <3>2. \A sql : [Idle EXCEPT !.phase = "exec", !.sql = sql].phase # "preview"
      BY DEF Idle
    <3>3. QED
      BY <1>1, <3>1, <3>2
  <2>4. SoundHeap'
    BY <2>2, <2>3, SoundHeapKept
  <2>5. QED
    BY <2>2, <2>4, LoadedEnds, ResultParts DEF ResultInv
<1>3. CASE \E err \in BOOLEAN : DirectlyExecuted(t, err)
  <2>1. PICK err \in BOOLEAN : DirectlyExecuted(t, err)
    BY <1>3
  <2>2. plan \in PlanType /\ plan # None
    BY <1>1, <2>1 DEF DirectlyExecuted, TypeInv, Loadedness
  <2>3. /\ plan' = ResultApplied(plan, err) /\ heap' = heap /\ dbRun' = dbRun
        /\ dbPlan' \in {dbPlan, plan'}
    BY <2>1 DEF DirectlyExecuted, Written
  <2>4. EndsInResult(plan'.order)
    <3>1. ResultApplied(plan, err).order = plan.order
      BY <2>2, AppliedOrder
    <3>2. QED
      BY <2>2, <2>3, <3>1 DEF ResultInv
  <2>5. \A u \in Threads : thr'[u].phase = "preview" => thr'[u] = thr[u]
    BY <1>1, <2>1 DEF DirectlyExecuted, Idle
  <2>6. SoundHeap'
    BY <2>3, <2>5, SoundHeapKept
  <2>7. dbPlan' # None => EndsInResult(dbPlan'.order)
    BY <2>3, <2>4 DEF ResultInv
  <2>8. QED
    BY <2>3, <2>4, <2>6, <2>7, ResultParts DEF ResultInv
<1>4. CASE FullRunNext(t) /\ FullRunOver(thr[t].run)
  <2>1. /\ thr' = [thr EXCEPT ![t] = Idle] /\ plan' = plan /\ heap' = heap
        /\ dbPlan' = dbPlan /\ dbRun' = dbRun
    BY <1>4 DEF FullRunNext
  <2>2. \A u \in Threads : thr'[u].phase = "preview" => thr'[u] = thr[u]
    BY <1>1, <2>1 DEF Idle
  <2>3. SoundHeap'
    BY <2>1, <2>2, SoundHeapKept
  <2>4. QED
    BY <2>1, <2>3, ResultParts DEF ResultInv
<1>5. QED
  BY <1>2, <1>3, <1>4

LEMMA FullRunNextResult ==
  ASSUME TypeInv, ResultInv, NEW t \in Threads, FullRunNext(t)
  PROVE  ResultInv'
<1>1. CASE FullRunOver(thr[t].run)
  BY <1>1, ExecutionsResult
<1>2. CASE ~ FullRunOver(thr[t].run)
  <2>1. thr[t].run \in Runs
    BY DEF FullRunNext, TypeInv, RequestSound
  <2>2. CanOpen(thr[t].run)
    BY <1>2 DEF FullRunOver, CanOpen
  <2>3. BeginStep(t, thr[t].run, Opened(thr[t].run), TRUE)
    BY <1>2 DEF FullRunNext
  <2>4. QED
    BY <2>1, <2>2, <2>3, BeginStepResult
<1>3. QED
  BY <1>1, <1>2

LEMMA RestartResult ==
  ASSUME ResultInv, Restart
  PROVE  ResultInv'
<1>1. /\ plan' = None /\ heap' = [o \in Objs |-> NoRun] /\ thr' = [t \in Threads |-> Idle]
      /\ dbPlan' = dbPlan /\ dbRun' = dbRun
  BY DEF Restart
<1>2. SoundHeap'
  BY <1>1, NoRunSound DEF SoundHeap, Idle
<1>3. QED
  BY <1>1, <1>2, ResultParts DEF ResultInv

LEMMA InitResult == Init => ResultInv
BY NewPlanEnds, NoRunSound, NoneAssumption DEF Init, ResultInv, Idle

LEMMA ResultInvInductive == TypeInv /\ ResultInv /\ [Next]_vars => ResultInv'
<1> SUFFICES ASSUME TypeInv, ResultInv, [Next]_vars PROVE ResultInv'
  OBVIOUS
<1>1. CASE \/ \E template \in Templates : Generate(template)
           \/ GetPlan
           \/ \E i \in 1..(Len(Ops) + 2), valid \in BOOLEAN, s \in Sqls :
                  UpdatePlanNode(i, valid, s)
           \/ \E i, j \in 1..(Len(Ops) + 2) : MergePlanNodes(i, j)
           \/ RefuseMerge
  BY <1>1, PlanEditsResult
<1>2. CASE \E r \in Runs : CreatePlanRun(r) \/ GetPlanRun(r) \/ ResetPlanRun(r)
  BY <1>2, RunRequestsResult
<1>3. CASE \E t \in Threads, r \in Runs, full \in BOOLEAN : CallStep(t, r, full)
  BY <1>3, BeginStepResult DEF CallStep
<1>4. CASE \E t \in Threads, client \in Sqls \cup {"stub"} : Execute(t, client)
  BY <1>4, ExecutionsResult
<1>5. CASE \E t \in Threads : Advance(t)
  BY <1>5, PreviewDoneResult, StepExecutedResult, ExecutionsResult, FullRunNextResult
     DEF Advance
<1>6. CASE Restart
  BY <1>6, RestartResult
<1>7. CASE UNCHANGED vars
  BY <1>7 DEF vars, ResultInv
<1>8. QED
  BY <1>1, <1>2, <1>3, <1>4, <1>5, <1>6, <1>7 DEF Next

(* Whatever steps, resets, edits, restores and restarts overlap, a run in  *)
(* memory or in the database whose result node is done has a result: the   *)
(* panel that shows it never finds nothing to show.                        *)
THEOREM DoneHasResultCorrect == Spec => []DoneHasResult
<1>1. TypeInv /\ ResultInv => DoneHasResult
  BY DEF TypeInv, TypeOK, ResultInv, SoundRun, ResultShown, DoneHasResult
<1>2. Init => TypeInv /\ ResultInv
  BY InitSound, InitResult
<1>3. TypeInv /\ ResultInv /\ [Next]_vars => (TypeInv /\ ResultInv)'
  BY TypeInvInductive, ResultInvInductive
<1>4. QED
  BY <1>1, <1>2, <1>3, PTL DEF Spec

-----------------------------------------------------------------------------
(* A run created for the plan as it is never shows the result of an older  *)
(* SQL.                                                                    *)
(*                                                                         *)
(* The argument.  The SQL of a plan changes only in handlers that take all *)
(* runs of the plan out of the store, so as long as an object stays in the *)
(* store the SQL is the one it was created under.  The handlers that wait  *)
(* make this delicate: a step chooses its SQL when it begins and stores    *)
(* the outcome when it ends.  The invariant therefore also speaks of the   *)
(* executions under way on stored objects; an object taken out never comes *)
(* back, since a restore makes a new one.                                  *)

(* What the last step of a run of p executes.                              *)
StepSql(p) == ExecutionSql(p, "stub")

(* The object o holds and awaits nothing but the outcome of sql.           *)
FreshObj(o, sql) ==
    /\ heap[o].result \in {None, sql}
    /\ \A t \in Threads : thr[t].phase = "exec" /\ thr[t].obj = o => thr[t].sql = sql

FreshInv ==
    \A r \in Runs : store[r] # None /\ heap[store[r]].own => FreshObj(store[r], StepSql(plan))

-----------------------------------------------------------------------------
(* What leaves the SQL alone.                                              *)

LEMMA AppliedSql ==
  ASSUME NEW p \in PlanType, NEW r, NEW run, NEW err
  PROVE  StepSql(RunApplied(p, r, run)) = StepSql(p) /\ StepSql(ResultApplied(p, err)) = StepSql(p)
<1>1. /\ RunApplied(p, r, run).sql = p.sql /\ RunApplied(p, r, run).replan = p.replan
      /\ ResultApplied(p, err).sql = p.sql /\ ResultApplied(p, err).replan = p.replan
  BY DEF RunApplied, ResultApplied, PlanType
<1>2. QED
  BY <1>1 DEF StepSql, ExecutionSql

(* Of the stored objects only o changed, and it became run.                *)
OnlyChanged(o, run) ==
    \A x \in Runs : store'[x] # None
        => /\ store'[x] = o => heap'[store'[x]] = run
           /\ store'[x] # o => heap'[store'[x]] = heap[store'[x]]

(* A handler that stores run as the object o, for r or for no one, and     *)
(* otherwise changes only the request t, which may execute for o.          *)
LEMMA ObjectChanged ==
  ASSUME TypeInv, FreshInv, NEW t \in Threads, NEW o \in Objs, NEW run,
         \A x \in Runs : store'[x] \in {o, store[x]},
         OnlyChanged(o, run),
         \A u \in Threads : u # t => thr'[u] = thr[u],
         thr'[t].phase = "exec" => thr'[t].obj = o \/ thr'[t] = thr[t],
         \A x \in Runs : store[x] # None => StepSql(plan') = StepSql(plan),
         (\E x \in Runs : store'[x] = o) /\ run.own
             => /\ run.result \in {None, StepSql(plan')}
                /\ \A u \in Threads : thr'[u].phase = "exec" /\ thr'[u].obj = o
                                        => thr'[u].sql = StepSql(plan')
  PROVE  FreshInv'
<1>1. store \in [Runs -> Objs \cup {None}]
  BY DEF TypeInv, TypeOK
<1>2. SUFFICES ASSUME NEW x \in Runs, store'[x] # None, heap'[store'[x]].own
               PROVE  FreshObj(store[x], StepSql(plan))'
  BY DEF FreshInv
<1>3. CASE store'[x] = o
  BY <1>2, <1>3 DEF FreshObj, OnlyChanged
<1>4. CASE store'[x] # o
  <2>1. store[x] = store'[x]
    BY <1>1, <1>4
  <2>2. heap'[store[x]] = heap[store[x]] /\ StepSql(plan') = StepSql(plan)
    BY <1>2, <1>4, <2>1 DEF OnlyChanged
  <2>3. FreshObj(store[x], StepSql(plan))
    BY <1>2, <2>1, <2>2 DEF FreshInv
  <2>4. ASSUME NEW u \in Threads, thr'[u].phase = "exec", thr'[u].obj = store'[x]
        PROVE  thr'[u].sql = StepSql(plan')
    <3>1. thr'[u] = thr[u]
      BY <1>4, <2>4
    <3>2. QED
      BY <2>1, <2>2, <2>3, <2>4, <3>1 DEF FreshObj
  <2>5. heap'[store'[x]].result \in {None, StepSql(plan')}
    BY <2>1, <2>2, <2>3 DEF FreshObj
  <2>6. QED
    BY <2>4, <2>5 DEF FreshObj
<1>5. QED
  BY <1>3, <1>4

(* Put and the plain replacement of an object are such handlers.           *)
LEMMA PutChanges ==
  ASSUME TypeInv, NEW t \in Threads, NEW r, NEW o \in Objs, NEW run, NEW req,
         store' \in [Runs -> Objs \cup {None}], Put(r, o, run, t, req)
  PROVE  /\ OnlyChanged(o, run)
         /\ \A u \in Threads : u # t => thr'[u] = thr[u]
         /\ thr'[t] = req
<1>1. thr \in [Threads -> RequestType] /\ heap \in [Objs -> RunType]
  BY DEF TypeInv, TypeOK
<1>2. thr' = [thr EXCEPT ![t] = req]
  BY DEF Put
<1> DEFINE h1 == [heap EXCEPT ![o] = run]
<1>3. heap' = Swept(h1, store', thr')
  BY DEF Put
<1>4. \A y \in Objs : h1[y] = IF y = o THEN run ELSE heap[y]
  BY <1>1
<1> HIDE DEF h1
<1>5. ASSUME NEW x \in Runs, store'[x] # None
      PROVE  heap'[store'[x]] = h1[store'[x]]
  <2>1. store'[x] \in Objs
    BY <1>5
  <2>2. store'[x] \in Referenced(store', thr')
    BY <2>1 DEF Referenced
  <2>3. QED
    BY <1>3, <2>1, <2>2 DEF Swept
<1>6. OnlyChanged(o, run)
  BY <1>4, <1>5 DEF OnlyChanged
<1>7. QED
  BY <1>1, <1>2, <1>6

LEMMA ReplacedChanges ==
  ASSUME TypeInv, NEW r \in Runs, NEW o \in Objs, NEW run, store' = [store EXCEPT ![r] = o],
         heap' = [heap EXCEPT ![o] = run]
  PROVE  OnlyChanged(o, run)
BY DEF TypeInv, TypeOK, OnlyChanged

-----------------------------------------------------------------------------
(* Opening a run.                                                          *)

(* What a handler knows of the run it opened: unless it rebuilt the run,   *)
(* nothing in it or under way for it is older than the plan.               *)
FreshOpening(op) ==
    /\ \A x \in Runs : store[x] # None => StepSql(op.plan) = StepSql(plan)
    /\ op.run.own
       => /\ op.run.result \in {None, StepSql(op.plan)}
          /\ \A u \in Threads : thr[u].phase = "exec" /\ thr[u].obj = op.obj
                                  => thr[u].sql = StepSql(op.plan)

LEMMA OpenedFresh ==
  ASSUME TypeInv, FreshInv, NEW r \in Runs, CanOpen(r)
  PROVE  FreshOpening(Opened(r))
<1>1. CASE store[r] # None
  BY <1>1 DEF Opened, FreshOpening, FreshInv, FreshObj
<1>2. CASE store[r] = None
  <2> DEFINE run == RestoredRun(dbRun[r], Loaded)
  <2>1. Loaded \in PlanType
    BY <1>2, LoadedType DEF CanOpen
  <2>2. StepSql(RunApplied(Loaded, r, run)) = StepSql(Loaded)
    BY <2>1, AppliedSql
  <2>3. \A x \in Runs : store[x] # None => Loaded = plan
    BY DEF Loaded, TypeInv, Loadedness
  <2>4. ~ run.own
    BY DEF RestoredRun
  <2>5. Opened(r).plan = RunApplied(Loaded, r, run) /\ Opened(r).run = run
    BY <1>2 DEF Opened
  <2> HIDE DEF run
  <2>6. QED
    BY <2>2, <2>3, <2>4, <2>5 DEF FreshOpening
<1>3. QED
  BY <1>1, <1>2

(* The common end of every step of an opened run.                          *)
LEMMA StepFresh ==
  ASSUME TypeInv, FreshInv, NEW t \in Threads, NEW r \in Runs, NEW op,
         SoundOpening(r, op), FreshOpening(op),
         NEW run, run.own = op.run.own, run.result \in {op.run.result, None, StepSql(op.plan)},
         NEW req, req.phase = "exec" => req.obj = op.obj /\ req.sql = StepSql(op.plan),
         Put(r, op.obj, run, t, req),
         store' = [store EXCEPT ![r] = op.obj],
         plan' \in {op.plan, RunApplied(op.plan, r, run)}
  PROVE  FreshInv'
<1>1. op.obj \in Objs /\ op.plan \in PlanType
  BY DEF SoundOpening
<1>2. StepSql(plan') = StepSql(op.plan)
  <2>1. StepSql(RunApplied(op.plan, r, run)) = StepSql(op.plan)
    BY <1>1, AppliedSql
  <2>2. QED
    BY <2>1
<1>3. store' \in [Runs -> Objs \cup {None}]
  BY <1>1 DEF TypeInv, TypeOK
<1>4. /\ OnlyChanged(op.obj, run)
      /\ \A u \in Threads : u # t => thr'[u] = thr[u]
      /\ thr'[t] = req
  <2> DEFINE o == op.obj
  <2>1. o \in Objs /\ Put(r, o, run, t, req)
    BY <1>1
  <2> HIDE DEF o
  <2>2. thr'[t] = req
    BY <1>3, <2>1, PutChanges
  <2>3. \A u \in Threads : u # t => thr'[u] = thr[u]
    BY <1>3, <2>1, PutChanges
  <2>4. OnlyChanged(o, run)
    BY <1>3, <2>1, PutChanges
  <2>5. QED
    BY <2>2, <2>3, <2>4 DEF o
<1>5. \A x \in Runs : store[x] # None => StepSql(plan') = StepSql(plan)
  BY <1>2 DEF FreshOpening
<1>6. ASSUME run.own
      PROVE  /\ run.result \in {None, StepSql(plan')}
             /\ \A u \in Threads : thr'[u].phase = "exec" /\ thr'[u].obj = op.obj
                                     => thr'[u].sql = StepSql(plan')
  <2>1. run.result \in {None, StepSql(plan')}
    BY <1>2, <1>6 DEF FreshOpening
  <2>2. ASSUME NEW u \in Threads, thr'[u].phase = "exec", thr'[u].obj = op.obj
        PROVE  thr'[u].sql = StepSql(plan')
    <3>1. CASE u = t
      BY <1>2, <1>4, <2>2, <3>1
    <3>2. CASE u # t
      BY <1>2, <1>4, <1>6, <2>2, <3>2 DEF FreshOpening
    <3>3. QED
      BY <3>1, <3>2
  <2>3. QED
    BY <2>1, <2>2
<1>7. thr'[t].phase = "exec" => thr'[t].obj = op.obj
  BY <1>4
<1>8. QED
  <2> DEFINE o == op.obj
  <2>1. o \in Objs /\ store' = [store EXCEPT ![r] = o] /\ (thr'[t].phase = "exec" => thr'[t].obj = o)
    BY <1>1, <1>7
  <2>2. OnlyChanged(o, run)
    BY <1>4 DEF OnlyChanged
  <2>3. (\E x \in Runs : store'[x] = o) /\ run.own
            => /\ run.result \in {None, StepSql(plan')}
               /\ \A u \in Threads : thr'[u].phase = "exec" /\ thr'[u].obj = o
                                       => thr'[u].sql = StepSql(plan')
    BY <1>6
  <2>4. /\ o \in Objs /\ \A x \in Runs : store'[x] \in {o, store[x]}
        /\ thr'[t].phase = "exec" => thr'[t].obj = o \/ thr'[t] = thr[t]
        /\ \A u \in Threads : u # t => thr'[u] = thr[u]
    BY <1>4, <2>1 DEF TypeInv, TypeOK
  <2> HIDE DEF o
  <2>5. QED
    BY <1>5, <2>2, <2>3, <2>4, ObjectChanged

LEMMA BeginStepFresh ==
  ASSUME TypeInv, FreshInv, NEW t \in Threads, NEW r \in Runs, NEW full \in BOOLEAN,
         CanOpen(r), NEW op, op = Opened(r), BeginStep(t, r, op, full)
  PROVE  FreshInv'
<1>1. SoundOpening(r, op) /\ FreshOpening(op)
  BY OpenedSound, OpenedFresh
<1>2. op.run \in RunType /\ op.obj \in Objs /\ op.plan \in PlanType
  BY <1>1 DEF SoundOpening
<1>3. Idle.phase # "exec" /\ AfterStep(r, full).phase # "exec"
  BY DEF Idle, AfterStep
<1>4. store' = [store EXCEPT ![r] = op.obj]
  BY DEF BeginStep, StepOfEnded, StepBeyond, StepIntent, StepOperation, StepResult,
         StepResultRefused
<1>5. CASE StepOfEnded(t, r, op)
  BY <1>1, <1>3, <1>4, <1>5, StepFresh DEF StepOfEnded
<1>6. CASE StepBeyond(t, r, op)
  <2>1. Finished(op.run).own = op.run.own /\ Finished(op.run).result = op.run.result
    BY <1>2 DEF Finished, RunType
  <2>2. Put(r, op.obj, Finished(op.run), t, Idle) /\ plan' = RunApplied(op.plan, r, Finished(op.run))
    BY <1>6 DEF StepBeyond
  <2>3. QED
    BY <1>1, <1>3, <1>4, <2>1, <2>2, StepFresh
<1>7. CASE StepIntent(t, r, op, full)
  <2> DEFINE run(i) == StepSucceeded(op.run, i, None)
  <2>1. PICK i \in 1..Len(op.run.order) :
            /\ Put(r, op.obj, run(i), t, AfterStep(r, full))
            /\ plan' = RunApplied(op.plan, r, run(i))
    BY <1>7 DEF StepIntent
  <2>2. run(i).own = op.run.own /\ run(i).result \in {op.run.result, None}
    BY <1>2 DEF StepSucceeded, RunType
  <2> HIDE DEF run
  <2>3. QED
    BY <1>1, <1>3, <1>4, <2>1, <2>2, StepFresh
<1>8. CASE StepOperation(t, r, op, full)
  <2> DEFINE req(i) == [phase |-> "preview", run |-> r, obj |-> op.obj, i |-> i,
                        full |-> full, sql |-> None]
  <2>1. PICK i \in 1..Len(op.run.order) : Put(r, op.obj, op.run, t, req(i)) /\ plan' = op.plan
    BY <1>8 DEF StepOperation
  <2>2. req(i).phase # "exec"
    OBVIOUS
  <2> HIDE DEF req
  <2>3. QED
    BY <1>1, <1>4, <2>1, <2>2, StepFresh
<1>9. CASE StepResult(t, r, op, full)
  <2> DEFINE run(i) == RunningAt(op.run, i)
             req(i) == [phase |-> "exec", run |-> r, obj |-> op.obj, i |-> i,
                        full |-> full, sql |-> ExecutionSql(op.plan, "stub")]
  <2>1. PICK i \in 1..Len(op.run.order) :
            /\ Put(r, op.obj, run(i), t, req(i))
            /\ plan' = RunApplied(op.plan, r, run(i))
    BY <1>9 DEF StepResult
  <2>2. run(i).own = op.run.own /\ run(i).result = op.run.result
    BY <1>2 DEF RunningAt, RunType
  <2>3. req(i).obj = op.obj /\ req(i).sql = StepSql(op.plan)
    BY DEF StepSql
  <2> HIDE DEF run, req
  <2>4. QED
    BY <1>1, <1>4, <2>1, <2>2, <2>3, StepFresh
<1>10. CASE StepResultRefused(t, r, op, full)
  <2> DEFINE run(i) == StepSucceeded(op.run, i, "replan")
  <2>1. PICK i \in 1..Len(op.run.order) :
            /\ op.plan.replan
            /\ Put(r, op.obj, run(i), t, AfterStep(r, full))
            /\ plan' = RunApplied(op.plan, r, run(i))
    BY <1>10 DEF StepResultRefused
  <2>2. run(i).own = op.run.own /\ run(i).result \in {op.run.result, "replan"}
    BY <1>2 DEF StepSucceeded, RunType
  <2>3. StepSql(op.plan) = "replan"
    BY <2>1 DEF StepSql, ExecutionSql
  <2> HIDE DEF run
  <2>4. QED
    BY <1>1, <1>3, <1>4, <2>1, <2>2, <2>3, StepFresh
<1>11. QED
  BY <1>5, <1>6, <1>7, <1>8, <1>9, <1>10 DEF BeginStep

-----------------------------------------------------------------------------
(* Answers of the SQL engine.                                              *)

LEMMA AnsweredFresh ==
  ASSUME TypeInv, FreshInv, NEW t \in Threads, thr[t].phase # "idle", thr[t].obj # None,
         NEW run, run.own = heap[thr[t].obj].own,
         \/ run.result \in {heap[thr[t].obj].result, None}
         \/ thr[t].phase = "exec" /\ run.result = thr[t].sql,
         Put(thr[t].run, thr[t].obj, run, t, AfterStep(thr[t].run, thr[t].full)),
         UNCHANGED store, StepSql(plan') = StepSql(plan)
  PROVE  FreshInv'
<1> DEFINE o == thr[t].obj
           r == thr[t].run
           req == AfterStep(r, thr[t].full)
<1>1. r \in Runs /\ o \in Objs
  BY WaitingSound
<1>2. req.phase # "exec"
  BY DEF Idle, AfterStep
<1>3. store' \in [Runs -> Objs \cup {None}]
  BY DEF TypeInv, TypeOK
<1>4. Put(r, o, run, t, req) /\ o = thr[t].obj /\ run.own = heap[o].own
  OBVIOUS
<1>5. \/ run.result \in {heap[o].result, None}
      \/ thr[t].phase = "exec" /\ run.result = thr[t].sql
  OBVIOUS
<1> HIDE DEF o, r, req
<1>6. /\ OnlyChanged(o, run)
      /\ \A u \in Threads : u # t => thr'[u] = thr[u]
      /\ thr'[t] = req
  <2>1. thr'[t] = req
    BY <1>1, <1>3, <1>4, PutChanges
  <2>2. \A u \in Threads : u # t => thr'[u] = thr[u]
    BY <1>1, <1>3, <1>4, PutChanges
  <2>3. OnlyChanged(o, run)
    BY <1>1, <1>3, <1>4, PutChanges
  <2>4. QED
    BY <2>1, <2>2, <2>3
<1>7. ASSUME NEW x \in Runs, store'[x] = o, run.own
      PROVE  /\ run.result \in {None, StepSql(plan')}
             /\ \A u \in Threads : thr'[u].phase = "exec" /\ thr'[u].obj = o
                                     => thr'[u].sql = StepSql(plan')
  <2>1. FreshObj(o, StepSql(plan))
    <3>1. store[x] = o /\ o # None
      BY <1>1, <1>7
    <3>2. QED
      BY <1>4, <1>7, <3>1 DEF FreshInv
  <2>2. run.result \in {None, StepSql(plan')}
    BY <1>4, <1>5, <2>1 DEF FreshObj
  <2>3. ASSUME NEW u \in Threads, thr'[u].phase = "exec", thr'[u].obj = o
        PROVE  thr'[u].sql = StepSql(plan')
    BY <1>2, <1>6, <2>1, <2>3 DEF FreshObj
  <2>4. QED
    BY <2>2, <2>3
<1>8. thr'[t].phase # "exec"
  BY <1>2, <1>6
<1>9. QED
  BY <1>1, <1>6, <1>7, <1>8, ObjectChanged

LEMMA PreviewDoneFresh ==
  ASSUME TypeInv, FreshInv, NEW t \in Threads, NEW ok \in BOOLEAN, PreviewDone(t, ok)
  PROVE  FreshInv'
<1> DEFINE old == heap[thr[t].obj]
           run == IF ok THEN StepSucceeded(old, thr[t].i, None) ELSE StepFailed(old, thr[t].i)
<1>1. thr[t].phase = "preview" /\ thr[t].obj # None
  BY DEF PreviewDone, TypeInv, RequestSound
<1>2. plan \in PlanType /\ old \in RunType
  BY <1>1, WaitingSound
<1>3. run.own = old.own /\ run.result \in {old.result, None}
  BY <1>2 DEF StepSucceeded, StepFailed, RunType
<1>4. /\ Put(thr[t].run, thr[t].obj, run, t, AfterStep(thr[t].run, thr[t].full))
      /\ plan' = RunApplied(plan, thr[t].run, run) /\ UNCHANGED store
  BY DEF PreviewDone
<1> HIDE DEF run
<1>5. StepSql(plan') = StepSql(plan)
  <2>1. StepSql(RunApplied(plan, thr[t].run, run)) = StepSql(plan)
    BY <1>2, AppliedSql
  <2>2. QED
    BY <1>4, <2>1
<1>6. QED
  BY <1>1, <1>3, <1>4, <1>5, AnsweredFresh

LEMMA StepExecutedFresh ==
  ASSUME TypeInv, FreshInv, NEW t \in Threads, NEW err \in BOOLEAN, StepExecuted(t, err)
  PROVE  FreshInv'
<1> DEFINE old == heap[thr[t].obj]
           run == StepSucceeded(old, thr[t].i, thr[t].sql)
           shown == ResultApplied(plan, err)
<1>1. thr[t].phase = "exec" /\ thr[t].obj # None
  BY DEF StepExecuted
<1>2. plan \in PlanType /\ old \in RunType
  BY <1>1, WaitingSound
<1>3. run.own = old.own /\ run.result \in {old.result, thr[t].sql}
  BY <1>2 DEF StepSucceeded, RunType
<1>4. /\ Put(thr[t].run, thr[t].obj, run, t, AfterStep(thr[t].run, thr[t].full))
      /\ plan' = RunApplied(shown, thr[t].run, run) /\ UNCHANGED store
  BY DEF StepExecuted
<1>5. shown \in PlanType /\ StepSql(shown) = StepSql(plan)
  <2>1. StepSql(shown) = StepSql(plan)
    BY <1>2, AppliedSql
  <2>2. QED
    BY <1>2, <2>1, ResultAppliedType
<1> HIDE DEF run, shown
<1>6. StepSql(plan') = StepSql(plan)
  <2>1. StepSql(RunApplied(shown, thr[t].run, run)) = StepSql(shown)
    BY <1>5, AppliedSql
  <2>2. QED
    BY <1>4, <1>5, <2>1
<1>7. QED
  BY <1>1, <1>3, <1>4, <1>6, AnsweredFresh

-----------------------------------------------------------------------------
(* Every step.                                                             *)

(* Edits and merges leave no run in the store, a question asked again      *)
(* disowns them, and a refused merge or a read keep the SQL.               *)
LEMMA PlanEditsFresh ==
  ASSUME TypeInv, FreshInv,
         \/ \E template \in Templates : Generate(template)
         \/ GetPlan
         \/ \E i \in 1..(Len(Ops) + 2), valid \in BOOLEAN, s \in Sqls :
                UpdatePlanNode(i, valid, s)
         \/ \E i, j \in 1..(Len(Ops) + 2) : MergePlanNodes(i, j)
         \/ RefuseMerge
  PROVE  FreshInv'
<1>1. CASE \E template \in Templates : Generate(template)
  <2>1. store' = store /\ heap' = [o \in Objs |-> [heap[o] EXCEPT !.own = FALSE]]
    BY <1>1 DEF Generate
  <2>2. \A o \in Objs : ~ heap'[o].own
    <3>1. \A run \in RunType : ~ [run EXCEPT !.own = FALSE].own
      BY DEF RunType
    <3>2. \A o \in Objs : heap[o] \in RunType
      BY DEF TypeInv, TypeOK
    <3>3. QED
      BY <2>1, <3>1, <3>2
  <2>3. \A r \in Runs : store[r] # None => store[r] \in Objs
    BY DEF TypeInv, TypeOK
  <2>4. QED
    BY <2>1, <2>2, <2>3 DEF FreshInv
<1>2. CASE GetPlan \/ RefuseMerge
  <2>1. store' = store /\ heap' = heap /\ thr' = thr
    BY <1>2 DEF GetPlan, RefuseMerge
  <2>2. ASSUME NEW r \in Runs, store[r] # None
        PROVE  StepSql(plan') = StepSql(plan)
    <3>1. plan \in PlanType /\ Loaded = plan
      BY <2>2 DEF TypeInv, TypeOK, Loadedness, Loaded
    <3>2. plan' = plan \/ plan' = RefusedMerge(plan)
      BY <1>2, <3>1 DEF GetPlan, RefuseMerge
    <3>3. RefusedMerge(plan).sql = plan.sql /\ RefusedMerge(plan).replan = plan.replan
      BY <3>1 DEF RefusedMerge, PlanType
    <3>4. QED
      BY <3>2, <3>3 DEF StepSql, ExecutionSql
  <2>3. QED
    BY <2>1, <2>2 DEF FreshInv, FreshObj
<1>3. CASE \/ \E i \in 1..(Len(Ops) + 2), valid \in BOOLEAN, s \in Sqls :
                  UpdatePlanNode(i, valid, s)
           \/ \E i, j \in 1..(Len(Ops) + 2) : MergePlanNodes(i, j)
  <2>1. store' = ClearedStore(store)
    BY <1>3 DEF UpdatePlanNode, MergePlanNodes
  <2>2. QED
    BY <2>1 DEF FreshInv, ClearedStore
<1>4. QED
  BY <1>1, <1>2, <1>3

LEMMA RunRequestsFresh ==
  ASSUME TypeInv, FreshInv, NEW r \in Runs, CreatePlanRun(r) \/ GetPlanRun(r) \/ ResetPlanRun(r)
  PROVE  FreshInv'
<1>1. thr' = thr /\ thr \in [Threads -> RequestType] /\ store \in [Runs -> Objs \cup {None}]
  BY DEF CreatePlanRun, GetPlanRun, ResetPlanRun, TypeInv, TypeOK
<1>2. ASSUME NEW o \in Objs, NEW run,
             store' = [store EXCEPT ![r] = o], heap' = [heap EXCEPT ![o] = run],
             \A x \in Runs : store[x] # None => StepSql(plan') = StepSql(plan),
             run.own => /\ run.result \in {None, StepSql(plan')}
                        /\ \A u \in Threads : thr[u].phase = "exec" /\ thr[u].obj = o
                                                => thr[u].sql = StepSql(plan')
      PROVE  FreshInv'
  <2>1. OnlyChanged(o, run)
    BY <1>2, ReplacedChanges
  <2>2. ASSUME NEW x \in Runs, store'[x] # None, heap'[store'[x]].own
        PROVE  FreshObj(store[x], StepSql(plan))'
    <3>1. CASE store'[x] = o
      BY <1>1, <1>2, <2>1, <2>2, <3>1 DEF FreshObj, OnlyChanged
    <3>2. CASE store'[x] # o
      <4>1. store[x] = store'[x] /\ heap'[store[x]] = heap[store[x]]
        BY <1>1, <1>2, <2>1, <2>2, <3>2 DEF OnlyChanged
      <4>2. FreshObj(store[x], StepSql(plan)) /\ StepSql(plan') = StepSql(plan)
        BY <1>2, <2>2, <4>1 DEF FreshInv
      <4>3. QED
        BY <1>1, <4>1, <4>2 DEF FreshObj
    <3>3. QED
      BY <3>1, <3>2
  <2>3. QED
    BY <2>2 DEF FreshInv
<1>3. CASE CreatePlanRun(r)
  <2>1. Loaded \in PlanType
    BY <1>3, LoadedType DEF CreatePlanRun
  <2>2. NewObj \in Objs /\ \A u \in Threads : thr[u].obj # NewObj
    BY <1>3, NewObjIsFree DEF CreatePlanRun, Free, Referenced
  <2>3. StepSql(plan') = StepSql(Loaded)
    <3>1. StepSql(RunApplied(Loaded, r, NewRun(Loaded))) = StepSql(Loaded)
      BY <2>1, AppliedSql
    <3>2. QED
      BY <1>3, <3>1 DEF CreatePlanRun
  <2>4. \A x \in Runs : store[x] # None => StepSql(plan') = StepSql(plan)
    BY <2>3 DEF Loaded, TypeInv, Loadedness
  <2>5. NewRun(Loaded).result = None
    BY DEF NewRun
  <2>6. store' = [store EXCEPT ![r] = NewObj] /\ heap' = [heap EXCEPT ![NewObj] = NewRun(Loaded)]
    BY <1>3 DEF CreatePlanRun
  <2>7. QED
    BY <1>2, <2>2, <2>4, <2>5, <2>6
<1>4. CASE GetPlanRun(r) \/ ResetPlanRun(r)
  <2> DEFINE op == Opened(r)
  <2>1. SoundOpening(r, op) /\ FreshOpening(op)
    BY <1>4, OpenedSound, OpenedFresh DEF GetPlanRun, ResetPlanRun
  <2>2. op.obj \in Objs /\ op.run \in RunType /\ op.plan \in PlanType
    BY <2>1 DEF SoundOpening
  <2>3. PICK run \in {op.run, ResetRun(op.run)} :
            /\ store' = [store EXCEPT ![r] = op.obj]
            /\ heap' = [heap EXCEPT ![op.obj] = run]
            /\ plan' \in {op.plan, RunApplied(op.plan, r, run)}
    BY <1>4 DEF GetPlanRun, ResetPlanRun
  <2>4. run.own = op.run.own /\ run.result \in {op.run.result, None}
    BY <2>2, <2>3 DEF ResetRun, RunType
  <2> HIDE DEF op
  <2>5. StepSql(plan') = StepSql(op.plan)
    <3>1. StepSql(RunApplied(op.plan, r, run)) = StepSql(op.plan)
      BY <2>2, AppliedSql
    <3>2. QED
      BY <2>3, <3>1
  <2>6. /\ \A x \in Runs : store[x] # None => StepSql(plan') = StepSql(plan)
        /\ run.own => /\ run.result \in {None, StepSql(plan')}
                      /\ \A u \in Threads : thr[u].phase = "exec" /\ thr[u].obj = op.obj
                                              => thr[u].sql = StepSql(plan')
    BY <2>1, <2>4, <2>5 DEF FreshOpening
  <2>7. QED
    BY <1>2, <2>2, <2>3, <2>6
<1>5. QED
  BY <1>3, <1>4

LEMMA ExecutionsFresh ==
  ASSUME TypeInv, FreshInv, NEW t \in Threads,
         \/ \E client \in Sqls \cup {"stub"} : Execute(t, client)
         \/ \E err \in BOOLEAN : DirectlyExecuted(t, err)
         \/ FullRunNext(t) /\ FullRunOver(thr[t].run)
  PROVE  FreshInv'
<1>1. store' = store /\ heap' = heap
  BY DEF Execute, DirectlyExecuted, FullRunNext, TypeInv, RequestSound, FullRunOver
<1>2. /\ thr \in [Threads -> RequestType]
      /\ \A r \in Runs : store[r] # None => store[r] \in Objs
  BY DEF TypeInv, TypeOK
<1>3. \A u \in Threads : thr'[u].phase = "exec" => thr'[u] = thr[u] \/ thr'[u].obj = None
  <2>1. /\ Idle.phase = "idle"
        /\ \A sql : [Idle EXCEPT !.phase = "exec", !.sql = sql].obj = None
    BY DEF Idle
  <2>2. thr' = thr \/ \E req : /\ thr' = [thr EXCEPT ![t] = req]
                               /\ req.phase = "exec" => req.obj = None
    BY <2>1 DEF Execute, DirectlyExecuted, FullRunNext
  <2>3. QED
    BY <1>2, <2>2
<1>4. ASSUME NEW r \in Runs, store[r] # None
      PROVE  StepSql(plan') = StepSql(plan)
  <2>1. plan \in PlanType /\ Loaded = plan
    BY <1>4 DEF TypeInv, TypeOK, Loadedness, Loaded
  <2>2. plan' = plan \/ \E err \in BOOLEAN : plan' = ResultApplied(plan, err)
    BY <2>1 DEF Execute, DirectlyExecuted, FullRunNext
  <2>3. \A err : StepSql(ResultApplied(plan, err)) = StepSql(plan)
    BY <2>1, AppliedSql
  <2>4. QED
    BY <2>2, <2>3
<1>5. QED
  BY <1>1, <1>2, <1>3, <1>4 DEF FreshInv, FreshObj

LEMMA FullRunNextFresh ==
  ASSUME TypeInv, FreshInv, NEW t \in Threads, FullRunNext(t)
  PROVE  FreshInv'
<1>1. CASE FullRunOver(thr[t].run)
  BY <1>1, ExecutionsFresh
<1>2. CASE ~ FullRunOver(thr[t].run)
  <2>1. thr[t].run \in Runs
    BY DEF FullRunNext, TypeInv, RequestSound
  <2>2. CanOpen(thr[t].run)
    BY <1>2 DEF FullRunOver, CanOpen
  <2>3. BeginStep(t, thr[t].run, Opened(thr[t].run), TRUE)
    BY <1>2 DEF FullRunNext
  <2>4. QED
    BY <2>1, <2>2, <2>3, BeginStepFresh
<1>3. QED
  BY <1>1, <1>2

LEMMA FreshInvInductive == TypeInv /\ FreshInv /\ [Next]_vars => FreshInv'
<1> SUFFICES ASSUME TypeInv, FreshInv, [Next]_vars PROVE FreshInv'
  OBVIOUS
<1>1. CASE \/ \E template \in Templates : Generate(template)
           \/ GetPlan
           \/ \E i \in 1..(Len(Ops) + 2), valid \in BOOLEAN, s \in Sqls :
                  UpdatePlanNode(i, valid, s)
           \/ \E i, j \in 1..(Len(Ops) + 2) : MergePlanNodes(i, j)
           \/ RefuseMerge
  BY <1>1, PlanEditsFresh
<1>2. CASE \E r \in Runs : CreatePlanRun(r) \/ GetPlanRun(r) \/ ResetPlanRun(r)
  BY <1>2, RunRequestsFresh
<1>3. CASE \E t \in Threads, r \in Runs, full \in BOOLEAN : CallStep(t, r, full)
  BY <1>3, BeginStepFresh DEF CallStep
<1>4. CASE \E t \in Threads, client \in Sqls \cup {"stub"} : Execute(t, client)
  BY <1>4, ExecutionsFresh
<1>5. CASE \E t \in Threads : Advance(t)
  BY <1>5, PreviewDoneFresh, StepExecutedFresh, ExecutionsFresh, FullRunNextFresh
     DEF Advance
<1>6. CASE Restart
  BY <1>6 DEF Restart, FreshInv
<1>7. CASE UNCHANGED vars
  BY <1>7 DEF vars, FreshInv, FreshObj
<1>8. QED
  BY <1>1, <1>2, <1>3, <1>4, <1>5, <1>6, <1>7 DEF Next

(* A run created for the plan as it is, and still in memory, never shows   *)
(* rows of an SQL the plan would not execute now, even when an edit lands  *)
(* while its last step waits for the SQL engine.                           *)
THEOREM FreshInStoreCorrect == Spec => []FreshInStore
<1>1. TypeInv /\ FreshInv => FreshInStore
  BY DEF TypeInv, Loadedness, FreshInv, FreshObj, FreshInStore, StepSql
<1>2. Init => TypeInv /\ FreshInv
  <2>1. Init => FreshInv
    BY DEF Init, FreshInv
  <2>2. QED
    BY <2>1, InitSound
<1>3. TypeInv /\ FreshInv /\ [Next]_vars => (TypeInv /\ FreshInv)'
  BY TypeInvInductive, FreshInvInductive
<1>4. QED
  BY <1>1, <1>2, <1>3, PTL DEF Spec

-----------------------------------------------------------------------------
(* An SQL text that an edit emptied stays empty.                           *)
(*                                                                         *)
(* The argument.  Memory alone would be simple: no handler but an edit     *)
(* changes the text, and an edit of an empty one leaves it empty.  But a   *)
(* restart forgets memory, and a handler that finds no plan there goes on  *)
(* with the row; so the row must have lost the text whenever memory did.   *)
(* An edit that loses the text writes the row in the same request, and no  *)
(* later write brings an older text back.                                  *)

SameText(p, q) == q.sql = p.sql /\ q.template = p.template

(* The plan a restart would bring back has no text that memory lost.       *)
EmptyKept ==
    plan # None /\ plan.template = "gold" /\ plan.sql = None
        => dbPlan # None /\ dbPlan.sql = None

(* The plan in memory comes from the one that was found, and the database  *)
(* is as it was or has the same text.                                      *)
TextStays ==
    /\ Loaded # None
    /\ plan' # None => SameText(Loaded, plan')
    /\ dbPlan' = dbPlan \/ (dbPlan' # None /\ SameText(Loaded, dbPlan'))

TextEdited ==
    /\ Loaded # None /\ plan' # None /\ dbPlan' # None
    /\ SameText(plan', dbPlan')
    /\ plan'.template = Loaded.template
    /\ Loaded.template = "gold" /\ Loaded.sql = None => plan'.sql = None

TextUntouched == plan' = plan /\ dbPlan' = dbPlan

AskedAgain ==
    /\ count'.generates > count.generates
    /\ plan'.sql # None /\ dbPlan' = dbPlan

LEMMA AppliedText ==
  ASSUME NEW p \in PlanType, NEW r, NEW run, NEW err
  PROVE  SameText(p, RunApplied(p, r, run)) /\ SameText(p, ResultApplied(p, err))
BY DEF RunApplied, ResultApplied, PlanType, SameText

LEMMA OpenedText ==
  ASSUME TypeInv, NEW r \in Runs, CanOpen(r)
  PROVE  Loaded # None /\ Opened(r).plan \in PlanType /\ SameText(Loaded, Opened(r).plan)
<1>1. Opened(r).plan \in PlanType
  BY OpenedSound DEF SoundOpening
<1>2. CASE store[r] # None
  BY <1>1, <1>2, NoneAssumption DEF Opened, Loaded, SameText, TypeInv, Loadedness
<1>3. CASE store[r] = None
  <2>1. Loaded \in PlanType /\ Opened(r).plan = RunApplied(Loaded, r, RestoredRun(dbRun[r], Loaded))
    BY <1>3, LoadedType DEF CanOpen, Opened
  <2>2. SameText(Loaded, Opened(r).plan)
    BY <2>1, AppliedText
  <2>3. QED
    BY <1>1, <1>3, <2>2 DEF CanOpen
<1>4. QED
  BY <1>2, <1>3

(* A handler that found p and may show a run of it.                        *)
LEMMA ShownText ==
  ASSUME Loaded # None, NEW p \in PlanType, SameText(Loaded, p),
         plan' = p \/ (\E r, run : plan' = RunApplied(p, r, run)),
         dbPlan' = dbPlan \/ (dbPlan' # None /\ SameText(p, dbPlan'))
  PROVE  TextStays
<1>1. SameText(p, plan')
  BY AppliedText DEF SameText
<1>2. QED
  BY <1>1 DEF SameText, TextStays

LEMMA BeginStepText ==
  ASSUME TypeInv, NEW t, NEW r \in Runs, NEW full, CanOpen(r), BeginStep(t, r, Opened(r), full)
  PROVE  TextStays
<1>1. Loaded # None /\ Opened(r).plan \in PlanType /\ SameText(Loaded, Opened(r).plan)
  BY OpenedText
<1>2. /\ dbPlan' = dbPlan
      /\ plan' = Opened(r).plan \/ (\E run : plan' = RunApplied(Opened(r).plan, r, run))
  BY DEF BeginStep, StepOfEnded, StepBeyond, StepIntent, StepOperation, StepResult, StepResultRefused
<1>3. QED
  BY <1>1, <1>2, ShownText

LEMMA EditText ==
  ASSUME TypeInv, ~ DbMayFail, NEW i \in 1..(Len(Ops) + 2), NEW valid \in BOOLEAN, NEW s \in Sqls,
         UpdatePlanNode(i, valid, s)
  PROVE  TextEdited
<1> DEFINE p == Loaded
           n == p.order[i]
           q == EditedPlan(p, i, valid, s)
<1>1. p # None /\ p \in PlanType /\ i \in 1..Len(p.order) /\ plan' = q /\ dbPlan' = PersistedEdit(p, q)
  BY LoadedType DEF UpdatePlanNode, Written
<1>2. q \in PlanType /\ PersistedEdit(p, q) \in PlanType
  BY <1>1, EditedPlanType
<1>3. q.sql = EditedSql(p, n, valid, s) /\ q.template = p.template
  BY <1>1 DEF EditedPlan, PlanType
<1>4. PersistedEdit(p, q).sql = q.sql /\ PersistedEdit(p, q).template = q.template
  BY <1>2 DEF PersistedEdit, PlanType
<1>5. p.template = "gold" /\ p.sql = None => EditedSql(p, n, valid, s) = None
  BY DEF EditedSql
<1> HIDE DEF p, q, n
<1>6. QED
  BY <1>1, <1>2, <1>3, <1>4, <1>5, NoneAssumption DEF TextEdited, SameText, p

LEMMA MergeText ==
  ASSUME TypeInv, ~ DbMayFail, NEW i \in 1..(Len(Ops) + 2), NEW j \in 1..(Len(Ops) + 2),
         MergePlanNodes(i, j)
  PROVE  TextStays
<1>1. /\ Loaded # None /\ Loaded \in PlanType
      /\ plan' = MergedPlan(Loaded, i, j) /\ dbPlan' = plan'
      /\ i < j /\ j <= Len(Loaded.order) /\ MergeSupported(Loaded, i, j)
  BY LoadedType DEF MergePlanNodes, Written
<1>2. plan' \in PlanType
  BY <1>1, MergedPlanType
<1>3. SameText(Loaded, plan')
  BY <1>1 DEF MergedPlan, PlanType, SameText
<1>4. QED
  BY <1>1, <1>2, <1>3, NoneAssumption DEF TextStays

LEMMA ResultText ==
  ASSUME TypeInv, ~ DbMayFail, NEW t \in Threads, thr[t].phase = "exec", NEW err \in BOOLEAN,
         \/ plan' = ResultApplied(plan, err)
         \/ \E r, run : plan' = RunApplied(ResultApplied(plan, err), r, run),
         dbPlan' \in Written(dbPlan, ResultApplied(plan, err))
  PROVE  TextStays
<1>1. plan \in PlanType /\ Loaded = plan /\ Loaded # None
  BY DEF TypeInv, TypeOK, Loadedness, Loaded
<1>2. ResultApplied(plan, err) \in PlanType /\ SameText(plan, ResultApplied(plan, err))
  BY <1>1, ResultAppliedType, AppliedText
<1>3. dbPlan' = ResultApplied(plan, err) /\ dbPlan' # None
  BY <1>2, NoneAssumption DEF Written
<1>4. SameText(ResultApplied(plan, err), dbPlan')
  BY <1>3 DEF SameText
<1>5. QED
  BY <1>1, <1>2, <1>3, <1>4, ShownText

LEMMA AdvanceText ==
  ASSUME TypeInv, ~ DbMayFail, NEW t \in Threads, Advance(t)
  PROVE  TextStays \/ TextUntouched
<1>1. ASSUME NEW ok \in BOOLEAN, PreviewDone(t, ok)
      PROVE  TextStays
  <2>1. thr[t].phase = "preview" /\ dbPlan' = dbPlan /\ \E r, run : plan' = RunApplied(plan, r, run)
    BY <1>1 DEF PreviewDone
  <2>2. plan \in PlanType /\ Loaded = plan /\ Loaded # None
    BY <2>1 DEF TypeInv, TypeOK, Loadedness, Loaded
  <2>3. SameText(Loaded, plan)
    BY <2>2 DEF SameText
  <2>4. QED
    BY <2>1, <2>2, <2>3, ShownText
<1>2. ASSUME NEW err \in BOOLEAN, StepExecuted(t, err)
      PROVE  TextStays
  BY <1>2, ResultText DEF StepExecuted
<1>3. ASSUME NEW err \in BOOLEAN, DirectlyExecuted(t, err)
      PROVE  TextStays
  BY <1>3, ResultText DEF DirectlyExecuted
<1>4. CASE FullRunNext(t)
  <2>1. CASE FullRunOver(thr[t].run)
    BY <1>4, <2>1 DEF FullRunNext, TextUntouched
  <2>2. CASE ~ FullRunOver(thr[t].run)
    <3>1. store[thr[t].run] # None /\ BeginStep(t, thr[t].run, Opened(thr[t].run), TRUE)
      BY <1>4, <2>2 DEF FullRunNext, FullRunOver
    <3>2. thr[t].run \in Runs
      BY <1>4 DEF TypeInv, RequestSound, FullRunNext
    <3>3. QED
      BY <3>1, <3>2, BeginStepText DEF CanOpen
  <2>3. QED
    BY <2>1, <2>2
<1>5. QED
  BY <1>1, <1>2, <1>3, <1>4 DEF Advance

LEMMA TextSteps ==
  ASSUME TypeInv, ~ DbMayFail, [Next]_vars
  PROVE  TextStays \/ TextEdited \/ TextUntouched \/ AskedAgain \/ Restart
<1>1. ASSUME NEW template \in Templates, Generate(template)
      PROVE  AskedAgain
  <2>1. count'.generates = count.generates + 1 /\ count.generates \in Nat
    BY <1>1 DEF Generate, TypeInv, TypeOK
  <2>2. plan'.sql = Gold /\ Gold # None
    BY <1>1 DEF Generate, NewPlan
  <2>3. QED
    BY <1>1, <2>1, <2>2 DEF AskedAgain, Generate
<1>2. CASE GetPlan
  <2>1. CASE Loaded = None
    BY <1>2, <2>1 DEF GetPlan, Loaded, TextUntouched
  <2>2. CASE Loaded # None
    BY <1>2, <2>2 DEF GetPlan, SameText, TextStays
  <2>3. QED
    BY <2>1, <2>2
<1>3. ASSUME NEW i \in 1..(Len(Ops) + 2), NEW valid \in BOOLEAN, NEW s \in Sqls,
             UpdatePlanNode(i, valid, s)
      PROVE  TextEdited
  BY <1>3, EditText
<1>4. ASSUME NEW i \in 1..(Len(Ops) + 2), NEW j \in 1..(Len(Ops) + 2), MergePlanNodes(i, j)
      PROVE  TextStays
  BY <1>4, MergeText
<1>5. CASE RefuseMerge
  BY <1>5, LoadedType DEF RefuseMerge, RefusedMerge, PlanType, SameText, TextStays
<1>6. ASSUME NEW r \in Runs, CreatePlanRun(r)
      PROVE  TextStays
  <2>1. Loaded # None /\ Loaded \in PlanType /\ SameText(Loaded, Loaded)
    BY <1>6, LoadedType DEF CreatePlanRun, SameText
  <2>2. QED
    BY <1>6, <2>1, ShownText DEF CreatePlanRun
<1>7. ASSUME NEW r \in Runs, GetPlanRun(r) \/ ResetPlanRun(r)
      PROVE  TextStays
  <2>1. CanOpen(r) /\ dbPlan' = dbPlan
    BY <1>7 DEF GetPlanRun, ResetPlanRun
  <2>2. plan' = Opened(r).plan \/ \E run : plan' = RunApplied(Opened(r).plan, r, run)
    BY <1>7 DEF GetPlanRun, ResetPlanRun
  <2>3. QED
    BY <2>1, <2>2, OpenedText, ShownText
<1>8. ASSUME NEW t \in Threads, NEW r \in Runs, NEW full \in BOOLEAN, CallStep(t, r, full)
      PROVE  TextStays
  BY <1>8, BeginStepText DEF CallStep
<1>9. ASSUME NEW t \in Threads, NEW client \in Sqls \cup {"stub"}, Execute(t, client)
      PROVE  TextStays
  BY <1>9 DEF Execute, SameText, TextStays
<1>10. ASSUME NEW t \in Threads, Advance(t)
       PROVE  TextStays \/ TextUntouched
  BY <1>10, AdvanceText
<1>11. CASE UNCHANGED vars
  BY <1>11 DEF vars, TextUntouched
<1>12. QED
  BY <1>1, <1>2, <1>3, <1>4, <1>5, <1>6, <1>7, <1>8, <1>9, <1>10, <1>11 DEF Next

LEMMA TextKept ==
  ASSUME TypeInv, ~ DbMayFail, EmptyKept, [Next]_vars
  PROVE  /\ EmptyKept'
         /\ Loaded # None /\ Loaded.template = "gold" /\ Loaded.sql = None
              => \/ Loaded' # None /\ Loaded'.sql = None
                 \/ count'.generates > count.generates
<1>1. Loaded # None /\ Loaded.template = "gold" /\ Loaded.sql = None
         => dbPlan # None /\ dbPlan.sql = None
  BY DEF EmptyKept, Loaded
<1>2. CASE TextStays
  BY <1>1, <1>2 DEF TextStays, SameText, EmptyKept, Loaded
<1>3. CASE TextEdited
  BY <1>3 DEF TextEdited, SameText, EmptyKept, Loaded
<1>4. CASE TextUntouched
  BY <1>4 DEF TextUntouched, EmptyKept, Loaded
<1>5. CASE AskedAgain
  BY <1>5 DEF AskedAgain, EmptyKept
<1>6. CASE Restart
  BY <1>1, <1>6 DEF Restart, EmptyKept, Loaded
<1>7. QED
  BY <1>2, <1>3, <1>4, <1>5, <1>6, TextSteps

(* Once an edit emptied the SQL of a gold plan nothing but asking the      *)
(* question again brings a text back, for any number of overlapping        *)
(* requests, provided the database takes every write: a restart would      *)
(* otherwise find the text of before the edit.                             *)
THEOREM EmptySqlStaysCorrect ==
  ASSUME ~ DbMayFail
  PROVE  Spec => EmptySqlStays
<1>1. Init => EmptyKept
  BY DEF Init, EmptyKept, NewPlan, GeneratedSqls
<1>2. TypeInv /\ EmptyKept /\ [Next]_vars => EmptyKept'
  BY TextKept
<1>3. TypeInv /\ EmptyKept /\ [Next]_vars
      => [(Loaded # None /\ Loaded.template = "gold" /\ Loaded.sql = None)
            => \/ Loaded' # None /\ Loaded'.sql = None
               \/ count'.generates > count.generates]_vars
  BY TextKept
<1>4. QED
  BY <1>1, <1>2, <1>3, InitSound, TypeInvInductive, PTL DEF Spec, EmptySqlStays

=============================================================================
