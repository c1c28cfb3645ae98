-------------------------- MODULE PlanSerialProofs --------------------------
(***************************************************************************)
(* What holds of a run while clients await their answers, for every plan,  *)
(* any number of runs, requests and objects, and every bound: the run in   *)
(* memory is a walk along its order, the graph shows it, it advances one   *)
(* node at a time, and a restart loses none of its progress.               *)
(*                                                                         *)
(* The argument.  The row of a run is the fixed point: it is at every      *)
(* moment a walk along the plan as it is now (RowSound), also after a      *)
(* merge shortened the plan under it.  An object in the store is what a    *)
(* restore of that row would give (Settled), except while its last step    *)
(* waits for the SQL engine (Executing).  A request in flight holds an     *)
(* object that an edit may have taken out of the store and a restore may   *)
(* have replaced; nobody else works on its run, so what it will write is   *)
(* still the next step of the row, or a step at a node that a merge        *)
(* removed (Flying).  None of the properties is inductive without these.   *)
(*                                                                         *)
(* The proof has two halves.  Every action is shown to be of one of four   *)
(* kinds (Kinds): a handler that works on one run, an edit or merge, a     *)
(* step that concerns no run, and a restart.  The invariant, and then each *)
(* property, is shown of the kinds.                                        *)
(***************************************************************************)
EXTENDS PlanResultProofs

USE NodesAssumption, PlanAssumption, ExecutedAssumption, ServiceAssumption

-----------------------------------------------------------------------------
(* The inductive invariant.                                                *)

Chain(order) ==
    /\ Len(order) > 0
    /\ EndsInResult(order)
    /\ \A i, j \in 1..Len(order) : order[i] = order[j] => i = j

(* How many nodes of the order succeeded.                                  *)
Done(ns, order) == Cardinality({i \in 1..Len(order) : ns[order[i]] = "success"})

(* The first k nodes of the order succeeded, one more may have run.        *)
Walked(ns, order, k) ==
    /\ k \in 0..Len(order)
    /\ \A i \in 1..Len(order) : ns[order[i]] = "success" <=> i <= k
    /\ \A i \in (k + 2)..Len(order) : ns[order[i]] = "pending"
    /\ \A i \in 1..Len(order) : ns[order[i]] # None

RowSound(rec, order) ==
    /\ Walked(rec.ns, order, Done(rec.ns, order))
    /\ rec.status = "success" <=> Done(rec.ns, order) = Len(order)
    /\ rec.status = "idle" => Done(rec.ns, order) = 0
    /\ rec.status = "error" <=> rec.error
    /\ rec.status = "error" <=> \E m \in Nodes : rec.ns[m] = "error"
    /\ \A m \in Nodes : rec.ns[m] # "running"
    /\ rec.error => rec.result \in {None, "failure"}
    /\ ~ Terminal(rec) => rec.result = None

(* A run in memory is what its row would be restored to ...                *)
Settled(run, rec, order) ==
    /\ run.order = order /\ run.k = Done(rec.ns, order)
    /\ run.ns = rec.ns /\ run.status = rec.status /\ run.error = rec.error
    /\ IF run.error THEN run.result \in {None, "failure"} ELSE run.result = rec.result
    /\ ~ Terminal(run) => run.next = NodeAt(order, run.k + 1)

(* ... or its last step is under way, which the row does not know.         *)
Executing(run, rec, order) ==
    /\ run.order = order /\ run.k = Done(rec.ns, order) /\ run.k + 1 = Len(order)
    /\ run.ns = [rec.ns EXCEPT ![Result] = "running"]
    /\ run.status = "running" /\ ~ run.error /\ run.result = None
    /\ ~ Terminal(rec)

Awaited(o) == \E t \in Threads : thr[t].phase = "exec" /\ thr[t].obj = o

Plans ==
    /\ plan # None => Chain(plan.order)
    /\ dbPlan # None => Chain(dbPlan.order)
    /\ plan # None /\ dbPlan # None => plan.order = dbPlan.order

Owners ==
    /\ \A r, s \in Runs : store[r] # None /\ store[r] = store[s] => r = s
    /\ \A t \in Threads, r \in Runs :
          thr[t].obj # None => (store[r] = thr[t].obj <=> r = thr[t].run /\ store[r] # None)
    /\ \A t, u \in Threads : thr[t].obj # None /\ thr[t].obj = thr[u].obj => t = u
    /\ \A t, u \in Threads : thr[t].run # None /\ thr[t].run = thr[u].run => t = u

Rows == \A r \in Runs : dbRun[r] # None /\ Loaded # None => RowSound(dbRun[r], Loaded.order)

Stored ==
    \A r \in Runs : store[r] # None
       => /\ dbRun[r] # None
          /\ IF Awaited(store[r]) THEN Executing(heap[store[r]], dbRun[r], plan.order)
             ELSE Settled(heap[store[r]], dbRun[r], plan.order)

(* m is the node the row has to do next, or no node of the order.          *)
Due(rec, m, order) ==
    \A h \in 1..Len(order) : order[h] = m => h = Done(rec.ns, order) + 1

(* The step at i of run is under way, for the plan as it is now: its node  *)
(* was merged away, or is the next one the row has to do.                  *)
Flying(run, rec, order, i) ==
    /\ Chain(run.order) /\ i \in 1..Len(run.order)
    /\ ~ Terminal(rec) /\ ~ Terminal(run) /\ ~ run.error /\ run.result = None
    /\ \A m \in Nodes : m # run.order[i] => run.ns[m] = rec.ns[m]
    /\ Due(rec, run.order[i], order)

Flights ==
    \A t \in Threads : thr[t].obj # None
       => LET r == thr[t].run
              run == heap[thr[t].obj]
          IN  /\ dbRun[r] # None
              /\ Flying(run, dbRun[r], plan.order, thr[t].i)
              /\ thr[t].phase = "exec" <=> run.order[thr[t].i] = Result
              /\ store[r] # None => thr[t].i = run.k + 1

SerialInv == Plans /\ Owners /\ Rows /\ Stored /\ Flights

-----------------------------------------------------------------------------
(* Walks.                                                                  *)

LEMMA PrefixCount ==
  ASSUME NEW ns, NEW order \in Seq(Nodes), NEW k \in 0..Len(order),
         \A i \in 1..Len(order) : ns[order[i]] = "success" <=> i <= k
  PROVE  Done(ns, order) = k
<1>1. Len(order) \in Nat /\ k \in Nat
  BY LenProperties
<1>2. {i \in 1..Len(order) : ns[order[i]] = "success"} = 1..k
  BY <1>1
<1>3. Cardinality(1..k) = k
  BY <1>1, FS_Interval
<1>4. QED
  BY <1>2, <1>3 DEF Done

LEMMA WalkedDone ==
  ASSUME NEW ns, NEW order \in Seq(Nodes), NEW k, Walked(ns, order, k)
  PROVE  k = Done(ns, order) /\ Walked(ns, order, Done(ns, order))
<1>1. Done(ns, order) = k
  BY PrefixCount DEF Walked
<1>2. QED
  BY <1>1

(* A row determines what it is restored to.                                *)
LEMMA FirstPending ==
  ASSUME NEW p \in PlanType, NEW rec \in RecordType, RowSound(rec, p.order), ~ Terminal(rec)
  PROVE  FirstNode(p, PositionsIn(rec, p, "pending")) = NodeAt(p.order, Done(rec.ns, p.order) + 1)
<1> DEFINE n == Len(p.order)
           k == Done(rec.ns, p.order)
           S == PositionsIn(rec, p, "pending")
<1>1. p.order \in Seq(Nodes) /\ n \in Nat
  BY LenProperties DEF PlanType
<1>2. k \in 0..n /\ k # n
  BY DEF RowSound, Walked, Terminal
<1>3. k + 1 \in 1..n
  BY <1>1, <1>2
<1>4. p.order[k + 1] \in Nodes
  BY <1>1, <1>3
<1>5. rec.ns[p.order[k + 1]] \in NodeState
  BY <1>3, <1>4 DEF RecordType, RowSound, Walked
<1>6. rec.ns[p.order[k + 1]] = "pending"
  <2>1. rec.ns[p.order[k + 1]] # "success"
    BY <1>2, <1>3 DEF RowSound, Walked
  <2>2. rec.ns[p.order[k + 1]] \notin {"error", "running"}
    BY <1>4 DEF RowSound, Terminal
  <2>3. QED
    BY <1>5, <2>1, <2>2 DEF NodeState
<1>7. \A i \in 1..n : i < k + 1 => rec.ns[p.order[i]] # "pending"
  BY <1>1, <1>2 DEF RowSound, Walked
<1>8. k + 1 \in S /\ \A i \in S : k + 1 <= i /\ i \in Int
  BY <1>1, <1>2, <1>3, <1>6, <1>7 DEF PositionsIn
<1> HIDE DEF S, k
<1>9. (CHOOSE i \in S : \A j \in S : i <= j) = k + 1
  <2>1. k + 1 \in Int
    BY <1>3
  <2>2. \E i \in S : \A j \in S : i <= j
    BY <1>8
  <2>3. PICK i \in S : i = (CHOOSE x \in S : \A j \in S : x <= j) /\ \A j \in S : i <= j
    BY <2>2
  <2>4. i <= k + 1 /\ k + 1 <= i /\ i \in Int
    BY <1>8, <2>3
  <2>5. QED
    BY <2>1, <2>3, <2>4
<1>10. QED
  BY <1>8, <1>9 DEF FirstNode, S, k

LEMMA RestoredSettled ==
  ASSUME NEW p \in PlanType, NEW rec \in RecordType, RowSound(rec, p.order)
  PROVE  Settled(RestoredRun(rec, p), rec, p.order)
<1> DEFINE run == RestoredRun(rec, p)
<1>1. run.k = Done(rec.ns, p.order)
  BY DEF RestoredRun, PositionsIn, Done
<1>2. ~ Terminal(run) => run.next = NodeAt(p.order, run.k + 1)
  <2>1. SUFFICES ASSUME ~ Terminal(run) PROVE run.next = NodeAt(p.order, run.k + 1)
    OBVIOUS
  <2>2. ~ Terminal(rec) /\ run.next = FirstNode(p, PositionsIn(rec, p, "pending"))
    BY <2>1 DEF RestoredRun, Terminal
  <2>3. QED
    BY <1>1, <2>2, FirstPending
<1>3. /\ run.order = p.order /\ run.ns = rec.ns /\ run.status = rec.status /\ run.error = rec.error
      /\ run.result = IF rec.result = None /\ rec.error THEN "failure" ELSE rec.result
  BY DEF RestoredRun
<1> HIDE DEF run
<1>4. IF run.error THEN run.result \in {None, "failure"} ELSE run.result = rec.result
  BY <1>3 DEF RowSound
<1>5. QED
  BY <1>1, <1>2, <1>3, <1>4 DEF Settled, run

-----------------------------------------------------------------------------
(* What becomes of a row.                                                  *)

(* The row after a step at the node m of the plan that ends well or fails. *)
RowStep(rec, m, res) ==
    [status |-> IF m = Result THEN "success" ELSE "running",
     ns |-> [rec.ns EXCEPT ![m] = "success"],
     result |-> IF m = Result THEN res ELSE None,
     error |-> FALSE]

RowFailed(rec, m) ==
    [status |-> "error", ns |-> [rec.ns EXCEPT ![m] = "error"], result |-> None, error |-> TRUE]

LEMMA StepWalks ==
  ASSUME NEW rec \in RecordType, NEW order \in Seq(Nodes), Chain(order), RowSound(rec, order),
         NEW m \in Nodes, Due(rec, m, order), NEW new, new = [rec.ns EXCEPT ![m] = "success"]
  PROVE  /\ Walked(new, order, Done(new, order))
         /\ Done(new, order) = IF \E h \in 1..Len(order) : order[h] = m
                               THEN Done(rec.ns, order) + 1 ELSE Done(rec.ns, order)
<1> DEFINE n == Len(order)
           k == Done(rec.ns, order)
           to == IF \E h \in 1..n : order[h] = m THEN k + 1 ELSE k
<1>1. n \in Nat /\ \A h \in 1..n : order[h] \in Nodes
  BY LenProperties
<1>2. rec.ns \in [Nodes -> NodeState \cup {None}]
  BY DEF RecordType
<1>3. \A h \in 1..n : new[order[h]] = IF order[h] = m THEN "success" ELSE rec.ns[order[h]]
  BY <1>1, <1>2
<1>4. k \in 0..n /\ Walked(rec.ns, order, k)
  BY DEF RowSound, Walked
<1>5. \A h \in 1..n : order[h] = m => h = k + 1
  BY DEF Due
<1> HIDE DEF k
<1>6. CASE \E h \in 1..n : order[h] = m
  <2>1. to = k + 1 /\ k + 1 \in 1..n /\ order[k + 1] = m
    BY <1>5, <1>6
  <2>2. \A h \in 1..n : order[h] = m <=> h = k + 1
    BY <1>5, <2>1
  <2>3. \A h \in 1..n : new[order[h]] = "success" <=> h <= k + 1
    BY <1>1, <1>3, <1>4, <2>2 DEF Walked
  <2>4. \A h \in (k + 3)..n : new[order[h]] = "pending"
    BY <1>1, <1>3, <1>4, <2>2 DEF Walked
  <2>5. \A h \in 1..n : new[order[h]] # None
    BY <1>3, <1>4, ExecutedAssumption DEF Walked, NodeState
  <2>6. Walked(new, order, to)
    BY <1>4, <2>1, <2>3, <2>4, <2>5 DEF Walked
  <2>7. QED
    BY <2>6, WalkedDone DEF k
<1>7. CASE ~ \E h \in 1..n : order[h] = m
  <2>1. \A h \in 1..n : new[order[h]] = rec.ns[order[h]]
    BY <1>3, <1>7
  <2>2. \A h \in (k + 2)..n : h \in 1..n
    BY <1>1, <1>4
  <2>3. Walked(new, order, k)
    BY ONLY <1>4, <2>1, <2>2 DEF Walked
  <2>4. to = k
    BY <1>7
  <2>5. QED
    BY <2>3, <2>4, WalkedDone DEF k
<1>8. QED
  BY <1>6, <1>7

LEMMA RowSucceeds ==
  ASSUME NEW rec \in RecordType, NEW order \in Seq(Nodes), Chain(order), RowSound(rec, order),
         ~ Terminal(rec), NEW m \in Nodes, Due(rec, m, order), NEW res
  PROVE  RowSound(RowStep(rec, m, res), order)
<1> DEFINE n == Len(order)
           k == Done(rec.ns, order)
           new == RowStep(rec, m, res)
<1>1. n \in Nat /\ n > 0 /\ order[n] = Result
  BY LenProperties DEF Chain, EndsInResult
<1>2. k \in 0..n /\ k # n
  BY DEF RowSound, Walked, Terminal
<1>3. rec.ns \in [Nodes -> NodeState \cup {None}]
  BY DEF RecordType
<1>4. new.ns = [rec.ns EXCEPT ![m] = "success"] /\ new.error = FALSE
  BY DEF RowStep
<1>5. /\ Walked(new.ns, order, Done(new.ns, order))
      /\ Done(new.ns, order) = IF \E h \in 1..n : order[h] = m THEN k + 1 ELSE k
  BY <1>4, StepWalks
<1>6. new.status = IF m = Result THEN "success" ELSE "running"
  BY DEF RowStep
<1>7. m = Result <=> Done(new.ns, order) = n
  <2>1. CASE m = Result
    <3>1. n = k + 1
      BY <1>1, <2>1 DEF Due
    <3>2. QED
      BY <1>1, <1>5, <2>1, <3>1
  <2>2. CASE m # Result
    <3>1. new.ns[Result] = rec.ns[Result]
      BY <1>3, <1>4, <2>2
    <3>2. rec.ns[Result] # "success"
      BY <1>1, <1>2 DEF RowSound, Walked
    <3>3. Done(new.ns, order) # n
      BY <1>1, <1>5, <3>1, <3>2 DEF Walked
    <3>4. QED
      BY <2>2, <3>3
  <2>3. QED
    BY <2>1, <2>2
<1>8. \A x \in Nodes : new.ns[x] # "running" /\ new.ns[x] # "error"
  <2>1. \A x \in Nodes : rec.ns[x] # "running" /\ rec.ns[x] # "error"
    BY DEF RowSound, Terminal
  <2>2. QED
    BY <1>3, <1>4, <2>1
<1>9. ~ Terminal(new) => new.result = None
  BY <1>6 DEF RowStep, Terminal
<1> HIDE DEF new
<1>10. /\ new.status = "success" <=> Done(new.ns, order) = n
       /\ new.status # "idle" /\ new.status # "error" /\ ~ new.error
  BY <1>4, <1>6, <1>7
<1>11. RowSound(new, order)
  BY <1>4, <1>5, <1>8, <1>9, <1>10 DEF RowSound
<1>12. QED
  BY <1>11 DEF new

LEMMA RowFails ==
  ASSUME NEW rec \in RecordType, NEW order \in Seq(Nodes), Chain(order), RowSound(rec, order),
         ~ Terminal(rec), NEW m \in Nodes, Due(rec, m, order)
  PROVE  /\ RowSound(RowFailed(rec, m), order)
         /\ Done(RowFailed(rec, m).ns, order) = Done(rec.ns, order)
<1> DEFINE n == Len(order)
           k == Done(rec.ns, order)
           new == RowFailed(rec, m)
<1>1. n \in Nat /\ \A h \in 1..n : order[h] \in Nodes
  BY LenProperties
<1>2. rec.ns \in [Nodes -> NodeState \cup {None}]
  BY DEF RecordType
<1>3. new.ns = [rec.ns EXCEPT ![m] = "error"] /\ new.error /\ new.status = "error" /\ new.result = None
  BY DEF RowFailed
<1>4. k \in 0..n /\ k # n /\ Walked(rec.ns, order, k)
  BY DEF RowSound, Walked, Terminal
<1>5. \A h \in 1..n : order[h] = m => h = k + 1
  BY DEF Due
<1>6. \A h \in 1..n : new.ns[order[h]] = IF order[h] = m THEN "error" ELSE rec.ns[order[h]]
  BY <1>1, <1>2, <1>3
<1>7. \A x \in Nodes : new.ns[x] # "running"
  BY <1>2, <1>3 DEF RowSound
<1>8. new.ns[m] = "error"
  BY <1>2, <1>3
<1> HIDE DEF new, k
<1>9. \A h \in 1..n : new.ns[order[h]] = "success" <=> h <= k
  BY <1>1, <1>4, <1>5, <1>6 DEF Walked
<1>10. \A h \in (k + 2)..n : new.ns[order[h]] = "pending"
  BY <1>1, <1>4, <1>5, <1>6 DEF Walked
<1>11. \A h \in 1..n : new.ns[order[h]] # None
  BY <1>4, <1>6, ExecutedAssumption DEF Walked, NodeState
<1>12. Walked(new.ns, order, k)
  BY <1>4, <1>9, <1>10, <1>11 DEF Walked
<1>13. Done(new.ns, order) = k
  BY <1>12, WalkedDone
<1>14. RowSound(new, order)
  BY <1>3, <1>4, <1>7, <1>8, <1>12, <1>13 DEF RowSound, Terminal
<1>15. QED
  BY <1>13, <1>14 DEF new, k

(* A run at its start: created, or reset.                                  *)
LEMMA RowStarts ==
  ASSUME NEW rec, NEW order \in Seq(Nodes), Chain(order),
         rec.ns = [m \in Nodes |-> IF \E h \in 1..Len(order) : order[h] = m THEN "pending" ELSE None],
         rec.status = "idle", rec.error = FALSE, rec.result = None
  PROVE  RowSound(rec, order) /\ Done(rec.ns, order) = 0
<1>1. Len(order) \in Nat /\ Len(order) > 0 /\ \A h \in 1..Len(order) : order[h] \in Nodes
  BY LenProperties DEF Chain
<1>2. \A h \in 1..Len(order) : rec.ns[order[h]] = "pending"
  BY <1>1
<1>3. Walked(rec.ns, order, 0)
  BY <1>1, <1>2, ExecutedAssumption DEF Walked, NodeState
<1>4. Done(rec.ns, order) = 0
  BY <1>3, WalkedDone
<1>5. \A m \in Nodes : rec.ns[m] \in {"pending", None}
  OBVIOUS
<1>6. \A m \in Nodes : rec.ns[m] # "running" /\ rec.ns[m] # "error"
  BY <1>5, ExecutedAssumption DEF NodeState
<1>7. QED
  BY <1>1, <1>3, <1>4, <1>6 DEF RowSound, Terminal

-----------------------------------------------------------------------------
(* Plans and merges.                                                       *)

LEMMA NewPlanChain ==
  ASSUME NEW template, NEW sql
  PROVE  Chain(NewPlan(template, sql).order)
<1> DEFINE order == <<Intent>> \o Ops \o <<Result>>
           n == Len(Ops)
<1>1. Ops \in Seq(OpSet) /\ n \in Nat
  BY LenProperties
<1>2. Len(order) = n + 2
  BY <1>1
<1>3. order[1] = Intent /\ order[n + 2] = Result
  BY <1>1
<1>4. \A i \in 2..(n + 1) : order[i] = Ops[i - 1] /\ i - 1 \in 1..n
  BY <1>1
<1>5. \A j \in 1..n : Ops[j] \in OpSet
  BY <1>1
<1>6. \A i \in 1..(n + 2) : i = 1 \/ i \in 2..(n + 1) \/ i = n + 2
  BY <1>1
<1> HIDE DEF order
<1>7. ASSUME NEW i \in 1..(n + 2), NEW j \in 1..(n + 2), order[i] = order[j]
      PROVE  i = j
  <2>1. CASE i \in 2..(n + 1) /\ j \in 2..(n + 1)
    <3>1. Ops[i - 1] = Ops[j - 1] /\ i - 1 \in 1..n /\ j - 1 \in 1..n
      BY <1>4, <1>7, <2>1
    <3>2. i - 1 = j - 1
      BY <3>1
    <3>3. QED
      BY <1>1, <3>2
  <2>2. CASE i \in 2..(n + 1) /\ j \notin 2..(n + 1)
    BY <1>3, <1>4, <1>5, <1>6, <1>7, <2>2
  <2>3. CASE i \notin 2..(n + 1) /\ j \in 2..(n + 1)
    BY <1>3, <1>4, <1>5, <1>6, <1>7, <2>3
  <2>4. CASE i \notin 2..(n + 1) /\ j \notin 2..(n + 1)
    BY <1>3, <1>6, <1>7, <2>4
  <2>5. QED
    BY <2>1, <2>2, <2>3, <2>4
<1>8. EndsInResult(order)
  BY NewPlanEnds DEF NewPlan, order
<1>9. Chain(order)
  BY <1>1, <1>2, <1>7, <1>8 DEF Chain
<1>10. QED
  BY <1>9 DEF NewPlan, order

(* Where the nodes of a merged plan come from.                             *)
Before(h, i, j) == IF h <= i THEN h ELSE h + (j - i)

LEMMA MergedOrder ==
  ASSUME NEW p \in PlanType, NEW i \in Nat, NEW j \in Nat,
         1 <= i, i < j, j <= Len(p.order), MergeSupported(p, i, j), Chain(p.order)
  PROVE  LET n == Len(p.order)
             merged == MergedPlan(p, i, j).order
         IN  /\ j < n
             /\ merged \in Seq(Nodes)
             /\ Len(merged) = n - (j - i)
             /\ \A h \in 1..(n - (j - i)) : merged[h] = p.order[Before(h, i, j)]
<1> DEFINE n    == Len(p.order)
           head == SubSeq(p.order, 1, i)
           tail == SubSeq(p.order, j + 1, n)
<1>1. p.order \in Seq(Nodes) /\ n \in Nat
  BY LenProperties DEF PlanType
<1>2. j < n
  <2>1. p.order[j] \in OpSet
    BY DEF MergeSupported
  <2>2. QED
    BY <1>1, <2>1 DEF Chain, EndsInResult
<1>3. head \in Seq(Nodes) /\ Len(head) = i /\ \A h \in 1..i : head[h] = p.order[h]
  BY <1>1, <1>2, SubSeqProperties
<1>4. tail \in Seq(Nodes) /\ Len(tail) = n - j /\ \A h \in 1..(n - j) : tail[h] = p.order[j + h]
  BY <1>1, <1>2, SubSeqProperties
<1> HIDE DEF head, tail
<1>5. /\ head \o tail \in Seq(Nodes)
      /\ Len(head \o tail) = i + (n - j)
      /\ \A h \in 1..(i + (n - j)) : (head \o tail)[h] = IF h <= i THEN head[h] ELSE tail[h - i]
  <2>1. \A s1, s2 \in Seq(Nodes) :
          /\ s1 \o s2 \in Seq(Nodes)
          /\ Len(s1 \o s2) = Len(s1) + Len(s2)
          /\ \A h \in 1..(Len(s1) + Len(s2)) :
                (s1 \o s2)[h] = IF h <= Len(s1) THEN s1[h] ELSE s2[h - Len(s1)]
    BY ConcatProperties
  <2>2. head \in Seq(Nodes) /\ tail \in Seq(Nodes) /\ Len(head) = i /\ Len(tail) = n - j
    BY <1>3, <1>4
  <2>3. /\ head \o tail \in Seq(Nodes)
        /\ Len(head \o tail) = Len(head) + Len(tail)
        /\ \A h \in 1..(Len(head) + Len(tail)) :
              (head \o tail)[h] = IF h <= Len(head) THEN head[h] ELSE tail[h - Len(head)]
    BY ONLY <2>1, <2>2, Zenon
  <2>4. QED
    BY ONLY <2>2, <2>3
<1>6. i + (n - j) = n - (j - i)
  BY <1>1
<1>7. \A h \in 1..(n - (j - i)) : (head \o tail)[h] = p.order[Before(h, i, j)]
  <2> SUFFICES ASSUME NEW h \in 1..(n - (j - i)) PROVE (head \o tail)[h] = p.order[Before(h, i, j)]
    OBVIOUS
  <2>1. CASE h <= i
    <3>1. (head \o tail)[h] = head[h] /\ h \in 1..i
      BY <1>1, <1>5, <1>6, <2>1, SMTT(60)
    <3>2. QED
      BY <1>3, <2>1, <3>1 DEF Before
  <2>2. CASE ~ (h <= i)
    <3>1. h - i \in 1..(n - j) /\ j + (h - i) = h + (j - i)
      <4>1. h \in Int /\ n \in Int /\ i \in Int /\ j \in Int /\ 1 <= h /\ h <= n - (j - i)
        BY <1>1
      <4> HIDE DEF n
      <4>2. QED
        BY ONLY <2>2, <4>1
    <3>2. (head \o tail)[h] = tail[h - i]
      BY <1>5, <1>6, <2>2
    <3>3. tail[h - i] = p.order[j + (h - i)]
      BY <1>4, <3>1
    <3>4. QED
      BY <2>2, <3>1, <3>2, <3>3 DEF Before
  <2>3. QED
    BY <2>1, <2>2
<1>8. MergedPlan(p, i, j).order = head \o tail
  BY DEF MergedPlan, PlanType, head, tail
<1>9. QED
  BY <1>2, <1>5, <1>6, <1>7, <1>8

LEMMA MergedChain ==
  ASSUME NEW p \in PlanType, NEW i \in Nat, NEW j \in Nat,
         1 <= i, i < j, j <= Len(p.order), MergeSupported(p, i, j), Chain(p.order)
  PROVE  Chain(MergedPlan(p, i, j).order)
<1> DEFINE n == Len(p.order)
           merged == MergedPlan(p, i, j).order
<1>1. n \in Nat /\ \A h, g \in 1..n : p.order[h] = p.order[g] => h = g
  BY LenProperties DEF PlanType, Chain
<1>2. /\ j < n /\ Len(merged) = n - (j - i)
      /\ \A h \in 1..(n - (j - i)) : merged[h] = p.order[Before(h, i, j)]
  BY MergedOrder
<1>3. EndsInResult(merged)
  BY MergedPlanEnds DEF Chain
<1> HIDE DEF merged, n
<1>4. \A h \in 1..(n - (j - i)) : Before(h, i, j) \in 1..n
  BY <1>1, <1>2 DEF Before
<1>5. \A h, g \in 1..(n - (j - i)) : Before(h, i, j) = Before(g, i, j) => h = g
  BY <1>1, <1>2 DEF Before
<1>6. ASSUME NEW h \in 1..(n - (j - i)), NEW g \in 1..(n - (j - i)), merged[h] = merged[g]
      PROVE  h = g
  <2> DEFINE bh == Before(h, i, j)
             bg == Before(g, i, j)
  <2>1. merged[h] = p.order[bh] /\ merged[g] = p.order[bg]
    BY <1>2
  <2>2. bh \in 1..n /\ bg \in 1..n
    BY <1>4
  <2> HIDE DEF bh, bg
  <2>3. bh = bg
    BY <1>1, <1>6, <2>1, <2>2
  <2>4. QED
    BY <1>5, <2>3 DEF bh, bg
<1>7. n - (j - i) > 0
  BY <1>1, <1>2
<1>8. Chain(merged)
  BY <1>2, <1>3, <1>6, <1>7 DEF Chain
<1>9. QED
  BY <1>8 DEF merged

(* A merge shortens what a row has done by what it removed of it.          *)
StillDone(k, i, j) == IF k <= i THEN k ELSE IF k <= j THEN i ELSE k - (j - i)

LEMMA MergeShifts ==
  ASSUME NEW n \in Nat, NEW i \in Nat, NEW j \in Nat, 1 <= i, i < j, j < n, NEW k \in 0..n
  PROVE  /\ StillDone(k, i, j) \in 0..(n - (j - i))
         /\ StillDone(k, i, j) = n - (j - i) <=> k = n
         /\ k = 0 => StillDone(k, i, j) = 0
BY DEF StillDone

LEMMA MergePositions ==
  ASSUME NEW n \in Nat, NEW i \in Nat, NEW j \in Nat, 1 <= i, i < j, j < n, NEW k \in 0..n,
         NEW h \in 1..(n - (j - i))
  PROVE  /\ Before(h, i, j) \in 1..n
         /\ Before(h, i, j) <= k <=> h <= StillDone(k, i, j)
         /\ h >= StillDone(k, i, j) + 2 => Before(h, i, j) \in (k + 2)..n
         /\ Before(h, i, j) = k + 1 => h = StillDone(k, i, j) + 1
BY DEF Before, StillDone

LEMMA MergedRow ==
  ASSUME NEW p \in PlanType, NEW i \in Nat, NEW j \in Nat,
         1 <= i, i < j, j <= Len(p.order), MergeSupported(p, i, j), Chain(p.order),
         NEW rec \in RecordType, RowSound(rec, p.order)
  PROVE  LET merged == MergedPlan(p, i, j).order
         IN  /\ RowSound(rec, merged)
             /\ Done(rec.ns, merged) = StillDone(Done(rec.ns, p.order), i, j)
<1> DEFINE n == Len(p.order)
           m == n - (j - i)
           merged == MergedPlan(p, i, j).order
           k == Done(rec.ns, p.order)
           to == StillDone(k, i, j)
<1>1. n \in Nat
  BY LenProperties DEF PlanType
<1>2. /\ j < n /\ merged \in Seq(Nodes) /\ Len(merged) = m
      /\ \A h \in 1..m : merged[h] = p.order[Before(h, i, j)]
  BY MergedOrder
<1>3. k \in 0..n
  BY DEF RowSound, Walked
<1>4. /\ \A h \in 1..n : rec.ns[p.order[h]] = "success" <=> h <= k
      /\ \A h \in (k + 2)..n : rec.ns[p.order[h]] = "pending"
      /\ \A h \in 1..n : rec.ns[p.order[h]] # None
  BY DEF RowSound, Walked
<1>5. /\ rec.status = "success" <=> k = n
      /\ rec.status = "idle" => k = 0
  BY DEF RowSound
<1> HIDE DEF n, m, merged, k, to
<1>6. /\ to \in 0..m /\ (to = m <=> k = n) /\ (k = 0 => to = 0)
  <2>1. j < n
    BY <1>2
  <2>2. QED
    BY ONLY <1>1, <1>3, <2>1, 1 <= i, i < j, MergeShifts DEF to, m
<1>7. m \in Int /\ \A h \in (to + 2)..m : h \in 1..m
  BY <1>1, <1>6 DEF m
<1>8. Walked(rec.ns, merged, to)
  <2>1. ASSUME NEW h \in 1..m
        PROVE  /\ rec.ns[merged[h]] = "success" <=> h <= to
               /\ h \in (to + 2)..m => rec.ns[merged[h]] = "pending"
               /\ rec.ns[merged[h]] # None
    <3> DEFINE b == Before(h, i, j)
    <3>1. /\ merged[h] = p.order[b] /\ b \in 1..n
          /\ b <= k <=> h <= to
          /\ h >= to + 2 => b \in (k + 2)..n
      BY <1>1, <1>2, <1>3, MergePositions DEF to, m
    <3> HIDE DEF b
    <3>2. QED
      BY <1>4, <1>6, <3>1
  <2>2. \A h \in (to + 2)..m : rec.ns[merged[h]] = "pending"
    BY <1>7, <2>1
  <2>3. QED
    BY <1>2, <1>6, <2>1, <2>2 DEF Walked
<1>9. Done(rec.ns, merged) = to
  BY <1>2, <1>8, WalkedDone
<1>10. /\ rec.status = "success" <=> Done(rec.ns, merged) = Len(merged)
       /\ rec.status = "idle" => Done(rec.ns, merged) = 0
  BY <1>2, <1>5, <1>6, <1>9
<1>11. RowSound(rec, merged)
  BY <1>8, <1>9, <1>10 DEF RowSound
<1>12. QED
  BY <1>9, <1>11 DEF merged, k, to

LEMMA MergedDue ==
  ASSUME NEW p \in PlanType, NEW i \in Nat, NEW j \in Nat,
         1 <= i, i < j, j <= Len(p.order), MergeSupported(p, i, j), Chain(p.order),
         NEW rec \in RecordType, RowSound(rec, p.order), NEW m, Due(rec, m, p.order)
  PROVE  Due(rec, m, MergedPlan(p, i, j).order)
<1> DEFINE n == Len(p.order)
           merged == MergedPlan(p, i, j).order
           k == Done(rec.ns, p.order)
<1>1. n \in Nat
  BY LenProperties DEF PlanType
<1>2. /\ j < n /\ Len(merged) = n - (j - i)
      /\ \A h \in 1..(n - (j - i)) : merged[h] = p.order[Before(h, i, j)]
  BY MergedOrder
<1>3. k \in 0..n
  BY DEF RowSound, Walked
<1>4. Done(rec.ns, merged) = StillDone(k, i, j)
  BY MergedRow
<1>5. \A h \in 1..n : p.order[h] = m => h = k + 1
  BY DEF Due
<1> HIDE DEF merged, k, n
<1>7. ASSUME NEW h \in 1..(n - (j - i)), merged[h] = m
      PROVE  h = StillDone(k, i, j) + 1
  <2> DEFINE b == Before(h, i, j)
  <2>1. merged[h] = p.order[b] /\ j < n
    BY <1>2
  <2>2. b \in 1..n /\ (b = k + 1 => h = StillDone(k, i, j) + 1)
    BY ONLY <1>1, <1>3, <2>1, 1 <= i, i < j, MergePositions
  <2> HIDE DEF b
  <2>3. QED
    BY <1>5, <1>7, <2>1, <2>2
<1>8. Due(rec, m, merged)
  BY <1>2, <1>4, <1>7 DEF Due
<1>9. QED
  BY <1>8 DEF merged

-----------------------------------------------------------------------------
(* The runs of a step.                                                     *)

(* The step a settled run has to do next.                                  *)
LEMMA SettledFlies ==
  ASSUME NEW run \in RunType, NEW rec \in RecordType, NEW order \in Seq(Nodes), Chain(order),
         RowSound(rec, order), Settled(run, rec, order), ~ Terminal(run),
         NEW i \in 1..Len(order), i = run.k + 1
  PROVE  Flying(run, rec, order, i) /\ Flying(RunningAt(run, i), rec, order, i)
<1> DEFINE new == RunningAt(run, i)
           m == order[i]
<1>1. m \in Nodes /\ run.order = order /\ i \in 1..Len(run.order)
  BY DEF Settled
<1>2. ~ Terminal(rec) /\ ~ run.error /\ run.result = None
  <2>1. run.status = rec.status /\ run.error = rec.error
    BY DEF Settled
  <2>2. rec.status # "error" /\ rec.status # "success"
    BY <2>1 DEF Terminal
  <2>3. ~ rec.error
    BY <2>2 DEF RowSound
  <2>4. rec.result = None
    BY <2>2 DEF RowSound, Terminal
  <2>5. QED
    BY <2>1, <2>2, <2>3, <2>4 DEF Settled, Terminal
<1>3. Due(rec, m, order)
  BY DEF Due, Chain, Settled
<1>4. Flying(run, rec, order, i)
  BY <1>1, <1>2, <1>3 DEF Flying, Settled
<1>5. /\ new.order = run.order /\ new.status = "running" /\ new.error = run.error
      /\ new.result = run.result /\ new.ns = [run.ns EXCEPT ![m] = "running"]
  BY <1>1 DEF RunningAt, RunType
<1>6. \A x \in Nodes : x # m => new.ns[x] = run.ns[x]
  BY <1>5 DEF RunType
<1> HIDE DEF new
<1>7. ~ Terminal(new)
  BY <1>5 DEF Terminal
<1>8. \A x \in Nodes : x # m => new.ns[x] = rec.ns[x]
  BY <1>6 DEF Settled
<1>9. Flying(new, rec, order, i)
  BY <1>1, <1>2, <1>3, <1>5, <1>7, <1>8 DEF Flying
<1>10. QED
  BY <1>4, <1>9 DEF new

(* What the end of a step writes.                                          *)
LEMMA StepRecords ==
  ASSUME NEW run \in RunType, NEW rec \in RecordType, NEW order, NEW i \in 1..Len(run.order),
         Flying(run, rec, order, i), NEW res
  PROVE  /\ RunRecord(StepSucceeded(run, i, res)) = RowStep(rec, run.order[i], res)
         /\ RunRecord(StepFailed(run, i)) = RowFailed(rec, run.order[i])
<1> DEFINE m == run.order[i]
<1>1. m \in Nodes /\ (i = Len(run.order) <=> m = Result)
  BY DEF Flying, Chain, EndsInResult, RunType
<1>2. /\ run.ns \in [Nodes -> NodeState \cup {None}]
      /\ rec.ns \in [Nodes -> NodeState \cup {None}]
  BY DEF RunType, RecordType
<1>3. \A v : [run.ns EXCEPT ![m] = v] = [rec.ns EXCEPT ![m] = v]
  BY <1>2 DEF Flying
<1>4. run.error = FALSE /\ run.result = None
  BY DEF Flying, RunType
<1>5. /\ StepSucceeded(run, i, res).status = IF m = Result THEN "success" ELSE "running"
      /\ StepSucceeded(run, i, res).ns = [rec.ns EXCEPT ![m] = "success"]
      /\ StepSucceeded(run, i, res).result = IF m = Result THEN res ELSE None
      /\ StepSucceeded(run, i, res).error = FALSE
  BY <1>1, <1>3, <1>4 DEF StepSucceeded, RunType
<1>6. /\ StepFailed(run, i).status = "error"
      /\ StepFailed(run, i).ns = [rec.ns EXCEPT ![m] = "error"]
      /\ StepFailed(run, i).result = None
      /\ StepFailed(run, i).error = TRUE
  BY <1>1, <1>3, <1>4 DEF StepFailed, RunType
<1>7. QED
  BY <1>5, <1>6 DEF RunRecord, RowStep, RowFailed

(* A run that is still the plan's is settled again when its step ends.     *)
LEMMA StepSettled ==
  ASSUME NEW run \in RunType, NEW rec \in RecordType, NEW order \in Seq(Nodes), Chain(order),
         RowSound(rec, order), run.order = order, NEW i \in 1..Len(order),
         Flying(run, rec, order, i), NEW res
  PROVE  /\ Settled(StepSucceeded(run, i, res), RowStep(rec, order[i], res), order)
         /\ run.k = Done(rec.ns, order)
              => Settled(StepFailed(run, i), RowFailed(rec, order[i]), order)
<1> DEFINE m   == order[i]
           ok  == StepSucceeded(run, i, res)
           bad == StepFailed(run, i)
<1>1. m \in Nodes /\ (i = Len(order) <=> m = Result) /\ i = Done(rec.ns, order) + 1
  BY DEF Flying, Chain, EndsInResult, Due
<1>2. Due(rec, m, order) /\ ~ Terminal(rec) /\ ~ run.error
  BY DEF Flying
<1>3. /\ RunRecord(ok) = RowStep(rec, m, res) /\ RunRecord(bad) = RowFailed(rec, m)
  BY StepRecords
<1>4. /\ ok.ns = RowStep(rec, m, res).ns /\ ok.status = RowStep(rec, m, res).status
      /\ ok.error = RowStep(rec, m, res).error /\ ok.result = RowStep(rec, m, res).result
  BY <1>3 DEF RunRecord
<1>5. /\ bad.ns = RowFailed(rec, m).ns /\ bad.status = RowFailed(rec, m).status
      /\ bad.error = RowFailed(rec, m).error /\ bad.result = RowFailed(rec, m).result
  BY <1>3 DEF RunRecord
<1>6. /\ ok.order = order /\ ok.k = i /\ ok.next = NodeAt(order, i + 1)
      /\ bad.order = order /\ bad.k = run.k
  BY DEF StepSucceeded, StepFailed, RunType
<1>7. RowStep(rec, m, res).error = FALSE
  BY DEF RowStep
<1>8. Done(RowStep(rec, m, res).ns, order) = i
  <2>1. RowStep(rec, m, res).ns = [rec.ns EXCEPT ![m] = "success"]
    BY DEF RowStep
  <2>2. QED
    BY <1>1, <1>2, <2>1, StepWalks
<1>9. /\ Done(RowFailed(rec, m).ns, order) = Done(rec.ns, order)
  BY <1>1, <1>2, RowFails
<1>10. /\ RowFailed(rec, m).error = TRUE /\ RowFailed(rec, m).result = None
       /\ RowFailed(rec, m).status = "error"
  BY DEF RowFailed
<1> HIDE DEF ok, bad, m
<1>11. Settled(ok, RowStep(rec, m, res), order)
  BY <1>4, <1>6, <1>7, <1>8 DEF Settled
<1>12. run.k = Done(rec.ns, order) => Settled(bad, RowFailed(rec, m), order)
  BY <1>5, <1>6, <1>9, <1>10 DEF Settled, Terminal
<1>13. QED
  BY <1>11, <1>12 DEF ok, bad, m

-----------------------------------------------------------------------------
(* What a step of the service does to runs, rows and orders: every action  *)
(* is one of the four kinds below, and each property is shown of the kinds. *)

(* The clients and the database this is about.                             *)
OneAtATime == Serial /\ ~ DbMayFail /\ MaxGenerates = 0

(* What StepByStep allows of a run in memory.                              *)
Advances(old, new) ==
    /\ new.order = old.order
    /\ \/ new.k = old.k /\ (Terminal(old) => new = old)
       \/ new.k = old.k + 1 /\ ~ Terminal(old)
       \/ new = ResetRun(old)

(* A row at the start of its run.                                          *)
Starts(rec, order) ==
    /\ rec.ns = [m \in Nodes |-> IF \E h \in 1..Len(order) : order[h] = m THEN "pending" ELSE None]
    /\ rec.status = "idle" /\ rec.error = FALSE /\ rec.result = None

Ends(rec, new, order) ==
    /\ rec # None /\ ~ Terminal(rec)
    /\ \E m \in Nodes, res \in Executed \cup {None} :
          Due(rec, m, order) /\ new \in {RowStep(rec, m, res), RowFailed(rec, m)}

(* The row old of r becomes rec.                                           *)
RowMoves(old, rec, order) ==
    \/ rec = old /\ old # None
    \/ Starts(rec, order)
    \/ Ends(old, rec, order)

(* The plan's row stays, or the last step of a run saved the plan.         *)
RowSaved(old, rec, order) ==
    \/ dbPlan' = dbPlan
    \/ /\ dbPlan' # None /\ dbPlan'.order = order
       /\ old # None /\ ~ Terminal(old) /\ Due(old, Result, order)
       /\ \E res \in Executed \cup {None} : rec = RowStep(old, Result, res)

Shown(r, o, run) ==
    \/ \E p \in PlanType : plan' = RunApplied(p, r, run)
    \/ plan' = plan /\ store[r] = o /\ heap[o] = run

(* The request req is over, or waits with the object o of r.               *)
Waits(req, r, o, run, rec, order) ==
    \/ req.obj = None /\ req.run \in {None, r}
    \/ /\ req.obj = o /\ req.run = r
       /\ Flying(run, rec, order, req.i)
       /\ req.phase = "exec" <=> run.order[req.i] = Result
       /\ store'[r] = o => req.i = run.k + 1

(* A handler works on the run r: its object o becomes run, its row rec; T  *)
(* is the request in flight that does it, if one does.                     *)
Moved(T, r, o, run, rec) ==
    /\ o \in Objs /\ T \subseteq Threads /\ \A t, u \in T : t = u
    /\ Loaded # None /\ plan' # None /\ plan'.order = Loaded.order
    /\ dbRun' = [dbRun EXCEPT ![r] = rec]
    /\ RowMoves(dbRun[r], rec, Loaded.order) /\ RowSaved(dbRun[r], rec, Loaded.order)
    /\ \A s \in Runs : s # r => store'[s] = store[s] /\ store[s] # o
    /\ store[r] \in {None, o} /\ store'[r] \in {None, o} /\ (store[r] = o => store'[r] = o)
    /\ \A x \in Referenced(store', thr') : heap'[x] = IF x = o THEN run ELSE heap[x]
    /\ \A u \in Threads \ T : thr'[u] = thr[u] /\ thr[u].run # r /\ thr[u].obj # o
    /\ \A t \in T : /\ thr[t].obj \in {None, o}
                    /\ Waits(thr'[t], r, o, run, rec, Loaded.order)
    /\ store'[r] = o
          => IF \E t \in T : thr'[t].phase = "exec" /\ thr'[t].obj = o
             THEN Executing(run, rec, Loaded.order)
             ELSE Settled(run, rec, Loaded.order)
    /\ store[r] = o => Advances(heap[o], run)
    /\ Shown(r, o, run)

(* An edit or a merge.                                                     *)
Replanned ==
    /\ Loaded # None /\ plan' # None /\ dbPlan' # None /\ plan'.order = dbPlan'.order
    /\ \/ plan'.order = Loaded.order
       \/ \E i, j \in Nat : /\ 1 <= i /\ i < j /\ j <= Len(Loaded.order)
                            /\ MergeSupported(Loaded, i, j)
                            /\ plan'.order = MergedPlan(Loaded, i, j).order
    /\ store' = [r \in Runs |-> None]
    /\ thr' = thr /\ dbRun' = dbRun
    /\ \A u \in Threads : thr[u].obj # None => heap'[thr[u].obj] = heap[thr[u].obj]

(* Nothing happens to runs and orders.                                     *)
Quiet ==
    /\ plan' # None => Loaded # None /\ plan'.order = Loaded.order
    /\ plan # None => /\ plan' # None
                      /\ plan'.runStatus = plan.runStatus
                      /\ \A m \in Nodes : m # Result => plan'.st[m] = plan.st[m]
    /\ \/ dbPlan' = dbPlan
       \/ Loaded # None /\ dbPlan' # None /\ dbPlan'.order = Loaded.order
    /\ store' = store /\ heap' = heap /\ dbRun' = dbRun
    /\ \A u \in Threads : \/ thr'[u] = thr[u]
                          \/ thr[u].obj = None /\ thr'[u].obj = None /\ thr'[u].run = None

Kinds ==
    \/ \E T \in SUBSET Threads, r \in Runs, o \in Objs, run \in RunType, rec \in RecordType :
           Moved(T, r, o, run, rec)
    \/ Replanned
    \/ Quiet
    \/ Restart

-----------------------------------------------------------------------------
(* The kinds keep the invariant.                                           *)

LEMMA LoadedChain ==
  ASSUME TypeInv, SerialInv, Loaded # None
  PROVE  /\ Loaded \in PlanType /\ Loaded.order \in Seq(Nodes) /\ Chain(Loaded.order)
         /\ \A r \in Runs : dbRun[r] # None => dbRun[r] \in RecordType /\ RowSound(dbRun[r], Loaded.order)
         /\ plan # None => plan.order = Loaded.order
<1>1. Loaded \in PlanType
  BY LoadedType
<1>2. QED
  BY <1>1 DEF PlanType, SerialInv, Plans, Rows, Loaded, TypeInv, TypeOK

LEMMA MovedRow ==
  ASSUME NEW old, NEW rec, NEW order \in Seq(Nodes), Chain(order), RowMoves(old, rec, order),
         old # None => old \in RecordType /\ RowSound(old, order)
  PROVE  RowSound(rec, order)
<1>1. CASE rec = old /\ old # None
  BY <1>1
<1>2. CASE Starts(rec, order)
  BY <1>2, RowStarts DEF Starts
<1>3. CASE Ends(old, rec, order)
  BY <1>3, RowSucceeds, RowFails DEF Ends
<1>4. QED
  BY <1>1, <1>2, <1>3 DEF RowMoves

LEMMA MovedPlans ==
  ASSUME TypeInv, SerialInv, TypeInv', NEW T, NEW r \in Runs, NEW o, NEW run, NEW rec \in RecordType,
         Moved(T, r, o, run, rec)
  PROVE  /\ Plans' /\ Rows'
         /\ Loaded' = plan' /\ Loaded' # None /\ Loaded'.order = Loaded.order
<1>1. Loaded # None /\ plan' # None /\ plan'.order = Loaded.order
  BY DEF Moved
<1>2. /\ Loaded.order \in Seq(Nodes) /\ Chain(Loaded.order)
      /\ \A s \in Runs : dbRun[s] # None
             => dbRun[s] \in RecordType /\ RowSound(dbRun[s], Loaded.order)
  BY <1>1, LoadedChain
<1>3. dbPlan' # None => dbPlan'.order = Loaded.order
  BY DEF Moved, RowSaved, Loaded, SerialInv, Plans
<1>4. Plans'
  BY <1>1, <1>2, <1>3 DEF Plans
<1>5. Loaded' = plan' /\ Loaded' # None /\ Loaded'.order = Loaded.order
  BY <1>1 DEF Loaded
<1>6. RowSound(rec, Loaded.order)
  BY <1>2, MovedRow DEF Moved
<1>7. Rows'
  <2>1. SUFFICES ASSUME NEW s \in Runs, dbRun'[s] # None
                 PROVE  RowSound(dbRun'[s], Loaded.order)
    BY <1>5 DEF Rows
  <2>2. dbRun'[s] = IF s = r THEN rec ELSE dbRun[s]
    BY DEF Moved, TypeInv, TypeOK
  <2>3. QED
    BY <1>2, <1>6, <2>1, <2>2
<1>8. QED
  BY <1>4, <1>5, <1>7

(* What a handler on r and its object o leaves to the others.              *)
Alone(T, r, o) ==
    /\ \A u \in Threads \ T : thr'[u] = thr[u] /\ thr[u].run # r /\ thr[u].obj # o
    /\ \A t \in T : /\ thr[t].obj \in {None, o} /\ t \in Threads
                    /\ thr'[t].obj \in {None, o} /\ thr'[t].run \in {None, r}
                    /\ thr'[t].obj # None => thr'[t].run = r
    /\ \A t, u \in T : t = u
    /\ \A s \in Runs : s # r => store'[s] = store[s] /\ store[s] # o
    /\ store[r] \in {None, o} /\ store'[r] \in {None, o} /\ (store[r] = o => store'[r] = o)
    /\ o # None /\ o \in Objs

LEMMA MovedAlone ==
  ASSUME TypeInv, SerialInv, NEW T, NEW r \in Runs, NEW o, NEW run, NEW rec,
         Moved(T, r, o, run, rec)
  PROVE  Alone(T, r, o)
<1>1. o \in Objs /\ o # None
  BY DEF Moved
<1>2. \A t \in T : Waits(thr'[t], r, o, run, rec, Loaded.order)
  BY DEF Moved
<1>3. \A t \in T : /\ thr'[t].obj \in {None, o} /\ thr'[t].run \in {None, r}
                   /\ thr'[t].obj # None => thr'[t].run = r
  BY <1>2 DEF Waits
<1>4. QED
  BY <1>1, <1>3 DEF Moved, Alone

LEMMA MovedOwners ==
  ASSUME TypeInv, SerialInv, NEW T, NEW r \in Runs, NEW o, NEW run, NEW rec,
         Moved(T, r, o, run, rec)
  PROVE  Owners'
<1>1. Alone(T, r, o)
  BY MovedAlone
<1>2. /\ \A x, s \in Runs : store[x] # None /\ store[x] = store[s] => x = s
      /\ \A t \in Threads, x \in Runs :
            thr[t].obj # None => (store[x] = thr[t].obj <=> x = thr[t].run /\ store[x] # None)
      /\ \A t, u \in Threads : thr[t].obj # None /\ thr[t].obj = thr[u].obj => t = u
      /\ \A t, u \in Threads : thr[t].run # None /\ thr[t].run = thr[u].run => t = u
  BY DEF SerialInv, Owners
<1>3. ASSUME NEW x \in Runs, NEW s \in Runs, store'[x] # None, store'[x] = store'[s]
      PROVE  x = s
  BY <1>1, <1>2, <1>3 DEF Alone
<1>4. ASSUME NEW t \in Threads, NEW x \in Runs, thr'[t].obj # None
      PROVE  store'[x] = thr'[t].obj <=> x = thr'[t].run /\ store'[x] # None
  <2>1. CASE t \in T
    BY <1>1, <1>4, <2>1 DEF Alone
  <2>2. CASE t \notin T
    BY <1>1, <1>2, <1>4, <2>2 DEF Alone
  <2>3. QED
    BY <2>1, <2>2
<1>5. ASSUME NEW t \in Threads, NEW u \in Threads, thr'[t].obj # None, thr'[t].obj = thr'[u].obj
      PROVE  t = u
  BY <1>1, <1>2, <1>5 DEF Alone
<1>6. ASSUME NEW t \in Threads, NEW u \in Threads, thr'[t].run # None, thr'[t].run = thr'[u].run
      PROVE  t = u
  BY <1>1, <1>2, <1>6 DEF Alone
<1>7. QED
  BY <1>3, <1>4, <1>5, <1>6 DEF Owners

LEMMA MovedStored ==
  ASSUME TypeInv, SerialInv, TypeInv', NEW T, NEW r \in Runs, NEW o, NEW run, NEW rec \in RecordType,
         Moved(T, r, o, run, rec)
  PROVE  Stored'
<1>1. Alone(T, r, o)
  BY MovedAlone
<1>2. /\ \A x \in Referenced(store', thr') : heap'[x] = IF x = o THEN run ELSE heap[x]
      /\ plan'.order = Loaded.order /\ Loaded # None
      /\ dbRun' = [dbRun EXCEPT ![r] = rec]
  BY DEF Moved
<1>3. \A s \in Runs : dbRun'[s] = IF s = r THEN rec ELSE dbRun[s]
  BY <1>2 DEF TypeInv, TypeOK
<1>4. rec # None
  BY NoneAssumption
<1>5. ASSUME NEW s \in Runs, store'[s] # None
      PROVE  heap'[store'[s]] = IF store'[s] = o THEN run ELSE heap[store'[s]]
  <2>1. store'[s] \in Objs
    BY <1>5 DEF TypeInv, TypeOK
  <2>2. store'[s] \in Referenced(store', thr')
    BY <2>1 DEF Referenced
  <2>3. QED
    BY <1>2, <2>2
<1>6. SUFFICES ASSUME NEW s \in Runs, store'[s] # None
      PROVE  /\ dbRun'[s] # None
             /\ IF \E t \in Threads : thr'[t].phase = "exec" /\ thr'[t].obj = store'[s]
                THEN Executing(heap'[store'[s]], dbRun'[s], plan'.order)
                ELSE Settled(heap'[store'[s]], dbRun'[s], plan'.order)
  BY DEF Stored, Awaited
<1>7. CASE s = r
  <2>1. store'[r] = o /\ heap'[store'[s]] = run /\ dbRun'[s] = rec
    BY <1>1, <1>3, <1>5, <1>6, <1>7 DEF Alone
  <2>2. (\E t \in Threads : thr'[t].phase = "exec" /\ thr'[t].obj = store'[s])
           <=> \E t \in T : thr'[t].phase = "exec" /\ thr'[t].obj = o
    BY <1>1, <1>7, <2>1 DEF Alone
  <2>3. IF \E t \in T : thr'[t].phase = "exec" /\ thr'[t].obj = o
        THEN Executing(run, rec, Loaded.order) ELSE Settled(run, rec, Loaded.order)
    BY <2>1 DEF Moved
  <2>4. QED
    BY <1>2, <1>4, <2>1, <2>2, <2>3
<1>8. CASE s # r
  <2>1. store'[s] = store[s] /\ store[s] # o /\ dbRun'[s] = dbRun[s]
    BY <1>1, <1>3, <1>8 DEF Alone
  <2>2. heap'[store'[s]] = heap[store[s]]
    BY <1>5, <1>6, <2>1
  <2>3. plan # None /\ plan'.order = plan.order
    BY <1>2, <1>6, <2>1, LoadedChain DEF TypeInv, Loadedness
  <2>4. (\E t \in Threads : thr'[t].phase = "exec" /\ thr'[t].obj = store'[s]) <=> Awaited(store[s])
    BY <1>1, <1>6, <2>1 DEF Awaited, Alone
  <2>5. dbRun[s] # None /\ IF Awaited(store[s]) THEN Executing(heap[store[s]], dbRun[s], plan.order)
                           ELSE Settled(heap[store[s]], dbRun[s], plan.order)
    BY <1>6, <2>1 DEF SerialInv, Stored
  <2>6. QED
    BY <2>1, <2>2, <2>3, <2>4, <2>5
<1>9. QED
  BY <1>7, <1>8

LEMMA MovedFlights ==
  ASSUME TypeInv, SerialInv, TypeInv', NEW T, NEW r \in Runs, NEW o, NEW run, NEW rec \in RecordType,
         Moved(T, r, o, run, rec)
  PROVE  Flights'
<1>1. Alone(T, r, o)
  BY MovedAlone
<1>2. /\ \A x \in Referenced(store', thr') : heap'[x] = IF x = o THEN run ELSE heap[x]
      /\ plan'.order = Loaded.order /\ Loaded # None
      /\ dbRun' = [dbRun EXCEPT ![r] = rec]
  BY DEF Moved
<1>3. \A s \in Runs : dbRun'[s] = IF s = r THEN rec ELSE dbRun[s]
  BY <1>2 DEF TypeInv, TypeOK
<1>4. rec # None
  BY NoneAssumption
<1>5. SUFFICES ASSUME NEW t \in Threads, thr'[t].obj # None
      PROVE  /\ dbRun'[thr'[t].run] # None
             /\ Flying(heap'[thr'[t].obj], dbRun'[thr'[t].run], plan'.order, thr'[t].i)
             /\ thr'[t].phase = "exec" <=> heap'[thr'[t].obj].order[thr'[t].i] = Result
             /\ store'[thr'[t].run] # None => thr'[t].i = heap'[thr'[t].obj].k + 1
  BY DEF Flights
<1>6. heap'[thr'[t].obj] = IF thr'[t].obj = o THEN run ELSE heap[thr'[t].obj]
  <2>1. thr'[t].obj \in Objs
    BY <1>5 DEF TypeInv, TypeOK, RequestType
  <2>2. thr'[t].obj \in Referenced(store', thr')
    BY <2>1 DEF Referenced
  <2>3. QED
    BY <1>2, <2>2
<1>7. CASE t \in T
  <2>1. Waits(thr'[t], r, o, run, rec, Loaded.order) /\ thr'[t].obj = o
    BY <1>1, <1>5, <1>7 DEF Moved, Alone
  <2>2. /\ thr'[t].run = r /\ Flying(run, rec, Loaded.order, thr'[t].i)
        /\ thr'[t].phase = "exec" <=> run.order[thr'[t].i] = Result
        /\ store'[r] = o => thr'[t].i = run.k + 1
    BY <1>1, <2>1 DEF Waits, Alone
  <2>3. store'[r] \in {None, o} /\ heap'[thr'[t].obj] = run /\ dbRun'[thr'[t].run] = rec
    BY <1>1, <1>3, <1>6, <2>1, <2>2 DEF Alone
  <2>4. QED
    BY <1>2, <1>4, <2>2, <2>3
<1>8. CASE t \notin T
  <2>1. thr'[t] = thr[t] /\ thr[t].run # r /\ thr[t].obj # o /\ thr[t].obj # None
    BY <1>1, <1>5, <1>8 DEF Alone
  <2>2. thr[t].run \in Runs /\ plan # None
    <3>1. thr[t].phase # "idle"
      BY <2>1 DEF TypeInv, RequestSound
    <3>2. QED
      BY <2>1, <3>1, WaitingSound, NoneAssumption
  <2>3. heap'[thr'[t].obj] = heap[thr[t].obj] /\ dbRun'[thr'[t].run] = dbRun[thr[t].run]
        /\ store'[thr'[t].run] = store[thr[t].run]
    BY <1>1, <1>3, <1>6, <2>1, <2>2 DEF Alone
  <2>4. plan'.order = plan.order
    BY <1>2, <2>2, LoadedChain
  <2>5. /\ dbRun[thr[t].run] # None
        /\ Flying(heap[thr[t].obj], dbRun[thr[t].run], plan.order, thr[t].i)
        /\ thr[t].phase = "exec" <=> heap[thr[t].obj].order[thr[t].i] = Result
        /\ store[thr[t].run] # None => thr[t].i = heap[thr[t].obj].k + 1
    BY <2>1 DEF SerialInv, Flights
  <2>6. QED
    BY <2>1, <2>3, <2>4, <2>5
<1>9. QED
  BY <1>7, <1>8

LEMMA MovedKeeps ==
  ASSUME TypeInv, SerialInv, TypeInv', NEW T, NEW r \in Runs, NEW o, NEW run, NEW rec \in RecordType,
         Moved(T, r, o, run, rec)
  PROVE  SerialInv'
BY MovedPlans, MovedOwners, MovedStored, MovedFlights DEF SerialInv

(* An edit and a merge leave a row as done as it was, and a step under way *)
(* due: a merge shifts both alike.                                         *)
LEMMA ReplannedRow ==
  ASSUME TypeInv, SerialInv, Replanned
  PROVE  /\ Chain(plan'.order)
         /\ \A r \in Runs : dbRun[r] # None => RowSound(dbRun[r], plan'.order)
         /\ \A r \in Runs, m \in Nodes : dbRun[r] # None /\ Due(dbRun[r], m, Loaded.order)
               => Due(dbRun[r], m, plan'.order)
<1>1. /\ Loaded \in PlanType /\ Chain(Loaded.order)
      /\ \A r \in Runs : dbRun[r] # None
             => dbRun[r] \in RecordType /\ RowSound(dbRun[r], Loaded.order)
  BY LoadedChain DEF Replanned
<1>2. CASE plan'.order = Loaded.order
  BY <1>1, <1>2
<1>3. CASE \E i, j \in Nat : /\ 1 <= i /\ i < j /\ j <= Len(Loaded.order)
                             /\ MergeSupported(Loaded, i, j)
                             /\ plan'.order = MergedPlan(Loaded, i, j).order
  <2> DEFINE p == Loaded
  <2>1. /\ p \in PlanType /\ Chain(p.order)
        /\ \A r \in Runs : dbRun[r] # None => dbRun[r] \in RecordType /\ RowSound(dbRun[r], p.order)
    BY <1>1
  <2>2. PICK i \in Nat, j \in Nat : /\ 1 <= i /\ i < j /\ j <= Len(p.order)
                                    /\ MergeSupported(p, i, j)
                                    /\ plan'.order = MergedPlan(p, i, j).order
    BY <1>3
  <2> HIDE DEF p
  <2>3. Chain(plan'.order)
    BY <2>1, <2>2, MergedChain
  <2>4. \A r \in Runs : dbRun[r] # None => RowSound(dbRun[r], plan'.order)
    BY <2>1, <2>2, MergedRow
  <2>5. \A r \in Runs, m \in Nodes : dbRun[r] # None /\ Due(dbRun[r], m, p.order)
               => Due(dbRun[r], m, plan'.order)
    BY <2>1, <2>2, MergedDue
  <2>6. QED
    BY <2>3, <2>4, <2>5 DEF p
<1>4. QED
  BY <1>2, <1>3 DEF Replanned

LEMMA ReplannedKeeps ==
  ASSUME TypeInv, SerialInv, TypeInv', Replanned
  PROVE  SerialInv'
<1>1. /\ plan' # None /\ dbPlan' # None /\ plan'.order = dbPlan'.order
      /\ store' = [r \in Runs |-> None] /\ thr' = thr /\ dbRun' = dbRun
      /\ \A u \in Threads : thr[u].obj # None => heap'[thr[u].obj] = heap[thr[u].obj]
  BY DEF Replanned
<1>2. /\ Chain(plan'.order)
      /\ \A r \in Runs : dbRun[r] # None => RowSound(dbRun[r], plan'.order)
      /\ \A r \in Runs, m \in Nodes : dbRun[r] # None /\ Due(dbRun[r], m, Loaded.order)
               => Due(dbRun[r], m, plan'.order)
  BY ReplannedRow
<1>3. Plans' /\ Rows' /\ Stored'
  BY <1>1, <1>2 DEF Plans, Rows, Stored, Loaded
<1>4. Owners'
  BY <1>1 DEF SerialInv, Owners
<1>5. Flights'
  <2>1. SUFFICES ASSUME NEW t \in Threads, thr[t].obj # None
        PROVE  /\ dbRun[thr[t].run] # None
               /\ Flying(heap[thr[t].obj], dbRun[thr[t].run], plan'.order, thr[t].i)
               /\ thr[t].phase = "exec" <=> heap[thr[t].obj].order[thr[t].i] = Result
               /\ thr[t].run \in Runs
    BY <1>1 DEF Flights
  <2>2. thr[t].phase # "idle"
    BY <2>1 DEF TypeInv, RequestSound
  <2>3. /\ plan \in PlanType /\ thr[t].run \in Runs /\ heap[thr[t].obj] \in RunType
        /\ thr[t].i \in 1..Len(heap[thr[t].obj].order)
    BY <2>1, <2>2, WaitingSound
  <2>4. Loaded # None /\ plan.order = Loaded.order
    BY <2>3, LoadedChain, NoneAssumption DEF Loaded
  <2>5. /\ dbRun[thr[t].run] # None
        /\ Flying(heap[thr[t].obj], dbRun[thr[t].run], Loaded.order, thr[t].i)
        /\ thr[t].phase = "exec" <=> heap[thr[t].obj].order[thr[t].i] = Result
    BY <2>1, <2>4 DEF SerialInv, Flights
  <2>6. heap[thr[t].obj].order[thr[t].i] \in Nodes
    BY <2>3, SMTT(60) DEF RunType
  <2>7. QED
    BY <1>2, <2>3, <2>5, <2>6 DEF Flying
<1>6. QED
  BY <1>3, <1>4, <1>5 DEF SerialInv

LEMMA QuietKeeps ==
  ASSUME TypeInv, SerialInv, TypeInv', Quiet
  PROVE  SerialInv'
<1>1. /\ store' = store /\ heap' = heap /\ dbRun' = dbRun
      /\ \A u \in Threads : \/ thr'[u] = thr[u]
                            \/ thr[u].obj = None /\ thr'[u].obj = None /\ thr'[u].run = None
  BY DEF Quiet
<1>2. /\ plan' # None => Loaded # None /\ plan'.order = Loaded.order
      /\ dbPlan' # None => Loaded # None /\ dbPlan'.order = Loaded.order
      /\ plan # None => plan' # None
  BY DEF Quiet, Loaded, SerialInv, Plans
<1>3. Loaded # None => Chain(Loaded.order)
  BY LoadedChain
<1>4. Loaded' # None => Loaded # None /\ Loaded'.order = Loaded.order
  BY <1>2 DEF Loaded
<1>5. plan # None => plan'.order = plan.order
  BY <1>2, LoadedChain
<1>6. Plans' /\ Rows'
  BY <1>1, <1>2, <1>3, <1>4 DEF SerialInv, Plans, Rows
<1>7. Owners'
  BY <1>1 DEF SerialInv, Owners
<1>8. \A u \in Threads : thr'[u].obj # None => thr'[u] = thr[u]
  BY <1>1
<1>9. \A u \in Threads : thr[u].obj # None => thr'[u] = thr[u]
  BY <1>1
<1>10. Stored'
  <2>1. SUFFICES ASSUME NEW r \in Runs, store[r] # None
        PROVE  /\ dbRun[r] # None
               /\ IF Awaited(store[r])' THEN Executing(heap[store[r]], dbRun[r], plan'.order)
                  ELSE Settled(heap[store[r]], dbRun[r], plan'.order)
    BY <1>1 DEF Stored
  <2>2. Awaited(store[r])' <=> Awaited(store[r])
    BY <1>1, <1>8, <1>9, <2>1 DEF Awaited
  <2>3. plan'.order = plan.order
    BY <1>5, <2>1 DEF TypeInv, Loadedness
  <2>4. QED
    BY <2>1, <2>2, <2>3 DEF SerialInv, Stored
<1>11. Flights'
  <2>1. SUFFICES ASSUME NEW t \in Threads, thr'[t].obj # None
        PROVE  /\ dbRun[thr[t].run] # None
               /\ Flying(heap[thr[t].obj], dbRun[thr[t].run], plan'.order, thr[t].i)
               /\ thr[t].phase = "exec" <=> heap[thr[t].obj].order[thr[t].i] = Result
               /\ store[thr[t].run] # None => thr[t].i = heap[thr[t].obj].k + 1
    BY <1>1, <1>8 DEF Flights
  <2>2. thr[t].obj # None
    BY <1>8, <2>1
  <2>3. plan'.order = plan.order
    BY <1>5, <2>2 DEF TypeInv, Loadedness, RequestSound
  <2>4. QED
    BY <2>2, <2>3 DEF SerialInv, Flights
<1>12. QED
  BY <1>6, <1>7, <1>10, <1>11 DEF SerialInv

LEMMA RestartKeepsSerial ==
  ASSUME TypeInv, SerialInv, Restart
  PROVE  SerialInv'
<1>1. /\ plan' = None /\ store' = [r \in Runs |-> None]
      /\ thr' = [t \in Threads |-> Idle] /\ dbPlan' = dbPlan /\ dbRun' = dbRun
  BY DEF Restart
<1>2. Idle.obj = None /\ Idle.run = None
  BY DEF Idle
<1>3. \A t \in Threads : thr'[t].obj = None /\ thr'[t].run = None
  BY <1>1, <1>2
<1>4. Owners' /\ Stored' /\ Flights'
  BY <1>1, <1>3 DEF Owners, Stored, Flights
<1>5. Plans'
  BY <1>1 DEF SerialInv, Plans
<1>6. Rows'
  BY <1>1 DEF SerialInv, Plans, Rows, Loaded
<1>7. QED
  BY <1>4, <1>5, <1>6 DEF SerialInv

LEMMA KindsKeep ==
  ASSUME TypeInv, SerialInv, TypeInv', Kinds
  PROVE  SerialInv'
BY MovedKeeps, ReplannedKeeps, QuietKeeps, RestartKeepsSerial DEF Kinds

-----------------------------------------------------------------------------
(* Every handler is of one of the kinds: runs.                             *)

(* What a handler knows of the run it opened when no other request has it. *)
SettledOpening(r, op) ==
    /\ op.obj \in Objs /\ op.run \in RunType /\ op.plan \in PlanType
    /\ Loaded # None /\ op.plan.order = Loaded.order
    /\ Loaded.order \in Seq(Nodes) /\ Chain(Loaded.order)
    /\ dbRun[r] \in RecordType /\ RowSound(dbRun[r], Loaded.order)
    /\ Settled(op.run, dbRun[r], Loaded.order)
    /\ \A s \in Runs : s # r => store[s] # op.obj
    /\ \A u \in Threads : thr[u].obj # op.obj
    /\ store[r] \in {None, op.obj}
    /\ IF store[r] = None THEN op.plan = RunApplied(Loaded, r, op.run)
       ELSE op.plan = plan /\ op.run = heap[op.obj]

LEMMA OpenedSettled ==
  ASSUME TypeInv, SerialInv, NEW r \in Runs, CanOpen(r),
         \A u \in Threads : thr[u].run = r => thr[u].obj = None
  PROVE  SettledOpening(r, Opened(r))
<1> DEFINE op == Opened(r)
<1>1. op.obj \in Objs /\ op.run \in RunType /\ op.plan \in PlanType
  BY OpenedSound DEF SoundOpening
<1>2. Loaded # None
  BY DEF CanOpen, Loaded, TypeInv, Loadedness
<1>3. /\ Loaded \in PlanType /\ Loaded.order \in Seq(Nodes) /\ Chain(Loaded.order)
      /\ \A s \in Runs : dbRun[s] # None => dbRun[s] \in RecordType /\ RowSound(dbRun[s], Loaded.order)
      /\ plan # None => plan.order = Loaded.order
  BY <1>2, LoadedChain
<1>4. CASE store[r] # None
  <2>1. op.obj = store[r] /\ op.run = heap[store[r]] /\ op.plan = plan /\ plan # None
    BY <1>4 DEF Opened, TypeInv, Loadedness
  <2>2. \A u \in Threads : thr[u].obj # op.obj
    <3>1. SUFFICES ASSUME NEW u \in Threads, thr[u].obj = store[r] PROVE FALSE
      BY <2>1
    <3>2. r = thr[u].run
      BY <1>4, <3>1 DEF SerialInv, Owners
    <3>3. QED
      BY <1>4, <3>1, <3>2
  <2>3. \A s \in Runs : s # r => store[s] # op.obj
    BY <1>4, <2>1 DEF SerialInv, Owners
  <2>4. ~ Awaited(store[r])
    BY <2>1, <2>2 DEF Awaited
  <2>5. dbRun[r] # None /\ Settled(op.run, dbRun[r], Loaded.order)
    BY <1>3, <1>4, <2>1, <2>4 DEF SerialInv, Stored
  <2> HIDE DEF op
  <2>6. SettledOpening(r, op)
    BY <1>1, <1>2, <1>3, <1>4, <2>1, <2>2, <2>3, <2>5 DEF SettledOpening
  <2>7. QED
    BY <2>6 DEF op
<1>5. CASE store[r] = None
  <2>1. /\ dbRun[r] # None /\ Free # {}
        /\ op.obj = NewObj /\ op.run = RestoredRun(dbRun[r], Loaded)
        /\ op.plan = RunApplied(Loaded, r, op.run)
    BY <1>5 DEF Opened, CanOpen
  <2>2. op.obj \notin Referenced(store, thr)
    BY <2>1, NewObjIsFree DEF Free
  <2>3. (\A s \in Runs : store[s] # op.obj) /\ (\A u \in Threads : thr[u].obj # op.obj)
    BY <1>1, <2>2 DEF Referenced
  <2>4. Settled(op.run, dbRun[r], Loaded.order)
    BY <1>3, <2>1, RestoredSettled
  <2>5. op.plan.order = Loaded.order
    BY <1>3, <2>1 DEF RunApplied, PlanType
  <2> HIDE DEF op
  <2>6. SettledOpening(r, op)
    BY <1>1, <1>2, <1>3, <1>5, <2>1, <2>3, <2>4, <2>5 DEF SettledOpening
  <2>7. QED
    BY <2>6 DEF op
<1>6. QED
  BY <1>4, <1>5

(* The common end of every step of an opened run.                          *)
LEMMA StepMoves ==
  ASSUME TypeInv, SerialInv, NEW t \in Threads, NEW r \in Runs, NEW op, SettledOpening(r, op),
         thr[t].obj = None, \A u \in Threads : u # t => thr[u].run # r,
         store' = [store EXCEPT ![r] = op.obj], dbPlan' = dbPlan,
         NEW run \in RunType, NEW rec \in RecordType, NEW req,
         Put(r, op.obj, run, t, req), dbRun' = [dbRun EXCEPT ![r] = rec],
         RowMoves(dbRun[r], rec, Loaded.order),
         Waits(req, r, op.obj, run, rec, Loaded.order),
         IF req.phase = "exec" /\ req.obj = op.obj THEN Executing(run, rec, Loaded.order)
         ELSE Settled(run, rec, Loaded.order),
         Advances(op.run, run),
         plan' = RunApplied(op.plan, r, run) \/ (plan' = op.plan /\ run = op.run)
  PROVE  Moved({t}, r, op.obj, run, rec)
<1> DEFINE o == op.obj
<1>1. /\ o \in Objs /\ op.plan \in PlanType /\ Loaded # None /\ op.plan.order = Loaded.order
      /\ \A s \in Runs : s # r => store[s] # o
      /\ \A u \in Threads : thr[u].obj # o
      /\ store[r] \in {None, o}
      /\ IF store[r] = None THEN op.plan = RunApplied(Loaded, r, op.run)
         ELSE op.plan = plan /\ op.run = heap[o]
  BY DEF SettledOpening
<1>2. store \in [Runs -> Objs \cup {None}] /\ heap \in [Objs -> RunType]
      /\ thr \in [Threads -> RequestType]
  BY DEF TypeInv, TypeOK
<1>3. /\ thr' = [thr EXCEPT ![t] = req]
      /\ heap' = Swept([heap EXCEPT ![o] = run], store', thr')
  BY DEF Put
<1>4. store' = [store EXCEPT ![r] = o] /\ Put(r, o, run, t, req)
      /\ Waits(req, r, o, run, rec, Loaded.order)
      /\ IF req.phase = "exec" /\ req.obj = o THEN Executing(run, rec, Loaded.order)
         ELSE Settled(run, rec, Loaded.order)
  OBVIOUS
<1> HIDE DEF o
<1>5. \A x \in Referenced(store', thr') : heap'[x] = IF x = o THEN run ELSE heap[x]
  <2> DEFINE h1 == [heap EXCEPT ![o] = run]
  <2>1. \A x \in Objs : h1[x] = IF x = o THEN run ELSE heap[x]
    BY <1>2
  <2>2. heap' = Swept(h1, store', thr')
    BY <1>3
  <2> HIDE DEF h1
  <2>3. \A x \in Referenced(store', thr') : heap'[x] = h1[x] /\ x \in Objs
    BY <2>2 DEF Swept, Referenced
  <2>4. QED
    BY <2>1, <2>3
<1>6. plan' # None /\ plan'.order = Loaded.order /\ plan' \in PlanType
  <2>1. RunApplied(op.plan, r, run).order = op.plan.order
    BY <1>1 DEF RunApplied, PlanType
  <2>2. RunApplied(op.plan, r, run) \in PlanType
    BY <1>1, RunAppliedType
  <2>3. QED
    BY <1>1, <2>1, <2>2, NoneAssumption
<1>7. /\ \A s \in Runs : s # r => store'[s] = store[s]
      /\ store'[r] = o
  BY <1>2, <1>4
<1>8. thr'[t] = req /\ \A u \in Threads : u # t => thr'[u] = thr[u]
  BY <1>2, <1>3
<1>9. Shown(r, o, run)
  <2>1. CASE plan' = RunApplied(op.plan, r, run)
    BY <1>1, <2>1 DEF Shown
  <2>2. CASE plan' = op.plan /\ run = op.run
    <3>1. Loaded \in PlanType
      BY <1>1, LoadedType
    <3>2. QED
      BY <1>1, <2>2, <3>1 DEF Shown
  <2>3. QED
    BY <2>1, <2>2
<1>10. Waits(thr'[t], r, o, run, rec, Loaded.order)
  BY <1>4, <1>8
<1>11. IF \E u \in {t} : thr'[u].phase = "exec" /\ thr'[u].obj = o
       THEN Executing(run, rec, Loaded.order) ELSE Settled(run, rec, Loaded.order)
  BY <1>4, <1>8
<1>12. store[r] = o => Advances(heap[o], run)
  BY <1>1
<1>13. RowSaved(dbRun[r], rec, Loaded.order)
  BY DEF RowSaved
<1>14. /\ o \in Objs /\ {t} \subseteq Threads /\ \A x, u \in {t} : x = u
       /\ store[r] \in {None, o} /\ store'[r] \in {None, o} /\ (store[r] = o => store'[r] = o)
       /\ \A s \in Runs : s # r => store'[s] = store[s] /\ store[s] # o
       /\ \A u \in Threads \ {t} : thr'[u] = thr[u] /\ thr[u].run # r /\ thr[u].obj # o
       /\ \A x \in {t} : thr[x].obj \in {None, o} /\ Waits(thr'[x], r, o, run, rec, Loaded.order)
  BY <1>1, <1>7, <1>8, <1>10
<1>15. Moved({t}, r, o, run, rec)
  BY <1>1, <1>5, <1>6, <1>9, <1>11, <1>12, <1>13, <1>14 DEF Moved
<1>16. QED
  BY <1>15 DEF o

(* A step ends for the client or, in a full run, goes on with the next.    *)
LEMMA OverWaits ==
  ASSUME NEW r, NEW o, o # None, NEW run, NEW rec, NEW order, NEW full, NEW req, req \in {Idle, AfterStep(r, full)}
  PROVE  Waits(req, r, o, run, rec, order) /\ req.obj # o
<1>1. /\ Idle.obj = None /\ Idle.run = None
      /\ AfterStep(r, full).obj = None /\ AfterStep(r, full).run \in {None, r}
  BY DEF Idle, AfterStep
<1>2. QED
  BY <1>1 DEF Waits

(* What a handler persists when the database takes every write.            *)
LEMMA PersistedRow ==
  ASSUME OneAtATime, NEW r, NEW run, Persisted(r, run)
  PROVE  dbRun' = [dbRun EXCEPT ![r] = RunRecord(run)]
BY DEF Persisted, Written, OneAtATime

LEMMA SameRow ==
  ASSUME TypeInv, NEW r, dbRun' = dbRun
  PROVE  dbRun' = [dbRun EXCEPT ![r] = dbRun[r]]
BY DEF TypeInv, TypeOK

(* The step i a settled run takes next.                                    *)
LEMMA NextStep ==
  ASSUME NEW r, NEW op, SettledOpening(r, op), NEW i \in 1..Len(op.run.order), Steps(op, i)
  PROVE  /\ op.run.order = Loaded.order /\ i \in 1..Len(Loaded.order) /\ i = op.run.k + 1
         /\ Flying(op.run, dbRun[r], Loaded.order, i)
         /\ Flying(RunningAt(op.run, i), dbRun[r], Loaded.order, i)
         /\ ~ Terminal(dbRun[r]) /\ ~ Terminal(op.run)
         /\ Due(dbRun[r], Loaded.order[i], Loaded.order)
         /\ Loaded.order[i] \in Nodes
<1>1. op.run.order = Loaded.order /\ i = op.run.k + 1 /\ ~ Terminal(op.run)
  BY DEF SettledOpening, Settled, Steps
<1>2. /\ op.run \in RunType /\ dbRun[r] \in RecordType /\ Loaded.order \in Seq(Nodes)
      /\ Chain(Loaded.order) /\ RowSound(dbRun[r], Loaded.order)
      /\ Settled(op.run, dbRun[r], Loaded.order)
  BY DEF SettledOpening
<1>3. i \in 1..Len(Loaded.order)
  BY <1>1
<1>4. /\ Flying(op.run, dbRun[r], Loaded.order, i)
      /\ Flying(RunningAt(op.run, i), dbRun[r], Loaded.order, i)
  BY <1>1, <1>2, <1>3, SettledFlies
<1>5. ~ Terminal(dbRun[r]) /\ Due(dbRun[r], Loaded.order[i], Loaded.order)
  BY <1>1, <1>4 DEF Flying
<1>6. QED
  BY <1>1, <1>2, <1>3, <1>4, <1>5

(* A step that ends at once.                                               *)
LEMMA StepEndsMoves ==
  ASSUME OneAtATime, TypeInv, SerialInv, NEW t \in Threads, NEW r \in Runs, NEW full, NEW op,
         SettledOpening(r, op),
         thr[t].obj = None, \A u \in Threads : u # t => thr[u].run # r,
         NEW i \in 1..Len(op.run.order), Steps(op, i), NEW res \in Executed \cup {None},
         NEW run, run = StepSucceeded(op.run, i, res),
         store' = [store EXCEPT ![r] = op.obj], dbPlan' = dbPlan,
         Put(r, op.obj, run, t, AfterStep(r, full)),
         plan' = RunApplied(op.plan, r, run), Persisted(r, run)
  PROVE  Kinds
<1> DEFINE rec == RunRecord(run)
           m == Loaded.order[i]
<1>1. /\ op.run.order = Loaded.order /\ i \in 1..Len(Loaded.order) /\ i = op.run.k + 1
      /\ Flying(op.run, dbRun[r], Loaded.order, i)
      /\ ~ Terminal(dbRun[r]) /\ ~ Terminal(op.run)
      /\ Due(dbRun[r], m, Loaded.order) /\ m \in Nodes
  BY NextStep
<1>2. /\ op.obj \in Objs /\ op.run \in RunType /\ dbRun[r] \in RecordType
      /\ Loaded.order \in Seq(Nodes) /\ Chain(Loaded.order) /\ RowSound(dbRun[r], Loaded.order)
  BY DEF SettledOpening
<1>3. run \in RunType
  BY <1>2, StepTypes
<1>4. rec \in RecordType /\ dbRun' = [dbRun EXCEPT ![r] = rec]
  BY <1>3, RunRecordType, PersistedRow
<1>5. rec = RowStep(dbRun[r], m, res)
  BY <1>1, <1>2, StepRecords
<1>6. Settled(run, rec, Loaded.order)
  BY <1>1, <1>2, <1>5, StepSettled, SMTT(60)
<1> HIDE DEF m, rec
<1>7. RowMoves(dbRun[r], rec, Loaded.order)
  BY <1>1, <1>2, <1>5, NoneAssumption DEF RowMoves, Ends
<1>8. Advances(op.run, run)
  BY <1>1, <1>2 DEF Advances, StepSucceeded, RunType
<1>9. op.obj # None
  BY <1>2
<1> DEFINE req == AfterStep(r, full)
<1>10. /\ Waits(req, r, op.obj, run, rec, Loaded.order) /\ req.obj # op.obj
       /\ Put(r, op.obj, run, t, req)
  BY <1>9, OverWaits
<1> HIDE DEF req
<1>11. Moved({t}, r, op.obj, run, rec)
  BY <1>3, <1>4, <1>6, <1>7, <1>8, <1>10, StepMoves
<1>12. QED
  BY <1>2, <1>3, <1>4, <1>11 DEF Kinds

(* A step that waits for the SQL engine.                                   *)
LEMMA StepWaitsMoves ==
  ASSUME TypeInv, SerialInv, NEW t \in Threads, NEW r \in Runs, NEW op, SettledOpening(r, op),
         thr[t].obj = None, \A u \in Threads : u # t => thr[u].run # r,
         NEW i \in 1..Len(op.run.order), Steps(op, i), NEW req,
         req.run = r, req.obj = op.obj, req.i = i,
         NEW run, IF op.run.order[i] = Result
                  THEN run = RunningAt(op.run, i) /\ req.phase = "exec" /\ plan' = RunApplied(op.plan, r, run)
                  ELSE run = op.run /\ req.phase = "preview" /\ plan' = op.plan,
         store' = [store EXCEPT ![r] = op.obj], dbPlan' = dbPlan, dbRun' = dbRun,
         Put(r, op.obj, run, t, req)
  PROVE  Kinds
<1> DEFINE rec == dbRun[r]
           m == Loaded.order[i]
<1>1. /\ op.run.order = Loaded.order /\ i \in 1..Len(Loaded.order) /\ i = op.run.k + 1
      /\ Flying(op.run, rec, Loaded.order, i)
      /\ Flying(RunningAt(op.run, i), rec, Loaded.order, i)
      /\ ~ Terminal(rec) /\ ~ Terminal(op.run) /\ m \in Nodes
  BY NextStep
<1>2. /\ op.obj \in Objs /\ op.run \in RunType /\ rec \in RecordType
      /\ Loaded.order \in Seq(Nodes) /\ Chain(Loaded.order) /\ Settled(op.run, rec, Loaded.order)
  BY DEF SettledOpening
<1>3. dbRun' = [dbRun EXCEPT ![r] = rec]
  BY SameRow
<1>4. /\ RunningAt(op.run, i) \in RunType
      /\ RunningAt(op.run, i).order = op.run.order /\ RunningAt(op.run, i).k = op.run.k
      /\ RunningAt(op.run, i).ns = [op.run.ns EXCEPT ![m] = "running"]
      /\ RunningAt(op.run, i).status = "running"
      /\ RunningAt(op.run, i).error = op.run.error /\ RunningAt(op.run, i).result = op.run.result
  <2>1. RunningAt(op.run, i) \in RunType
    BY <1>2, StepTypes
  <2>2. QED
    BY <1>1, <1>2, <2>1 DEF RunningAt, RunType
<1>5. run \in RunType /\ run.order = Loaded.order /\ run.k = op.run.k
      /\ Flying(run, rec, Loaded.order, i)
  BY <1>1, <1>2, <1>4
<1>6. RowMoves(dbRun[r], rec, Loaded.order)
  BY <1>2, NoneAssumption DEF RowMoves
<1>7. req.phase = "exec" <=> m = Result
  BY <1>1
<1> HIDE DEF rec
<1>8. Waits(req, r, op.obj, run, rec, Loaded.order)
  BY <1>1, <1>5, <1>7 DEF Waits
<1>9. IF req.phase = "exec" /\ req.obj = op.obj THEN Executing(run, rec, Loaded.order)
      ELSE Settled(run, rec, Loaded.order)
  <2>1. CASE m = Result
    <3>1. i = Len(Loaded.order) /\ run = RunningAt(op.run, i)
      BY <1>1, <1>2, <2>1 DEF Chain, EndsInResult
    <3>2. ~ op.run.error /\ op.run.result = None
      BY <1>1 DEF Flying
    <3>3. op.run.ns = rec.ns /\ op.run.k = Done(rec.ns, Loaded.order)
      BY <1>2 DEF Settled
    <3>4. Executing(run, rec, Loaded.order)
      BY <1>1, <1>4, <2>1, <3>1, <3>2, <3>3 DEF Executing
    <3>5. QED
      BY <1>7, <2>1, <3>4
  <2>2. CASE m # Result
    BY <1>1, <1>2, <1>7, <2>2
  <2>3. QED
    BY <2>1, <2>2
<1>10. Advances(op.run, run)
  BY <1>1, <1>2, <1>4 DEF Advances
<1>11. plan' = RunApplied(op.plan, r, run) \/ (plan' = op.plan /\ run = op.run)
  <2>1. CASE op.run.order[i] = Result
    BY <2>1
  <2>2. CASE op.run.order[i] # Result
    BY <2>2
  <2>3. QED
    BY <2>1, <2>2
<1>12. Moved({t}, r, op.obj, run, rec)
  BY <1>2, <1>3, <1>5, <1>6, <1>8, <1>9, <1>10, <1>11, StepMoves
<1>13. QED
  BY <1>2, <1>5, <1>12 DEF Kinds

LEMMA BeginStepMoves ==
  ASSUME OneAtATime, TypeInv, SerialInv, NEW t \in Threads, NEW r \in Runs, NEW full,
         CanOpen(r), thr[t].obj = None, \A u \in Threads : u # t => thr[u].run # r,
         NEW op, op = Opened(r), BeginStep(t, r, op, full)
  PROVE  Kinds
<1>1. SettledOpening(r, op)
  BY OpenedSettled
<1>2. /\ op.obj \in Objs /\ op.obj # None /\ op.run \in RunType /\ dbRun[r] \in RecordType
      /\ RowSound(dbRun[r], Loaded.order) /\ Settled(op.run, dbRun[r], Loaded.order)
      /\ op.run.order = Loaded.order /\ Loaded.order \in Seq(Nodes)
  BY <1>1 DEF SettledOpening, Settled
<1>3. CASE StepOfEnded(t, r, op)
  <2>1. /\ store' = [store EXCEPT ![r] = op.obj] /\ dbPlan' = dbPlan
        /\ Put(r, op.obj, op.run, t, Idle) /\ plan' = op.plan
        /\ dbRun' = [dbRun EXCEPT ![r] = dbRun[r]]
    BY <1>3, SameRow DEF StepOfEnded
  <2>2. RowMoves(dbRun[r], dbRun[r], Loaded.order)
    BY <1>2, NoneAssumption DEF RowMoves
  <2>3. Waits(Idle, r, op.obj, op.run, dbRun[r], Loaded.order) /\ Idle.obj # op.obj
    BY <1>2, OverWaits
  <2>4. Advances(op.run, op.run)
    BY DEF Advances
  <2>5. Moved({t}, r, op.obj, op.run, dbRun[r])
    BY <1>1, <1>2, <2>1, <2>2, <2>3, <2>4, StepMoves
  <2>6. QED
    BY <1>2, <2>5 DEF Kinds
<1>4. CASE StepBeyond(t, r, op)
  <2>1. op.run.k >= Len(Loaded.order) /\ ~ Terminal(op.run)
    BY <1>2, <1>4 DEF StepBeyond
  <2>2. op.run.k = Done(dbRun[r].ns, Loaded.order) /\ op.run.status = dbRun[r].status
    BY <1>2 DEF Settled
  <2>3. /\ Done(dbRun[r].ns, Loaded.order) \in 0..Len(Loaded.order)
        /\ dbRun[r].status = "success" <=> Done(dbRun[r].ns, Loaded.order) = Len(Loaded.order)
    BY <1>2 DEF RowSound, Walked
  <2>4. Len(Loaded.order) \in Nat
    BY <1>2, LenProperties
  <2>5. QED
    BY <2>1, <2>2, <2>3, <2>4 DEF Terminal
<1>5. CASE StepIntent(t, r, op, full)
  <2>1. PICK i \in 1..Len(op.run.order) :
          /\ Steps(op, i) /\ store' = [store EXCEPT ![r] = op.obj] /\ dbPlan' = dbPlan
          /\ Put(r, op.obj, StepSucceeded(op.run, i, None), t, AfterStep(r, full))
          /\ plan' = RunApplied(op.plan, r, StepSucceeded(op.run, i, None))
          /\ Persisted(r, StepSucceeded(op.run, i, None))
    BY <1>5 DEF StepIntent
  <2>2. QED
    BY <1>1, <2>1, StepEndsMoves
<1>6. CASE StepResultRefused(t, r, op, full)
  <2>1. PICK i \in 1..Len(op.run.order) :
          /\ Steps(op, i) /\ store' = [store EXCEPT ![r] = op.obj] /\ dbPlan' = dbPlan
          /\ Put(r, op.obj, StepSucceeded(op.run, i, "replan"), t, AfterStep(r, full))
          /\ plan' = RunApplied(op.plan, r, StepSucceeded(op.run, i, "replan"))
          /\ Persisted(r, StepSucceeded(op.run, i, "replan"))
    BY <1>6 DEF StepResultRefused
  <2>2. "replan" \in Executed \cup {None}
    BY DEF Executed, Fallbacks
  <2>3. QED
    BY <1>1, <2>1, <2>2, StepEndsMoves
<1>7. CASE StepOperation(t, r, op, full)
  <2>1. PICK i \in 1..Len(op.run.order) :
          /\ Steps(op, i) /\ op.run.order[i] \in OpSet
          /\ store' = [store EXCEPT ![r] = op.obj] /\ dbPlan' = dbPlan /\ dbRun' = dbRun
          /\ Put(r, op.obj, op.run, t,
                 [phase |-> "preview", run |-> r, obj |-> op.obj, i |-> i, full |-> full, sql |-> None])
          /\ plan' = op.plan
    BY <1>7 DEF StepOperation
  <2> DEFINE req == [phase |-> "preview", run |-> r, obj |-> op.obj, i |-> i,
                     full |-> full, sql |-> None]
  <2>2. /\ req.run = r /\ req.obj = op.obj /\ req.i = i /\ req.phase = "preview"
        /\ Put(r, op.obj, op.run, t, req) /\ op.run.order[i] # Result
    BY <2>1
  <2> HIDE DEF req
  <2>3. QED
    BY <1>1, <2>1, <2>2, StepWaitsMoves
<1>8. CASE StepResult(t, r, op, full)
  <2>1. PICK i \in 1..Len(op.run.order) :
          /\ Steps(op, i) /\ op.run.order[i] = Result
          /\ store' = [store EXCEPT ![r] = op.obj] /\ dbPlan' = dbPlan /\ dbRun' = dbRun
          /\ Put(r, op.obj, RunningAt(op.run, i), t,
                 [phase |-> "exec", run |-> r, obj |-> op.obj, i |-> i, full |-> full,
                  sql |-> ExecutionSql(op.plan, "stub")])
          /\ plan' = RunApplied(op.plan, r, RunningAt(op.run, i))
    BY <1>8 DEF StepResult
  <2> DEFINE req == [phase |-> "exec", run |-> r, obj |-> op.obj, i |-> i, full |-> full,
                     sql |-> ExecutionSql(op.plan, "stub")]
  <2>2. /\ req.run = r /\ req.obj = op.obj /\ req.i = i /\ req.phase = "exec"
        /\ Put(r, op.obj, RunningAt(op.run, i), t, req)
    BY <2>1
  <2> HIDE DEF req
  <2>3. QED
    BY <1>1, <2>1, <2>2, StepWaitsMoves
<1>9. QED
  BY <1>3, <1>4, <1>5, <1>6, <1>7, <1>8 DEF BeginStep

(* What a handler knows of the step it resumes.                            *)
LEMMA ResumedStep ==
  ASSUME TypeInv, SerialInv, NEW t \in Threads, thr[t].phase # "idle", thr[t].obj # None,
         NEW r, r = thr[t].run, NEW o, o = thr[t].obj, NEW i, i = thr[t].i
  PROVE  /\ r \in Runs /\ o \in Objs /\ heap[o] \in RunType /\ i \in 1..Len(heap[o].order)
         /\ plan \in PlanType /\ Loaded # None /\ plan.order = Loaded.order
         /\ Loaded.order \in Seq(Nodes) /\ Chain(Loaded.order)
         /\ dbRun[r] \in RecordType /\ RowSound(dbRun[r], Loaded.order)
         /\ Flying(heap[o], dbRun[r], Loaded.order, i)
         /\ thr[t].phase = "exec" <=> heap[o].order[i] = Result
         /\ store[r] \in {None, o} /\ \A s \in Runs : s # r => store[s] # o
         /\ \A u \in Threads \ {t} : thr[u].run # r /\ thr[u].obj # o
         /\ store[r] = o => /\ i = heap[o].k + 1 /\ heap[o].order = Loaded.order
                            /\ heap[o].k = Done(dbRun[r].ns, Loaded.order)
<1>1. /\ r \in Runs /\ o \in Objs /\ heap[o] \in RunType /\ i \in 1..Len(heap[o].order)
      /\ plan \in PlanType /\ o # None /\ r # None
  BY WaitingSound, NoneAssumption
<1>2. Loaded # None /\ plan # None
  BY <1>1, NoneAssumption DEF Loaded
<1>3. /\ Loaded.order \in Seq(Nodes) /\ Chain(Loaded.order) /\ plan.order = Loaded.order
      /\ \A s \in Runs : dbRun[s] # None => dbRun[s] \in RecordType /\ RowSound(dbRun[s], Loaded.order)
  BY <1>2, LoadedChain
<1>4. /\ dbRun[r] # None /\ Flying(heap[o], dbRun[r], Loaded.order, i)
      /\ thr[t].phase = "exec" <=> heap[o].order[i] = Result
      /\ store[r] # None => i = heap[o].k + 1
  BY <1>3 DEF SerialInv, Flights
<1>5. /\ store[r] \in {None, o}
      /\ \A s \in Runs : s # r => store[s] # o
      /\ \A u \in Threads \ {t} : thr[u].run # r /\ thr[u].obj # o
  BY <1>1 DEF SerialInv, Owners
<1>6. store[r] = o => heap[o].order = Loaded.order /\ heap[o].k = Done(dbRun[r].ns, Loaded.order)
  <2>1. SUFFICES ASSUME store[r] = o
                 PROVE  heap[o].order = Loaded.order /\ heap[o].k = Done(dbRun[r].ns, Loaded.order)
    OBVIOUS
  <2>2. IF Awaited(o) THEN Executing(heap[o], dbRun[r], Loaded.order)
        ELSE Settled(heap[o], dbRun[r], Loaded.order)
    BY <1>1, <1>3, <2>1 DEF SerialInv, Stored
  <2>3. QED
    BY <2>2 DEF Settled, Executing
<1>7. QED
  BY <1>1, <1>2, <1>3, <1>4, <1>5, <1>6

LEMMA AnsweredMoves ==
  ASSUME OneAtATime, TypeInv, SerialInv, NEW t \in Threads, thr[t].phase # "idle", thr[t].obj # None,
         NEW r, r = thr[t].run, NEW o, o = thr[t].obj,
         NEW run \in RunType, NEW rec, rec = RunRecord(run),
         Put(r, o, run, t, AfterStep(r, thr[t].full)), store' = store, Persisted(r, run),
         NEW p \in PlanType, p.order = plan.order, plan' = RunApplied(p, r, run),
         RowMoves(dbRun[r], rec, Loaded.order), RowSaved(dbRun[r], rec, Loaded.order),
         store[r] = o => Settled(run, rec, Loaded.order) /\ Advances(heap[o], run)
  PROVE  Kinds
<1>1. /\ r \in Runs /\ o \in Objs /\ Loaded # None /\ plan.order = Loaded.order
      /\ store[r] \in {None, o} /\ \A s \in Runs : s # r => store[s] # o
      /\ \A u \in Threads \ {t} : thr[u].run # r /\ thr[u].obj # o
  BY ResumedStep
<1>2. rec \in RecordType /\ dbRun' = [dbRun EXCEPT ![r] = rec]
  BY RunRecordType, PersistedRow
<1>3. plan' # None /\ plan'.order = Loaded.order
  <2>1. RunApplied(p, r, run).order = p.order
    BY DEF RunApplied, PlanType
  <2>2. RunApplied(p, r, run) \in PlanType
    BY <1>1, RunAppliedType
  <2>3. QED
    BY <1>1, <2>1, <2>2, NoneAssumption
<1> DEFINE req == AfterStep(r, thr[t].full)
<1>4. /\ thr' = [thr EXCEPT ![t] = req]
      /\ heap' = Swept([heap EXCEPT ![o] = run], store', thr')
  BY DEF Put
<1>5. o # None
  BY <1>1
<1>6. Waits(req, r, o, run, rec, Loaded.order) /\ req.obj # o
  BY <1>5, OverWaits
<1> HIDE DEF req
<1>7. \A x \in Referenced(store', thr') : heap'[x] = IF x = o THEN run ELSE heap[x]
  <2> DEFINE h1 == [heap EXCEPT ![o] = run]
  <2>1. \A x \in Objs : h1[x] = IF x = o THEN run ELSE heap[x]
    BY DEF TypeInv, TypeOK
  <2>2. heap' = Swept(h1, store', thr')
    BY <1>4
  <2> HIDE DEF h1
  <2>3. \A x \in Referenced(store', thr') : heap'[x] = h1[x] /\ x \in Objs
    BY <2>2 DEF Swept, Referenced
  <2>4. QED
    BY <2>1, <2>3
<1>8. thr'[t] = req /\ \A u \in Threads : u # t => thr'[u] = thr[u]
  BY <1>4 DEF TypeInv, TypeOK
<1>9. /\ o \in Objs /\ {t} \subseteq Threads /\ \A x, u \in {t} : x = u
      /\ store[r] \in {None, o} /\ store'[r] \in {None, o} /\ (store[r] = o => store'[r] = o)
      /\ \A s \in Runs : s # r => store'[s] = store[s] /\ store[s] # o
      /\ \A u \in Threads \ {t} : thr'[u] = thr[u] /\ thr[u].run # r /\ thr[u].obj # o
      /\ \A x \in {t} : thr[x].obj \in {None, o} /\ Waits(thr'[x], r, o, run, rec, Loaded.order)
  BY <1>1, <1>6, <1>8
<1>10. store'[r] = o
          => IF \E x \in {t} : thr'[x].phase = "exec" /\ thr'[x].obj = o
             THEN Executing(run, rec, Loaded.order) ELSE Settled(run, rec, Loaded.order)
  BY <1>6, <1>8
<1>11. Shown(r, o, run)
  BY DEF Shown
<1>12. Moved({t}, r, o, run, rec)
  BY <1>1, <1>2, <1>3, <1>7, <1>9, <1>10, <1>11 DEF Moved
<1>13. QED
  BY <1>1, <1>2, <1>12 DEF Kinds

LEMMA PreviewDoneMoves ==
  ASSUME OneAtATime, TypeInv, SerialInv, NEW t \in Threads, NEW ok \in BOOLEAN, PreviewDone(t, ok)
  PROVE  Kinds
<1> DEFINE r   == thr[t].run
           o   == thr[t].obj
           i   == thr[t].i
           old == heap[o]
           run == IF ok THEN StepSucceeded(old, i, None) ELSE StepFailed(old, i)
           rec == RunRecord(run)
           m   == old.order[i]
<1>1. thr[t].phase = "preview" /\ thr[t].phase # "idle" /\ o # None
  BY DEF PreviewDone, TypeInv, RequestSound
<1>2. /\ r \in Runs /\ o \in Objs /\ old \in RunType /\ i \in 1..Len(old.order)
      /\ plan \in PlanType /\ Loaded # None /\ plan.order = Loaded.order
      /\ Loaded.order \in Seq(Nodes) /\ Chain(Loaded.order)
      /\ dbRun[r] \in RecordType /\ RowSound(dbRun[r], Loaded.order)
      /\ Flying(old, dbRun[r], Loaded.order, i)
      /\ store[r] = o => /\ i = old.k + 1 /\ old.order = Loaded.order
                         /\ old.k = Done(dbRun[r].ns, Loaded.order)
  BY <1>1, ResumedStep
<1>3. /\ Put(r, o, run, t, AfterStep(r, thr[t].full)) /\ store' = store
      /\ plan' = RunApplied(plan, r, run) /\ Persisted(r, run) /\ dbPlan' = dbPlan
  BY DEF PreviewDone
<1>4. run \in RunType
  BY <1>2, StepTypes
<1>5. r = thr[t].run /\ o = thr[t].obj /\ old = heap[o]
  OBVIOUS
<1> HIDE DEF r, o, i, old
<1>5a. /\ RunRecord(StepSucceeded(old, i, None)) = RowStep(dbRun[r], m, None)
       /\ RunRecord(StepFailed(old, i)) = RowFailed(dbRun[r], m)
  <2> DEFINE row == dbRun[r]
  <2>1. /\ old \in RunType /\ row \in RecordType /\ i \in 1..Len(old.order)
        /\ Flying(old, row, Loaded.order, i)
    BY <1>2
  <2> HIDE DEF row
  <2>2. /\ RunRecord(StepSucceeded(old, i, None)) = RowStep(row, old.order[i], None)
        /\ RunRecord(StepFailed(old, i)) = RowFailed(row, old.order[i])
    BY ONLY <2>1, StepRecords
  <2>3. QED
    BY <2>2 DEF row
<1>5b. rec = IF ok THEN RowStep(dbRun[r], m, None) ELSE RowFailed(dbRun[r], m)
  BY <1>5a
<1>6. m \in Nodes /\ ~ Terminal(dbRun[r]) /\ Due(dbRun[r], m, Loaded.order) /\ ~ Terminal(old)
  BY <1>2 DEF RunType, Flying
<1>7. store[r] = o => Settled(run, rec, Loaded.order)
  <2>1. SUFFICES ASSUME store[r] = o PROVE Settled(run, rec, Loaded.order)
    OBVIOUS
  <2>2. /\ old.order = Loaded.order /\ old.k = Done(dbRun[r].ns, Loaded.order)
        /\ i \in 1..Len(Loaded.order)
    BY <1>2, <2>1
  <2>3. /\ Settled(StepSucceeded(old, i, None), RowStep(dbRun[r], m, None), Loaded.order)
        /\ Settled(StepFailed(old, i), RowFailed(dbRun[r], m), Loaded.order)
    BY <1>2, <2>2, StepSettled
  <2>4. QED
    BY <1>5b, <2>3
<1>8. store[r] = o => Advances(old, run)
  BY <1>2, <1>6 DEF Advances, StepSucceeded, StepFailed, RunType
<1> HIDE DEF m, rec
<1>9. RowMoves(dbRun[r], rec, Loaded.order)
  BY <1>2, <1>5b, <1>6, NoneAssumption DEF RowMoves, Ends
<1>10. RowSaved(dbRun[r], rec, Loaded.order)
  BY <1>3 DEF RowSaved
<1> HIDE DEF run
<1>11. QED
  BY <1>1, <1>2, <1>3, <1>4, <1>5, <1>7, <1>8, <1>9, <1>10, AnsweredMoves DEF rec

LEMMA StepExecutedMoves ==
  ASSUME OneAtATime, TypeInv, SerialInv, NEW t \in Threads, NEW err \in BOOLEAN, StepExecuted(t, err)
  PROVE  Kinds
<1> DEFINE r   == thr[t].run
           o   == thr[t].obj
           i   == thr[t].i
           old == heap[o]
           res == thr[t].sql
           run == StepSucceeded(old, i, res)
           rec == RunRecord(run)
           p   == ResultApplied(plan, err)
<1>1. thr[t].phase = "exec" /\ thr[t].phase # "idle" /\ o # None /\ res \in Executed
  BY DEF StepExecuted, TypeInv, RequestSound
<1>2. /\ r \in Runs /\ o \in Objs /\ old \in RunType /\ i \in 1..Len(old.order)
      /\ plan \in PlanType /\ Loaded # None /\ plan.order = Loaded.order
      /\ Loaded.order \in Seq(Nodes) /\ Chain(Loaded.order)
      /\ dbRun[r] \in RecordType /\ RowSound(dbRun[r], Loaded.order)
      /\ Flying(old, dbRun[r], Loaded.order, i) /\ old.order[i] = Result
      /\ store[r] = o => /\ i = old.k + 1 /\ old.order = Loaded.order
                         /\ old.k = Done(dbRun[r].ns, Loaded.order)
  BY <1>1, ResumedStep, SMTT(60)
<1>3. /\ Put(r, o, run, t, AfterStep(r, thr[t].full)) /\ store' = store
      /\ plan' = RunApplied(p, r, run) /\ Persisted(r, run) /\ dbPlan' \in Written(dbPlan, p)
  BY DEF StepExecuted
<1>4. dbPlan' = p
  BY <1>3 DEF Written, OneAtATime
<1>5. p \in PlanType /\ p.order = plan.order
  <2>1. p.order = plan.order
    BY <1>2 DEF ResultApplied, PlanType
  <2>2. QED
    BY <1>2, <2>1, ResultAppliedType
<1>6. run \in RunType
  BY <1>1, <1>2, StepTypes
<1>6a. r = thr[t].run /\ o = thr[t].obj /\ old = heap[o]
  OBVIOUS
<1> HIDE DEF r, o, i, old, res
<1>7. rec = RowStep(dbRun[r], Result, res)
  BY <1>2, StepRecords
<1>8. ~ Terminal(dbRun[r]) /\ Due(dbRun[r], Result, Loaded.order) /\ ~ Terminal(old)
  BY <1>2 DEF Flying
<1>9. store[r] = o => Settled(run, rec, Loaded.order)
  <2>1. SUFFICES ASSUME store[r] = o PROVE Settled(run, rec, Loaded.order)
    OBVIOUS
  <2>2. old.order = Loaded.order /\ i \in 1..Len(Loaded.order)
    BY <1>2, <2>1
  <2>3. Settled(run, RowStep(dbRun[r], Loaded.order[i], res), Loaded.order)
    BY <1>2, <2>2, StepSettled
  <2>4. QED
    BY <1>2, <1>7, <2>2, <2>3
<1>10. store[r] = o => Advances(old, run)
  BY <1>2, <1>8 DEF Advances, StepSucceeded, RunType
<1> HIDE DEF rec, p
<1>11. RowMoves(dbRun[r], rec, Loaded.order)
  BY <1>1, <1>2, <1>7, <1>8, NoneAssumption DEF RowMoves, Ends, Nodes
<1>12. RowSaved(dbRun[r], rec, Loaded.order)
  BY <1>1, <1>2, <1>4, <1>5, <1>7, <1>8, NoneAssumption DEF RowSaved
<1> HIDE DEF run
<1>13. QED
  BY <1>1, <1>2, <1>3, <1>5, <1>6, <1>6a, <1>9, <1>10, <1>11, <1>12, AnsweredMoves, SMTT(60) DEF rec

(* A handler that answers at once.                                         *)
LEMMA DirectMoves ==
  ASSUME TypeInv, NEW r \in Runs, NEW o \in Objs, NEW run \in RunType, NEW rec \in RecordType,
         \A u \in Threads : thr[u].run # r /\ thr[u].obj # o,
         \A s \in Runs : s # r => store[s] # o, store[r] \in {None, o},
         store' = [store EXCEPT ![r] = o], heap' = [heap EXCEPT ![o] = run],
         dbRun' = [dbRun EXCEPT ![r] = rec], thr' = thr, dbPlan' = dbPlan,
         Loaded # None, NEW p \in PlanType, p.order = Loaded.order, plan' = RunApplied(p, r, run),
         RowMoves(dbRun[r], rec, Loaded.order), Settled(run, rec, Loaded.order),
         store[r] = o => Advances(heap[o], run)
  PROVE  Kinds
<1>1. plan' # None /\ plan'.order = Loaded.order
  <2>1. RunApplied(p, r, run).order = p.order
    BY DEF RunApplied, PlanType
  <2>2. RunApplied(p, r, run) \in PlanType
    BY RunAppliedType
  <2>3. QED
    BY <2>1, <2>2, NoneAssumption
<1>2. \A s \in Runs : store'[s] = IF s = r THEN o ELSE store[s]
  BY DEF TypeInv, TypeOK
<1>3. \A x \in Referenced(store', thr') : heap'[x] = IF x = o THEN run ELSE heap[x]
  BY DEF Referenced, TypeInv, TypeOK
<1>4. RowSaved(dbRun[r], rec, Loaded.order) /\ Shown(r, o, run)
  BY DEF RowSaved, Shown
<1>5. ~ \E t \in {} : thr'[t].phase = "exec" /\ thr'[t].obj = o
  OBVIOUS
<1>6. Moved({}, r, o, run, rec)
  BY <1>1, <1>2, <1>3, <1>4, <1>5 DEF Moved
<1>7. QED
  BY <1>6 DEF Kinds

LEMMA CreatePlanRunMoves ==
  ASSUME OneAtATime, TypeInv, SerialInv, NEW r \in Runs, CreatePlanRun(r)
  PROVE  Kinds
<1> DEFINE o   == NewObj
           p   == Loaded
           run == NewRun(p)
           rec == RunRecord(run)
<1>1. /\ Loaded # None /\ Free # {} /\ store[r] = None /\ dbRun[r] = None
      /\ \A t \in Threads : thr[t].run # r
      /\ store' = [store EXCEPT ![r] = o] /\ heap' = [heap EXCEPT ![o] = run]
      /\ plan' = RunApplied(p, r, run) /\ Persisted(r, run)
      /\ thr' = thr /\ dbPlan' = dbPlan
  BY DEF CreatePlanRun
<1>2. p \in PlanType /\ p.order \in Seq(Nodes) /\ Chain(p.order)
  BY <1>1, LoadedChain
<1>3. o \in Objs /\ (\A s \in Runs : store[s] # o) /\ (\A u \in Threads : thr[u].obj # o)
  BY <1>1, NewObjIsFree DEF Free, Referenced
<1>4. run \in RunType
  BY <1>2, NewRunType
<1>5. rec \in RecordType /\ dbRun' = [dbRun EXCEPT ![r] = rec]
  BY <1>1, <1>4, RunRecordType, PersistedRow
<1>6. Starts(rec, p.order)
  BY DEF Starts, RunRecord, NewRun, OnPlan
<1>7. Done(rec.ns, p.order) = 0
  BY <1>2, <1>6, RowStarts DEF Starts
<1>8. Settled(run, rec, p.order)
  <2>1. run.order = p.order /\ run.k = 0 /\ run.error = FALSE /\ run.next = NodeAt(p.order, 1)
    BY DEF NewRun
  <2>2. rec.ns = run.ns /\ rec.status = run.status /\ rec.error = run.error /\ rec.result = run.result
    BY DEF RunRecord
  <2> HIDE DEF run, rec, p
  <2>3. QED
    BY <1>7, <2>1, <2>2 DEF Settled
<1>9. RowMoves(dbRun[r], rec, p.order)
  BY <1>6 DEF RowMoves
<1>10. p = Loaded
  OBVIOUS
<1> HIDE DEF o, run, rec, p
<1>11. QED
  BY <1>1, <1>2, <1>3, <1>4, <1>5, <1>8, <1>9, <1>10, DirectMoves

LEMMA GetPlanRunMoves ==
  ASSUME OneAtATime, TypeInv, SerialInv, NEW r \in Runs, GetPlanRun(r)
  PROVE  Kinds
<1> DEFINE op == Opened(r)
           o  == op.obj
           run == op.run
<1>1. /\ store[r] = None /\ CanOpen(r)
      /\ \A t \in Threads : thr[t].run # r
      /\ store' = [store EXCEPT ![r] = o] /\ heap' = [heap EXCEPT ![o] = run]
      /\ plan' = op.plan
      /\ thr' = thr /\ dbPlan' = dbPlan /\ dbRun' = dbRun
  BY DEF GetPlanRun, MayCall, OneAtATime
<1>2. SettledOpening(r, op)
  BY <1>1, OpenedSettled
<1>3. /\ o \in Objs /\ run \in RunType /\ Loaded # None
      /\ dbRun[r] \in RecordType /\ Settled(run, dbRun[r], Loaded.order)
      /\ \A s \in Runs : s # r => store[s] # o
      /\ \A u \in Threads : thr[u].obj # o
      /\ op.plan = RunApplied(Loaded, r, run)
  BY <1>1, <1>2 DEF SettledOpening
<1>4. Loaded \in PlanType /\ o # None
  BY <1>3, LoadedType
<1>5. RowMoves(dbRun[r], dbRun[r], Loaded.order)
  BY <1>3, NoneAssumption DEF RowMoves
<1>6. dbRun' = [dbRun EXCEPT ![r] = dbRun[r]]
  BY <1>1, SameRow
<1> HIDE DEF o, run
<1>7. QED
  BY <1>1, <1>3, <1>4, <1>5, <1>6, DirectMoves

LEMMA ResetPlanRunMoves ==
  ASSUME OneAtATime, TypeInv, SerialInv, NEW r \in Runs, ResetPlanRun(r)
  PROVE  Kinds
<1> DEFINE op  == Opened(r)
           o   == op.obj
           run == ResetRun(op.run)
           rec == RunRecord(run)
           p   == op.plan
<1>1. /\ CanOpen(r)
      /\ \A t \in Threads : thr[t].run # r
      /\ store' = [store EXCEPT ![r] = o] /\ heap' = [heap EXCEPT ![o] = run]
      /\ plan' = RunApplied(p, r, run) /\ Persisted(r, run)
      /\ thr' = thr /\ dbPlan' = dbPlan
  BY DEF ResetPlanRun, MayCall, OneAtATime
<1>2. SettledOpening(r, op)
  BY <1>1, OpenedSettled
<1>3. /\ o \in Objs /\ op.run \in RunType /\ p \in PlanType /\ Loaded # None
      /\ p.order = Loaded.order /\ op.run.order = Loaded.order
      /\ Loaded.order \in Seq(Nodes) /\ Chain(Loaded.order)
      /\ store[r] \in {None, o} /\ (store[r] # None => op.run = heap[o])
      /\ \A s \in Runs : s # r => store[s] # o
      /\ \A u \in Threads : thr[u].obj # o
  BY <1>2 DEF SettledOpening, Settled
<1>4. run \in RunType
  BY <1>3, ResetTypes
<1>5. rec \in RecordType /\ dbRun' = [dbRun EXCEPT ![r] = rec]
  BY <1>1, <1>4, RunRecordType, PersistedRow
<1>6. /\ run.order = op.run.order /\ run.k = 0 /\ run.error = FALSE /\ run.status = "idle"
      /\ run.result = None /\ run.next = NodeAt(op.run.order, 1)
      /\ run.ns = [n \in Nodes |-> IF \E i \in 1..Len(op.run.order) : op.run.order[i] = n
                                   THEN "pending" ELSE None]
  BY <1>3 DEF ResetRun, RunType
<1>7. rec.ns = run.ns /\ rec.status = run.status /\ rec.error = run.error /\ rec.result = run.result
  BY DEF RunRecord
<1>8. Advances(op.run, run)
  BY <1>6 DEF Advances
<1>9. o # None
  BY <1>3
<1> HIDE DEF o, run, rec, p
<1>10. Starts(rec, Loaded.order)
  BY <1>3, <1>6, <1>7 DEF Starts
<1>11. Done(rec.ns, Loaded.order) = 0
  <2>1. Loaded.order \in Seq(Nodes) /\ Chain(Loaded.order)
    BY <1>3
  <2>2. QED
    BY ONLY <1>10, <2>1, RowStarts DEF Starts
<1>12. Settled(run, rec, Loaded.order)
  BY <1>3, <1>6, <1>7, <1>11 DEF Settled
<1>13. RowMoves(dbRun[r], rec, Loaded.order)
  BY <1>10 DEF RowMoves
<1>14. store[r] = o => Advances(heap[o], run)
  BY <1>3, <1>8, <1>9
<1>15. QED
  BY <1>1, <1>3, <1>4, <1>5, <1>12, <1>13, <1>14, DirectMoves, ZenonT(60)

-----------------------------------------------------------------------------
(* Every handler is of one of the kinds: plans, executions and answers.    *)

LEMMA EditMoves ==
  ASSUME OneAtATime, TypeInv, NEW i, NEW valid \in BOOLEAN, NEW s \in Sqls,
         UpdatePlanNode(i, valid, s)
  PROVE  Kinds
<1>1. /\ Loaded # None /\ plan' = EditedPlan(Loaded, i, valid, s)
      /\ i \in 1..Len(Loaded.order)
      /\ dbPlan' = PersistedEdit(Loaded, plan')
      /\ store' = [r \in Runs |-> None] /\ heap' = Swept(heap, store', thr)
      /\ thr' = thr /\ dbRun' = dbRun
  BY DEF UpdatePlanNode, Written, OneAtATime, ClearedStore
<1>2. Loaded \in PlanType
  BY <1>1, LoadedType
<1>3. plan' \in PlanType /\ plan'.order = Loaded.order
  <2>1. plan'.order = Loaded.order
    BY <1>1, <1>2 DEF EditedPlan, PlanType
  <2>2. plan' \in PlanType
    BY <1>1, <1>2, EditedPlanType
  <2>3. QED
    BY <2>1, <2>2
<1>4. dbPlan' \in PlanType /\ dbPlan'.order = plan'.order
  BY <1>1, <1>2, <1>3 DEF PersistedEdit, PlanType
<1>5. \A u \in Threads : thr[u].obj # None => heap'[thr[u].obj] = heap[thr[u].obj]
  <2>1. SUFFICES ASSUME NEW u \in Threads, thr[u].obj # None
                 PROVE  heap'[thr[u].obj] = heap[thr[u].obj]
    OBVIOUS
  <2>2. thr[u].obj \in Objs
    BY <2>1 DEF TypeInv, TypeOK, RequestType
  <2>3. heap' = Swept(heap, store', thr)
    BY <1>1
  <2>4. QED
    BY ONLY <2>2, <2>3, SweptKeeps
<1>6. Replanned
  BY <1>1, <1>3, <1>4, <1>5, NoneAssumption DEF Replanned
<1>7. QED
  BY <1>6 DEF Kinds

LEMMA MergeMoves ==
  ASSUME OneAtATime, TypeInv, NEW i \in 1..(Len(Ops) + 2), NEW j \in 1..(Len(Ops) + 2),
         MergePlanNodes(i, j)
  PROVE  Kinds
<1>1. /\ Loaded # None /\ plan' = MergedPlan(Loaded, i, j)
      /\ i < j /\ j <= Len(Loaded.order) /\ MergeSupported(Loaded, i, j)
      /\ dbPlan' = plan'
      /\ store' = [r \in Runs |-> None] /\ heap' = Swept(heap, store', thr)
      /\ thr' = thr /\ dbRun' = dbRun
  BY DEF MergePlanNodes, Written, OneAtATime, ClearedStore
<1>2. Loaded \in PlanType
  BY <1>1, LoadedType
<1>3. plan' \in PlanType
  BY <1>1, <1>2, MergedPlanType
<1>4. i \in Nat /\ j \in Nat /\ 1 <= i
  BY LenProperties
<1>5. \A u \in Threads : thr[u].obj # None => heap'[thr[u].obj] = heap[thr[u].obj]
  <2>1. SUFFICES ASSUME NEW u \in Threads, thr[u].obj # None
                 PROVE  heap'[thr[u].obj] = heap[thr[u].obj]
    OBVIOUS
  <2>2. thr[u].obj \in Objs
    BY <2>1 DEF TypeInv, TypeOK, RequestType
  <2>3. heap' = Swept(heap, store', thr)
    BY <1>1
  <2>4. QED
    BY ONLY <2>2, <2>3, SweptKeeps
<1>6. Replanned
  BY <1>1, <1>3, <1>4, <1>5, NoneAssumption DEF Replanned
<1>7. QED
  BY <1>6 DEF Kinds

(* A plan that is at most loaded, coloured at its result, or reports a     *)
(* refused merge.                                                          *)
LEMMA QuietMoves ==
  ASSUME TypeInv, Loaded # None, NEW p \in PlanType, plan' = p,
         p.order = Loaded.order, p.runStatus = Loaded.runStatus,
         \A m \in Nodes : m # Result => p.st[m] = Loaded.st[m],
         dbPlan' \in {dbPlan, p},
         store' = store, heap' = heap, dbRun' = dbRun,
         \A u \in Threads : \/ thr'[u] = thr[u]
                            \/ thr[u].obj = None /\ thr'[u].obj = None /\ thr'[u].run = None
  PROVE  Kinds
<1>1. p # None
  BY NoneAssumption
<1>2. plan # None => plan = Loaded
  BY DEF Loaded
<1>3. Quiet
  BY <1>1, <1>2 DEF Quiet
<1>4. QED
  BY <1>3 DEF Kinds

LEMMA GetPlanMoves ==
  ASSUME TypeInv, GetPlan
  PROVE  Kinds
<1>1. /\ plan' = Loaded /\ store' = store /\ heap' = heap /\ dbRun' = dbRun
      /\ thr' = thr /\ dbPlan' = dbPlan
  BY DEF GetPlan
<1>2. CASE Loaded # None
  BY <1>1, <1>2, LoadedType, QuietMoves
<1>3. CASE Loaded = None
  <2>1. plan = None
    BY <1>3 DEF Loaded
  <2>2. Quiet
    BY <1>1, <1>3, <2>1 DEF Quiet
  <2>3. QED
    BY <2>2 DEF Kinds
<1>4. QED
  BY <1>2, <1>3

LEMMA RefuseMergeMoves ==
  ASSUME TypeInv, RefuseMerge
  PROVE  Kinds
<1> DEFINE p == RefusedMerge(Loaded)
<1>1. /\ Loaded # None /\ plan' = p /\ store' = store /\ heap' = heap /\ dbRun' = dbRun
      /\ thr' = thr /\ dbPlan' = dbPlan
  BY DEF RefuseMerge
<1>2. Loaded \in PlanType
  BY <1>1, LoadedType
<1>3. p \in PlanType /\ p.order = Loaded.order /\ p.runStatus = Loaded.runStatus /\ p.st = Loaded.st
  BY <1>2 DEF RefusedMerge, PlanType
<1> HIDE DEF p
<1>4. QED
  BY <1>1, <1>3, QuietMoves

LEMMA ExecuteMoves ==
  ASSUME TypeInv, NEW t \in Threads, NEW client, Execute(t, client)
  PROVE  Kinds
<1>1. /\ Loaded # None /\ plan' = Loaded /\ store' = store /\ heap' = heap /\ dbRun' = dbRun
      /\ dbPlan' = dbPlan /\ thr[t] = Idle
  BY DEF Execute
<1>2. \A u \in Threads : \/ thr'[u] = thr[u]
                         \/ thr[u].obj = None /\ thr'[u].obj = None /\ thr'[u].run = None
  <2> DEFINE req == [Idle EXCEPT !.phase = "exec", !.sql = ExecutionSql(Loaded, client)]
  <2>1. thr' = thr \/ thr' = [thr EXCEPT ![t] = req]
    BY DEF Execute
  <2>2. req.obj = None /\ req.run = None /\ Idle.obj = None
    BY DEF Idle
  <2> HIDE DEF req
  <2>3. QED
    BY <1>1, <2>1, <2>2 DEF TypeInv, TypeOK
<1>3. QED
  BY <1>1, <1>2, LoadedType, QuietMoves

LEMMA DirectlyExecutedMoves ==
  ASSUME OneAtATime, TypeInv, NEW t \in Threads, NEW err \in BOOLEAN, DirectlyExecuted(t, err)
  PROVE  Kinds
<1> DEFINE p == ResultApplied(plan, err)
<1>1. /\ plan' = p /\ dbPlan' = p /\ store' = store /\ heap' = heap /\ dbRun' = dbRun
      /\ thr' = [thr EXCEPT ![t] = Idle] /\ thr[t].obj = None /\ thr[t].phase = "exec"
  BY DEF DirectlyExecuted, Written, OneAtATime
<1>2. plan \in PlanType /\ plan # None /\ Loaded = plan
  BY <1>1 DEF TypeInv, TypeOK, Loadedness, Loaded
<1>3. p \in PlanType
  BY <1>2, ResultAppliedType
<1>4. p.order = plan.order /\ p.runStatus = plan.runStatus
      /\ \A m \in Nodes : m # Result => p.st[m] = plan.st[m]
  BY <1>2 DEF ResultApplied, PlanType
<1>5. Idle.obj = None /\ Idle.run = None
  BY DEF Idle
<1>6. \A u \in Threads : \/ thr'[u] = thr[u]
                         \/ thr[u].obj = None /\ thr'[u].obj = None /\ thr'[u].run = None
  BY <1>1, <1>5 DEF TypeInv, TypeOK
<1> HIDE DEF p
<1>7. QED
  BY <1>1, <1>2, <1>3, <1>4, <1>6, QuietMoves

LEMMA FullRunNextMoves ==
  ASSUME OneAtATime, TypeInv, SerialInv, NEW t \in Threads, FullRunNext(t)
  PROVE  Kinds
<1>1. thr[t].phase = "between" /\ thr[t].obj = None /\ thr[t].run \in Runs /\ plan # None
  BY DEF FullRunNext, TypeInv, RequestSound, Loadedness
<1>2. CASE thr' = [thr EXCEPT ![t] = Idle] /\ UNCHANGED <<plan, store, heap, dbPlan, dbRun, count>>
  <2>1. Idle.obj = None /\ Idle.run = None
    BY DEF Idle
  <2>2. \A u \in Threads : \/ thr'[u] = thr[u]
                           \/ thr[u].obj = None /\ thr'[u].obj = None /\ thr'[u].run = None
    BY <1>1, <1>2, <2>1 DEF TypeInv, TypeOK
  <2>3. Loaded = plan /\ plan \in PlanType
    BY <1>1 DEF Loaded, TypeInv, TypeOK
  <2>4. QED
    BY <1>1, <1>2, <2>2, <2>3, QuietMoves
<1>3. CASE ~ FullRunOver(thr[t].run) /\ BeginStep(t, thr[t].run, Opened(thr[t].run), TRUE)
  <2> DEFINE r == thr[t].run
  <2>1. CanOpen(r) /\ r \in Runs /\ BeginStep(t, r, Opened(r), TRUE)
    BY <1>1, <1>3 DEF FullRunOver, CanOpen
  <2>2. \A u \in Threads : u # t => thr[u].run # r
    BY <1>1 DEF SerialInv, Owners
  <2> HIDE DEF r
  <2>3. QED
    BY <1>1, <2>1, <2>2, BeginStepMoves
<1>4. QED
  BY <1>2, <1>3 DEF FullRunNext

LEMMA CallStepMoves ==
  ASSUME OneAtATime, TypeInv, SerialInv, NEW t \in Threads, NEW r \in Runs, NEW full,
         CallStep(t, r, full)
  PROVE  Kinds
<1>1. thr[t].obj = None
  BY DEF CallStep, Idle
<1>2. \A u \in Threads : thr[u].run # r
  BY DEF CallStep, MayCall, OneAtATime
<1>3. CanOpen(r) /\ BeginStep(t, r, Opened(r), full)
  BY DEF CallStep
<1>4. QED
  BY <1>1, <1>2, <1>3, BeginStepMoves

(* Every step of the service is of one of the four kinds.                  *)
LEMMA StepIsOfAKind == OneAtATime /\ TypeInv /\ SerialInv /\ [Next]_vars => Kinds
<1> SUFFICES ASSUME OneAtATime, TypeInv, SerialInv, [Next]_vars PROVE Kinds
  OBVIOUS
<1>1. CASE \E template \in Templates : Generate(template)
  BY <1>1 DEF Generate, OneAtATime, TypeInv, TypeOK
<1>2. CASE GetPlan
  BY <1>2, GetPlanMoves
<1>3. CASE \E i \in 1..(Len(Ops) + 2), valid \in BOOLEAN, s \in Sqls : UpdatePlanNode(i, valid, s)
  BY <1>3, EditMoves
<1>4. CASE \E i, j \in 1..(Len(Ops) + 2) : MergePlanNodes(i, j)
  BY <1>4, MergeMoves
<1>5. CASE RefuseMerge
  BY <1>5, RefuseMergeMoves
<1>6. CASE \E r \in Runs : CreatePlanRun(r) \/ GetPlanRun(r) \/ ResetPlanRun(r)
  BY <1>6, CreatePlanRunMoves, GetPlanRunMoves, ResetPlanRunMoves
<1>7. CASE \E t \in Threads, r \in Runs, full \in BOOLEAN : CallStep(t, r, full)
  BY <1>7, CallStepMoves
<1>8. CASE \E t \in Threads, client \in Sqls \cup {"stub"} : Execute(t, client)
  BY <1>8, ExecuteMoves
<1>9. CASE \E t \in Threads : Advance(t)
  BY <1>9, PreviewDoneMoves, StepExecutedMoves, DirectlyExecutedMoves, FullRunNextMoves
     DEF Advance
<1>10. CASE Restart
  BY <1>10 DEF Kinds
<1>11. CASE UNCHANGED vars
  <2>1. Quiet
    BY <1>11 DEF vars, Quiet, Loaded, SerialInv, Plans
  <2>2. QED
    BY <2>1 DEF Kinds
<1>12. QED
  BY <1>1, <1>2, <1>3, <1>4, <1>5, <1>6, <1>7, <1>8, <1>9, <1>10, <1>11 DEF Next

LEMMA InitSerial == Init => SerialInv
<1> SUFFICES ASSUME Init PROVE SerialInv
  OBVIOUS
<1>1. \E template, sql : plan = NewPlan(template, sql)
  BY DEF Init
<1>2. Chain(plan.order)
  BY <1>1, NewPlanChain
<1>3. /\ dbPlan = None /\ \A r \in Runs : store[r] = None /\ dbRun[r] = None
      /\ \A t \in Threads : thr[t].obj = None /\ thr[t].run = None
  BY DEF Init, Idle
<1>4. QED
  BY <1>2, <1>3 DEF SerialInv, Plans, Owners, Rows, Stored, Flights

LEMMA SerialInvInductive == OneAtATime /\ TypeInv /\ SerialInv /\ [Next]_vars => SerialInv'
BY StepIsOfAKind, KindsKeep, TypeInvInductive

(* For clients that wait for their answers, a database that takes every    *)
(* write and a question that is not evaluated again.                       *)
THEOREM SerialInvariant ==
  ASSUME OneAtATime
  PROVE  Spec => [](TypeInv /\ SerialInv)
<1>1. Init => TypeInv /\ SerialInv
  BY InitSound, InitSerial
<1>2. TypeInv /\ SerialInv /\ [Next]_vars => (TypeInv /\ SerialInv)'
  BY TypeInvInductive, SerialInvInductive
<1>3. QED
  BY <1>1, <1>2, PTL DEF Spec

-----------------------------------------------------------------------------
(* What the invariant says of the runs in memory.                          *)

LEMMA StoredSound ==
  ASSUME TypeInv, SerialInv, NEW r \in Runs, store[r] # None
  PROVE  LET run == heap[store[r]]
             rec == dbRun[r]
         IN  /\ plan \in PlanType /\ plan # None /\ plan.order \in Seq(Nodes) /\ Chain(plan.order)
             /\ run \in RunType /\ rec \in RecordType /\ RowSound(rec, plan.order)
             /\ IF Awaited(store[r]) THEN Executing(run, rec, plan.order)
                ELSE Settled(run, rec, plan.order)
<1>1. store[r] \in Objs /\ plan \in PlanType /\ plan # None /\ heap[store[r]] \in RunType
  BY DEF TypeInv, TypeOK, Loadedness
<1>2. /\ dbRun[r] # None
      /\ IF Awaited(store[r]) THEN Executing(heap[store[r]], dbRun[r], plan.order)
         ELSE Settled(heap[store[r]], dbRun[r], plan.order)
  BY DEF SerialInv, Stored
<1>3. Loaded # None /\ plan.order = Loaded.order
  BY <1>1, LoadedChain DEF Loaded
<1>4. /\ plan.order \in Seq(Nodes) /\ Chain(plan.order)
      /\ dbRun[r] \in RecordType /\ RowSound(dbRun[r], plan.order)
  BY <1>2, <1>3, LoadedChain
<1>5. QED
  BY <1>1, <1>2, <1>4

LEMMA SettledWalks ==
  ASSUME NEW run, NEW rec, NEW order \in Seq(Nodes), RowSound(rec, order), Settled(run, rec, order)
  PROVE  Walk(run)
<1>1. /\ run.order = order /\ run.k = Done(rec.ns, order) /\ run.ns = rec.ns
      /\ run.status = rec.status /\ run.error = rec.error
      /\ ~ Terminal(run) => run.next = NodeAt(order, run.k + 1)
  BY DEF Settled
<1>2. /\ \A i \in 1..Len(order) : rec.ns[order[i]] = "success" <=> i <= Done(rec.ns, order)
      /\ \A i \in (Done(rec.ns, order) + 2)..Len(order) : rec.ns[order[i]] = "pending"
      /\ rec.status = "success" <=> Done(rec.ns, order) = Len(order)
      /\ rec.status = "idle" => Done(rec.ns, order) = 0
      /\ rec.status = "error" <=> rec.error
      /\ rec.status = "error" => \E m \in Nodes : rec.ns[m] = "error"
  BY DEF RowSound, Walked
<1>3. run.status \in {"idle", "running"} => run.next = NodeAt(run.order, run.k + 1)
  BY <1>1 DEF Terminal
<1>4. /\ \A i \in 1..Len(run.order) : run.ns[run.order[i]] = "success" <=> i <= run.k
      /\ \A i \in (run.k + 2)..Len(run.order) : run.ns[run.order[i]] = "pending"
      /\ run.status = "success" <=> run.k = Len(run.order)
      /\ run.status = "idle" => run.k = 0
      /\ run.status = "error" <=> run.error
      /\ run.status = "error" => \E m \in Nodes : run.ns[m] = "error"
  BY <1>1, <1>2
<1>5. QED
  BY <1>3, <1>4 DEF Walk

LEMMA ExecutingWalks ==
  ASSUME NEW run \in RunType, NEW rec \in RecordType, NEW order \in Seq(Nodes), Chain(order),
         RowSound(rec, order), Executing(run, rec, order)
  PROVE  Walk(run)
<1> DEFINE n == Len(order)
<1>1. /\ run.order = order /\ run.k = Done(rec.ns, order) /\ run.k + 1 = n
      /\ run.ns = [rec.ns EXCEPT ![Result] = "running"] /\ run.status = "running" /\ ~ run.error
  BY DEF Executing
<1>2. /\ n \in Nat /\ n > 0 /\ order[n] = Result /\ \A i \in 1..n : order[i] \in Nodes
      /\ \A i \in 1..n : order[i] = Result <=> i = n
  BY LenProperties DEF Chain, EndsInResult
<1>3. \A i \in 1..n : rec.ns[order[i]] = "success" <=> i <= run.k
  BY <1>1 DEF RowSound, Walked
<1>4. \A i \in 1..n : run.ns[order[i]] = IF i = n THEN "running" ELSE rec.ns[order[i]]
  BY <1>1, <1>2 DEF RecordType, Nodes
<1>5. run.k \in Nat
  BY DEF RunType
<1> HIDE DEF n
<1>6. \A i \in 1..n : run.ns[order[i]] = "success" <=> i <= run.k
  BY <1>1, <1>2, <1>3, <1>4, <1>5
<1>7. (run.k + 2)..n = {}
  BY <1>1, <1>2, <1>5
<1>8. run.k # n /\ n \in 1..n /\ run.ns[order[n]] = "running"
  BY <1>1, <1>2, <1>4, <1>5
<1>9. QED
  BY <1>1, <1>6, <1>7, <1>8 DEF Walk, n

(* A run in memory is always a walk along its order: no overlap of edits,  *)
(* merges, resets, restores, restarts and answers that come late leaves a  *)
(* counter, a node state, a status and an announced next node that do not  *)
(* fit together.                                                           *)
THEOREM RunIsWalkCorrect ==
  ASSUME OneAtATime
  PROVE  Spec => []RunIsWalk
<1>1. TypeInv /\ SerialInv => RunIsWalk
  BY StoredSound, SettledWalks, ExecutingWalks DEF RunIsWalk
<1>2. QED
  BY <1>1, SerialInvariant, PTL

(* A restart loses no completed step: what a restore would build from the  *)
(* row of a run nobody waits for is the run in memory.                     *)
THEOREM DurableProgressCorrect ==
  ASSUME OneAtATime
  PROVE  Spec => []DurableProgress
<1>1. ASSUME TypeInv, SerialInv PROVE DurableProgress
  <2>1. SUFFICES ASSUME NEW r \in Runs, store[r] # None, ~ InFlight(r)
        PROVE  /\ dbRun[r] # None
               /\ LET run  == heap[store[r]]
                      back == RestoredRun(dbRun[r], plan)
                  IN  /\ back.order = run.order
                      /\ back.k = run.k /\ back.ns = run.ns
                      /\ back.status = run.status
                      /\ Terminal(run) \/ back.next = run.next
                      /\ back.result = IF run.error THEN "failure" ELSE run.result
    BY DEF DurableProgress
  <2> DEFINE run  == heap[store[r]]
             rec  == dbRun[r]
             back == RestoredRun(rec, plan)
  <2>2. ~ Awaited(store[r])
    BY <1>1, <2>1 DEF SerialInv, Owners, Awaited, InFlight
  <2>3. /\ plan \in PlanType /\ run \in RunType /\ rec \in RecordType
        /\ RowSound(rec, plan.order) /\ Settled(run, rec, plan.order)
    BY <1>1, <2>1, <2>2, StoredSound
  <2>4. Settled(back, rec, plan.order)
    BY <2>3, RestoredSettled
  <2>5. back.result = IF rec.error THEN "failure" ELSE rec.result
    BY <2>3, ExecutedAssumption DEF RestoredRun, RowSound
  <2>6. rec # None
    BY <2>3, NoneAssumption
  <2>7. back.order = run.order /\ back.k = run.k /\ back.ns = run.ns /\ back.status = run.status
    BY <2>3, <2>4 DEF Settled
  <2>8. Terminal(run) \/ back.next = run.next
    BY <2>3, <2>4 DEF Settled, Terminal
  <2>9. back.result = IF run.error THEN "failure" ELSE run.result
    BY <2>3, <2>5 DEF Settled
  <2> HIDE DEF run, rec, back
  <2>10. QED
    BY <2>6, <2>7, <2>8, <2>9 DEF run, rec, back
<1>2. QED
  BY <1>1, SerialInvariant, PTL

(* The objects a kind leaves in the store: only a handler on their run     *)
(* moves them.                                                             *)
LEMMA MovedHeap ==
  ASSUME TypeInv', NEW T, NEW r \in Runs, NEW o, NEW run, NEW rec,
         Moved(T, r, o, run, rec), NEW s \in Runs, store'[s] # None
  PROVE  IF s = r THEN store'[s] = o /\ heap'[store'[s]] = run
         ELSE store'[s] = store[s] /\ heap'[store'[s]] = heap[store[s]]
<1>1. store'[s] \in Referenced(store', thr')
  BY DEF TypeInv, TypeOK, Referenced
<1>2. heap'[store'[s]] = IF store'[s] = o THEN run ELSE heap[store'[s]]
  BY <1>1 DEF Moved
<1>3. /\ store'[r] \in {None, o}
      /\ s # r => store'[s] = store[s] /\ store[s] # o
  BY DEF Moved
<1>4. QED
  BY <1>2, <1>3

LEMMA KindsAdvance ==
  ASSUME TypeInv, TypeInv', Kinds, NEW s \in Runs, store[s] # None, store'[s] = store[s]
  PROVE  Advances(heap[store[s]], heap'[store[s]])
<1>1. ASSUME NEW T \in SUBSET Threads, NEW r \in Runs, NEW o \in Objs, NEW run \in RunType,
             NEW rec \in RecordType, Moved(T, r, o, run, rec)
      PROVE  Advances(heap[store[s]], heap'[store[s]])
  <2>1. IF s = r THEN store'[s] = o /\ heap'[store'[s]] = run
        ELSE heap'[store'[s]] = heap[store[s]]
    BY <1>1, MovedHeap
  <2>2. CASE s = r
    BY <1>1, <2>1, <2>2 DEF Moved
  <2>3. CASE s # r
    BY <2>1, <2>3 DEF Advances
  <2>4. QED
    BY <2>2, <2>3
<1>2. CASE Replanned
  BY <1>2 DEF Replanned
<1>3. CASE Quiet
  BY <1>3 DEF Quiet, Advances
<1>4. CASE Restart
  BY <1>4 DEF Restart
<1>5. QED
  BY <1>1, <1>2, <1>3, <1>4 DEF Kinds

(* A run in memory advances one node at a time, keeps its order, and goes  *)
(* back only to the start: the late answer of a step finds the run where   *)
(* the request left it, or finds another object.                           *)
THEOREM StepByStepCorrect ==
  ASSUME OneAtATime
  PROVE  Spec => StepByStep
<1>1. TypeInv /\ SerialInv /\ [Next]_vars
      => [\A r \in Runs :
            store[r] # None /\ store'[r] = store[r]
            => LET old == heap[store[r]]
                   new == heap'[store[r]]
               IN  /\ new.order = old.order
                   /\ \/ new.k = old.k /\ (Terminal(old) => new = old)
                      \/ new.k = old.k + 1 /\ ~ Terminal(old)
                      \/ new = ResetRun(old)]_vars
  BY StepIsOfAKind, TypeInvInductive, KindsAdvance DEF Advances
<1>2. QED
  BY <1>1, SerialInvariant, PTL DEF Spec, StepByStep

-----------------------------------------------------------------------------
(* The graph and the run it shows.                                         *)

(* Every node of the order of a run in memory has a state.                 *)
StatesKnown ==
    \A r \in Runs : store[r] # None
       => \A i \in 1..Len(plan.order) : heap[store[r]].ns[plan.order[i]] # None

LEMMA RunHasStates == TypeInv /\ SerialInv => StatesKnown
<1>1. SUFFICES ASSUME TypeInv, SerialInv, NEW r \in Runs, store[r] # None
               PROVE  \A i \in 1..Len(plan.order) : heap[store[r]].ns[plan.order[i]] # None
  BY DEF StatesKnown
<1> DEFINE run == heap[store[r]]
           rec == dbRun[r]
<1>2. /\ plan.order \in Seq(Nodes) /\ rec \in RecordType /\ RowSound(rec, plan.order)
      /\ IF Awaited(store[r]) THEN Executing(run, rec, plan.order)
         ELSE Settled(run, rec, plan.order)
  BY <1>1, StoredSound
<1>3. \A i \in 1..Len(plan.order) : rec.ns[plan.order[i]] # None /\ plan.order[i] \in Nodes
  BY <1>2 DEF RowSound, Walked
<1>4. run.ns = rec.ns \/ run.ns = [rec.ns EXCEPT ![Result] = "running"]
  BY <1>2 DEF Executing, Settled
<1>5. "running" # None
  BY ExecutedAssumption DEF NodeState
<1> HIDE DEF run, rec
<1>6. \A i \in 1..Len(plan.order) : run.ns[plan.order[i]] # None
  BY <1>2, <1>3, <1>4, <1>5 DEF RecordType
<1>7. QED
  BY <1>6 DEF run

ShowsRun(p, r, run) ==
    /\ p.runStatus = RunSummary(r, run)
    /\ \A i \in 1..Len(p.order) : p.order[i] # Result => p.st[p.order[i]] = run.ns[p.order[i]]

LEMMA AppliedShows ==
  ASSUME NEW p \in PlanType, NEW r, NEW run, NEW q, q = RunApplied(p, r, run),
         \A i \in 1..Len(q.order) : run.ns[q.order[i]] # None
  PROVE  ShowsRun(q, r, run)
<1>1. q.order = p.order /\ q.order \in Seq(Nodes) /\ q.runStatus = RunSummary(r, run)
  BY DEF RunApplied, PlanType
<1>2. q.st = [n \in Nodes |-> IF OnPlan(p, n) /\ run.ns[n] # None THEN run.ns[n] ELSE p.st[n]]
  BY DEF RunApplied, PlanType
<1>3. \A i \in 1..Len(q.order) : q.order[i] \in Nodes /\ OnPlan(p, q.order[i])
  BY <1>1 DEF OnPlan
<1>4. QED
  BY <1>1, <1>2, <1>3 DEF ShowsRun

LEMMA KindsShow ==
  ASSUME TypeInv, SerialInv, TypeInv', StatesKnown', GraphShowsRun, Kinds
  PROVE  GraphShowsRun'
<1>1. SUFFICES ASSUME NEW s \in Runs, plan' # None, plan'.runStatus # None, store'[s] # None,
                      plan'.runStatus.run = s
      PROVE  ShowsRun(plan', s, heap'[store'[s]])
  BY DEF GraphShowsRun, ShowsRun
<1>2. plan' \in PlanType /\ \A i \in 1..Len(plan'.order) : heap'[store'[s]].ns[plan'.order[i]] # None
  BY <1>1 DEF StatesKnown, TypeInv, TypeOK
<1>3. plan # None /\ plan.runStatus # None /\ store[s] # None /\ plan.runStatus.run = s
         => ShowsRun(plan, s, heap[store[s]])
  BY DEF GraphShowsRun, ShowsRun
<1>4. ASSUME NEW T \in SUBSET Threads, NEW r \in Runs, NEW o \in Objs, NEW run \in RunType,
             NEW rec \in RecordType, Moved(T, r, o, run, rec)
      PROVE  ShowsRun(plan', s, heap'[store'[s]])
  <2>1. IF s = r THEN store'[s] = o /\ heap'[store'[s]] = run
        ELSE store'[s] = store[s] /\ heap'[store'[s]] = heap[store[s]]
    BY <1>1, <1>4, MovedHeap
  <2>2. CASE \E p \in PlanType : plan' = RunApplied(p, r, run)
    <3>1. PICK p \in PlanType : plan' = RunApplied(p, r, run)
      BY <2>2
    <3>2. r = s
      BY <1>1, <3>1 DEF RunApplied, PlanType, RunSummary
    <3>3. QED
      BY <1>2, <2>1, <3>1, <3>2, AppliedShows
  <2>3. CASE plan' = plan /\ store[r] = o /\ heap[o] = run
    <3>1. store[s] # None /\ heap'[store'[s]] = heap[store[s]]
      BY <1>1, <2>1, <2>3
    <3>2. QED
      BY <1>1, <1>3, <2>3, <3>1
  <2>4. QED
    BY <1>4, <2>2, <2>3 DEF Moved, Shown
<1>5. CASE Replanned
  BY <1>1, <1>5 DEF Replanned
<1>6. CASE Quiet
  <2>1. plan # None
    BY <1>1, <1>6 DEF Quiet, Stored, SerialInv, TypeInv, Loadedness
  <2>2. /\ plan'.runStatus = plan.runStatus /\ store' = store /\ heap' = heap
        /\ plan'.order = plan.order
        /\ \A m \in Nodes : m # Result => plan'.st[m] = plan.st[m]
    BY <1>1, <1>6, <2>1 DEF Quiet, Loaded
  <2>3. \A i \in 1..Len(plan'.order) : plan'.order[i] \in Nodes
    BY <1>2 DEF PlanType
  <2>4. QED
    BY <1>1, <1>3, <2>1, <2>2, <2>3, SMTT(60) DEF ShowsRun
<1>7. CASE Restart
  BY <1>1, <1>7 DEF Restart
<1>8. QED
  BY <1>4, <1>5, <1>6, <1>7 DEF Kinds

(* The summary and the node states a graph shows are those of the run it   *)
(* names, whatever edits, restores, restarts and late answers came between. *)
THEOREM GraphShowsRunCorrect ==
  ASSUME OneAtATime
  PROVE  Spec => []GraphShowsRun
<1>1. Init => GraphShowsRun
  BY DEF Init, GraphShowsRun
<1>2. TypeInv /\ SerialInv => StatesKnown
  BY RunHasStates
<1>3. TypeInv /\ SerialInv /\ GraphShowsRun /\ TypeInv' /\ StatesKnown' /\ [Next]_vars
      => GraphShowsRun'
  BY StepIsOfAKind, KindsShow
<1>4. QED
  BY <1>1, <1>2, <1>3, SerialInvariant, PTL DEF Spec

=============================================================================
