--------------------------- MODULE PlanRunsProofs ---------------------------
(***************************************************************************)
(* The plan service implements RunSpec for clients that wait for their     *)
(* answers: with the invariant of PlanSerialProofs the progress of a run   *)
(* is a function of its row and of the order of the plan alone, wherever   *)
(* the run is - in memory, held by a request, or only in the database -    *)
(* and each kind of step moves it as a step of the counter or not at all.  *)
(***************************************************************************)
EXTENDS PlanRuns, PlanSerialProofs

-----------------------------------------------------------------------------
(* Progress and rows.                                                      *)

RowProgress(rec, order) == Seen(Done(rec.ns, order), order, rec.status)

ProgressIsRow ==
    \A r \in Runs : ProgressOf(r) = IF dbRun[r] = None \/ Loaded = None THEN None
                                    ELSE RowProgress(dbRun[r], Loaded.order)

LEMMA ProgressInRow == TypeInv /\ SerialInv => ProgressIsRow
<1>1. SUFFICES ASSUME TypeInv, SerialInv, NEW r \in Runs
               PROVE  ProgressOf(r) = IF dbRun[r] = None \/ Loaded = None THEN None
                                      ELSE RowProgress(dbRun[r], Loaded.order)
  BY DEF ProgressIsRow
<1>2. CASE store[r] # None
  <2> DEFINE run == heap[store[r]]
             rec == dbRun[r]
  <2>1. /\ plan # None /\ rec \in RecordType
        /\ IF Awaited(store[r]) THEN Executing(run, rec, plan.order)
           ELSE Settled(run, rec, plan.order)
    BY <1>1, <1>2, StoredSound
  <2>2. rec # None /\ Loaded = plan
    BY <2>1, NoneAssumption DEF Loaded
  <2>3. /\ run.k = Done(rec.ns, plan.order) /\ run.order = plan.order
        /\ run.status = rec.status \/ (~ Terminal(run) /\ ~ Terminal(rec))
    BY <2>1 DEF Executing, Settled, Terminal
  <2>4. ProgressOf(r) = Seen(run.k, run.order, run.status)
    BY <1>2 DEF ProgressOf
  <2> HIDE DEF run, rec
  <2>5. Seen(run.k, run.order, run.status) = RowProgress(rec, plan.order)
    BY <2>3 DEF RowProgress, Seen, Terminal
  <2>6. QED
    BY <2>1, <2>2, <2>4, <2>5 DEF rec
<1>3. CASE store[r] = None
  BY <1>3 DEF ProgressOf, RowProgress, Done, PositionsIn
<1>4. QED
  BY <1>2, <1>3

(* What RunSpec says of a row and an order.                                *)
LEMMA ProgressType ==
  ASSUME NEW rec \in RecordType, NEW order \in Seq(Nodes), Chain(order), RowSound(rec, order)
  PROVE  /\ RowProgress(rec, order) \in Promised!Progress
         /\ RowProgress(rec, order) # None
         /\ RowProgress(rec, order).done = Done(rec.ns, order)
         /\ RowProgress(rec, order).of = Len(order)
         /\ RowProgress(rec, order).status = "open" <=> ~ Terminal(rec)
         /\ RowProgress(rec, order).status = IF Terminal(rec) THEN rec.status ELSE "open"
<1> DEFINE status == IF rec.status \in {"success", "error"} THEN rec.status ELSE "open"
<1>1. Len(order) \in Nat \ {0} /\ Done(rec.ns, order) \in Nat
  BY LenProperties DEF Chain, RowSound, Walked
<1>2. RowProgress(rec, order) = [done |-> Done(rec.ns, order), of |-> Len(order), status |-> status]
  BY DEF RowProgress, Seen
<1>3. status \in {"open", "success", "error"} /\ (status = "open" <=> ~ Terminal(rec))
  BY DEF Terminal
<1> HIDE DEF status
<1>4. RowProgress(rec, order) \in Promised!Progress
  BY <1>1, <1>2, <1>3 DEF Promised!Progress
<1>5. status = IF Terminal(rec) THEN rec.status ELSE "open"
  BY DEF status, Terminal
<1>6. QED
  BY <1>2, <1>3, <1>4, <1>5, ProgressAssumption

(* The steps of the counter a row takes.                                   *)

LEMMA RowCounts ==
  ASSUME NEW old \in RecordType, NEW order \in Seq(Nodes), Chain(order), RowSound(old, order),
         ~ Terminal(old), NEW m \in Nodes, Due(old, m, order), NEW res \in Executed \cup {None}
  PROVE  LET new == RowProgress(RowStep(old, m, res), order)
             was == RowProgress(old, order)
         IN  /\ (\E h \in 1..Len(order) : order[h] = m)
                => new = [done |-> was.done + 1, of |-> was.of,
                          status |-> IF was.done + 1 = was.of THEN "success" ELSE "open"]
             /\ ~ (\E h \in 1..Len(order) : order[h] = m) => m # Result /\ new = was
<1> DEFINE n    == Len(order)
           k    == Done(old.ns, order)
           rec  == RowStep(old, m, res)
           on   == \E h \in 1..n : order[h] = m
<1>1. n \in Nat /\ n > 0 /\ order[n] = Result
  BY LenProperties DEF Chain, EndsInResult
<1>2. k \in Nat /\ RowProgress(old, order) = [done |-> k, of |-> n, status |-> "open"]
  BY DEF RowSound, Walked, RowProgress, Seen, Terminal
<1>3. rec.ns = [old.ns EXCEPT ![m] = "success"] /\ rec.status = IF m = Result THEN "success" ELSE "running"
  BY DEF RowStep
<1>4. Done(rec.ns, order) = IF on THEN k + 1 ELSE k
  BY <1>3, StepWalks
<1>5. on => (m = Result <=> k + 1 = n)
  <2>1. m = Result => n = k + 1
    BY <1>1 DEF Due
  <2>2. on => order[k + 1] = m
    BY DEF Due
  <2>3. QED
    BY <1>1, <1>2, <2>1, <2>2
<1>6. m = Result => on
  BY <1>1
<1>7. RowProgress(rec, order) = [done |-> Done(rec.ns, order), of |-> n,
                                 status |-> IF m = Result THEN "success" ELSE "open"]
  BY <1>3 DEF RowProgress, Seen
<1> HIDE DEF k, rec, n, on
<1>8. on => RowProgress(rec, order) = [done |-> k + 1, of |-> n,
                                       status |-> IF k + 1 = n THEN "success" ELSE "open"]
  BY <1>4, <1>5, <1>7
<1>9. ~ on => m # Result /\ RowProgress(rec, order) = RowProgress(old, order)
  BY <1>2, <1>4, <1>6, <1>7
<1>10. QED
  BY <1>2, <1>8, <1>9 DEF rec, on, n

LEMMA RowStops ==
  ASSUME NEW old \in RecordType, NEW order \in Seq(Nodes), Chain(order), RowSound(old, order),
         ~ Terminal(old), NEW m \in Nodes, Due(old, m, order)
  PROVE  RowProgress(RowFailed(old, m), order) = [RowProgress(old, order) EXCEPT !.status = "error"]
<1>1. RowFailed(old, m).status = "error" /\ Done(RowFailed(old, m).ns, order) = Done(old.ns, order)
  BY RowFails DEF RowFailed
<1>2. QED
  BY <1>1 DEF RowProgress, Seen

LEMMA RowOpens ==
  ASSUME NEW rec, NEW order \in Seq(Nodes), Chain(order), Starts(rec, order)
  PROVE  RowProgress(rec, order) = [done |-> 0, of |-> Len(order), status |-> "open"]
<1>1. Done(rec.ns, order) = 0 /\ rec.status = "idle"
  BY RowStarts DEF Starts
<1>2. QED
  BY <1>1 DEF RowProgress, Seen

LEMMA RowShortens ==
  ASSUME NEW p \in PlanType, NEW i \in Nat, NEW j \in Nat,
         1 <= i, i < j, j <= Len(p.order), MergeSupported(p, i, j), Chain(p.order),
         NEW rec \in RecordType, RowSound(rec, p.order)
  PROVE  Promised!Shortened(RowProgress(rec, p.order), RowProgress(rec, MergedPlan(p, i, j).order))
<1> DEFINE n == Len(p.order)
           k == Done(rec.ns, p.order)
           merged == MergedPlan(p, i, j).order
<1>1. n \in Nat /\ p.order \in Seq(Nodes) /\ k \in 0..n
  BY LenProperties DEF PlanType, RowSound, Walked
<1>2. j < n /\ merged \in Seq(Nodes) /\ Len(merged) = n - (j - i)
  BY MergedOrder
<1>3. RowSound(rec, merged) /\ Done(rec.ns, merged) = StillDone(k, i, j) /\ Chain(merged)
  BY MergedRow, MergedChain
<1> DEFINE old == RowProgress(rec, p.order)
           new == RowProgress(rec, merged)
<1> HIDE DEF merged
<1>4. old # None /\ new # None /\ new \in Promised!Progress /\ new.status = old.status
  BY <1>1, <1>2, <1>3, ProgressType
<1>5. old.done = k /\ old.of = n /\ new.done = StillDone(k, i, j) /\ new.of = n - (j - i)
  BY <1>1, <1>2, <1>3, ProgressType
<1> HIDE DEF n, k
<1>6. n - (j - i) < n /\ n - (n - (j - i)) = j - i
  BY <1>1, <1>2
<1>7. 0 <= k - StillDone(k, i, j) /\ k - StillDone(k, i, j) <= j - i
  BY <1>1 DEF StillDone
<1> HIDE DEF old, new
<1>8. Promised!Shortened(old, new)
  BY <1>4, <1>5, <1>6, <1>7 DEF Promised!Shortened
<1>9. QED
  BY <1>8 DEF old, new, merged

-----------------------------------------------------------------------------
(* Each kind of step as a step of the counter.                             *)

LEMMA OneBecomes ==
  ASSUME NEW r \in Runs, NEW new \in Promised!Progress, ProgressOf(r)' = new,
         \A s \in Runs : s # r => ProgressOf(s)' = ProgressOf(s)
  PROVE  Promised!Becomes(r, new)
BY DEF Promised!Becomes

LEMMA NoneBecomes ==
  ASSUME \A s \in Runs : ProgressOf(s)' = ProgressOf(s), dbPlan' = dbPlan \/ dbPlan' # None
  PROVE  [Promised!Next]_(Promised!vars)
<1>1. [r \in Runs |-> ProgressOf(r)]' = [r \in Runs |-> ProgressOf(r)]
  OBVIOUS
<1>2. CASE dbPlan' = dbPlan
  BY <1>1, <1>2 DEF Promised!vars
<1>3. CASE dbPlan' # None
  BY <1>1, <1>3 DEF Promised!Next, Promised!Save
<1>4. QED
  BY <1>2, <1>3

LEMMA ProgressAfter ==
  ASSUME ProgressIsRow', NEW s \in Runs
  PROVE  ProgressOf(s)' = IF dbRun'[s] = None \/ Loaded' = None THEN None
                          ELSE RowProgress(dbRun'[s], Loaded'.order)
BY SMTT(60) DEF ProgressIsRow, RowProgress, Seen, Done

LEMMA MovedCounts ==
  ASSUME TypeInv, SerialInv, TypeInv', SerialInv', ProgressIsRow, ProgressIsRow',
         NEW T, NEW r \in Runs, NEW o, NEW run, NEW rec \in RecordType,
         Moved(T, r, o, run, rec)
  PROVE  [Promised!Next]_(Promised!vars)
<1> DEFINE old   == dbRun[r]
           order == Loaded.order
<1>1. /\ Loaded # None /\ order \in Seq(Nodes) /\ Chain(order)
      /\ \A s \in Runs : dbRun[s] # None => dbRun[s] \in RecordType /\ RowSound(dbRun[s], order)
  BY LoadedChain DEF Moved
<1>2. RowMoves(old, rec, order) /\ RowSaved(old, rec, order)
  BY DEF Moved
<1>3. RowSound(rec, order)
  BY <1>1, <1>2, MovedRow
<1>4. \A s \in Runs : dbRun'[s] = IF s = r THEN rec ELSE dbRun[s]
  BY DEF Moved, TypeInv, TypeOK
<1>5. Loaded' # None /\ Loaded'.order = order
  BY MovedPlans
<1>6. rec # None
  BY NoneAssumption
<1>7. \A s \in Runs : s # r => ProgressOf(s)' = ProgressOf(s)
  <2>1. SUFFICES ASSUME NEW s \in Runs, s # r PROVE ProgressOf(s)' = ProgressOf(s)
    OBVIOUS
  <2>2. ProgressOf(s) = IF dbRun[s] = None THEN None ELSE RowProgress(dbRun[s], order)
    BY <1>1 DEF ProgressIsRow
  <2>3. ProgressOf(s)' = IF dbRun'[s] = None THEN None ELSE RowProgress(dbRun'[s], order)
    BY <1>5, ProgressAfter
  <2>4. QED
    BY <1>4, <2>1, <2>2, <2>3
<1>8. ProgressOf(r)' = RowProgress(rec, order)
  <2>1. ProgressOf(r)' = IF dbRun'[r] = None THEN None ELSE RowProgress(dbRun'[r], order)
    BY <1>5, ProgressAfter
  <2>2. QED
    BY <1>4, <1>6, <2>1
<1>9. ProgressOf(r) = IF old = None THEN None ELSE RowProgress(old, order)
  BY <1>1 DEF ProgressIsRow
<1>10. RowProgress(rec, order) \in Promised!Progress
  BY <1>1, <1>3, ProgressType
<1>11. old # None => old \in RecordType /\ RowSound(old, order)
  BY <1>1
<1>12. Promised!Becomes(r, RowProgress(rec, order))
  BY <1>7, <1>8, <1>10, OneBecomes
<1>13. dbPlan' = dbPlan \/ (dbPlan' # None /\ rec.status = "success" /\ old # None)
  BY <1>2 DEF RowSaved, RowStep
<1> HIDE DEF old, order
<1>14. CASE rec = old /\ old # None
  BY <1>7, <1>8, <1>9, <1>13, <1>14, NoneBecomes
<1>15. CASE Starts(rec, order)
  <2>1. RowProgress(rec, order) = [done |-> 0, of |-> Len(order), status |-> "open"]
    BY <1>1, <1>15, RowOpens
  <2>2. dbPlan' = dbPlan
    BY <1>13, <1>15 DEF Starts
  <2>3. CASE old = None
    <3>1. [s \in Runs |-> ProgressOf(s)]'[r] = RowProgress(rec, order)
      BY <1>8
    <3>2. Promised!Start(r)
      BY <1>9, <1>10, <1>12, <2>1, <2>2, <2>3, <3>1 DEF Promised!Start
    <3>3. QED
      BY <3>2 DEF Promised!Next
  <2>4. CASE old # None
    <3>1. ProgressOf(r) # None /\ ProgressOf(r).of = Len(order)
      BY <1>1, <1>9, <1>11, <2>4, ProgressType
    <3>2. Promised!Reset(r)
      BY <1>12, <2>1, <2>2, <3>1 DEF Promised!Reset
    <3>3. QED
      BY <3>2 DEF Promised!Next
  <2>5. QED
    BY <2>3, <2>4
<1>16. CASE Ends(old, rec, order)
  <2>1. old # None /\ ~ Terminal(old)
    BY <1>16 DEF Ends
  <2>2. PICK m \in Nodes, res \in Executed \cup {None} :
           Due(old, m, order) /\ rec \in {RowStep(old, m, res), RowFailed(old, m)}
    BY <1>16 DEF Ends
  <2>3. /\ ProgressOf(r) = RowProgress(old, order) /\ ProgressOf(r) # None
        /\ ProgressOf(r).status = "open"
    BY <1>1, <1>9, <1>11, <2>1, ProgressType
  <2>4. CASE rec = RowFailed(old, m)
    <3>1. RowProgress(rec, order) = [ProgressOf(r) EXCEPT !.status = "error"]
      BY <1>1, <1>11, <2>1, <2>2, <2>3, <2>4, RowStops
    <3>2. dbPlan' = dbPlan
      BY <1>13, <2>4 DEF RowFailed
    <3>3. Promised!Fail(r)
      BY <1>12, <2>3, <3>1, <3>2 DEF Promised!Fail
    <3>4. QED
      BY <3>3 DEF Promised!Next
  <2>5. CASE rec = RowStep(old, m, res) /\ \E h \in 1..Len(order) : order[h] = m
    <3>1. RowProgress(rec, order)
          = [done |-> ProgressOf(r).done + 1, of |-> ProgressOf(r).of,
             status |-> IF ProgressOf(r).done + 1 = ProgressOf(r).of THEN "success" ELSE "open"]
      BY <1>1, <1>11, <2>1, <2>2, <2>3, <2>5, RowCounts
    <3>2. dbPlan # None => dbPlan' # None
      BY <1>13
    <3>3. Promised!Step(r)
      BY <1>12, <2>3, <3>1, <3>2 DEF Promised!Step
    <3>4. QED
      BY <3>3 DEF Promised!Next
  <2>6. CASE rec = RowStep(old, m, res) /\ ~ \E h \in 1..Len(order) : order[h] = m
    <3>1. RowProgress(rec, order) = RowProgress(old, order)
      BY <1>1, <1>11, <2>1, <2>2, <2>6, RowCounts
    <3>2. QED
      BY <1>7, <1>8, <1>13, <2>3, <3>1, NoneBecomes
  <2>7. QED
    BY <2>2, <2>4, <2>5, <2>6
<1>17. QED
  BY <1>2, <1>14, <1>15, <1>16 DEF RowMoves

LEMMA ReplannedCounts ==
  ASSUME TypeInv, SerialInv, TypeInv', ProgressIsRow, ProgressIsRow', Replanned
  PROVE  [Promised!Next]_(Promised!vars)
<1> DEFINE order == Loaded.order
           next  == plan'.order
<1>1. /\ Loaded # None /\ Loaded \in PlanType /\ order \in Seq(Nodes) /\ Chain(order)
      /\ \A s \in Runs : dbRun[s] # None => dbRun[s] \in RecordType /\ RowSound(dbRun[s], order)
  BY LoadedChain DEF Replanned
<1>2. Loaded' # None /\ Loaded'.order = next /\ dbRun' = dbRun /\ dbPlan' # None
  BY DEF Replanned, Loaded
<1>3. \A s \in Runs : ProgressOf(s) = IF dbRun[s] = None THEN None ELSE RowProgress(dbRun[s], order)
  BY <1>1 DEF ProgressIsRow
<1>4. \A s \in Runs : ProgressOf(s)' = IF dbRun[s] = None THEN None ELSE RowProgress(dbRun[s], next)
  BY <1>2, ProgressAfter
<1> HIDE DEF order, next
<1>5. CASE next = order
  BY <1>2, <1>3, <1>4, <1>5, NoneBecomes
<1>6. CASE \E i, j \in Nat : /\ 1 <= i /\ i < j /\ j <= Len(order)
                             /\ MergeSupported(Loaded, i, j)
                             /\ next = MergedPlan(Loaded, i, j).order
  <2>1. PICK i \in Nat, j \in Nat : /\ 1 <= i /\ i < j /\ j <= Len(order)
                                    /\ MergeSupported(Loaded, i, j)
                                    /\ next = MergedPlan(Loaded, i, j).order
    BY <1>6
  <2>2. ASSUME NEW s \in Runs
        PROVE  Promised!Shortened(ProgressOf(s), ProgressOf(s)')
    <3>1. CASE dbRun[s] = None
      BY <1>3, <1>4, <3>1 DEF Promised!Shortened
    <3>2. CASE dbRun[s] # None
      <4>1. Promised!Shortened(RowProgress(dbRun[s], order), RowProgress(dbRun[s], next))
        BY <1>1, <2>1, <3>2, RowShortens DEF order
      <4>2. QED
        BY <1>3, <1>4, <3>2, <4>1
    <3>3. QED
      BY <3>1, <3>2
  <2>3. Promised!Merge
    BY <1>2, <2>2 DEF Promised!Merge
  <2>4. QED
    BY <2>3 DEF Promised!Next
<1>7. next = order \/ \E i, j \in Nat : /\ 1 <= i /\ i < j /\ j <= Len(order)
                                        /\ MergeSupported(Loaded, i, j)
                                        /\ next = MergedPlan(Loaded, i, j).order
  BY DEF Replanned, order, next
<1>8. QED
  BY <1>5, <1>6, <1>7

(* The order of the plan and the rows are all that progress depends on.    *)
LEMMA SameProgress ==
  ASSUME ProgressIsRow, ProgressIsRow', dbRun' = dbRun, Loaded' # None <=> Loaded # None,
         Loaded # None => Loaded'.order = Loaded.order
  PROVE  \A s \in Runs : ProgressOf(s)' = ProgressOf(s)
<1>1. SUFFICES ASSUME NEW s \in Runs PROVE ProgressOf(s)' = ProgressOf(s)
  OBVIOUS
<1>2. ProgressOf(s) = IF dbRun[s] = None \/ Loaded = None THEN None
                      ELSE RowProgress(dbRun[s], Loaded.order)
  BY DEF ProgressIsRow
<1>3. ProgressOf(s)' = IF dbRun[s] = None \/ Loaded' = None THEN None
                       ELSE RowProgress(dbRun[s], Loaded'.order)
  BY ProgressAfter
<1>4. QED
  BY <1>2, <1>3

LEMMA QuietCounts ==
  ASSUME TypeInv, SerialInv, ProgressIsRow, ProgressIsRow', Quiet
  PROVE  [Promised!Next]_(Promised!vars)
<1>1. /\ Loaded' # None <=> Loaded # None
      /\ Loaded # None => Loaded'.order = Loaded.order
      /\ dbRun' = dbRun
  BY DEF Quiet, Loaded
<1>2. \A s \in Runs : ProgressOf(s)' = ProgressOf(s)
  BY <1>1, SameProgress
<1>3. dbPlan' = dbPlan \/ dbPlan' # None
  BY DEF Quiet
<1>4. QED
  BY <1>2, <1>3, NoneBecomes

LEMMA RestartCounts ==
  ASSUME TypeInv, SerialInv, ProgressIsRow, ProgressIsRow', Restart
  PROVE  [Promised!Next]_(Promised!vars)
<1>1. Loaded' = dbPlan /\ dbRun' = dbRun /\ dbPlan' = dbPlan
  BY DEF Restart, Loaded
<1>2. CASE dbPlan # None
  <2>1. Loaded # None /\ Loaded' # None /\ Loaded'.order = Loaded.order
    BY <1>1, <1>2 DEF Loaded, SerialInv, Plans
  <2>2. \A s \in Runs : ProgressOf(s)' = ProgressOf(s)
    BY <1>1, <2>1, SameProgress
  <2>3. QED
    BY <1>1, <2>2, NoneBecomes
<1>3. CASE dbPlan = None
  <2>1. \A s \in Runs : ProgressOf(s)' = None
    BY <1>1, <1>3 DEF ProgressIsRow
  <2>2. Promised!Lose
    BY <1>1, <1>3, <2>1 DEF Promised!Lose
  <2>3. QED
    BY <2>2 DEF Promised!Next
<1>4. QED
  BY <1>2, <1>3

(* For clients that wait for their answers, a database that takes every    *)
(* write and a question that is not evaluated again, memory and database   *)
(* together are one counter for each run: what an edit takes out of        *)
(* memory, a restart loses and a request rebuilds is never seen in it.     *)
THEOREM RunIsCounterCorrect ==
  ASSUME OneAtATime
  PROVE  Spec => RunIsCounter
<1>1. Init => Promised!Init
  BY DEF Init, Promised!Init, ProgressOf
<1>2. TypeInv /\ SerialInv => ProgressIsRow
  BY ProgressInRow
<1>3. /\ TypeInv /\ SerialInv /\ ProgressIsRow /\ (TypeInv /\ SerialInv /\ ProgressIsRow)'
      /\ [Next]_vars
      => [Promised!Next]_(Promised!vars)
  BY StepIsOfAKind, MovedCounts, ReplannedCounts, QuietCounts, RestartCounts DEF Kinds
<1>4. QED
  BY <1>1, <1>2, <1>3, SerialInvariant, PTL DEF Spec, RunIsCounter, Promised!Spec

=============================================================================
