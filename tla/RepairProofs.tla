----------------------------- MODULE RepairProofs -----------------------------
(* What holds of repair cases for any number of users, plans, clients and   *)
(* rows, and however their executions overlap and rows are lost.            *)
(*                                                                          *)
(* The argument.  A row of an execution or of an edit is never changed, and *)
(* the row of a stepwise run stays one (Grows), so what a case found stays  *)
(* there (FoundInRows).  The rest is a count of the edits of a plan: every  *)
(* row knows how many there were, and if no edit of a plan is made while an *)
(* execution of it is awaited, the order of the rows is that of the counts  *)
(* (InOrder).  Summaries add up over sets: what is said of such a sum is    *)
(* said of every subset in the order of Chosen, and holds because a         *)
(* smallest subset of which it does not would be neither empty nor not      *)
(* (ChosenInduction).                                                       *)
EXTENDS RepairEvaluation, FiniteSetTheorems, WellFoundedInduction, TLAPS

USE RepairAssumption

-----------------------------------------------------------------------------
(* The first of a set of rows.                                              *)

LEMMA LeastExists ==
    ASSUME NEW S, S \subseteq Nat, S # {}
    PROVE  \E x \in S : \A y \in S : x <= y
<1> DEFINE R == {p \in Nat \X Nat : p[1] < p[2]}
<1>1. OpToRel(<, Nat) = R
  BY DEF OpToRel
<1>2. IsWellFoundedOn(R, Nat)
  BY <1>1, NatLessThanWellFounded
<1>3. PICK x \in S : \A y \in S : ~ (<<y, x>> \in R)
  <2> HIDE DEF R
  <2> QED
    BY <1>2, WFMin
<1>4. ASSUME NEW y \in S
      PROVE  x <= y
  <2>1. ~ (y < x)
    BY <1>3
  <2> QED
    BY <2>1
<1> QED
  BY <1>4

LEMMA FirstIsLeast ==
    ASSUME NEW S, S \subseteq Nat, S # {}
    PROVE  First(S) \in S /\ \A y \in S : First(S) <= y
<1>1. First(S) = CHOOSE x \in S : \A y \in S : x <= y
  BY DEF First, Min
<1> QED
  BY <1>1, LeastExists

-----------------------------------------------------------------------------
(* Rows and what a new case takes from them.                                *)

Rows == Sql \cup Step \cup Edit

LEMMA RowKinds ==
    ASSUME NEW row \in Rows
    PROVE  /\ row.type \in {"sql", "plan_step", "edit"} /\ row.plan \in Plans
           /\ row.type = "sql" => row.seen \in Nat
           /\ row.type = "edit" => row.nr \in Nat
BY DEF Rows, Sql, Step, Edit

LEMMA RowParts ==
    ASSUME TypeOK, NEW i \in DOMAIN rows
    PROVE  /\ i \in Nat \ {0} /\ i <= Len(rows) /\ Len(rows) \in Nat
           /\ rows[i] \in Rows
<1>1. rows \in Seq(Rows)
  BY DEF TypeOK, Rows
<1> QED
  BY <1>1

LEMMA RowNumbers ==
    ASSUME TypeOK
    PROVE  DOMAIN rows = 1..Len(rows) /\ Len(rows) \in Nat
BY DEF TypeOK

LEMMA FirstIsRow ==
    ASSUME TypeOK, NEW S, S \subseteq 1..Len(rows)
    PROVE  First(S) \in Ids
<1>1. Len(rows) \in Nat
  BY RowNumbers
<1>2. CASE S = {}
  BY <1>1, <1>2 DEF First, Ids
<1>3. CASE S # {}
  <2>1. S \subseteq Nat
    BY <1>1
  <2>2. First(S) \in 1..Len(rows)
    BY <1>3, <2>1, FirstIsLeast
  <2> QED
    BY <1>1, <2>2 DEF Ids
<1> QED
  BY <1>2, <1>3

(* A case names rows or 0.                                                  *)
LEMMA ChosenRows ==
    ASSUME TypeOK, NEW u, NEW p, NEW originalId \in Ids, NEW postId \in Ids
    PROVE  LET case == NewCase(u, p, originalId, postId)
           IN  case.original \in Ids /\ case.post \in Ids
<1> DEFINE original == Original(u, p, originalId)
           post == PostEdit(u, p, original, postId)
           failed == {i \in SqlRunsOf(u, p) : Failed(i)}
           later == {i \in SqlRunsOf(u, p) : original # 0 /\ i > original /\ Succeeded(i)}
<1>1. DOMAIN rows = 1..Len(rows) /\ Len(rows) \in Nat
  BY RowNumbers
<1>2. SqlRunsOf(u, p) \subseteq 1..Len(rows)
  BY <1>1 DEF SqlRunsOf, RunsOf
<1>3. First(failed) \in Ids
  BY <1>2, FirstIsRow
<1>4. First(later) \in Ids
  BY <1>2, FirstIsRow
<1>5. \A i \in Ids : Named(i) \in Ids
  BY <1>1 DEF Named, Ids
<1>6. original \in Ids
  BY <1>3, <1>5 DEF Original
<1>7. post \in Ids
  BY <1>4, <1>5 DEF PostEdit
<1>8. /\ NewCase(u, p, originalId, postId).original = original
      /\ NewCase(u, p, originalId, postId).post = post
  BY DEF NewCase
<1> QED
  BY <1>6, <1>7, <1>8

LEMMA MetricsAreTyped ==
    ASSUME NEW u, NEW p, NEW original \in Nat, NEW post \in Nat
    PROVE  RepairMetrics(u, p, original, post) \in Metrics
<1> DEFINE edits == EditsBetween(u, p, original, post)
           full == [available |-> TRUE,
                    recovered |-> Failed(original) /\ Succeeded(post),
                    intent    |-> \E i \in edits : rows[i].node = "intent",
                    edits     |-> Cardinality(edits),
                    schema    |-> \E i \in edits : rows[i].node = "binding"]
<1>1. Unavailable \in Metrics
  BY DEF Unavailable, Metrics
<1>2. ASSUME edits # {}
      PROVE  full \in Metrics
  <2>1. IsFiniteSet(original..post)
    BY FS_Interval
  <2>2. IsFiniteSet(edits)
    BY <2>1, FS_Subset DEF EditsBetween
  <2>3. Cardinality(edits) \in Nat \ {0}
    BY <1>2, <2>2, FS_CardinalityType, FS_EmptySet
  <2>4. (Failed(original) /\ Succeeded(post)) \in BOOLEAN
    OBVIOUS
  <2> HIDE DEF edits
  <2> QED
    BY <2>3, <2>4 DEF Metrics
<1>3. RepairMetrics(u, p, original, post) = full \/ RepairMetrics(u, p, original, post) = Unavailable
  BY DEF RepairMetrics
<1>4. edits = {} => RepairMetrics(u, p, original, post) = Unavailable
  BY DEF RepairMetrics
<1> QED
  BY <1>1, <1>2, <1>3, <1>4

LEMMA NewCaseIsTyped ==
    ASSUME TypeOK, NEW u \in Users, NEW p \in Plans,
           NEW originalId \in Ids, NEW postId \in Ids
    PROVE  NewCase(u, p, originalId, postId) \in Case
<1> DEFINE original == Original(u, p, originalId)
           post == PostEdit(u, p, original, postId)
<1>1. NewCase(u, p, originalId, postId)
        = [user |-> u, plan |-> p, picked |-> originalId = 0 /\ postId = 0,
           original |-> original, post |-> post,
           metrics |-> RepairMetrics(u, p, original, post)]
  BY DEF NewCase
<1>2. original \in Nat /\ post \in Nat
  <2>1. Ids \subseteq Nat
    BY RowNumbers DEF Ids
  <2>2. /\ NewCase(u, p, originalId, postId).original = original
        /\ NewCase(u, p, originalId, postId).post = post
    BY <1>1
  <2>3. /\ NewCase(u, p, originalId, postId).original \in Ids
        /\ NewCase(u, p, originalId, postId).post \in Ids
    BY ChosenRows
  <2> QED
    BY <2>1, <2>2, <2>3
<1>3. RepairMetrics(u, p, original, post) \in Metrics
  BY <1>2, MetricsAreTyped
<1> HIDE DEF original, post
<1> QED
  BY <1>1, <1>2, <1>3 DEF Case

-----------------------------------------------------------------------------
(* How rows grow: at most one row is added that is not of a stepwise run,   *)
(* and only those are revised.                                              *)

Grows(rs, rs2, row) ==
    /\ rs2 \in Seq(Rows)
    /\ DOMAIN rs \subseteq DOMAIN rs2
    /\ \A j \in DOMAIN rs :
          rs2[j] = rs[j] \/ (rs[j].type = "plan_step" /\ rs2[j].type = "plan_step")
    /\ \A j \in DOMAIN rs2 \ DOMAIN rs : rs2[j] = row \/ rs2[j].type = "plan_step"

LEMMA SavedGrows ==
    ASSUME NEW rs \in Seq(Rows), NEW i \in Nat, NEW row \in Rows, NEW rs2 \in Saved(rs, i, row),
           i \in DOMAIN rs => rs[i].type = "plan_step" /\ row.type = "plan_step"
    PROVE  Grows(rs, rs2, row)
<1>1. CASE rs2 = rs
  BY <1>1 DEF Grows
<1>2. CASE rs2 = Append(rs, row)
  <2>1. rs2 \in Seq(Rows) /\ DOMAIN rs = 1..Len(rs) /\ DOMAIN rs2 = 1..(Len(rs) + 1)
        /\ Len(rs) \in Nat
    BY <1>2
  <2>2. \A j \in 1..Len(rs) : rs2[j] = rs[j]
    BY <1>2
  <2>3. rs2[Len(rs) + 1] = row
    BY <1>2
  <2>4. \A j \in DOMAIN rs2 \ DOMAIN rs : j = Len(rs) + 1
    BY <2>1
  <2> QED
    BY <2>1, <2>2, <2>3, <2>4 DEF Grows
<1>3. CASE rs2 = [rs EXCEPT ![i] = row]
  <2>1. rs \in [1..Len(rs) -> Rows] /\ Len(rs) \in Nat
    OBVIOUS
  <2>2. rs2 \in [1..Len(rs) -> Rows]
    BY <1>3, <2>1
  <2>3. rs2 \in Seq(Rows)
    BY <2>1, <2>2
  <2>4. DOMAIN rs2 = DOMAIN rs
    BY <1>3
  <2>5. \A j \in DOMAIN rs : rs2[j] = IF j = i THEN row ELSE rs[j]
    BY <1>3
  <2> QED
    BY <2>3, <2>4, <2>5 DEF Grows
<1> QED
  BY <1>1, <1>2, <1>3 DEF Saved

LEMMA GrowsTwice ==
    ASSUME NEW rs, NEW rs2, NEW rs3, NEW row, NEW row2,
           Grows(rs, rs2, row), Grows(rs2, rs3, row2), row2.type = "plan_step"
    PROVE  Grows(rs, rs3, row)
<1>1. \A j \in DOMAIN rs3 \ DOMAIN rs : rs3[j] = row \/ rs3[j].type = "plan_step"
  <2>1. SUFFICES ASSUME NEW j \in DOMAIN rs3 \ DOMAIN rs
                 PROVE  rs3[j] = row \/ rs3[j].type = "plan_step"
    OBVIOUS
  <2>2. CASE j \in DOMAIN rs2
    BY <2>1, <2>2 DEF Grows
  <2>3. CASE j \notin DOMAIN rs2
    BY <2>1, <2>3 DEF Grows
  <2> QED
    BY <2>2, <2>3
<1> QED
  BY <1>1 DEF Grows

-----------------------------------------------------------------------------
(* What requests and rows hold.                                             *)

(* The row of a stepwise run is there, and is of such a run.                *)
IsStep(i) == i # 0 => i \in DOMAIN rows /\ rows[i].type = "plan_step"

StepsAwaited == \A c \in Clients : req[c] # Idle => IsStep(req[c].run)

LEMMA RequestParts ==
    ASSUME NEW r \in Request, r # Idle
    PROVE  /\ r.op \in {"execute", "step"} /\ r.user \in Users /\ r.plan \in Plans
           /\ r.seen \in Nat /\ r.run \in Nat
BY DEF Request, Idle

LEMMA RowTyped ==
    ASSUME NEW r \in Request, r # Idle, NEW outcome \in Outcomes
    PROVE  /\ Row("sql", r, outcome) \in Sql /\ Row("plan_step", r, outcome) \in Step
           /\ Row("sql", r, outcome).type = "sql" /\ Row("plan_step", r, outcome).type = "plan_step"
           /\ Row("sql", r, outcome).plan = r.plan /\ Row("sql", r, outcome).seen = r.seen
BY RequestParts DEF Row, Sql, Step

LEMMA AskedTyped ==
    ASSUME TypeOK, NEW op \in {"execute", "step"}, NEW u \in Users, NEW p \in Plans, NEW i \in Nat
    PROVE  LET r == Asked(op, u, p, i)
           IN  /\ r \in Request /\ r # Idle
               /\ r.plan = p /\ r.seen = edited[p] /\ r.run = i
<1>1. edited[p] \in Nat
  BY DEF TypeOK
<1>2. Asked(op, u, p, i) \in Request
  BY <1>1 DEF Asked, Request
<1>3. Asked(op, u, p, i).op # Idle.op
  BY DEF Asked, Idle
<1> QED
  BY <1>2, <1>3 DEF Asked

LEMMA RunningIsStep ==
    ASSUME TypeOK, NEW p, NEW i \in {0} \cup StepRuns(p) \cup Running(p)
    PROVE  i \in Nat /\ IsStep(i)
BY RowNumbers DEF StepRuns, Running, IsStep

LEMMA ExecutionTyped ==
    ASSUME TypeOK, NEW u \in Users, NEW p \in Plans, NEW r \in Executions(u, p)
    PROVE  r \in Request /\ r # Idle /\ r.plan = p /\ r.seen = edited[p] /\ IsStep(r.run)
<1>1. PICK op \in {"execute", "step"}, i \in {0} \cup Running(p) : r = Asked(op, u, p, i)
  BY DEF Executions
<1>2. i \in Nat /\ IsStep(i)
  BY RunningIsStep
<1> QED
  BY <1>1, <1>2, AskedTyped

(* The row of a result is added, and that of a stepwise run is revised.     *)
LEMMA RecordedGrows ==
    ASSUME TypeOK, NEW r \in Request, r # Idle, IsStep(r.run), NEW outcome \in Outcomes,
           Recorded(r, outcome)
    PROVE  Grows(rows, rows', Row("sql", r, outcome))
<1> DEFINE row == Row("sql", r, outcome)
           step == Row("plan_step", r, outcome)
<1>0. SUFFICES Grows(rows, rows', row)
  OBVIOUS
<1>1. row \in Rows /\ step \in Rows /\ step.type = "plan_step" /\ r.run \in Nat
  BY RowTyped, RequestParts DEF Rows
<1>2. PICK rs \in Saved(rows, 0, row) :
        rows' \in IF r.op = "execute" THEN {rs} ELSE Saved(rs, r.run, step)
  BY DEF Recorded
<1> HIDE DEF row, step
<1>3. rows \in Seq(Rows) /\ 0 \notin DOMAIN rows
  BY DEF TypeOK, Rows
<1>4. Grows(rows, rs, row)
  <2>1. 0 \in Nat
    OBVIOUS
  <2> QED
    BY ONLY <1>1, <1>2, <1>3, <2>1, SavedGrows
<1>5. CASE r.op = "execute"
  BY <1>2, <1>4, <1>5
<1>6. CASE r.op # "execute"
  <2>1. rs \in Seq(Rows)
    BY <1>4 DEF Grows
  <2>2. r.run # 0 => rs[r.run].type = "plan_step"
    BY <1>4 DEF Grows, IsStep
  <2>3. 0 \notin DOMAIN rs
    BY <2>1
  <2>4. rows' \in Saved(rs, r.run, step)
    BY <1>2, <1>6
  <2>5. Grows(rs, rows', step)
    BY <1>1, <2>1, <2>2, <2>3, <2>4, SavedGrows
  <2> QED
    BY <1>1, <1>4, <2>5, GrowsTwice
<1> QED
  BY <1>5, <1>6

(* A stepwise run begins, is reset, moves on, or fails.                     *)
LEMMA SteppedGrows ==
    ASSUME TypeOK, NEW u \in Users, NEW p \in Plans, NEW i,
           (i \in {0} \cup StepRuns(p) /\ StepPending(u, p, i))
           \/ (i \in Running(p) /\ StepFails(u, p, i))
    PROVE  \E row \in Rows : row.type = "plan_step" /\ Grows(rows, rows', row)
<1>1. i \in Nat /\ IsStep(i)
  BY RunningIsStep
<1>2. rows \in Seq(Rows) /\ 0 \notin DOMAIN rows
  BY DEF TypeOK, Rows
<1>3. ASSUME NEW row \in Rows, row.type = "plan_step", rows' \in Saved(rows, i, row)
      PROVE  Grows(rows, rows', row)
  BY <1>1, <1>2, <1>3, SavedGrows DEF IsStep
<1>4. CASE StepPending(u, p, i)
  <2> DEFINE row == [type |-> "plan_step", user |-> u, plan |-> p, outcome |-> "none", seen |-> 0]
  <2>1. row \in Rows /\ row.type = "plan_step"
    BY DEF Rows, Step
  <2>2. rows' \in Saved(rows, i, row)
    BY <1>4 DEF StepPending
  <2> HIDE DEF row
  <2> QED
    BY <1>3, <2>1, <2>2
<1>5. CASE StepFails(u, p, i)
  <2> DEFINE r == Asked("step", u, p, i)
             row == Row("plan_step", r, "error")
  <2>1. r \in Request /\ r # Idle
    BY <1>1, AskedTyped
  <2>2. row \in Rows /\ row.type = "plan_step"
    <3>1. "error" \in Outcomes
      BY DEF Outcomes
    <3> HIDE DEF r
    <3> QED
      BY <2>1, <3>1, RowTyped DEF Rows
  <2>3. rows' \in Saved(rows, i, row)
    BY <1>5 DEF StepFails
  <2> HIDE DEF row
  <2> QED
    BY <1>3, <2>2, <2>3
<1> QED
  BY <1>4, <1>5

(* The row of an edit.                                                      *)
EditRow(u, p, node) ==
    [type |-> "edit", user |-> u, plan |-> p, node |-> node, nr |-> edited[p] + 1]

LEMMA EditGrows ==
    ASSUME TypeOK, NEW u \in Users, NEW p \in Plans, NEW node \in EditKinds,
           EditWritten(u, p, node)
    PROVE  /\ edited' \in [Plans -> Nat]
           /\ edited'[p] = edited[p] + 1
           /\ \A q \in Plans \ {p} : edited'[q] = edited[q]
           /\ Grows(rows, rows', EditRow(u, p, node))
<1>1. edited \in [Plans -> Nat]
  BY DEF TypeOK
<1>2. edited' = [edited EXCEPT ![p] = @ + 1]
  BY DEF EditWritten
<1>3. /\ edited' \in [Plans -> Nat]
      /\ edited'[p] = edited[p] + 1
      /\ \A q \in Plans \ {p} : edited'[q] = edited[q]
  BY <1>1, <1>2
<1>4. EditRow(u, p, node) \in Rows
  <2>1. edited[p] + 1 \in Nat
    BY <1>1
  <2> QED
    BY <2>1 DEF EditRow, Rows, Edit
<1>5. rows' \in Saved(rows, 0, EditRow(u, p, node))
  BY DEF EditWritten, EditRow
<1>6. rows \in Seq(Rows) /\ 0 \notin DOMAIN rows
  BY DEF TypeOK, Rows
<1>7. Grows(rows, rows', EditRow(u, p, node))
  BY <1>4, <1>5, <1>6, SavedGrows
<1> QED
  BY <1>3, <1>7

-----------------------------------------------------------------------------
(* Types.                                                                   *)

LEMMA InitTyped == Init => TypeOK /\ StepsAwaited
<1> SUFFICES ASSUME Init PROVE TypeOK /\ StepsAwaited
  OBVIOUS
<1> USE DEF Init
<1>1. rows \in Seq(Sql \cup Step \cup Edit) /\ cases \in Seq(Case)
  OBVIOUS
<1>2. text \in [Plans -> {"there", "replan", "gone"}] /\ edited \in [Plans -> Nat]
  OBVIOUS
<1>3. req \in [Clients -> Request]
  BY DEF Idle, Request
<1>4. evals \in Seq(Seq([correct : BOOLEAN, error : ErrorTypes \cup {None}]))
  OBVIOUS
<1>5. DOMAIN cases = {}
  OBVIOUS
<1> QED
  BY <1>1, <1>2, <1>3, <1>4, <1>5 DEF TypeOK, StepsAwaited

(* Ids only grow, and a stepwise run stays one.                             *)
LEMMA KeptByRows ==
    ASSUME TypeOK, StepsAwaited, NEW row, Grows(rows, rows', row), UNCHANGED <<cases, evals>>,
           text' \in [Plans -> {"there", "replan", "gone"}],
           edited' \in [Plans -> Nat],
           req' \in [Clients -> Request],
           \A c \in Clients : req'[c] \in {Idle, req[c]}
    PROVE  TypeOK' /\ StepsAwaited'
<1>1. rows' \in Seq(Rows) /\ DOMAIN rows \subseteq DOMAIN rows'
  BY DEF Grows
<1>2. rows \in Seq(Rows)
  BY DEF TypeOK, Rows
<1>3. Ids \subseteq Ids'
  <2>1. 1..Len(rows) \subseteq 1..Len(rows') /\ Len(rows) \in Nat /\ Len(rows') \in Nat
    BY <1>1, <1>2
  <2> QED
    BY <2>1 DEF Ids
<1>4. \A k \in DOMAIN cases : {cases[k].original, cases[k].post} \subseteq Ids'
  BY <1>3 DEF TypeOK
<1>5. TypeOK'
  BY <1>1, <1>4 DEF TypeOK, Rows
<1>6. \A i : IsStep(i) => IsStep(i)'
  BY DEF IsStep, Grows
<1>7. StepsAwaited'
  BY <1>6 DEF StepsAwaited
<1> QED
  BY <1>5, <1>7

LEMMA CreateCaseTyped ==
    ASSUME TypeOK, StepsAwaited, NEW u \in Users, NEW p \in Plans,
           NEW originalId \in Ids, NEW postId \in Ids,
           CreateCase(u, p, originalId, postId)
    PROVE  TypeOK' /\ StepsAwaited'
<1> DEFINE case == NewCase(u, p, originalId, postId)
<1>1. case \in Case /\ {case.original, case.post} \subseteq Ids
  BY NewCaseIsTyped, ChosenRows
<1>2. cases \in Seq(Case) /\ cases' = Append(cases, case)
  BY DEF TypeOK, CreateCase
<1> HIDE DEF case
<1>3. cases' \in Seq(Case)
  BY <1>1, <1>2
<1>4. \A k \in DOMAIN cases' : cases'[k] = case \/ (k \in DOMAIN cases /\ cases'[k] = cases[k])
  BY <1>1, <1>2
<1>5. \A k \in DOMAIN cases' : {cases'[k].original, cases'[k].post} \subseteq Ids
  BY <1>1, <1>4 DEF TypeOK
<1>6. UNCHANGED <<rows, text, edited, req, evals>>
  BY DEF CreateCase
<1>7. Ids' = Ids
  BY <1>6 DEF Ids
<1> QED
  BY <1>3, <1>5, <1>6, <1>7 DEF TypeOK, StepsAwaited, IsStep

LEMMA StepTyped == TypeOK /\ StepsAwaited /\ [Next]_vars => TypeOK' /\ StepsAwaited'
<1> SUFFICES ASSUME TypeOK, StepsAwaited, [Next]_vars
             PROVE  TypeOK' /\ StepsAwaited'
  OBVIOUS
<1> DEFINE Evals == Seq(Seq([correct : BOOLEAN, error : ErrorTypes \cup {None}]))
           Typed == /\ text' \in [Plans -> {"there", "replan", "gone"}]
                    /\ edited' \in [Plans -> Nat]
                    /\ req' \in [Clients -> Request]
                    /\ \A c \in Clients : req'[c] \in {Idle, req[c]}
<1>1. ASSUME NEW u \in Users, NEW p \in Plans, NEW c \in Clients, NEW r \in Executions(u, p),
             Refuse(c, r)
      PROVE  TypeOK' /\ StepsAwaited'
  <2>1. Recorded(r, "needs_replan") /\ UNCHANGED <<text, edited, req, cases, evals>>
    BY <1>1 DEF Refuse
  <2>2. Grows(rows, rows', Row("sql", r, "needs_replan"))
    BY <2>1, ExecutionTyped, RecordedGrows DEF Outcomes
  <2>3. Typed
    BY <2>1 DEF TypeOK
  <2> QED
    BY <2>1, <2>2, <2>3, KeptByRows
<1>2. ASSUME NEW u \in Users, NEW p \in Plans, NEW c \in Clients, NEW r \in Executions(u, p),
             Execute(c, r)
      PROVE  TypeOK' /\ StepsAwaited'
  <2>1. r \in Request /\ IsStep(r.run)
    BY ExecutionTyped
  <2>2. req' = [req EXCEPT ![c] = r] /\ UNCHANGED <<rows, text, edited, cases, evals>>
    BY <1>2 DEF Execute
  <2>3. req' \in [Clients -> Request]
    BY <2>1, <2>2 DEF TypeOK
  <2>4. TypeOK'
    BY <2>2, <2>3 DEF TypeOK, Ids
  <2>5. \A d \in Clients : req'[d] = r \/ req'[d] = req[d]
    BY <2>2 DEF TypeOK
  <2>6. StepsAwaited'
    BY <2>1, <2>2, <2>5 DEF StepsAwaited, IsStep
  <2> QED
    BY <2>4, <2>6
<1>3. ASSUME NEW c \in Clients, NEW outcome \in {"rows", "error"}, Executed(c, outcome)
      PROVE  TypeOK' /\ StepsAwaited'
  <2>1. /\ req[c] # Idle
        /\ Recorded(req[c], outcome)
        /\ req' = [req EXCEPT ![c] = Idle]
        /\ UNCHANGED <<text, edited, cases, evals>>
    BY <1>3 DEF Executed
  <2>2. req[c] \in Request /\ IsStep(req[c].run) /\ outcome \in Outcomes
    BY <2>1 DEF TypeOK, StepsAwaited, Outcomes
  <2>3. Grows(rows, rows', Row("sql", req[c], outcome))
    BY <2>1, <2>2, RecordedGrows
  <2>4. Idle \in Request
    BY DEF Idle, Request
  <2>5. Typed
    BY <2>1, <2>4 DEF TypeOK
  <2> QED
    BY <2>1, <2>3, <2>5, KeptByRows
<1>4. ASSUME NEW u \in Users, NEW p \in Plans, NEW i,
             (i \in {0} \cup StepRuns(p) /\ StepPending(u, p, i))
             \/ (i \in Running(p) /\ StepFails(u, p, i))
      PROVE  TypeOK' /\ StepsAwaited'
  <2>1. PICK row \in Rows : Grows(rows, rows', row)
    BY <1>4, SteppedGrows
  <2>2. UNCHANGED <<text, edited, req, cases, evals>>
    BY <1>4 DEF StepPending, StepFails
  <2>3. Typed
    BY <2>2 DEF TypeOK
  <2> QED
    BY <2>1, <2>2, <2>3, KeptByRows
<1>5. ASSUME NEW u \in Users, NEW p \in Plans, NEW node \in EditKinds, EditWritten(u, p, node),
             text' \in [Plans -> {"there", "replan", "gone"}]
      PROVE  TypeOK' /\ StepsAwaited'
  <2>1. edited' \in [Plans -> Nat] /\ Grows(rows, rows', EditRow(u, p, node))
    BY <1>5, EditGrows
  <2>2. UNCHANGED <<req, cases, evals>>
    BY <1>5 DEF EditWritten
  <2>3. Typed
    BY <1>5, <2>1, <2>2 DEF TypeOK
  <2> QED
    BY <2>1, <2>2, <2>3, KeptByRows
<1>6. ASSUME NEW u \in Users, NEW p \in Plans, NEW node \in UpdateKinds, EditNode(u, p, node)
      PROVE  TypeOK' /\ StepsAwaited'
  <2>1. text' = [text EXCEPT ![p] = Edited(p, node)] /\ EditWritten(u, p, node)
    BY <1>6 DEF EditNode
  <2>2. text' \in [Plans -> {"there", "replan", "gone"}]
    BY <2>1 DEF TypeOK, Edited
  <2>3. node \in EditKinds
    BY DEF EditKinds
  <2> QED
    BY <1>5, <2>1, <2>2, <2>3
<1>7. ASSUME NEW u \in Users, NEW p \in Plans, MergeNodes(u, p)
      PROVE  TypeOK' /\ StepsAwaited'
  <2>1. EditWritten(u, p, "merge") /\ text' = text
    BY <1>7 DEF MergeNodes
  <2>2. text' \in [Plans -> {"there", "replan", "gone"}]
    BY <2>1 DEF TypeOK
  <2>3. "merge" \in EditKinds
    BY DEF EditKinds
  <2> QED
    BY <1>5, <2>1, <2>2, <2>3
<1>8. ASSUME NEW a \in Attempts, NEW b \in Attempts, RunEvaluation(<<a, b>>)
      PROVE  TypeOK' /\ StepsAwaited'
  <2> DEFINE questions == <<a, b>>
             C == [correct : BOOLEAN, error : ErrorTypes \cup {None}]
             done == [i \in DOMAIN questions |-> EvaluatedCase(questions[i])]
  <2>1. \A x \in Attempts : EvaluatedCase(x) \in C
    BY DEF EvaluatedCase, ErrorType, ErrorTypes, Attempts
  <2>2. DOMAIN questions = 1..2 /\ \A i \in 1..2 : questions[i] \in Attempts
    OBVIOUS
  <2>3. evals \in Seq(Seq(C)) /\ evals' = Append(evals, done)
    BY <1>8 DEF RunEvaluation, TypeOK
  <2>4. UNCHANGED <<rows, text, edited, req, cases>>
    BY <1>8 DEF RunEvaluation
  <2>5. done \in Seq(C)
    <3> HIDE DEF questions, C
    <3>1. done \in [1..2 -> C]
      BY <2>1, <2>2
    <3> QED
      BY <3>1
  <2>6. evals' \in Seq(Seq(C))
    <3> HIDE DEF C, done
    <3> QED
      BY <2>3, <2>5
  <2> QED
    BY <2>4, <2>6 DEF TypeOK, Ids, StepsAwaited, IsStep
<1>9. CASE Restart
  <2>1. evals' = << >> /\ req' = [c \in Clients |-> Idle] /\ UNCHANGED <<rows, text, edited, cases>>
    BY <1>9 DEF Restart
  <2>2. req' \in [Clients -> Request] /\ StepsAwaited'
    BY <2>1 DEF Idle, Request, StepsAwaited
  <2>3. evals' \in Evals
    BY <2>1
  <2> QED
    BY <2>1, <2>2, <2>3 DEF TypeOK, Ids
<1>10. CASE UNCHANGED vars
  BY <1>10 DEF vars, TypeOK, Ids, StepsAwaited, IsStep
<1> QED
  BY <1>1, <1>2, <1>3, <1>4, <1>6, <1>7, <1>8, <1>9, <1>10, CreateCaseTyped DEF Next

(* Every variable has its type, and a case names rows, for any users, plans *)
(* and clients (create_repair_case, run_demo_execution, step_plan_run,      *)
(* run_evaluation).                                                         *)
THEOREM RepairTypeCorrect == Spec => []TypeOK
<1>1. Init => TypeOK /\ StepsAwaited
  BY InitTyped
<1>2. TypeOK /\ StepsAwaited /\ [Next]_vars => TypeOK' /\ StepsAwaited'
  BY StepTyped
<1> QED
  BY <1>1, <1>2, PTL DEF Spec

-----------------------------------------------------------------------------
(* What a case with metrics found in the rows.  It is said of any sequence  *)
(* of rows, since it stays true as they grow.                               *)

Found(r, case) ==
    case.metrics.available =>
       /\ {case.original, case.post} \subseteq DOMAIN r
       /\ case.original < case.post
       /\ \A i \in {case.original, case.post} :
             r[i].type # "edit" /\ (r[i].type = "sql" => r[i].plan = case.plan)
       /\ \E i \in case.original..case.post :
             i \in DOMAIN r /\ r[i].type = "edit" /\ r[i].user = case.user /\ r[i].plan = case.plan
       /\ case.picked => /\ case.metrics.recovered
                         /\ r[case.original].type = "sql" /\ r[case.post].type = "sql"
                         /\ r[case.original].outcome = "error"
                         /\ r[case.post].outcome # "error"

FoundInRows == \A k \in DOMAIN cases : Found(rows, cases[k])

LEMMA FoundStays ==
    ASSUME NEW r, NEW s, NEW row, NEW case, Found(r, case), Grows(r, s, row)
    PROVE  Found(s, case)
<1> SUFFICES ASSUME case.metrics.available
             PROVE  Found(s, case)
  BY DEF Found
<1>1. \A i \in DOMAIN r : r[i].type # "plan_step" => s[i] = r[i]
  BY DEF Grows
<1>2. \A i \in DOMAIN r : i \in DOMAIN s /\ (r[i].type = "plan_step" => s[i].type = "plan_step" \/ s[i] = r[i])
  BY DEF Grows
<1>3. \A i \in {case.original, case.post} :
         s[i].type # "edit" /\ (s[i].type = "sql" => s[i].plan = case.plan)
  BY <1>1, <1>2 DEF Found
<1>4. \E i \in case.original..case.post :
         i \in DOMAIN s /\ s[i].type = "edit" /\ s[i].user = case.user /\ s[i].plan = case.plan
  BY <1>1, <1>2 DEF Found
<1>5. {case.original, case.post} \subseteq DOMAIN s
  BY <1>2 DEF Found
<1>6. case.picked =>
        /\ s[case.original].type = "sql" /\ s[case.post].type = "sql"
        /\ s[case.original].outcome = "error"
        /\ s[case.post].outcome # "error"
  BY <1>1 DEF Found
<1> QED
  BY <1>3, <1>4, <1>5, <1>6 DEF Found

(* The runs of a case without named ones are executions; the original       *)
(* failed, and the second did not.                                          *)
LEMMA PickedRuns ==
    ASSUME TypeOK, NEW u, NEW p,
           LET original == Original(u, p, 0)
           IN  {original, PostEdit(u, p, original, 0)} \subseteq RunsOf(u, p)
    PROVE  LET original == Original(u, p, 0)
           IN  /\ Failed(original) /\ Succeeded(PostEdit(u, p, original, 0))
               /\ {original, PostEdit(u, p, original, 0)} \subseteq SqlRunsOf(u, p)
<1> DEFINE original == Original(u, p, 0)
           post == PostEdit(u, p, original, 0)
           failed == {i \in SqlRunsOf(u, p) : Failed(i)}
           later == {i \in SqlRunsOf(u, p) : original # 0 /\ i > original /\ Succeeded(i)}
<1>1. RunsOf(u, p) \subseteq Nat \ {0} /\ SqlRunsOf(u, p) \subseteq RunsOf(u, p)
  BY RowNumbers DEF RunsOf, SqlRunsOf
<1>2. original = First(failed) /\ post = First(later)
  BY DEF Original, PostEdit
<1>3. First({}) = 0
  BY DEF First
<1>4. original # 0 /\ post # 0
  BY <1>1
<1>5. failed \subseteq Nat /\ later \subseteq Nat
  BY <1>1
<1>6. failed # {} /\ later # {}
  <2> HIDE DEF failed, later
  <2> QED
    BY <1>2, <1>3, <1>4
<1>7. First(failed) \in failed /\ First(later) \in later
  <2> HIDE DEF failed, later
  <2> QED
    BY <1>5, <1>6, FirstIsLeast
<1>8. original \in failed /\ post \in later
  <2> HIDE DEF failed, later, original, post
  <2> QED
    BY <1>2, <1>7
<1>9. Failed(original) /\ Succeeded(post) /\ {original, post} \subseteq SqlRunsOf(u, p)
  <2> HIDE DEF original, post
  <2> QED
    BY <1>8
<1> QED
  BY <1>9

LEMMA NewCaseFound ==
    ASSUME TypeOK, NEW u \in Users, NEW p \in Plans,
           NEW originalId \in Ids, NEW postId \in Ids
    PROVE  Found(rows, NewCase(u, p, originalId, postId))
<1> DEFINE case == NewCase(u, p, originalId, postId)
           original == Original(u, p, originalId)
           post == PostEdit(u, p, original, postId)
           edits == EditsBetween(u, p, original, post)
<1>1. /\ case.user = u /\ case.plan = p
      /\ case.picked = (originalId = 0 /\ postId = 0)
      /\ case.original = original /\ case.post = post
      /\ case.metrics = RepairMetrics(u, p, original, post)
  BY DEF NewCase
<1>2. SUFFICES ASSUME case.metrics.available
               PROVE  Found(rows, case)
  BY DEF Found
<1>3. ~ Unavailable.available
  BY DEF Unavailable
<1>4. {original, post} \subseteq RunsOf(u, p) /\ post > original /\ edits # {}
  <2> HIDE DEF original, post, case
  <2> QED
    BY <1>1, <1>2, <1>3 DEF RepairMetrics
<1>5. case.metrics.recovered = (Failed(original) /\ Succeeded(post))
  <2> HIDE DEF original, post, case
  <2> QED
    BY <1>1, <1>4 DEF RepairMetrics
<1>6. original \in DOMAIN rows /\ post \in DOMAIN rows
  BY <1>4 DEF RunsOf
<1>7. original < post
  <2>1. original \in Nat /\ post \in Nat
    BY <1>6, RowNumbers
  <2> HIDE DEF original, post
  <2> QED
    BY <1>4, <2>1
<1>8. \A i \in {original, post} : rows[i].type # "edit" /\ rows[i].plan = p
  BY <1>4 DEF RunsOf
<1>9. \E i \in original..post :
         i \in DOMAIN rows /\ rows[i].type = "edit" /\ rows[i].user = u /\ rows[i].plan = p
  <2>1. PICK i \in original..post : rows[i].type = "edit" /\ rows[i].user = u /\ rows[i].plan = p
    BY <1>4 DEF EditsBetween
  <2>2. i \in DOMAIN rows
    <3> HIDE DEF original, post
    <3> QED
      BY <1>6, <2>1, RowNumbers
  <2> QED
    BY <2>1, <2>2
<1>10. ASSUME case.picked
       PROVE  /\ Failed(original) /\ Succeeded(post)
              /\ rows[original].type = "sql" /\ rows[post].type = "sql"
  <2>1. originalId = 0 /\ postId = 0
    BY <1>1, <1>10
  <2> QED
    BY <1>4, <2>1, PickedRuns DEF SqlRunsOf
<1> HIDE DEF case, original, post
<1> QED
  BY <1>1, <1>5, <1>6, <1>7, <1>8, <1>9, <1>10 DEF Found, Failed, Succeeded

(* Every step leaves the rows or lets them grow.                            *)
LEMMA RowsGrow ==
    ASSUME TypeOK, StepsAwaited, [Next]_vars
    PROVE  rows' = rows \/ \E row : Grows(rows, rows', row)
<1>1. ASSUME NEW u \in Users, NEW p \in Plans, NEW c \in Clients, NEW r \in Executions(u, p),
             Refuse(c, r)
      PROVE  \E row : Grows(rows, rows', row)
  BY <1>1, ExecutionTyped, RecordedGrows DEF Refuse, Outcomes
<1>2. ASSUME NEW c \in Clients, NEW outcome \in {"rows", "error"}, Executed(c, outcome)
      PROVE  \E row : Grows(rows, rows', row)
  <2>1. req[c] # Idle /\ Recorded(req[c], outcome)
    BY <1>2 DEF Executed
  <2>2. req[c] \in Request /\ IsStep(req[c].run) /\ outcome \in Outcomes
    BY <2>1 DEF TypeOK, StepsAwaited, Outcomes
  <2> QED
    BY <2>1, <2>2, RecordedGrows
<1>3. ASSUME NEW u \in Users, NEW p \in Plans, NEW node \in UpdateKinds, EditNode(u, p, node)
      PROVE  \E row : Grows(rows, rows', row)
  BY <1>3, EditGrows DEF EditNode, EditKinds
<1>4. ASSUME NEW u \in Users, NEW p \in Plans, MergeNodes(u, p)
      PROVE  \E row : Grows(rows, rows', row)
  BY <1>4, EditGrows DEF MergeNodes, EditKinds
<1> QED
  BY <1>1, <1>2, <1>3, <1>4, SteppedGrows
     DEF Next, vars, Execute, CreateCase, RunEvaluation, Restart

LEMMA CasesOfStep ==
    ASSUME TypeOK, [Next]_vars
    PROVE  \A k \in DOMAIN cases' :
              \/ k \in DOMAIN cases /\ cases'[k] = cases[k]
              \/ Found(rows, cases'[k]) /\ rows' = rows
<1>1. ASSUME NEW u \in Users, NEW p \in Plans, NEW originalId \in Ids, NEW postId \in Ids,
             CreateCase(u, p, originalId, postId)
      PROVE  \A k \in DOMAIN cases' :
                \/ k \in DOMAIN cases /\ cases'[k] = cases[k]
                \/ Found(rows, cases'[k]) /\ rows' = rows
  <2> DEFINE case == NewCase(u, p, originalId, postId)
  <2>1. Found(rows, case)
    BY NewCaseFound
  <2>2. cases \in Seq(Case) /\ cases' = Append(cases, case) /\ rows' = rows
    BY <1>1 DEF TypeOK, CreateCase
  <2> HIDE DEF case
  <2>3. \A k \in DOMAIN cases' : cases'[k] = case \/ (k \in DOMAIN cases /\ cases'[k] = cases[k])
    BY <2>2
  <2> QED
    BY <2>1, <2>2, <2>3
<1>2. \/ cases' = cases
      \/ \E u \in Users, p \in Plans, originalId, postId \in Ids : CreateCase(u, p, originalId, postId)
  BY DEF Next, vars, Refuse, Execute, Executed, StepPending, StepFails, EditNode, MergeNodes,
         EditWritten, RunEvaluation, Restart
<1> QED
  BY <1>1, <1>2

LEMMA StepFound == TypeOK /\ StepsAwaited /\ FoundInRows /\ [Next]_vars => FoundInRows'
<1> SUFFICES ASSUME TypeOK, StepsAwaited, FoundInRows, [Next]_vars, NEW k \in DOMAIN cases'
             PROVE  Found(rows', cases'[k])
  BY DEF FoundInRows
<1>1. CASE k \in DOMAIN cases /\ cases'[k] = cases[k]
  <2>1. Found(rows, cases[k])
    BY <1>1 DEF FoundInRows
  <2> QED
    BY <1>1, <2>1, RowsGrow, FoundStays
<1>2. CASE Found(rows, cases'[k]) /\ rows' = rows
  BY <1>2
<1> QED
  BY <1>1, <1>2, CasesOfStep

LEMMA FoundIsRecovery == TypeOK /\ FoundInRows => PickedIsRecovery
BY DEF FoundInRows, Found, PickedIsRecovery

(* A case whose runs the server picked has no metrics or counts as a        *)
(* recovery: an execution that failed, an edit by the user, and an          *)
(* execution that did not fail, which is all _compute_repair_metrics asks   *)
(* for, and the rows that say so are there for good.                        *)
THEOREM PickedIsRecoveryCorrect == Spec => []PickedIsRecovery
<1>1. Init => TypeOK /\ StepsAwaited /\ FoundInRows
  BY InitTyped DEF Init, FoundInRows
<1>2. TypeOK /\ StepsAwaited /\ FoundInRows /\ [Next]_vars
        => TypeOK' /\ StepsAwaited' /\ FoundInRows'
  BY StepTyped, StepFound
<1>3. TypeOK /\ FoundInRows => PickedIsRecovery
  BY FoundIsRecovery
<1> QED
  BY <1>1, <1>2, <1>3, PTL DEF Spec

-----------------------------------------------------------------------------
(* The order of rows and counts, if no edit overlaps an execution: no row   *)
(* knows of more edits than there were, an execution is followed only by    *)
(* edits it did not see, and an edit only by executions that saw it.        *)

KnownEdits ==
    \A i \in DOMAIN rows :
       /\ rows[i].type = "sql" => rows[i].seen <= edited[rows[i].plan]
       /\ rows[i].type = "edit" => rows[i].nr <= edited[rows[i].plan]

RunBeforeEdit ==
    \A i, j \in DOMAIN rows :
       i < j /\ rows[i].type = "sql" /\ rows[j].type = "edit" /\ rows[i].plan = rows[j].plan
          => rows[i].seen < rows[j].nr

EditBeforeRun ==
    \A i, j \in DOMAIN rows :
       i < j /\ rows[i].type = "edit" /\ rows[j].type = "sql" /\ rows[i].plan = rows[j].plan
          => rows[i].nr <= rows[j].seen

NoEditAwaited ==
    \A c \in Clients : req[c] # Idle => req[c].seen = edited[req[c].plan]

RowOrder == KnownEdits /\ RunBeforeEdit /\ EditBeforeRun

InOrder == Serial => RowOrder /\ NoEditAwaited

LEMMA InitInOrder == Init => InOrder
BY DEF Init, Idle, InOrder, RowOrder, KnownEdits, RunBeforeEdit, EditBeforeRun, NoEditAwaited

LEMMA RowNumbersTyped ==
    ASSUME TypeOK, NEW i \in DOMAIN rows
    PROVE  /\ i \in Nat
           /\ rows[i].plan \in Plans /\ edited[rows[i].plan] \in Nat
           /\ rows[i].type = "sql" => rows[i].seen \in Nat
           /\ rows[i].type = "edit" => rows[i].nr \in Nat
<1>1. rows[i] \in Rows /\ i \in Nat
  BY RowParts
<1>2. edited \in [Plans -> Nat]
  BY DEF TypeOK
<1> QED
  BY <1>1, <1>2, RowKinds

(* A row that says something of the edits is an old one or the new one.     *)
LEMMA OldOrNew ==
    ASSUME TypeOK, NEW row, Grows(rows, rows', row)
    PROVE  /\ \A j \in DOMAIN rows' : rows'[j].type \in {"sql", "edit"} =>
                 \/ j \in DOMAIN rows /\ rows'[j] = rows[j]
                 \/ j \notin DOMAIN rows /\ rows'[j] = row
           /\ \A i \in DOMAIN rows', j \in DOMAIN rows : i < j => i \in DOMAIN rows
<1>1. \A j \in DOMAIN rows' : rows'[j].type \in {"sql", "edit"} =>
         \/ j \in DOMAIN rows /\ rows'[j] = rows[j]
         \/ j \notin DOMAIN rows /\ rows'[j] = row
  BY DEF Grows
<1>2. DOMAIN rows = 1..Len(rows) /\ Len(rows) \in Nat
  BY RowNumbers
<1>3. rows' \in Seq(Rows)
  BY DEF Grows
<1>4. \A i \in DOMAIN rows' : i \in Nat /\ i >= 1
  BY <1>3
<1> QED
  BY <1>1, <1>2, <1>4

(* The row of an execution or of a stepwise run that is written now.        *)
LEMMA RunInOrder ==
    ASSUME TypeOK, RowOrder, NEW row \in Rows, Grows(rows, rows', row), edited' = edited,
           row.type # "edit", row.type = "sql" => row.seen = edited[row.plan]
    PROVE  RowOrder'
<1>1. /\ \A j \in DOMAIN rows' : rows'[j].type \in {"sql", "edit"} =>
            \/ j \in DOMAIN rows /\ rows'[j] = rows[j]
            \/ j \notin DOMAIN rows /\ rows'[j] = row
      /\ \A i \in DOMAIN rows', j \in DOMAIN rows : i < j => i \in DOMAIN rows
  BY OldOrNew
<1>2. row.plan \in Plans /\ edited[row.plan] \in Nat
  BY RowKinds DEF TypeOK
<1>3. KnownEdits'
  <2>1. SUFFICES ASSUME NEW i \in DOMAIN rows'
                 PROVE  /\ rows'[i].type = "sql" => rows'[i].seen <= edited[rows'[i].plan]
                        /\ rows'[i].type = "edit" => rows'[i].nr <= edited[rows'[i].plan]
    BY DEF KnownEdits
  <2>2. CASE i \in DOMAIN rows /\ rows'[i] = rows[i]
    BY <2>2 DEF RowOrder, KnownEdits
  <2>3. CASE rows'[i] = row
    BY <1>2, <2>3
  <2> QED
    BY <1>1, <2>2, <2>3
<1>4. RunBeforeEdit'
  <2>1. SUFFICES ASSUME NEW i \in DOMAIN rows', NEW j \in DOMAIN rows', i < j,
                        rows'[i].type = "sql", rows'[j].type = "edit",
                        rows'[i].plan = rows'[j].plan
                 PROVE  rows'[i].seen < rows'[j].nr
    BY DEF RunBeforeEdit
  <2>2. j \in DOMAIN rows /\ rows'[j] = rows[j]
    BY <1>1, <2>1
  <2>3. i \in DOMAIN rows /\ rows'[i] = rows[i]
    BY <1>1, <2>1, <2>2
  <2> QED
    BY <2>1, <2>2, <2>3 DEF RowOrder, RunBeforeEdit
<1>5. EditBeforeRun'
  <2>1. SUFFICES ASSUME NEW i \in DOMAIN rows', NEW j \in DOMAIN rows', i < j,
                        rows'[i].type = "edit", rows'[j].type = "sql",
                        rows'[i].plan = rows'[j].plan
                 PROVE  rows'[i].nr <= rows'[j].seen
    BY DEF EditBeforeRun
  <2>2. i \in DOMAIN rows /\ rows'[i] = rows[i]
    BY <1>1, <2>1
  <2>3. CASE j \in DOMAIN rows /\ rows'[j] = rows[j]
    BY <2>1, <2>2, <2>3 DEF RowOrder, EditBeforeRun
  <2>4. CASE rows'[j] = row
    <3>1. rows[i].nr <= edited[row.plan]
      BY <2>1, <2>2, <2>4 DEF RowOrder, KnownEdits
    <3> QED
      BY <2>1, <2>2, <2>4, <3>1
  <2> QED
    BY <1>1, <2>1, <2>3, <2>4
<1> QED
  BY <1>3, <1>4, <1>5 DEF RowOrder

(* An edit that is written now.                                             *)
LEMMA EditInOrder ==
    ASSUME TypeOK, InOrder, Serial,
           NEW u \in Users, NEW p \in Plans, NEW node \in EditKinds, EditWritten(u, p, node)
    PROVE  InOrder'
<1> DEFINE row == EditRow(u, p, node)
<1>0. RowOrder /\ NoEditAwaited
  BY DEF InOrder
<1>1. /\ \A j \in DOMAIN rows' : rows'[j].type \in {"sql", "edit"} =>
            \/ j \in DOMAIN rows /\ rows'[j] = rows[j]
            \/ j \notin DOMAIN rows /\ rows'[j] = row
      /\ \A i \in DOMAIN rows', j \in DOMAIN rows : i < j => i \in DOMAIN rows
  <2>1. Grows(rows, rows', row)
    BY EditGrows
  <2> HIDE DEF row
  <2> QED
    BY <2>1, OldOrNew
<1>2. row.type = "edit" /\ row.plan = p /\ row.nr = edited[p] + 1
  BY DEF EditRow
<1>3. /\ edited'[p] = edited[p] + 1 /\ edited[p] \in Nat
      /\ \A q \in Plans : edited[q] \in Nat /\ edited'[q] \in Nat
      /\ \A q \in Plans \ {p} : edited'[q] = edited[q]
  BY EditGrows DEF TypeOK
<1> HIDE DEF row
<1>4. \A q \in Plans : edited[q] <= edited'[q]
  BY <1>3
<1>5. KnownEdits'
  <2>1. SUFFICES ASSUME NEW i \in DOMAIN rows'
                 PROVE  /\ rows'[i].type = "sql" => rows'[i].seen <= edited'[rows'[i].plan]
                        /\ rows'[i].type = "edit" => rows'[i].nr <= edited'[rows'[i].plan]
    BY DEF KnownEdits
  <2>2. CASE i \in DOMAIN rows /\ rows'[i] = rows[i]
    <3>1. /\ rows[i].plan \in Plans
          /\ rows[i].type = "sql" => rows[i].seen \in Nat
          /\ rows[i].type = "edit" => rows[i].nr \in Nat
      BY <2>2, RowNumbersTyped
    <3>2. /\ rows[i].type = "sql" => rows[i].seen <= edited[rows[i].plan]
          /\ rows[i].type = "edit" => rows[i].nr <= edited[rows[i].plan]
      BY <1>0, <2>2 DEF RowOrder, KnownEdits
    <3>3. /\ edited[rows[i].plan] \in Nat /\ edited'[rows[i].plan] \in Nat
          /\ edited[rows[i].plan] <= edited'[rows[i].plan]
      BY <1>3, <1>4, <3>1
    <3> QED
      BY <2>2, <3>1, <3>2, <3>3
  <2>3. CASE rows'[i] = row
    BY <1>2, <1>3, <2>3
  <2> QED
    BY <1>1, <2>2, <2>3
<1>6. RunBeforeEdit'
  <2>1. SUFFICES ASSUME NEW i \in DOMAIN rows', NEW j \in DOMAIN rows', i < j,
                        rows'[i].type = "sql", rows'[j].type = "edit",
                        rows'[i].plan = rows'[j].plan
                 PROVE  rows'[i].seen < rows'[j].nr
    BY DEF RunBeforeEdit
  <2>2. i \in DOMAIN rows /\ rows'[i] = rows[i]
    BY <1>1, <1>2, <2>1
  <2>3. CASE j \in DOMAIN rows /\ rows'[j] = rows[j]
    BY <1>0, <2>1, <2>2, <2>3 DEF RowOrder, RunBeforeEdit
  <2>4. CASE rows'[j] = row
    <3>1. rows[i].seen <= edited[p] /\ rows[i].seen \in Nat
      BY <1>0, <1>2, <2>1, <2>2, <2>4, RowNumbersTyped DEF RowOrder, KnownEdits
    <3> QED
      BY <1>2, <1>3, <2>2, <2>4, <3>1
  <2> QED
    BY <1>1, <2>1, <2>3, <2>4
<1>7. EditBeforeRun'
  <2>1. SUFFICES ASSUME NEW i \in DOMAIN rows', NEW j \in DOMAIN rows', i < j,
                        rows'[i].type = "edit", rows'[j].type = "sql",
                        rows'[i].plan = rows'[j].plan
                 PROVE  rows'[i].nr <= rows'[j].seen
    BY DEF EditBeforeRun
  <2>2. j \in DOMAIN rows /\ rows'[j] = rows[j]
    BY <1>1, <1>2, <2>1
  <2>3. i \in DOMAIN rows /\ rows'[i] = rows[i]
    BY <1>1, <2>1, <2>2
  <2> QED
    BY <1>0, <2>1, <2>2, <2>3 DEF RowOrder, EditBeforeRun
<1>8. NoEditAwaited'
  <2>1. req' = req /\ ~ \E c \in Clients : req[c] # Idle /\ req[c].plan = p
    BY DEF EditWritten
  <2>2. ASSUME NEW c \in Clients, req[c] # Idle
        PROVE  req[c].seen = edited'[req[c].plan]
    <3>1. req[c] \in Request
      BY DEF TypeOK
    <3>2. req[c].plan \in Plans \ {p}
      BY <2>1, <2>2, <3>1, RequestParts
    <3> QED
      BY <1>0, <1>3, <2>2, <3>2 DEF NoEditAwaited
  <2> QED
    BY <2>1, <2>2 DEF NoEditAwaited
<1> QED
  BY <1>5, <1>6, <1>7, <1>8 DEF InOrder, RowOrder

LEMMA StepInOrder == TypeOK /\ StepsAwaited /\ InOrder /\ [Next]_vars => InOrder'
<1> SUFFICES ASSUME TypeOK, StepsAwaited, InOrder, [Next]_vars, Serial
             PROVE  InOrder'
  BY DEF InOrder
<1>0. RowOrder /\ NoEditAwaited
  BY DEF InOrder
<1>1. ASSUME NEW r \in Request, r # Idle, IsStep(r.run), r.seen = edited[r.plan],
             NEW outcome \in Outcomes, Recorded(r, outcome), edited' = edited
      PROVE  RowOrder'
  <2> DEFINE row == Row("sql", r, outcome)
  <2>1. row \in Rows /\ row.type = "sql" /\ row.seen = edited[row.plan]
    BY <1>1, RowTyped DEF Rows
  <2>2. Grows(rows, rows', row)
    BY <1>1, RecordedGrows
  <2> HIDE DEF row
  <2> QED
    BY <1>0, <1>1, <2>1, <2>2, RunInOrder
<1>2. ASSUME NEW u \in Users, NEW p \in Plans, NEW c \in Clients, NEW r \in Executions(u, p),
             Refuse(c, r)
      PROVE  InOrder'
  <2>1. Recorded(r, "needs_replan") /\ edited' = edited /\ req' = req
    BY <1>2 DEF Refuse
  <2>2. RowOrder'
    BY <1>1, <2>1, ExecutionTyped DEF Outcomes
  <2>3. NoEditAwaited'
    BY <1>0, <2>1 DEF NoEditAwaited
  <2> QED
    BY <2>2, <2>3 DEF InOrder
<1>3. ASSUME NEW u \in Users, NEW p \in Plans, NEW c \in Clients, NEW r \in Executions(u, p),
             Execute(c, r)
      PROVE  InOrder'
  <2>1. UNCHANGED <<rows, edited>> /\ req' = [req EXCEPT ![c] = r]
    BY <1>3 DEF Execute
  <2>2. r.seen = edited[r.plan]
    BY ExecutionTyped
  <2>3. \A d \in Clients : req'[d] = r \/ req'[d] = req[d]
    BY <2>1 DEF TypeOK
  <2>4. NoEditAwaited'
    BY <1>0, <2>1, <2>2, <2>3 DEF NoEditAwaited
  <2>5. RowOrder'
    BY <1>0, <2>1 DEF RowOrder, KnownEdits, RunBeforeEdit, EditBeforeRun
  <2> QED
    BY <2>4, <2>5 DEF InOrder
<1>4. ASSUME NEW c \in Clients, NEW outcome \in {"rows", "error"}, Executed(c, outcome)
      PROVE  InOrder'
  <2>1. /\ req[c] # Idle
        /\ Recorded(req[c], outcome)
        /\ req' = [req EXCEPT ![c] = Idle]
        /\ edited' = edited
    BY <1>4 DEF Executed
  <2>2. req[c] \in Request /\ IsStep(req[c].run) /\ outcome \in Outcomes
    BY <2>1 DEF TypeOK, StepsAwaited, Outcomes
  <2>3. RowOrder'
    BY <1>0, <1>1, <2>1, <2>2 DEF NoEditAwaited
  <2>4. \A d \in Clients : req'[d] = Idle \/ req'[d] = req[d]
    BY <2>1 DEF TypeOK
  <2>5. NoEditAwaited'
    BY <1>0, <2>1, <2>4 DEF NoEditAwaited
  <2> QED
    BY <2>3, <2>5 DEF InOrder
<1>5. ASSUME NEW u \in Users, NEW p \in Plans, NEW i,
             (i \in {0} \cup StepRuns(p) /\ StepPending(u, p, i))
             \/ (i \in Running(p) /\ StepFails(u, p, i))
      PROVE  InOrder'
  <2>1. PICK row \in Rows : row.type = "plan_step" /\ Grows(rows, rows', row)
    BY <1>5, SteppedGrows
  <2>2. edited' = edited /\ req' = req
    BY <1>5 DEF StepPending, StepFails
  <2>3. RowOrder'
    BY <1>0, <2>1, <2>2, RunInOrder
  <2>4. NoEditAwaited'
    BY <1>0, <2>2 DEF NoEditAwaited
  <2> QED
    BY <2>3, <2>4 DEF InOrder
<1>6. ASSUME NEW u \in Users, NEW p \in Plans, NEW node \in UpdateKinds, EditNode(u, p, node)
      PROVE  InOrder'
  BY <1>6, EditInOrder DEF EditNode, EditKinds
<1>7. ASSUME NEW u \in Users, NEW p \in Plans, MergeNodes(u, p)
      PROVE  InOrder'
  BY <1>7, EditInOrder DEF MergeNodes, EditKinds
<1>8. CASE Restart
  <2>1. UNCHANGED <<rows, edited>> /\ req' = [c \in Clients |-> Idle]
    BY <1>8 DEF Restart
  <2>2. NoEditAwaited'
    BY <2>1 DEF NoEditAwaited
  <2>3. RowOrder'
    BY <1>0, <2>1 DEF RowOrder, KnownEdits, RunBeforeEdit, EditBeforeRun
  <2> QED
    BY <2>2, <2>3 DEF InOrder
<1>9. ASSUME UNCHANGED <<rows, edited, req>>
      PROVE  InOrder'
  BY <1>0, <1>9 DEF InOrder, RowOrder, KnownEdits, RunBeforeEdit, EditBeforeRun, NoEditAwaited
<1> QED
  BY <1>2, <1>3, <1>4, <1>5, <1>6, <1>7, <1>8, <1>9 DEF Next, vars, CreateCase, RunEvaluation

LEMMA FoundInOrder ==
    TypeOK /\ FoundInRows /\ InOrder => EditCameFirst
<1> SUFFICES ASSUME TypeOK, FoundInRows, InOrder, Serial,
                    NEW k \in DOMAIN cases, cases[k].metrics.available,
                    BothAre({"sql"}, cases[k])
             PROVE  EditInBetween(cases[k])
  BY DEF EditCameFirst
<1> DEFINE case == cases[k]
<1>1. Found(rows, case)
  BY DEF FoundInRows
<1>2. PICK i \in case.original..case.post :
        i \in DOMAIN rows /\ rows[i].type = "edit" /\ rows[i].user = case.user /\ rows[i].plan = case.plan
  BY <1>1 DEF Found
<1>3. /\ case.original \in DOMAIN rows /\ case.post \in DOMAIN rows
      /\ rows[case.original].type = "sql" /\ rows[case.original].plan = case.plan
      /\ rows[case.post].type = "sql" /\ rows[case.post].plan = case.plan
  BY <1>1 DEF Found, BothAre
<1> HIDE DEF case
<1>4. case.original < i /\ i < case.post
  <2>1. case.original \in Nat /\ case.post \in Nat /\ i \in Nat
    BY <1>2, <1>3, RowNumbers
  <2>2. i # case.original /\ i # case.post
    BY <1>2, <1>3
  <2> QED
    BY <1>2, <2>1, <2>2
<1>5. rows[case.original].seen < rows[i].nr /\ rows[i].nr <= rows[case.post].seen
  BY <1>2, <1>3, <1>4 DEF InOrder, RowOrder, RunBeforeEdit, EditBeforeRun
<1>6. i \in EditsBetween(case.user, case.plan, case.original, case.post)
  BY <1>2 DEF EditsBetween
<1> QED
  BY <1>5, <1>6 DEF case, EditInBetween

(* If nobody edits a plan while an execution of it is awaited, the second   *)
(* of the two executions of a case with metrics was started after an edit   *)
(* that is counted, and the first before it, although the timestamps        *)
(* _compute_repair_metrics compares are those of the answers.  A case that  *)
(* names the row of a stepwise run is not meant.                            *)
THEOREM EditCameFirstCorrect == Spec => []EditCameFirst
<1>1. Init => TypeOK /\ StepsAwaited /\ FoundInRows /\ InOrder
  BY InitTyped, InitInOrder DEF Init, FoundInRows
<1>2. TypeOK /\ StepsAwaited /\ FoundInRows /\ InOrder /\ [Next]_vars
        => TypeOK' /\ StepsAwaited' /\ FoundInRows' /\ InOrder'
  BY StepTyped, StepFound, StepInOrder
<1>3. TypeOK /\ FoundInRows /\ InOrder => EditCameFirst
  BY FoundInOrder
<1> QED
  BY <1>1, <1>2, <1>3, PTL DEF Spec

-----------------------------------------------------------------------------
(* A repair that was made is found, in any rows.                            *)

LEMMA MadeIsFound ==
    ASSUME TypeOK, NEW u \in Users, NEW p \in Plans,
           NEW i \in SqlRunsOf(u, p), NEW k \in SqlRunsOf(u, p), NEW j \in DOMAIN rows,
           rows[i].outcome = "error",
           \A l \in SqlRunsOf(u, p) : l < i => rows[l].outcome # "error",
           i < j, j < k,
           rows[j].type = "edit", rows[j].user = u, rows[j].plan = p,
           rows[k].outcome = "rows",
           \A l \in SqlRunsOf(u, p) : i < l /\ l < j => rows[l].outcome = "error"
    PROVE  NewCase(u, p, 0, 0).metrics.available
<1> DEFINE original == Original(u, p, 0)
           post == PostEdit(u, p, original, 0)
           failed == {l \in SqlRunsOf(u, p) : Failed(l)}
           later == {l \in SqlRunsOf(u, p) : original # 0 /\ l > original /\ Succeeded(l)}
<1>1. SqlRunsOf(u, p) \subseteq Nat \ {0} /\ j \in Nat
  BY RowNumbers DEF RunsOf, SqlRunsOf
<1>2. original = First(failed) /\ post = First(later)
  BY DEF Original, PostEdit
<1>3. original = i
  <2>1. i \in failed /\ failed \subseteq Nat
    BY <1>1 DEF Failed
  <2>2. \A l \in failed : ~ (l < i)
    BY DEF Failed
  <2>3. First(failed) \in failed /\ First(failed) <= i
    <3> HIDE DEF failed
    <3> QED
      BY <2>1, FirstIsLeast
  <2> HIDE DEF failed, later, original, post
  <2>4. original \in failed /\ original <= i
    BY <1>2, <2>3
  <2>5. original \in Nat /\ i \in Nat /\ ~ (original < i)
    BY <2>1, <2>2, <2>4
  <2> QED
    BY <2>4, <2>5
<1> HIDE DEF original
<1>4. post \in later /\ j < post
  <2>1. k \in later /\ later \subseteq Nat
    BY <1>1, <1>3 DEF Failed, Succeeded
  <2>2. First(later) \in later
    <3> HIDE DEF later
    <3> QED
      BY <2>1, FirstIsLeast
  <2>3. \A l \in later : l > i /\ l # j /\ ~ (l < j)
    BY <1>1, <1>3 DEF Failed, Succeeded, RunsOf, SqlRunsOf
  <2> HIDE DEF failed, later, post
  <2>4. post \in later
    BY <1>2, <2>2
  <2>5. post \in Nat /\ post # j /\ ~ (post < j)
    BY <2>1, <2>3, <2>4
  <2> QED
    BY <1>1, <2>4, <2>5
<1> HIDE DEF post
<1>5. {original, post} \subseteq RunsOf(u, p) /\ post > original
  BY <1>3, <1>4 DEF SqlRunsOf
<1>6. EditsBetween(u, p, original, post) # {}
  <2>1. i \in Nat /\ post \in Nat
    BY <1>1, <1>4
  <2>2. j \in original..post
    BY <1>1, <1>3, <1>4, <2>1
  <2> QED
    BY <2>2 DEF EditsBetween
<1>7. NewCase(u, p, 0, 0).metrics = RepairMetrics(u, p, original, post)
  BY DEF NewCase, original, post
<1> QED
  BY <1>5, <1>6, <1>7 DEF RepairMetrics

(* The first failure of a plan, an edit and the first success after it give *)
(* a case with metrics when the server picks the runs (create_repair_case). *)
THEOREM RepairIsFoundCorrect == Spec => []RepairIsFound
<1>1. TypeOK => RepairIsFound
  BY MadeIsFound DEF RepairIsFound
<1> QED
  BY <1>1, RepairTypeCorrect, PTL

-----------------------------------------------------------------------------
(* Sums over finite sets.                                                   *)

Chosen(s) == CHOOSE x \in s : TRUE

(* The partial sums of w over the sets of D, in the order of Chosen.        *)
Partial(w, D, f) ==
    f = [s \in D |-> IF s = {} THEN 0 ELSE w[Chosen(s)] + f[s \ {Chosen(s)}]]

LEMMA PartialExists ==
    ASSUME NEW S, IsFiniteSet(S), NEW w
    PROVE  \E f : Partial(w, SUBSET S, f)
<1> DEFINE G(n) == {s \in SUBSET S : Cardinality(s) <= n}
           Bad == {n \in Nat : ~ \E f : Partial(w, G(n), f)}
<1>1. \A s \in SUBSET S : /\ IsFiniteSet(s) /\ Cardinality(s) \in Nat
                          /\ s = {} <=> Cardinality(s) = 0
                          /\ s # {} => /\ Chosen(s) \in s
                                       /\ Cardinality(s \ {Chosen(s)}) = Cardinality(s) - 1
                                       /\ s \ {Chosen(s)} \in SUBSET S
  <2>1. SUFFICES ASSUME NEW s \in SUBSET S
        PROVE  /\ IsFiniteSet(s) /\ Cardinality(s) \in Nat
               /\ s = {} <=> Cardinality(s) = 0
               /\ s # {} => /\ Chosen(s) \in s
                            /\ Cardinality(s \ {Chosen(s)}) = Cardinality(s) - 1
                            /\ s \ {Chosen(s)} \in SUBSET S
    OBVIOUS
  <2>2. IsFiniteSet(s) /\ Cardinality(s) \in Nat /\ (s = {} <=> Cardinality(s) = 0)
    BY FS_Subset, FS_CardinalityType, FS_EmptySet
  <2>3. s # {} => Chosen(s) \in s
    BY DEF Chosen
  <2>4. s # {} => Cardinality(s \ {Chosen(s)}) = Cardinality(s) - 1
    BY <2>2, <2>3, FS_RemoveElement
  <2>5. QED
    BY <2>2, <2>3, <2>4
<1>2. \E f : Partial(w, G(0), f)
  <2> DEFINE f == [s \in G(0) |-> 0]
  <2>1. ASSUME NEW s \in G(0)
        PROVE  s = {}
    <3>1. s \in SUBSET S /\ Cardinality(s) <= 0
      OBVIOUS
    <3>2. Cardinality(s) \in Nat /\ (s = {} <=> Cardinality(s) = 0)
      BY <1>1, <3>1
    <3>3. QED
      BY <3>1, <3>2
  <2>2. f = [s \in G(0) |-> IF s = {} THEN 0 ELSE w[Chosen(s)] + f[s \ {Chosen(s)}]]
    BY <2>1
  <2>3. Partial(w, G(0), f)
    BY <2>2 DEF Partial
  <2>4. QED
    BY <2>3
<1>3. ASSUME NEW n \in Nat, NEW f, Partial(w, G(n), f)
      PROVE  \E g : Partial(w, G(n + 1), g)
  <2> DEFINE g == [s \in G(n + 1) |-> IF s = {} THEN 0 ELSE w[Chosen(s)] + f[s \ {Chosen(s)}]]
  <2>1. \A s \in G(n) : f[s] = IF s = {} THEN 0 ELSE w[Chosen(s)] + f[s \ {Chosen(s)}]
    BY <1>3 DEF Partial
  <2>2. \A s \in G(n + 1) : s # {} => s \ {Chosen(s)} \in G(n)
    BY <1>1
  <2>3. ASSUME NEW s \in G(n)
        PROVE  s \in G(n + 1)
    <3>1. s \in SUBSET S /\ Cardinality(s) <= n
      OBVIOUS
    <3>2. Cardinality(s) \in Nat
      BY <1>1, <3>1
    <3>3. QED
      BY <3>1, <3>2
  <2>4. \A s \in G(n) : g[s] = f[s]
    BY <2>1, <2>3
  <2>5. g = [s \in G(n + 1) |-> IF s = {} THEN 0 ELSE w[Chosen(s)] + g[s \ {Chosen(s)}]]
    BY <2>2, <2>4
  <2>6. Partial(w, G(n + 1), g)
    BY <2>5 DEF Partial
  <2>7. QED
    BY <2>6
<1> HIDE DEF G
<1>4. Bad = {}
  <2>1. SUFFICES ASSUME Bad # {} PROVE FALSE
    OBVIOUS
  <2>2. PICK n \in Bad : \A m \in Bad : n <= m
    BY <2>1, LeastExists
  <2>3. n \in Nat /\ n # 0
    BY <1>2
  <2>4. n - 1 \in Nat /\ n - 1 \notin Bad
    BY <2>2, <2>3
  <2>5. \E f : Partial(w, G(n), f)
    BY <1>3, <2>3, <2>4
  <2>6. QED
    BY <2>5
<1>5. Cardinality(S) \in Nat /\ G(Cardinality(S)) = SUBSET S
  <2>1. \A s \in SUBSET S : Cardinality(s) <= Cardinality(S)
    BY FS_Subset
  <2>2. QED
    BY <1>1, <2>1 DEF G
<1>6. \E f : Partial(w, G(Cardinality(S)), f)
  BY <1>4, <1>5
<1>7. QED
  BY <1>5, <1>6

(* What holds of the empty set and of each set when it holds of the set     *)
(* without its chosen element holds of all.                                 *)
LEMMA ChosenInduction ==
    ASSUME NEW S, IsFiniteSet(S), NEW P, {} \in P,
           \A s \in SUBSET S : s # {} /\ s \ {Chosen(s)} \in P => s \in P
    PROVE  S \in P
<1> DEFINE Bad == {n \in Nat : \E s \in SUBSET S : Cardinality(s) = n /\ s \notin P}
<1>1. SUFFICES ASSUME S \notin P PROVE FALSE
  OBVIOUS
<1>2. Cardinality(S) \in Bad
  BY <1>1, FS_CardinalityType
<1>3. PICK n \in Bad : \A m \in Bad : n <= m
  BY <1>2, LeastExists
<1>4. PICK s \in SUBSET S : Cardinality(s) = n /\ s \notin P
  BY <1>3
<1>5. s # {} /\ IsFiniteSet(s)
  BY <1>4, FS_Subset
<1>6. Chosen(s) \in s
  BY <1>5 DEF Chosen
<1>7. Cardinality(s \ {Chosen(s)}) = n - 1 /\ n - 1 \in Nat
  <2>1. Cardinality(s \ {Chosen(s)}) = Cardinality(s) - 1
    BY ONLY <1>5, <1>6, FS_RemoveElement
  <2>2. Cardinality(s) # 0
    BY ONLY <1>5, FS_EmptySet
  <2>3. Cardinality(s) \in Nat
    BY ONLY <1>5, FS_CardinalityType
  <2> HIDE DEF Bad
  <2>4. QED
    BY ONLY <1>4, <2>1, <2>2, <2>3
<1>8. s \ {Chosen(s)} \notin P
  BY <1>4, <1>5
<1>9. n - 1 \in Bad
  BY <1>7, <1>8
<1>10. QED
  BY <1>3, <1>7, <1>9

-----------------------------------------------------------------------------
(* Summaries.                                                               *)

LEMMA EditsSum ==
    ASSUME NEW C, IsFiniteSet(C), \A k \in C : cases[k].metrics.edits \in Nat \ {0}
    PROVE  MapThenSumSet(LAMBDA k : cases[k].metrics.edits, C) >= Cardinality(C)
<1> DEFINE Map(f) == [s \in SUBSET C |-> IF s = {} THEN 0
                        ELSE cases[CHOOSE x \in s : TRUE].metrics.edits + f[s \ {CHOOSE x \in s : TRUE}]]
           iter == CHOOSE f : f = Map(f)
<1>1. MapThenSumSet(LAMBDA k : cases[k].metrics.edits, C) = iter[C]
  BY DEF MapThenSumSet, MapThenFoldSet
<1> DEFINE w == [k \in C |-> cases[k].metrics.edits]
<1>2. PICK f : Partial(w, SUBSET C, f)
  BY PartialExists
<1>3. Map(f) = [s \in SUBSET C |-> IF s = {} THEN 0 ELSE w[Chosen(s)] + f[s \ {Chosen(s)}]]
  <2>1. \A s \in SUBSET C : s # {} => Chosen(s) \in C
    BY DEF Chosen
  <2>2. \A s \in SUBSET C : s # {} => w[Chosen(s)] = cases[Chosen(s)].metrics.edits
    BY <2>1
  <2> HIDE DEF w
  <2>3. QED
    BY <2>2 DEF Chosen
<1>4. f = Map(f)
  BY <1>2, <1>3 DEF Partial
<1>5. iter = Map(iter)
  BY <1>4
<1> HIDE DEF iter
<1>6. \A s \in SUBSET C : iter[s] = IF s = {} THEN 0
                                     ELSE cases[Chosen(s)].metrics.edits + iter[s \ {Chosen(s)}]
  BY <1>5 DEF Chosen
<1> DEFINE P == {s \in SUBSET C : iter[s] \in Nat /\ iter[s] >= Cardinality(s)}
<1>7. {} \in P
  <2>1. iter[{}] = 0
    BY <1>6
  <2>2. QED
    BY <2>1, FS_EmptySet
<1>8. ASSUME NEW s \in SUBSET C, s # {}, s \ {Chosen(s)} \in P
      PROVE  s \in P
  <2> DEFINE x == Chosen(s)
             m == cases[x].metrics.edits
             rest == iter[s \ {x}]
  <2>1. x \in s /\ m \in Nat /\ m >= 1
    BY <1>8 DEF Chosen
  <2>2. IsFiniteSet(s) /\ Cardinality(s) \in Nat
    BY FS_Subset, FS_CardinalityType
  <2>3. Cardinality(s \ {x}) = Cardinality(s) - 1
    BY <2>1, <2>2, FS_RemoveElement
  <2>4. rest \in Nat /\ rest >= Cardinality(s) - 1
    BY <1>8, <2>3
  <2>5. iter[s] = m + rest
    BY <1>6, <1>8
  <2> HIDE DEF x, m, rest
  <2>6. QED
    BY <2>1, <2>2, <2>4, <2>5
<1> HIDE DEF P
<1>9. C \in P
  BY <1>7, <1>8, ChosenInduction
<1>10. iter[C] >= Cardinality(C)
  BY <1>9 DEF P
<1>11. QED
  BY <1>1, <1>10

(* The errors of an evaluation, kind by kind.                               *)
LEMMA ErrorsSum ==
    ASSUME NEW e, IsFiniteSet(DOMAIN e)
    PROVE  LET S == EvaluationSummary(e)
           IN  MapThenSumSet(LAMBDA t : S.errors[t], ErrorTypes)
               = Cardinality({i \in DOMAIN e : e[i].error \in ErrorTypes})
<1> DEFINE S == EvaluationSummary(e)
           Map(f) == [s \in SUBSET ErrorTypes |-> IF s = {} THEN 0
                        ELSE S.errors[CHOOSE x \in s : TRUE] + f[s \ {CHOOSE x \in s : TRUE}]]
           iter == CHOOSE f : f = Map(f)
           Of(s) == {i \in DOMAIN e : e[i].error \in s}
<1>1. MapThenSumSet(LAMBDA t : S.errors[t], ErrorTypes) = iter[ErrorTypes]
  BY DEF MapThenSumSet, MapThenFoldSet
<1>2. IsFiniteSet(ErrorTypes)
  <2>1. IsFiniteSet({"planning"}) /\ IsFiniteSet({"execution"})
        /\ IsFiniteSet({"sql_generation"}) /\ IsFiniteSet({"exception"})
    BY FS_Singleton
  <2>2. IsFiniteSet({"planning"} \cup {"execution"})
    BY <2>1, FS_Union
  <2>3. IsFiniteSet({"sql_generation"} \cup {"exception"})
    BY <2>1, FS_Union
  <2>4. IsFiniteSet(({"planning"} \cup {"execution"}) \cup ({"sql_generation"} \cup {"exception"}))
    BY <2>2, <2>3, FS_Union
  <2>5. ErrorTypes = ({"planning"} \cup {"execution"}) \cup ({"sql_generation"} \cup {"exception"})
    BY DEF ErrorTypes
  <2>6. QED
    BY <2>4, <2>5
<1>3. PICK f : Partial(S.errors, SUBSET ErrorTypes, f)
  BY <1>2, PartialExists
<1>4. f = Map(f)
  BY <1>3 DEF Partial, Chosen
<1>5. iter = Map(iter)
  BY <1>4
<1>6. \A t \in ErrorTypes : S.errors[t] = Cardinality({i \in DOMAIN e : e[i].error = t})
  BY DEF EvaluationSummary
<1> HIDE DEF iter, S
<1>7. \A s \in SUBSET ErrorTypes : iter[s] = IF s = {} THEN 0
                                              ELSE S.errors[Chosen(s)] + iter[s \ {Chosen(s)}]
  BY <1>5 DEF Chosen
<1> DEFINE P == {s \in SUBSET ErrorTypes : iter[s] = Cardinality(Of(s))}
<1>8. {} \in P
  <2>1. Of({}) = {}
    OBVIOUS
  <2>2. iter[{}] = 0
    BY <1>7
  <2>3. QED
    BY <2>1, <2>2, FS_EmptySet
<1>9. ASSUME NEW s \in SUBSET ErrorTypes, s # {}, s \ {Chosen(s)} \in P
      PROVE  s \in P
  <2> DEFINE x == Chosen(s)
             one == {i \in DOMAIN e : e[i].error = x}
             rest == Of(s \ {x})
  <2>1. x \in s /\ x \in ErrorTypes
    BY <1>9 DEF Chosen
  <2>2. Of(s) = one \cup rest /\ one \cap rest = {}
    BY <2>1
  <2>3. IsFiniteSet(one) /\ IsFiniteSet(rest)
    BY FS_Subset
  <2>4. Cardinality(one \cup rest) = Cardinality(one) + Cardinality(rest) - Cardinality(one \cap rest)
    BY <2>3, FS_Union
  <2>5. Cardinality(one) \in Nat /\ Cardinality(rest) \in Nat /\ Cardinality(one \cap rest) = 0
    BY <2>2, <2>3, FS_CardinalityType, FS_EmptySet
  <2>6. iter[s \ {x}] = Cardinality(rest)
    BY <1>9
  <2>7. iter[s] = S.errors[x] + iter[s \ {x}] /\ S.errors[x] = Cardinality(one)
    BY <1>6, <1>7, <1>9, <2>1
  <2> HIDE DEF x, one, rest, Of
  <2>8. iter[s] = Cardinality(Of(s))
    BY <2>2, <2>4, <2>5, <2>6, <2>7
  <2>9. QED
    BY <2>8
<1> HIDE DEF P, Of
<1>10. ErrorTypes \in P
  BY <1>2, <1>8, <1>9, ChosenInduction
<1>11. iter[ErrorTypes] = Cardinality(Of(ErrorTypes))
  BY <1>10 DEF P
<1>12. QED
  BY <1>1, <1>11 DEF Of, S

(* A case whose metrics are available counts at least one edit.             *)
LEMMA ControlledCases ==
    ASSUME TypeOK, NEW u
    PROVE  /\ IsFiniteSet(CasesOf(u)) /\ IsFiniteSet(Controlled(u)) /\ Controlled(u) \subseteq CasesOf(u)
           /\ \A k \in Controlled(u) : cases[k].metrics.edits \in Nat \ {0}
           /\ \A k \in CasesOf(u) : cases[k].metrics.available \in BOOLEAN
<1>1. cases \in Seq(Case) /\ DOMAIN cases = 1..Len(cases) /\ Len(cases) \in Nat
  BY DEF TypeOK
<1>2. IsFiniteSet(DOMAIN cases)
  BY <1>1, FS_Interval
<1>3. CasesOf(u) \subseteq DOMAIN cases /\ Controlled(u) \subseteq CasesOf(u)
  BY DEF CasesOf, Controlled
<1>4. IsFiniteSet(CasesOf(u)) /\ IsFiniteSet(Controlled(u))
  BY <1>2, <1>3, FS_Subset
<1>5. \A k \in CasesOf(u) : cases[k].metrics \in Metrics
  <2>1. \A k \in DOMAIN cases : cases[k] \in Case
    BY <1>1
  <2>2. \A c \in Case : c.metrics \in Metrics
    BY DEF Case
  <2>3. QED
    BY <1>3, <2>1, <2>2
<1>6. \A m \in Metrics : m.available \in BOOLEAN /\ (m.available => m.edits \in Nat \ {0})
  BY DEF Metrics
<1>7. \A k \in Controlled(u) : cases[k].metrics.available
  BY DEF Controlled
<1>8. QED
  BY <1>3, <1>4, <1>5, <1>6, <1>7

LEMMA RateIsRate ==
    ASSUME NEW whole, IsFiniteSet(whole), NEW part, part \subseteq whole, NEW r, r = Rate(part, whole)
    PROVE  /\ r = None <=> whole = {}
           /\ r = None \/ r[1] <= r[2]
<1>1. IsFiniteSet(part) /\ Cardinality(part) \in Nat /\ Cardinality(whole) \in Nat
      /\ Cardinality(part) <= Cardinality(whole)
  BY FS_Subset, FS_CardinalityType
<1>2. <<Cardinality(part), Cardinality(whole)>> # None
  BY <1>1, SummaryAssumption
<1>3. QED
  BY <1>1, <1>2 DEF Rate

LEMMA SummarySound == TypeOK => UnavailableNotZero
<1>1. SUFFICES ASSUME TypeOK, NEW u \in Users
      PROVE  LET s == RepairSummary(u)
                 IsRate(r) == r = None \/ r[1] <= r[2]
             IN  /\ s.controlled <= s.total
                 /\ \A r \in {s.recovery, s.intent, s.schema} : IsRate(r)
                 /\ s.recovery = None <=> \A k \in CasesOf(u) : ~ cases[k].metrics.available
                 /\ s.schema = None <=> WithSchema(u) = {}
                 /\ s.edits # None => s.edits[1] >= s.edits[2]
  BY DEF UnavailableNotZero
<1> DEFINE s == RepairSummary(u)
           C == Controlled(u)
           recovered == {k \in C : cases[k].metrics.recovered}
           intent == {k \in C : cases[k].metrics.intent}
           sum == MapThenSumSet(LAMBDA k : cases[k].metrics.edits, C)
<1>2. /\ IsFiniteSet(CasesOf(u)) /\ IsFiniteSet(C) /\ C \subseteq CasesOf(u)
      /\ \A k \in C : cases[k].metrics.edits \in Nat \ {0}
  BY <1>1, ControlledCases
<1>3. Cardinality(C) <= Cardinality(CasesOf(u))
  BY <1>2, FS_Subset
<1>4. sum >= Cardinality(C)
  BY <1>2, EditsSum
<1>5. WithSchema(u) \subseteq C /\ IsFiniteSet(WithSchema(u))
  BY <1>2, FS_Subset DEF WithSchema
<1>6. /\ s.total = Cardinality(CasesOf(u)) /\ s.controlled = Cardinality(C)
      /\ s.recovery = Rate(recovered, C) /\ s.intent = Rate(intent, C)
      /\ s.schema = Rate(recovered \cap WithSchema(u), WithSchema(u))
      /\ s.edits = IF C = {} THEN None ELSE <<sum, Cardinality(C)>>
  BY DEF RepairSummary
<1>7. C = {} <=> \A k \in CasesOf(u) : ~ cases[k].metrics.available
  BY DEF Controlled
<1> HIDE DEF s, C, sum
<1>8. /\ s.recovery = None <=> C = {}
      /\ s.recovery = None \/ s.recovery[1] <= s.recovery[2]
  BY <1>2, <1>6, RateIsRate
<1>9. s.intent = None \/ s.intent[1] <= s.intent[2]
  BY <1>2, <1>6, RateIsRate
<1>10. /\ s.schema = None <=> WithSchema(u) = {}
       /\ s.schema = None \/ s.schema[1] <= s.schema[2]
  BY <1>5, <1>6, RateIsRate
<1>11. s.edits # None => s.edits[1] >= s.edits[2]
  BY <1>4, <1>6
<1>12. QED
  BY <1>3, <1>6, <1>7, <1>8, <1>9, <1>10, <1>11 DEF s

(* "Unavailable, not zero", for any number of users and cases.              *)
THEOREM UnavailableNotZeroCorrect == Spec => []UnavailableNotZero
BY RepairTypeCorrect, SummarySound, PTL

-----------------------------------------------------------------------------
(* Evaluations.                                                             *)

(* A question has a kind of error exactly when it is not correct.           *)
Judged ==
    \A k \in DOMAIN evals : \A i \in DOMAIN evals[k] :
       evals[k][i].correct <=> evals[k][i].error = None

LEMMA ErrorOfAttempt ==
    ASSUME NEW a \in Attempts
    PROVE  ErrorType(a) = None <=> a = "same"
<1>1. None \notin {"planning", "execution", "sql_generation", "exception"}
  BY SummaryAssumption DEF ErrorTypes
<1>2. QED
  BY <1>1 DEF ErrorType, Attempts

LEMMA StepJudged == TypeOK /\ Judged /\ [Next]_vars => Judged'
<1>1. ASSUME TypeOK, Judged, NEW a \in Attempts, NEW b \in Attempts, RunEvaluation(<<a, b>>)
      PROVE  Judged'
  <2> DEFINE e == [i \in DOMAIN <<a, b>> |-> EvaluatedCase(<<a, b>>[i])]
  <2>1. evals' = Append(evals, e) /\ evals \in Seq(Seq([correct : BOOLEAN, error : ErrorTypes \cup {None}]))
    BY <1>1 DEF RunEvaluation, TypeOK
  <2>2. \A i \in DOMAIN e : e[i].correct <=> e[i].error = None
    <3>1. ASSUME NEW i \in DOMAIN e
          PROVE  e[i] = EvaluatedCase(a) \/ e[i] = EvaluatedCase(b)
      OBVIOUS
    <3>2. \A x \in Attempts : EvaluatedCase(x).correct <=> EvaluatedCase(x).error = None
      BY ErrorOfAttempt DEF EvaluatedCase
    <3> HIDE DEF e
    <3>3. QED
      BY <3>1, <3>2
  <2> HIDE DEF e
  <2>3. \A k \in DOMAIN evals' : evals'[k] = e \/ (k \in DOMAIN evals /\ evals'[k] = evals[k])
    BY <2>1
  <2>4. QED
    BY <1>1, <2>2, <2>3 DEF Judged
<1>2. ASSUME Judged, evals' = evals \/ evals' = << >>
      PROVE  Judged'
  BY <1>2 DEF Judged
<1>3. ASSUME [Next]_vars, ~ \E a, b \in Attempts : RunEvaluation(<<a, b>>)
      PROVE  evals' = evals \/ evals' = << >>
  BY <1>3 DEF Next, vars, Refuse, Execute, Executed, StepPending, StepFails, EditNode, MergeNodes,
             EditWritten, CreateCase, Restart
<1>4. QED
  BY <1>1, <1>2, <1>3

LEMMA JudgedAddsUp == TypeOK /\ Judged => EvaluationAddsUp
<1>1. SUFFICES ASSUME TypeOK, Judged, NEW k \in DOMAIN evals
      PROVE  LET s == EvaluationSummary(evals[k])
             IN  s.correct + MapThenSumSet(LAMBDA t : s.errors[t], ErrorTypes) = s.total
  BY DEF EvaluationAddsUp
<1> DEFINE e == evals[k]
           right == {i \in DOMAIN e : e[i].correct}
           wrong == {i \in DOMAIN e : e[i].error \in ErrorTypes}
<1>2. e \in Seq([correct : BOOLEAN, error : ErrorTypes \cup {None}])
  BY <1>1 DEF TypeOK
<1>3. DOMAIN e = 1..Len(e) /\ Len(e) \in Nat
  BY <1>2
<1>4. IsFiniteSet(DOMAIN e) /\ Cardinality(DOMAIN e) = Len(e)
  <2>1. IsFiniteSet(1..Len(e)) /\ Cardinality(1..Len(e)) = IF 1 > Len(e) THEN 0 ELSE Len(e) - 1 + 1
    BY ONLY <1>3, FS_Interval
  <2> HIDE DEF e
  <2>2. QED
    BY ONLY <1>3, <2>1
<1>5. \A i \in DOMAIN e : e[i].error \in ErrorTypes \cup {None} /\ (e[i].correct <=> e[i].error = None)
  <2>1. ASSUME NEW i \in DOMAIN e
        PROVE  e[i].error \in ErrorTypes \cup {None}
    <3>1. e[i] \in [correct : BOOLEAN, error : ErrorTypes \cup {None}]
      <4> DEFINE R == [correct : BOOLEAN, error : ErrorTypes \cup {None}]
      <4>1. e \in Seq(R) /\ i \in 1..Len(e)
        BY <1>2, <1>3
      <4> HIDE DEF e, R
      <4>2. e[i] \in R
        BY <4>1
      <4>3. QED
        BY <4>2 DEF R
    <3>2. QED
      BY <3>1
  <2>2. \A i \in DOMAIN e : e[i].correct <=> e[i].error = None
    BY <1>1 DEF Judged
  <2>3. QED
    BY <2>1, <2>2
<1>6. right \cup wrong = DOMAIN e /\ right \cap wrong = {}
  BY <1>5, SummaryAssumption
<1>7. IsFiniteSet(right) /\ IsFiniteSet(wrong)
  BY <1>4, FS_Subset
<1>8. Cardinality(right \cup wrong) = Cardinality(right) + Cardinality(wrong) - Cardinality(right \cap wrong)
  BY <1>7, FS_Union
<1>9. Cardinality(right) \in Nat /\ Cardinality(wrong) \in Nat /\ Cardinality(right \cap wrong) = 0
  BY <1>6, <1>7, FS_CardinalityType, FS_EmptySet
<1>10. EvaluationSummary(e).correct = Cardinality(right) /\ EvaluationSummary(e).total = Len(e)
  BY DEF EvaluationSummary
<1>11. MapThenSumSet(LAMBDA t : EvaluationSummary(e).errors[t], ErrorTypes) = Cardinality(wrong)
  BY <1>4, ErrorsSum
<1> HIDE DEF right, wrong
<1>12. Cardinality(right) + Cardinality(wrong) = Len(e)
  BY <1>4, <1>6, <1>8, <1>9
<1>13. QED
  BY <1>10, <1>11, <1>12

(* Accuracy and the distribution of errors count every question once, for   *)
(* any number of evaluations.                                               *)
THEOREM EvaluationAddsUpCorrect == Spec => []EvaluationAddsUp
<1>1. Init => TypeOK /\ StepsAwaited /\ Judged
  BY InitTyped DEF Init, Judged
<1>2. TypeOK /\ StepsAwaited /\ Judged /\ [Next]_vars => (TypeOK /\ StepsAwaited /\ Judged)'
  BY StepTyped, StepJudged
<1>3. QED
  BY <1>1, <1>2, JudgedAddsUp, PTL DEF Spec

=============================================================================
