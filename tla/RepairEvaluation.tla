--------------------------- MODULE RepairEvaluation ---------------------------
(***************************************************************************)
(* What the backend measures (evaluation_routes.py): repair metrics, from  *)
(* the rows that executions and edits of plans leave in execution_runs and *)
(* plan_edits, and first-pass accuracy, from an evaluation of benchmark    *)
(* questions.  An execution waits for the SQL engine, and its row is       *)
(* written when the answer is there; a row is best effort and may be lost. *)
(* A stepwise run of a plan has a row from the start, which its steps       *)
(* revise.  Rows are numbered in the order of created_at, runs and edits    *)
(* together.                                                               *)
(***************************************************************************)
EXTENDS Naturals, Sequences, FiniteSets, SequencesExt, FiniteSetsExt

CONSTANTS
    None,
    Users, Plans,
    Clients,     \* tabs and scripts, each awaiting one execution at a time
    GoldPlans,   \* the plans of them whose SQL is the gold query
    Serial,      \* no edit of a plan while an execution of it is awaited
    DbMayFail,   \* a best-effort row may be lost
    MaxRecords,  \* bound: runs, edits, cases and evaluated questions together
    MaxCases     \* bound: repair cases, and evaluations

ASSUME RepairAssumption ==
    /\ GoldPlans \subseteq Plans
    /\ {Serial, DbMayFail} \subseteq BOOLEAN
    /\ {MaxRecords, MaxCases} \subseteq Nat
    /\ None \notin Users \cup Plans

VARIABLES
    rows,    \* rows of execution_runs and plan_edits
    text,    \* [Plans -> the SQL text: there, gone and to be regenerated, gone]
    edited,  \* history: how often each plan was edited
    req,     \* [Clients -> the execution in flight]
    cases,   \* rows of repair_cases
    evals    \* EVALUATION_RUNS: the cases of each evaluation

vars == <<rows, text, edited, req, cases, evals>>

-----------------------------------------------------------------------------
(* Rows.  seen (how many edits the plan had when the execution began) and   *)
(* nr (which edit of the plan it is) are history.  The result of a run is   *)
(* what its result_preview shows: rows, an error row, or the row that asks  *)
(* for a new plan because nothing was executed; that of a stepwise run      *)
(* (plan_step) is none until it ends.                                       *)

Outcomes == {"rows", "error", "needs_replan"}

(* update_plan_node: an edit of the intent node, one that changes a table   *)
(* or a column, one of a LIMIT, SORT or SQL node that can be turned into    *)
(* SQL, or one of the result node.  merge_plan_nodes leaves an edit too.    *)
UpdateKinds == {"intent", "binding", "patch", "result"}
EditKinds == UpdateKinds \cup {"merge"}

Sql  == [type : {"sql"}, user : Users, plan : Plans, outcome : Outcomes, seen : Nat]
Step == [type : {"plan_step"}, user : Users, plan : Plans,
         outcome : Outcomes \cup {"none"}, seen : Nat]
Edit == [type : {"edit"}, user : Users, plan : Plans, node : EditKinds, nr : Nat]

Metrics ==
    [available : {FALSE}]
    \cup [available : {TRUE}, recovered : BOOLEAN, intent : BOOLEAN,
          edits : Nat \ {0}, schema : BOOLEAN]

Case == [user : Users, plan : Plans, picked : BOOLEAN,
         original : Nat, post : Nat, metrics : Metrics]

Idle == [op |-> "idle"]

(* An execution of a plan for a user: by itself, or as the last step of the *)
(* stepwise run whose row is given (0: none of its writes arrived).         *)
Request == [op : {"idle"}]
           \cup [op : {"execute", "step"}, user : Users, plan : Plans, seen : Nat, run : Nat]

Records ==
    Cardinality({i \in DOMAIN rows : rows[i].type # "edit"})
    + Cardinality({c \in Clients : req[c] # Idle})
    + Cardinality(UNION {{p} \X (1..edited[p]) : p \in Plans})
    + Len(cases) + Len(FlattenSeq(evals))

(* best_effort: a row is added (i = 0) or revised, which keeps created_at.  *)
Saved(rs, i, row) ==
    {IF i = 0 THEN Append(rs, row) ELSE [rs EXCEPT ![i] = row]} \cup {rs2 \in {rs} : DbMayFail}

Init ==
    /\ rows = << >> /\ cases = << >> /\ evals = << >>
    /\ text = [p \in Plans |-> "there"]
    /\ edited = [p \in Plans |-> 0]
    /\ req = [c \in Clients |-> Idle]

-----------------------------------------------------------------------------
(* Executions and edits.                                                   *)

Row(type, r, outcome) ==
    [type |-> type, user |-> r.user, plan |-> r.plan, outcome |-> outcome, seen |-> r.seen]

(* _persist_execution of a result; the last step of a stepwise run writes   *)
(* the row of that run after it.                                            *)
Recorded(r, outcome) ==
    \E rs \in Saved(rows, 0, Row("sql", r, outcome)) :
       rows' \in IF r.op = "execute" THEN {rs} ELSE Saved(rs, r.run, Row("plan_step", r, outcome))

(* The stepwise runs of a plan that have not ended.  The row may lag behind *)
(* the run in memory: it may be missing, and a reset may not be in it.      *)
StepRuns(p) == {i \in DOMAIN rows : rows[i].type = "plan_step" /\ rows[i].plan = p}
Running(p) ==
    {i \in StepRuns(p) : rows[i].outcome = "none" \/ DbMayFail} \cup {i \in {0} : DbMayFail}

Asked(op, u, p, i) == [op |-> op, user |-> u, plan |-> p, seen |-> edited[p], run |-> i]
Executions(u, p) == {Asked("execute", u, p, 0)} \cup {Asked("step", u, p, i) : i \in Running(p)}

(* run_demo_execution of a plan that must be regenerated: nothing runs, and *)
(* the row that says so is recorded like a result.                          *)
Refuse(c, r) ==
    /\ req[c] = Idle
    /\ text[r.plan] = "replan"
    /\ Recorded(r, "needs_replan")
    /\ UNCHANGED <<text, edited, req, cases, evals>>

(* Otherwise it asks the SQL engine, for the SQL of the plan or that of the *)
(* client ...                                                               *)
Execute(c, r) ==
    /\ req[c] = Idle
    /\ text[r.plan] # "replan"
    /\ req' = [req EXCEPT ![c] = r]
    /\ UNCHANGED <<rows, text, edited, cases, evals>>

(* ... and records the answer.                                             *)
Executed(c, outcome) ==
    /\ req[c] # Idle
    /\ Recorded(req[c], outcome)
    /\ req' = [req EXCEPT ![c] = Idle]
    /\ UNCHANGED <<text, edited, cases, evals>>

(* create_plan_run (i = 0), reset_plan_run, and step_plan_run to a node     *)
(* before the last: the run has no result.                                  *)
StepPending(u, p, i) ==
    /\ rows' \in Saved(rows, i, [type |-> "plan_step", user |-> u, plan |-> p,
                                 outcome |-> "none", seen |-> 0])
    /\ UNCHANGED <<text, edited, req, cases, evals>>

(* step_plan_run to a node whose preview cannot be made ends the run.       *)
StepFails(u, p, i) ==
    /\ rows' \in Saved(rows, i, Row("plan_step", Asked("step", u, p, i), "error"))
    /\ UNCHANGED <<text, edited, req, cases, evals>>

(* What an edit leaves of the text.  That of a gold plan is gone unless the *)
(* edit could be turned into SQL, and an edit of the result node withdraws  *)
(* the demand for another one.                                              *)
Edited(p, node) ==
    IF p \notin GoldPlans \/ (text[p] = "there" /\ node \in {"patch", "result"}) THEN "there"
    ELSE IF node = "result" THEN "gone" ELSE "replan"

(* The row persist_plan_edit adds.                                          *)
EditWritten(u, p, node) ==
    /\ Serial => ~ \E c \in Clients : req[c] # Idle /\ req[c].plan = p
    /\ edited' = [edited EXCEPT ![p] = @ + 1]
    /\ rows' \in Saved(rows, 0, [type |-> "edit", user |-> u, plan |-> p,
                                 node |-> node, nr |-> edited[p] + 1])
    /\ UNCHANGED <<req, cases, evals>>

(* update_plan_node                                                         *)
EditNode(u, p, node) ==
    /\ text' = [text EXCEPT ![p] = Edited(p, node)]
    /\ EditWritten(u, p, node)

(* merge_plan_nodes, when the nodes can be merged.                          *)
MergeNodes(u, p) ==
    /\ EditWritten(u, p, "merge")
    /\ UNCHANGED text

-----------------------------------------------------------------------------
(* Repair cases.                                                           *)

(* A run is failed by its status or an error row; a direct execution writes *)
(* the status success whatever came of it.                                  *)
Failed(i) == rows[i].outcome = "error"

(* Seeded fault: only the status is looked at.                              *)
Succeeded_ByStatus(i) == rows[i].outcome # "none"

Succeeded(i) == rows[i].outcome \in {"rows", "needs_replan"}

(* The runs of the plan that the user asked for; by a single execution.     *)
RunsOf(u, p) ==
    {i \in DOMAIN rows : rows[i].type # "edit" /\ rows[i].user = u /\ rows[i].plan = p}
SqlRunsOf(u, p) == {i \in RunsOf(u, p) : rows[i].type = "sql"}

First(S) == IF S = {} THEN 0 ELSE Min(S)

(* The run the request names, of either type, or the first execution that   *)
(* failed; 0 for none.  An id that names no run finds none.                 *)
Named(i) == IF rows[i].type # "edit" THEN i ELSE 0

Original(u, p, id) ==
    IF id # 0 THEN Named(id) ELSE First({i \in SqlRunsOf(u, p) : Failed(i)})

(* The run the request names, or the first execution after the original     *)
(* that succeeded.  Seeded fault: the first at all.                         *)
PostEdit_First(u, p, original, id) ==
    IF id # 0 THEN Named(id) ELSE First({i \in SqlRunsOf(u, p) : original # 0 /\ Succeeded(i)})

PostEdit(u, p, original, id) ==
    IF id # 0 THEN Named(id)
    ELSE First({i \in SqlRunsOf(u, p) : original # 0 /\ i > original /\ Succeeded(i)})

(* The edits between the two runs.  Seeded fault: any before the second.    *)
EditsBetween_Before(u, p, original, post) ==
    {i \in 1..post : rows[i].type = "edit" /\ rows[i].user = u /\ rows[i].plan = p}

EditsBetween(u, p, original, post) ==
    {i \in original..post : rows[i].type = "edit" /\ rows[i].user = u /\ rows[i].plan = p}

Unavailable == [available |-> FALSE]

(* _compute_repair_metrics, for the two runs it settled on.  Seeded fault:  *)
(* nobody looks whether there was an edit.                                  *)
RepairMetrics_NoEdit(u, p, original, post) ==
    LET edits == EditsBetween(u, p, original, post)
    IN  IF {original, post} \subseteq RunsOf(u, p) /\ post > original
        THEN [available |-> TRUE,
              recovered |-> Failed(original) /\ Succeeded(post),
              intent    |-> \E i \in edits : rows[i].node = "intent",
              edits     |-> Cardinality(edits),
              schema    |-> \E i \in edits : rows[i].node = "binding"]
        ELSE Unavailable

RepairMetrics(u, p, original, post) ==
    LET edits == EditsBetween(u, p, original, post)
    IN  IF {original, post} \subseteq RunsOf(u, p) /\ post > original /\ edits # {}
        THEN [available |-> TRUE,
              recovered |-> Failed(original) /\ Succeeded(post),
              intent    |-> \E i \in edits : rows[i].node = "intent",
              edits     |-> Cardinality(edits),
              schema    |-> \E i \in edits : rows[i].node = "binding"]
        ELSE Unavailable

(* create_repair_case: the case keeps the metrics as computed now.          *)
NewCase(u, p, originalId, postId) ==
    LET original == Original(u, p, originalId)
        post     == PostEdit(u, p, original, postId)
    IN  [user |-> u, plan |-> p, picked |-> originalId = 0 /\ postId = 0,
         original |-> original, post |-> post,
         metrics |-> RepairMetrics(u, p, original, post)]

CreateCase(u, p, originalId, postId) ==
    /\ Len(cases) < MaxCases
    /\ cases' = Append(cases, NewCase(u, p, originalId, postId))
    /\ UNCHANGED <<rows, text, edited, req, evals>>

-----------------------------------------------------------------------------
(* get_repair_summary.  A rate is a numerator and a denominator, or None.   *)

CasesOf(u) == {k \in DOMAIN cases : cases[k].user = u}
Controlled(u) == {k \in CasesOf(u) : cases[k].metrics.available}
WithSchema(u) == {k \in Controlled(u) : cases[k].metrics.schema}

(* Seeded fault: nothing to average is zero.                                *)
Rate_Zero(part, whole) == <<Cardinality(part), Cardinality(whole)>>

Rate(part, whole) ==
    IF whole = {} THEN None ELSE <<Cardinality(part), Cardinality(whole)>>

RepairSummary(u) ==
    LET recovered == {k \in Controlled(u) : cases[k].metrics.recovered}
    IN  [total      |-> Cardinality(CasesOf(u)),
         controlled |-> Cardinality(Controlled(u)),
         recovery   |-> Rate(recovered, Controlled(u)),
         intent     |-> Rate({k \in Controlled(u) : cases[k].metrics.intent}, Controlled(u)),
         schema     |-> Rate(recovered \cap WithSchema(u), WithSchema(u)),
         edits      |-> IF Controlled(u) = {} THEN None
                        ELSE <<MapThenSumSet(LAMBDA k : cases[k].metrics.edits, Controlled(u)),
                               Cardinality(Controlled(u))>>]

-----------------------------------------------------------------------------
(* Evaluation of benchmark questions (run_evaluation).                      *)

(* What becomes of one question: its plan and its gold query give the same  *)
(* rows, other rows, one of them fails, the plan has no SQL or asks to be   *)
(* regenerated, or an exception ends the attempt.                           *)
Attempts == {"same", "other", "failed", "gold_failed", "no_sql", "needs_replan", "exception"}

(* _evaluate_case and _classify_failure: whether it is correct, and the     *)
(* kind of its error.  Seeded fault: a plan without SQL has none.           *)
ErrorType_NoSql(attempt) ==
    CASE attempt \in {"same", "no_sql"} -> None
      [] attempt = "needs_replan" -> "planning"
      [] attempt = "failed" -> "execution"
      [] attempt = "exception" -> "exception"
      [] OTHER -> "sql_generation"

ErrorType(attempt) ==
    CASE attempt = "same" -> None
      [] attempt \in {"needs_replan", "no_sql"} -> "planning"
      [] attempt = "failed" -> "execution"
      [] attempt = "exception" -> "exception"
      [] OTHER -> "sql_generation"

EvaluatedCase(attempt) == [correct |-> attempt = "same", error |-> ErrorType(attempt)]

RunEvaluation(attempts) ==
    /\ Len(evals) < MaxCases
    /\ evals' = Append(evals, [i \in DOMAIN attempts |-> EvaluatedCase(attempts[i])])
    /\ UNCHANGED <<rows, text, edited, req, cases>>

ErrorTypes == {"planning", "execution", "sql_generation", "exception"}

(* _summarize_cases.                                                        *)
EvaluationSummary(e) ==
    [total    |-> Len(e),
     correct  |-> Cardinality({i \in DOMAIN e : e[i].correct}),
     errors   |-> [t \in ErrorTypes |-> Cardinality({i \in DOMAIN e : e[i].error = t})]]

(* None is neither a kind of error nor a rate.                              *)
ASSUME SummaryAssumption == None \notin ErrorTypes \cup (Nat \X Nat)

(* The backend stops and starts: only the rows are left, and the plans the  *)
(* edits persisted.                                                         *)
Restart ==
    /\ evals' = << >>
    /\ req' = [c \in Clients |-> Idle]
    /\ UNCHANGED <<rows, text, edited, cases>>

-----------------------------------------------------------------------------
Ids == 0..Len(rows)

Next ==
    \/ Records < MaxRecords /\ \E u \in Users, p \in Plans :
          \/ \E c \in Clients, r \in Executions(u, p) : Refuse(c, r) \/ Execute(c, r)
          \/ \E i \in {0} \cup StepRuns(p) : StepPending(u, p, i)
          \/ \E i \in Running(p) : StepFails(u, p, i)
          \/ \E node \in UpdateKinds : EditNode(u, p, node)
          \/ MergeNodes(u, p)
          \/ \E originalId, postId \in Ids : CreateCase(u, p, originalId, postId)
    \/ \E c \in Clients, outcome \in {"rows", "error"} : Executed(c, outcome)
    \/ Records + 2 <= MaxRecords /\ \E a, b \in Attempts : RunEvaluation(<<a, b>>)
    \/ Restart

Spec == Init /\ [][Next]_vars

-----------------------------------------------------------------------------
(* Properties.                                                              *)

(* Every variable has its type, and a case refers to rows.                  *)
TypeOK ==
    /\ rows \in Seq(Sql \cup Step \cup Edit)
    /\ text \in [Plans -> {"there", "replan", "gone"}]
    /\ edited \in [Plans -> Nat]
    /\ req \in [Clients -> Request]
    /\ cases \in Seq(Case)
    /\ \A k \in DOMAIN cases : {cases[k].original, cases[k].post} \subseteq Ids
    /\ evals \in Seq(Seq([correct : BOOLEAN, error : ErrorTypes \cup {None}]))

(* When the server picks the two runs of a case, the case counts as a       *)
(* recovery or has no metrics: an execution that failed, an edit by the     *)
(* same user, then an execution that did not fail.                          *)
PickedIsRecovery ==
    \A k \in DOMAIN cases :
       LET case == cases[k]
       IN  case.picked /\ case.metrics.available =>
             /\ case.metrics.recovered
             /\ rows[case.original].outcome = "error"
             /\ rows[case.post].outcome # "error"
             /\ \E i \in case.original..case.post :
                   /\ rows[i].type = "edit"
                   /\ rows[i].user = case.user /\ rows[i].plan = case.plan

(* "Initially failed cases corrected after intervention": the run after the *)
(* edits of a case that counts as a recovery returned rows.  The code does  *)
(* not keep this: a run that was refused, because the plan must be          *)
(* regenerated, did not fail either.                                        *)
RecoveryIsCorrected ==
    \A k \in DOMAIN cases :
       LET case == cases[k]
       IN  case.picked /\ case.metrics.available => rows[case.post].outcome = "rows"

(* An edit that is counted came after the execution of the original and     *)
(* before that of the run after the edits, which can owe its success to it. *)
EditInBetween(case) ==
    \E i \in EditsBetween(case.user, case.plan, case.original, case.post) :
       rows[case.original].seen < rows[i].nr /\ rows[i].nr <= rows[case.post].seen

BothAre(types, case) == rows[case.original].type \in types /\ rows[case.post].type \in types

(* A user who awaits executions before editing: so it is in a case of two   *)
(* executions.                                                              *)
EditCameFirst ==
    Serial =>
       \A k \in DOMAIN cases :
          cases[k].metrics.available /\ BothAre({"sql"}, cases[k]) => EditInBetween(cases[k])

(* "Initially failed": the same of any case that counts as a recovery.  The *)
(* code does not keep this: the row of a stepwise run is as old as the run, *)
(* its result as new as its last step, and a case may name it.              *)
RecoveryOwesToEdit ==
    Serial =>
       \A k \in DOMAIN cases :
          cases[k].metrics.available /\ cases[k].metrics.recovered => EditInBetween(cases[k])

(* One of the two at least is kept at any moment, which is weaker than each *)
(* of them.  The code does not keep this either: two cases on the same rows *)
(* can contradict both.                                                     *)
SomePromiseKept == RecoveryIsCorrected \/ RecoveryOwesToEdit

(* "Unavailable, not zero": a rate is reported exactly when a case supports *)
(* it and lies between 0 and 1; and an unavailable case counts in no        *)
(* average.                                                                 *)
UnavailableNotZero ==
    \A u \in Users :
       LET s == RepairSummary(u)
           IsRate(r) == r = None \/ r[1] <= r[2]
       IN  /\ s.controlled <= s.total
           /\ \A r \in {s.recovery, s.intent, s.schema} : IsRate(r)
           /\ s.recovery = None <=> \A k \in CasesOf(u) : ~ cases[k].metrics.available
           /\ s.schema = None <=> WithSchema(u) = {}
           /\ s.edits # None => s.edits[1] >= s.edits[2]

(* A repair that was made is found: the plan's first failure, an edit, and  *)
(* then the first success after it give a case with metrics.                *)
RepairIsFound ==
    \A u \in Users, p \in Plans :
       \A i, k \in SqlRunsOf(u, p), j \in DOMAIN rows :
          /\ rows[i].outcome = "error"
          /\ \A l \in SqlRunsOf(u, p) : l < i => rows[l].outcome # "error"
          /\ i < j /\ j < k
          /\ rows[j].type = "edit" /\ rows[j].user = u /\ rows[j].plan = p
          /\ rows[k].outcome = "rows"
          /\ \A l \in SqlRunsOf(u, p) : i < l /\ l < j => rows[l].outcome = "error"
          => NewCase(u, p, 0, 0).metrics.available

(* Every question of an evaluation is either correct or has one kind of     *)
(* error: the distribution adds up to what accuracy leaves.                 *)
EvaluationAddsUp ==
    \A k \in DOMAIN evals :
       LET s == EvaluationSummary(evals[k])
       IN  s.correct + MapThenSumSet(LAMBDA t : s.errors[t], ErrorTypes) = s.total

=============================================================================
