----------------------------- MODULE PlanRecord -----------------------------
(***************************************************************************)
(* The stored plan record of backend/app/demo_pipeline.py: one entry of    *)
(* PLAN_STORE, and the pure functions by which edits, merges, runs and     *)
(* results change it.  The planning providers emit a connected chain       *)
(* intent -> operations -> data_result, so a graph is the sequence of its  *)
(* node ids.  SQL texts are the members of Sqls; only their identity       *)
(* matters.                                                                *)
(***************************************************************************)
EXTENDS Integers, Sequences

CONSTANTS
    Intent,      \* the intent node
    Ops,         \* the operation nodes a provider emits, in chain order
    Result,      \* the data node that shows the final rows
    SqlOps,      \* the operations whose valid edit rewrites the SQL: LIMIT and
                 \* SORT in a gold-SQL plan, the SQL node in an LLM plan
    Supported,   \* pairs of operations whose types _merge_supported accepts
    Templates,   \* the values of metadata.template under consideration
    Sqls,        \* SQL texts
    Gold,        \* the text a deterministic provider generates
    None         \* Python's None, and the empty SQL text

OpSet == {Ops[i] : i \in 1..Len(Ops)}
Nodes == {Intent, Result} \cup OpSet

ASSUME NodesAssumption ==
    /\ Ops \in Seq(OpSet)
    /\ Len(Ops) > 0
    /\ Intent # Result
    /\ {Intent, Result} \cap OpSet = {}
    /\ None \notin Nodes
    /\ \A i, j \in 1..Len(Ops) : Ops[i] = Ops[j] => i = j

ASSUME PlanAssumption ==
    /\ SqlOps \subseteq OpSet
    /\ Supported \subseteq OpSet \X OpSet
    /\ Templates \subseteq {"gold", "llm", "other"}
    /\ Gold \in Sqls
    /\ None \notin Sqls

(* What an execution ran: a stored text, the built-in fallback query, or   *)
(* nothing because the plan asks to be regenerated.  "failure" is the row  *)
(* rebuilt from a record that holds an error message and no rows.          *)
Fallbacks == {"stub", "replan", "failure"}
Executed  == Sqls \cup Fallbacks

NodeState == {"pending", "running", "success", "error"}
RunState  == {"idle", "running", "success", "error"}

ASSUME ExecutedAssumption == None \notin Executed \cup NodeState /\ Sqls \cap Fallbacks = {}

-----------------------------------------------------------------------------
(* A plan just generated for a question.  An LLM may return no SQL.        *)

NewPlan(template, sql) ==
    [order |-> <<Intent>> \o Ops \o <<Result>>,
     template |-> template,
     sql |-> sql,
     replan |-> FALSE,
     needsReplan |-> FALSE,
     lastNeedsReplan |-> FALSE,
     merged |-> {},
     st |-> [n \in Nodes |-> "pending"],
     runStatus |-> None]

GeneratedSqls(template) == IF template = "llm" THEN Sqls \cup {None} ELSE {Gold}

-----------------------------------------------------------------------------
(* Edits.                                                                  *)

OnPlan(p, n) == \E i \in 1..Len(p.order) : p.order[i] = n

(* The node at position i and every node downstream of it on the chain.    *)
FromPosition(p, i) == {p.order[j] : j \in i..Len(p.order)}

(* _mark_downstream_pending, and the reset of the edited node itself: data *)
(* and operation nodes go back to pending, an intent node carries no state *)
(* of its own.                                                             *)
MarkedPending(p, i) ==
    [n \in Nodes |-> IF n \in FromPosition(p, i) \ {Intent} THEN "pending" ELSE p.st[n]]

(* A LIMIT, SORT or SQL node whose new content can be turned into SQL.  A  *)
(* merged node has the type MERGED, which nothing patches.                 *)
Patches(p, n, valid) == n \in SqlOps \ p.merged /\ valid

(* Seeded fault of EditedSql: an empty text is patched as well.            *)
EditedSql_PatchesEmpty(p, n, valid, s) ==
    IF n = Result \/ p.template = "other" THEN p.sql
    ELSE IF Patches(p, n, valid) THEN s
    ELSE IF p.template = "llm" THEN p.sql ELSE None

(* The executable SQL after an edit of n that asks for the text s.         *)
EditedSql(p, n, valid, s) ==
    IF n = Result \/ p.template = "other" THEN p.sql
    ELSE IF p.template = "llm" THEN IF Patches(p, n, valid) THEN s ELSE p.sql
    ELSE IF Patches(p, n, valid) /\ p.sql # None THEN s ELSE None

(* Only a gold-SQL plan records that it must be regenerated, and every     *)
(* edit first withdraws an earlier demand.                                 *)
EditedReplan(p, n, valid) ==
    /\ n # Result
    /\ p.template = "gold"
    /\ ~ (Patches(p, n, valid) /\ p.sql # None)

(* editResult.needsReplan: the status is needs_replan, or no SQL is left.  *)
EditNeedsReplan(p, n, valid, s) ==
    \/ EditedSql(p, n, valid, s) = None
    \/ p.template = "llm" /\ n \in SqlOps \ p.merged /\ ~ valid

EditedPlan(p, i, valid, s) ==
    LET n == p.order[i]
    IN  [p EXCEPT !.sql = EditedSql(p, n, valid, s),
                  !.replan = EditedReplan(p, n, valid),
                  !.needsReplan = EditNeedsReplan(p, n, valid, s),
                  !.lastNeedsReplan = EditNeedsReplan(p, n, valid, s),
                  !.st = MarkedPending(p, i),
                  !.runStatus = None]

(* What an edit persists: it is written before the graph's own flags are   *)
(* set, so the record keeps the flags of the edit before it.               *)
PersistedEdit(old, new) ==
    [new EXCEPT !.needsReplan = old.needsReplan,
                !.lastNeedsReplan = old.lastNeedsReplan]

-----------------------------------------------------------------------------
(* Merges of the adjacent operations at positions i..j into the first.     *)

(* An LLM plan has SELECT steps and one SQL node: no pair of them merges.  *)
MergeSupported(p, i, j) ==
    /\ p.template # "llm"
    /\ \A h \in i..j : p.order[h] \in OpSet \ p.merged
    /\ \A h \in i..(j - 1) : <<p.order[h], p.order[h + 1]>> \in Supported

MergedPlan(p, i, j) ==
    [p EXCEPT !.order = SubSeq(p.order, 1, i) \o SubSeq(p.order, j + 1, Len(p.order)),
              !.merged = @ \cup {p.order[i]},
              !.st = MarkedPending(p, i),
              !.needsReplan = FALSE,
              !.lastNeedsReplan = FALSE,
              !.runStatus = None]

(* A refused merge only reports itself.                                    *)
RefusedMerge(p) == [p EXCEPT !.lastNeedsReplan = TRUE]

-----------------------------------------------------------------------------
(* Executions.                                                             *)

(* What run_demo_execution runs for the plan when the caller passes the    *)
(* text client: _plan_requires_replan first, then _execution_sql.          *)
ExecutionSql(p, client) ==
    IF p.replan THEN "replan"
    ELSE IF p.sql # None THEN p.sql
    ELSE client

(* _apply_execution_result_to_result_nodes.                                *)
ResultApplied(p, err) ==
    [p EXCEPT !.st[Result] = IF err THEN "error" ELSE "success"]

=============================================================================
