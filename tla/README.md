# DebugSQL: verification project

TLA+ models of DebugSQL (FastAPI backend in `src/backend`, React client in
`src/frontend`), model-checked with TLC, with theorems proved by TLAPS.
DebugSQL turns a question into a *query plan*, a graph of an intent node, operation
nodes and a result node, which the user inspects, edits, merges, runs step by
step and re-executes. Its chat answers a question with a query to approve and keeps
a *working state* per conversation, so that the next question can refine that query.

## 1. Inventory

| component | state | operations | interacts with |
|---|---|---|---|
| Plan store (`demo_pipeline.py`, `query_plan_routes.py`) | `PLAN_STORE`: graph with node states and flags, executable SQL, metadata (`requires_replan`, `template`) | generate, get, patch a node, merge nodes | takes runs out of the run store, writes `query_plans`, `plan_edits` |
| Plan runs (same files) | `PLAN_RUN_STORE`: status, order, next node, node states, count, result | create, get, step, full run, reset, restore from a row | writes its state into the graph; executes the plan on its last step; writes `execution_runs` |
| Direct executions (`demo_pipeline.py`, `execution_routes.py`) | `RUN_STORE` | execute, get result | reads the plan's SQL, colours its result node |
| Persistence (`persistence.py`, `models/`) | the tables | best-effort writes, history reads | every component above and below |
| Chat (`chat_routes.py`, `conversation/`) | a conversation's messages and working state with a revision | query, follow-up, execution summary | LLM, tools, persistence |
| Tools (`tools/`) | none; a record per call | execute a tool with or without approval | connectors; a successful `run_sql` writes its summary into the working state |
| E-mail login (`auth.py`, `auth_routes.py`) | codes, sessions, users | request code, verify, logout, resolve session | mail, every route |
| Evaluation (`evaluation_routes.py`) | `EVALUATION_RUNS`, `repair_cases` | run a benchmark, make a repair case, summarise them | **generates plans into `PLAN_STORE`**, reads the rows of runs and edits |
| Planning (`planning/`, `gemini/`, `simple_nl2sql.py`) | none | a chain of nodes and a text | LLM service |
| SQL engine (`benchmark_registry.py`, connectors) | none (read only) | preview, execute | called by steps and executions |
| Semantic SQL (`semantic_sql/`, `craigslist/resolver.py`) | none | turn a query with `NL_FILTER` into plain SQL and run it | resolvers; called by `run_sql` |
| Semantic index (`semantic_index/`) | files of vectors, ids and a manifest; the index a process has loaded | build, load | image files, CLIP model; the builder is a process of its own |
| Vision reranker (`craigslist/vision.py`) | `vision_scores.sqlite` | score a shortlist in batches, cache the scores | vision service, image files, manifest |
| Client (`store/*.tsx`, `ChatPanel.tsx`, `useReexecutePlan.ts`) | execution status and result, active plan, messages | all requests; aborts after 30 s | every route |

Hard behaviours. The routes are synchronous functions on a thread pool, the stores are
plain dictionaries, and no lock is taken: a step waits for the SQL engine in its middle
while edits, resets and other steps change the same objects. An edit removes the runs
from memory, but their rows stay, so a run can come back. Every write to the database is
best effort. A restart keeps only the rows. A question reads the conversation in two
transactions, waits for the LLM and writes in a third, which reads the row once more;
each commit writes only the columns it changed; a login does the same with codes and
users. The index builder replaces files under the running server and may end between two
of them. The vision model fails or answers about other images. The client gives up after
30 s while the server goes on. `PROJECT.json` lists each hazard with its line and the
property that watches it.

What makes each part correct: a run advances one node at a time, loses no completed step
over a restart, and what it shows as done it has; the graph shows one run consistently;
a result shown is one of the text the plan has now; an emptied text stays empty until a
plan is generated; a full run ends. A working state is about one query of its session
and dataset, is the one the messages tell, and has the revision the client was told; a
question refines no query of another dataset or conversation; a follow-up is not lost. A
login code is used once, only the newest one, within its attempts, and a cookie does not
outlive its session. What is counted as a repair is a failure, an edit and an execution
that did not fail, in that order; it should be one that returned rows, which the code
does not ensure. What cannot be measured is unavailable, not zero. A reused vector and a
cached score belong to the file as it is, and plain SQL gives the rows the semantic
query asked for. For the parts not modelled yet: a tool that needs approval runs only
approved; the screen shows the answer to the last request.

## 2. Modules

| module | models |
|---|---|
| `PlanRecord` | one entry of `PLAN_STORE` and the functions that edit, merge, mark and execute it |
| `PlanService` | the stores, the rows, the requests in flight, one action per handler or part of a handler between two waits; all properties |
| `RunSpec` | what a plan run promises: a counter that walks to the end of the plan, fails or starts again; no memory, rows or requests |
| `PlanRuns` | how memory and rows of `PlanService` make that counter (`Promised == INSTANCE RunSpec WITH ...`) |
| `MCPlan` | instances for TLC: plans of one or two operations, symmetry |
| `PlanServiceProofs` | type correctness (`TypeCorrect`) |
| `PlanResultProofs` | the properties of overlapping requests: `DoneHasResult`, `FreshInStore`, `EmptySqlStays` |
| `PlanSerialProofs` | the properties of a client that awaits its answers: `RunIsWalk`, `DurableProgress`, `StepByStep`, `GraphShowsRun` |
| `PlanRunsProofs` | the refinement: `PlanService` implements `RunSpec` |
| `ChatResolver` | which answers a message may get: the classifier, and the order LLM, gold query, schema fallback |
| `Conversation` | conversations of a user, the requests of questions and executions, one action per transaction; all properties |
| `EmailLogin`, `MCEmailLogin` | codes, sessions and cookies of an address, one action per read, commit or answer; all properties |
| `RepairEvaluation`, `MCRepairEvaluation` | the rows of runs and edits, repair cases and evaluations made of them; all properties |
| `SemanticSql` | pure operators: which `NL_FILTER` is accepted, the rows of the rewritten SQL, the rows that were asked for |
| `SemanticSearch`, `MCSemanticSearch` | the index and its builder, the loaded index, the vision cache, searches in flight; all properties |
| `MCConversation` | instances for TLC: one session, two datasets, symmetry |
| `ConversationProofs` | type correctness, the safety of overlapping questions, the properties of awaited ones |
| `EmailLoginProofs` | type correctness, `CookieIsLive`, and the properties of codes: `SpentCode`, `OneLoginPerCode`, `PendingIsNewest`, `GuessesCounted`, `UndeliveredWithdrawn` |
| `SemanticProofs` | type correctness, `RowsAreWanted`, `ScoreOfFile`, `RankedByOwnVector`, `ReuseIsRight` |
| `RepairProofs` | type correctness, `PickedIsRecovery`, `EditCameFirst`, `RepairIsFound`, `UnavailableNotZero`, `EvaluationAddsUp` |

*The refinement.* `RunSpec` has one number per run and no store. `PlanRuns` maps to it the
run in memory if there is one, and otherwise what its row says of the plan as it is now
(`ProgressOf`), since that is the run the next request gets. An edit takes the run out of
memory, a restart empties it, a request rebuilds the run, and a step marks the node as
running before it answers: all of these map to a stutter. A step that ends, a failure, a
reset, a creation and a merge (which shortens every run by the nodes it takes away) map to
the action of that name; a plan that was never written disappears with a restart, and its
runs with it (`Lose`). This holds for a client that awaits its answers, and while the
database takes every write: `overlap` and a lost write give the same run two histories,
which is the subject of `FreshInStore` and `DoneHasResult`.

`SemanticSearch` extends `SemanticSql`, whose `WellFormed` says that a literal of a
condition is one of its query's filters. `RepairEvaluation` reads what `PlanService`
writes, the rows of executions, stepwise runs, edits and merges, and keeps of a plan
only whether it has its text and of a stepwise run only its row, so that several users
and many rows fit; its `Edited` is `PlanRecord`'s `EditedSql` and `EditedReplan` for
that. `EmailLogin` stands alone: other routes only ask who the user is. `Conversation`
extends `ChatResolver` and shares nothing with `PlanService`: since plan editing left
the chat (`handlers.py:28`), a question makes no plan, and a plan run does not touch the
working state.

### State

| variable | code |
|---|---|
| `plan` | `PLAN_STORE[plan_id]`: `order` the chain of node ids, `sql` the executable content (`None` is empty), `replan` = `metadata.requires_replan`, `needsReplan` / `lastNeedsReplan` = `graph.needsReplan` / `graph.lastEditResult.needsReplan`, `merged` the nodes of type MERGED, `st` their `executionState`, `runStatus` the summary of the run shown |
| `store`, `heap` | `PLAN_RUN_STORE` and the run dictionaries it refers to. They are apart because a request keeps its dictionary after an edit took the run out of the store, and a later request may build a second one for the same run id |
| `thr` | requests that wait: for a preview, for an execution, or between two steps of `run_full_plan` |
| `dbPlan`, `dbRun` | the rows of `query_plans` and `execution_runs` |
| `count` | how much of the bounds is used (only in the model) |

Of `Conversation`:

| variable | code |
|---|---|
| `rows` | the row of `conversations` of each session: `dataset_context` and `working_state` (`None` when the row, the column or the value is absent) |
| `messages` | the rows of `messages`, in the order of their commits; a question and its answer are stored together and count as one entry, the question |
| `asks` | what the request of each question knows: what it was sent with, the state and the number of messages it read, its answer, the row its transaction read |
| `calls` | the executions that wait to write their summary, with the row they read |
| `called` | how much of the bound is used (only in the model) |

Of `EmailLogin`:

| variable | code |
|---|---|
| `codes`, `sessions` | the rows of `email_login_codes` and `sessions` in the order of their commits; `guesses`, `mail`, `by`, `first` are history |
| `users` | the addresses with a row in `users` |
| `cookie` | the session a browser's cookie names |
| `req` | what the handler of a tab's request knows between its read and its commit, or between commit and answer |
| `clock` | `utc_now()`, in ticks |
| `mixed` | history: addresses of which two transactions overlapped |

Of `RepairEvaluation`:

| variable | code |
|---|---|
| `rows` | `execution_runs` of the types `sql` and `plan_step`, and `plan_edits`, in the order of `created_at`. The row of a stepwise run (`plan_step`) has the outcome `none` until the run ends, and each write revises it; `seen` (how many edits the plan had when the execution began) and `nr` (which edit it is) are history |
| `text` | whether a plan has its text, must be regenerated (`requires_replan`), or has neither text nor demand |
| `edited` | history: the edits of each plan, lost or not |
| `req` | executions that wait for the engine, by themselves or as the last step of the stepwise run whose row is named |
| `cases`, `evals` | `repair_cases` and `EVALUATION_RUNS` |

Of `SemanticSearch`:

| variable | code |
|---|---|
| `files`, `model` | contents of each image file and the configured CLIP model, numbered |
| `index` | `image_embeddings.npy`, `image_ids.json`, the title files as one flag, `manifest.json` |
| `build` | the locals of `build_craigslist_indexes` |
| `loaded` | the ids `load_index` keeps; the vectors it maps are those on disk |
| `cache` | `vision_scores.sqlite`: by key, the contents that were scored |
| `req` | searches in flight: the matches so far, the shortlist, the batch that was sent |
| `world`, `builds`, `changes` | which events may happen, and how much of the bounds is used (only in the model) |

A finished request keeps what it was asked and answered, which are the columns of its
messages. `own` in a run is a history flag: the run was created in this process for the
plan as last generated and was not rebuilt from its row.

### Actions and code

| action | code |
|---|---|
| `Generate` | `generate_plan_for_message`, called by an evaluation of the same question (`evaluation_routes.py:178`) |
| `GetPlan`, `UpdatePlanNode`, `MergePlanNodes`, `RefuseMerge` | `get_plan_graph`, `update_plan_node`, `merge_plan_nodes` and its refusals |
| `CreatePlanRun`, `GetPlanRun`, `ResetPlanRun` | the functions of these names |
| `CallStep` (`StepOfEnded`, `StepBeyond`, `StepIntent`, `StepOperation`, `StepResult`, `StepResultRefused`) | `step_plan_run` up to its wait; with `full`, the first step of `run_full_plan` |
| `PreviewDone`, `StepExecuted` | the rest of `step_plan_run` after the wait |
| `FullRunNext` | the loop of `run_full_plan` |
| `Execute`, `DirectlyExecuted` | `run_demo_execution` for a plan, before and after the engine answers |
| `Restart` | the process stops and starts |
| `Query`, `ReadHistory` | `query` of `chat_routes.py`: the first read, then the second |
| `Answered`, `Failed` | `handle_chat_message` returns or raises, and the transaction of `persist_chat_interaction` or `persist_chat_failure` reads the row |
| `Stored`, `NotStored` | it commits, or `best_effort` swallows its failure |
| `RunSql` | `post_tool_execute` for `run_sql`, up to the read in `update_working_state_execution_summary` |
| `SummaryStored`, `SummaryNotStored` | it commits, or fails |
| `AskCode`, `Issued`, `Sent`, `SendFailed`, `Withdrawn` | `request_email_code`: read, commit, mail sent or not, and `_expire_email_code` |
| `Enter`, `Refused`, `WrongCode`, `Verified`, `Welcome` | `verify_email_code`: read, one of its three commits, the answer with the cookie |
| `Logout`, `LoggedOut`, `Clear` | `logout`, with a cookie or without one: request, transaction, answer |
| `FallBack`, `RolledBack` | `/me` of a browser without a good session; a refused commit |
| `Refuse`, `Execute`, `Executed` | `run_demo_execution`, called by itself or by the last step of `step_plan_run`, which then writes the row of its run (`Recorded`): refused, before and after the engine answers |
| `StepPending`, `StepFails` | the rows of `create_plan_run`, `reset_plan_run` and `step_plan_run` before its last step, and of a step that fails |
| `EditNode`, `MergeNodes` | `update_plan_node`, `merge_plan_nodes`, as far as the text and the row of `plan_edits` |
| `CreateCase`, `RunEvaluation` | `create_repair_case`, `run_evaluation`; their summaries are the operators `RepairSummary`, `EvaluationSummary` |
| `StartBuild`, `Embed`, `SaveVectors`, `SaveIds`, `SaveTitles`, `SaveManifest`, `BuildFails` | `build_craigslist_indexes`, one file at a time |
| `Ask`, `ResolveUnknown`, `ResolveTitle`, `Rank`, `Send`, `Scored`, `NotScored`, `Combine`, `Execute` | `run_sql` of the Craigslist connector: each filter in turn, the batches of the vision model, the rewritten query |
| `ReplaceFile`, `LoseFile`, `ChangeModel` | what the builder and the search read changes |

A request that finds no run in memory rebuilds it first: `Opened` is
`_restore_plan_run_from_database` and part of every action that needs a run.

### Abstractions

* *Grain.* A request runs without interruption between its waits for the SQL
  engine, which take almost all of its time. The write to the database belongs to
  the step that makes it and may be lost (`DbMayFail`); two writes that commit in
  the other order than they were made are not modelled. The test at the top of the
  loop of `run_full_plan` and the lookup of the next step are one step.
* *Graph.* Providers emit a chain intent, operations, result
  (`stub_provider.py:45`, `graph_mapper.py:31-93`); merges keep it one, so a graph
  is a sequence. The sales demo, a DAG, is not modelled.
* *Texts* are values of `Sqls`; an edit that can be patched turns the text
  into the one the client asked for. Rows, previews, labels, layout and log
  entries are left out. Whether an engine answers with rows or an error is open.
* *Templates*: `"gold"` = `benchmark_gold_sql`, `"llm"` = `gemini` and
  `openai_compatible`, `"other"` = the schema fallback and the plain stub plan.
* *Previews.* The step of any operation may wait and fail; the code answers at
  once for those it cannot turn into SQL. This only adds behaviours.
* *Intent node.* The client sends the data of an edited node back, an intent
  node's state with it, so the edit keeps that state.
* One plan and one owner; the ownership tests always succeed.

Of the conversation:

* *Grain.* A step ends where another request can be seen: at a read, a wait, a commit.
  The end of an answer and the start of its transaction are one step, and so are
  an execution and the start of its; other requests may still come between that
  read and the commit. SQLAlchemy updates the columns that differ from those it
  read (`Updated`); a working state always differs, by its time stamp.
* *Messages* are questions, each sent once, with one of five kinds, which are what the
  classifier and the resolver tell apart: words of help, words for a schema, a known
  benchmark question, one the fallback can answer, any other. The LLM may give
  any query or none. A query is a value of `Sqls`.
* *Datasets.* `None` is a message without a dataset: the client sends none until a
  database is chosen (`ChatPanel.tsx:67-76`). Two datasets are the same when their
  keys are (`_dataset_key`).
* An execution belongs to the session whose question proposed the query, one at a
  time per question; a failed one changes no conversation. A read that fails
  ends the request with an error and stores nothing, like `NotStored` after an answer
  without a query. A restart ends the requests in flight, like lost writes.

Of the login:

* A transaction is a read and a commit; a commit writes the columns that changed, from the
  values that were read (`attempt_count` plus one). `upsert_email_user` inserts an id
  derived from the address, so that of two first logins one is refused (`Conflict`).
* A code is its number: two codes that are equal by chance are not modelled, and an entry
  of six digits is right, right for another code, or wrong. A code can be entered once it was
  delivered. Codes of equal age are taken in any order.
* A commit may be refused at any time (`RolledBack`); the mail may fail.
* With automatic login any request without a good session is the developer's and marks
  an overdue session; `request_auth.py` does what `/me` does.

Of evaluation and repair:

* Two rows never have the same `created_at`. The result of a run is rows, an error row, or
  the row that asks for a new plan; a direct execution records the status `success` for
  each (`demo_pipeline.py:411`, `:443`).
* A plan without text is executed with the text the client sends, or a stub
  (`demo_pipeline.py:1182-1195`), so only the demand for a new plan refuses an execution.
* A stepwise run is its row. It can be revised until it has ended; a row that is lost
  leaves it as it was, or absent, so that with `DbMayFail` any row of the plan, or none,
  may stand for a run under way. Which node a run is at is left to `PlanService`.
* The server picks executions only, but a run that is *named* may be of either type
  (`evaluation_routes.py:302`, `:306`); the name of an edit or of nothing finds no run.
* An evaluation is two questions in one step, with any outcome each; what it does to the
  plan store is `Generate` of `PlanService`. Times and averages of times are left out.

Of the semantic search:

* A vector, a score and a checksum are known by the contents they were made from, which are
  numbered as they come, like the models. A file that is replaced, and the setting, get
  contents and a model that were never there before, or, in a world with `revert`, any that were
  (`NewOrBack`). Which images are near a text, and which
  score passes the cutoff, is open.
* A query is its tables by alias, its filters and a condition in disjunctive form with
  negation, on which three-valued logic does not show: `match_key IS NOT NULL` is never
  unknown. One text per filter column, so a cache key is an image and contents. Score
  columns, `ORDER BY`, `LIMIT` and previews are left out.
* Titles are built like images and are one flag; no property is about their vectors.

## 3. Runs

| run | instance | shows |
|---|---|---|
| `serial` | SORT and LIMIT that may be merged, one run, two requests (a step and an execution), 2 edits, 1 reset, 1 restart; a client awaits the answer on a run (`Serial`); fair | `TypeOK`, `RunIsWalk`, `DurableProgress`, `StepByStep`, `EmptySqlStays`, `RunIsCounter`, `FullRunEnds` |
| `two_runs` | two runs of a one-operation plan, 1 edit, 1 restart | `GraphShowsRun` |
| `overlap` | requests on one run overlap; an edit, a reset, an evaluation | `FreshInStore`, `DoneHasResult` |
| `reexecute` | 3 edits; expected to fail | `ReexecuteUsesStoredSql` |
| `chat_serial` | a SQLite benchmark and the media demo without an LLM, four questions and an execution, each awaited; any write may be lost | `TypeOK`, `StateIsLatestQuery`, `RevisionOfAnswer` |
| `chat_overlap` | two benchmarks with an LLM, three questions, with a dataset or none, and an execution overlap | `StateIsOneQuery`, `ContextOfDataset`, `FollowUpKept` |
| `chat_promise` | four questions and an execution, each awaited; expected to fail | `SomePromiseKept` |
| `login` | one address, two tabs of one browser, two codes, two sessions, four ticks, two attempts | `TypeOK`, `SpentCode`, `OneLoginPerCode`, `PendingIsNewest`, `GuessesCounted`, `UndeliveredWithdrawn`, `CookieIsLive` |
| `repair` | two users, a gold plan, five records of which one may be a case, and an evaluation | `TypeOK`, `PickedIsRecovery`, `EditCameFirst`, `UnavailableNotZero`, `RepairIsFound`, `EvaluationAddsUp` |
| `repair_promise` | one user, six records of which two may be cases; expected to fail | `SomePromiseKept` |
| `semantic` | two images, batches of one, two builds, one change or restart and, where it may be put back, another, four queries, four worlds; fair | `TypeOK`, `ReuseIsRight`, `RankedByOwnVector`, `ScoreOfFile`, `RowsAreWanted`, `RetryIsAnswered` |
| `semantic_promise` | the same bounds, one query, one world; expected to fail | `SomePromiseKept` |

Each passing run ends within four minutes: 206 thousand (`chat_serial`) to 3.7 million
(`login`) distinct states.

*Bounds.* `MaxEdits`, `MaxGenerates`, `MaxResets`, `MaxRestarts` bound what a user
may repeat without end. A run has at most four nodes, so all its steps fit between
any two of these events; two edits suffice for an edit of an edited or merged plan;
one restart for a rebuild, and an edit followed by a reuse of the run id rebuilds a
run without a restart. Two threads make the shortest overlap; in a step, three
requests on a run differ from two only in repeating a write. `Objs` has one object
per run and thread, so a free one always exists. Runs and threads are symmetric;
`serial`, which checks liveness, uses no symmetry.

The chat runs have one session, since no step reads or writes the row of another; the
theorems cover any number. Four questions suffice for a query, a switch, an answer
without a query and the switch back; three that overlap, for one that reads between
two commits and one that sees what they left. `MaxCalls` is one: a second execution
overwrites the summary of the first. The system stops when all questions are
asked, so deadlock is not checked there.

Of a login, two tabs make the shortest overlap and two codes the shortest replacement;
four ticks let a code and a session run out, and end the cooldown. The three roles of a
row in a repair case are a failed run, an edit and a second run, so five records leave
room for another row in every place and for one case. What happens between them may also
be a stepwise run or a merge. In `repair` every row arrives; the theorems do not suppose
that. A search needs two images so that one batch may fail after another was scored, and
two builds so that the second reads what the first left, and its end shows what a third
would. A second change would mostly repeat the first, unless it puts back what the first
changed (`Changeable`).

*Worlds.* A world is a set of events that may happen: a builder that ends early
(`crash`), images that disappear or cannot be read (`loss`), changes and builds during a
search (`overlap`), files that change between a build's checksums and its embeddings
(`race`), files and settings that are put back (`revert`), the CLIP baseline allowed
(`baseline`). `semantic` checks `crash` and `race`, alone and with `overlap`; `loss`
with `race` and `baseline`; `revert` with `loss`. What a property excludes, it names:

* `ReuseIsRight` is false when crashes and losses come together (two builds may leave as many
  ids as vectors, but of different images), and with `revert` when a build ends early
  (`ReusePromised`) or embeds another file than the one of its checksum.
* `RankedByOwnVector` is false when an image is lost: the server keeps the ids it loaded while
  `mmap` shows it the new vectors.
* `ScoreOfFile` is false when a file changes or a build ends between the sending of a batch and
  its answer (the key is made from the manifest at the end, `vision.py:138`), and with `revert`
  (`ScoreByChecksum`).

Documents promise `ReusePromised` and `ScoreByChecksum` without these exceptions: see
the findings.

*Serial or not.* The functions of the client await each answer before they apply it
(`ExecutionContext.tsx:169-190`), so a caller has one request per run. It stops
waiting after 30 s (`client.ts:31`), while the server goes on. `RunIsWalk`,
`DurableProgress`, `StepByStep` and `GraphShowsRun` are false when requests of a run
overlap, since a step writes back the position it read before it waited; they are
checked for a client that awaits its answers. `FreshInStore` and `DoneHasResult` hold
for any overlap. In the chat, the client takes no question while one is awaited
(`ChatPanel.tsx:182`), but after 30 s it gives up and does, and the buttons that execute a
query stay usable all the while: `Overlap` allows any order, without it
everything is awaited. `StateIsLatestQuery` and `RevisionOfAnswer` are false under
overlap (two questions read one state, and the last commit wins). They also suppose a
client that names a dataset: a message without one neither drops the state of a
dataset nor keeps it, so the revision it is told is not the one stored.

In the login, `mixed` names the addresses of which two transactions overlapped: of these
only `SpentCode` and the uniqueness of the first login hold, since no row is locked (two
requests may both find no pending code, two wrong entries count one attempt, one code
may open two sessions of a known user). `EditCameFirst` supposes users who await an
execution before they edit: an execution is dated by its answer, so an edit made while
it runs counts as its cause; and it is about cases of two executions, since the row of a
stepwise run is dated by its start (`RecoveryOwesToEdit`). The other properties of
`repair` hold for any overlap.

*Fairness.* `FairSpec` of `PlanService` has weak fairness on each request in flight:
SQLite answers each query it is sent, and the thread pool runs each request it admitted.
Nothing is assumed of users: `Restart`, edits and calls are unfair. `FairSpec` of
`SemanticSearch` has weak fairness on the server's work on a search and on the end of
each request to the vision model, which has a timeout (`vision.py:78`), and strong
fairness on `Scored`: a model that is asked again and again answers well now and then.
That the user repeats the search and that the index and the files are complete in the
end are premises of `RetryIsAnswered`.

*Findings.* `reexecute` has TLC find a disagreement with `useReexecutePlan.ts:14`,
"Re-execute the active plan using the latest stored SQL": (1) an edit that cannot
be patched empties the text and sets `requires_replan`; (2) an edit of the result
node withdraws `requires_replan` (`demo_pipeline.py:1204`) and returns, the text
still empty; (3) a merge sets `needsReplan` to `False` (`:394`), which enables the
button; then `_execution_sql` (`:1193`) finds no text and runs the one the client
sends, that of the plan before the edits.

The other three runs check a property `SomePromiseKept`, the disjunction of two things a
document says. It is weaker than each of them, so its violation is one state, and one
trace, that contradicts both.

`chat_promise`: `SummaryOfActiveQuery` is `ENGINEERING_HANDBOOK.md:348`, "a structured
JSON summary of the active query, including SQL, ... execution summary, and revision",
and `HistoryOfDataset` `ENGINEERING_HANDBOOK.md:83`, "Full conversation history and
structured working state are sent only for the authenticated user's current session and
dataset". `_build_working_state` copies summary and run id from the state before it
whatever the mode (`persistence.py:231`), so after a question, its execution and a new
question the state gives the second query the result of the first. The history is
withheld only while the conversation names another dataset (`persistence.py:187`); the
first question after a switch changes that, and later ones are sent every message, those
about the other dataset included.

`repair_promise`: both parts are of `ENGINEERING_HANDBOOK.md:1816`, "initially failed
cases corrected after intervention". `RecoveryIsCorrected`: the second run of a recovery
returned rows. An execution fails, an edit empties the text and sets `requires_replan`,
and the next execution is refused; the refusal is recorded with status `success` and a
row without an error (`demo_pipeline.py:411`, `:993-1018`), so the case takes it for the
corrected run. `PickedIsRecovery`, which holds, therefore says "did not fail" and not
"returned rows". `RecoveryOwesToEdit`: an edit came after the failure. A run that is
named is looked up by its id alone (`evaluation_routes.py:302`, `:306`), so it may be a
stepwise one, whose row is as old as the run: it is created, an edit is made, a step of
it fails, and in a case that names it as the original the edit comes after it. Of
executions the code does have this (`EditCameFirst`).

`semantic_promise`: `ReusePromised` is `CRAIGSLIST_BENCHMARK.md:63`, "A repeat build
reuses vectors whose source checksum and model identity have not changed", and
`ScoreByChecksum` `ENGINEERING_HANDBOOK.md:761`, "Vision scores are cached by dataset,
image checksum, normalized predicate, provider, and model". An index is built and a file
is replaced. A search scores the new contents under the checksum of the manifest, that
of the old (`vision.py:106`, `:138`). A build embeds the new contents, saves its vectors
(`builder.py:85`) and ends before its manifest (`:134`). The file is put back: the
manifest fits it again, and both the score and the vector that would be reused are of
the other contents. Putting back `CLIP_MODEL` does the same to the vectors.

## 4. Proofs

The theorems on plans hold for every value of the constants that satisfies the assumptions
next to their declarations: the operations are distinct and differ from intent and
result (`NodesAssumption`), texts and templates are as described
(`PlanAssumption`), `None` is no run, request, object, state, outcome, graph, row or
progress of a run (`ExecutedAssumption`, `ServiceAssumption`, `NoneAssumption`,
`ProgressAssumption`). No bound is assumed. The first three theorems suppose neither
clients that wait nor a reliable database; what the others suppose they say.

* `TypeCorrect == Spec => []TypeOK`. `TypeOK` is inductive. The work is in the
  lemmas on plans and runs: a merge keeps a sequence of nodes, a rebuilt run has a
  count in `Nat` because the positions of a chain are finite, and the next node of
  a rebuilt run is one of the order because a first position exists.
* `DoneHasResultCorrect == Spec => []DoneHasResult`. The property is not inductive:
  a request that waits writes into its object later, and a run that is out of the
  store is still written to the database. `ResultInv` therefore speaks of *every*
  object of the heap and every row, and says what a request in flight carries: one
  that waits for a preview is at an operation, so that its answer cannot mark the
  result node, one that waits for an execution carries the text to store with it.
* `FreshInStoreCorrect == Spec => []FreshInStore`. `FreshInv` adds that a request
  whose object is still in the store under its run, and own, carries the text the
  plan executes now: edits and merges empty the store first, and a generation
  takes `own` from all objects.
* `EmptySqlStaysCorrect == ASSUME ~ DbMayFail PROVE Spec => EmptySqlStays`, for overlapping
  requests too. `EmptyKept` says that a restart would bring back no text that memory
  lost, since the edit that loses it writes the row; the action property follows for each
  step because every other write keeps text and template (`SameText`).
* The theorems of `PlanSerialProofs` suppose `OneAtATime`: one request per run at a time
  (`Serial`), no lost write, and a question that is not generated anew (`MaxGenerates = 0`,
  since a generation replaces the order under the rows). `SerialInvariant` is
  their inductive invariant, and its fixed point is the *row*: at every moment it is
  a walk along the plan as it is now (`Rows`), also after a merge shortened the plan. An
  object in the store is what a rebuild of that row would give, or has its last step under
  way (`Stored`). A request holds an object that an edit may have taken out of the store and
  another request may have replaced; nobody else works on its run (`Owners`), so what it
  will write is the next step of the row, or one at a node that a merge removed
  (`Flights`). `Plans` says that memory and database have the same order. Each action
  is shown to be of one of four kinds: a handler that works on one run, an edit or merge, a
  step that concerns no run, a restart (`Kinds`); the invariant and the four properties
  are shown of the kinds. A merge needs the lemma that a row stays a walk when nodes in
  its middle are taken away, and how much of it is still done (`MergedRow`, `StillDone`).
* `RunIsCounterCorrect == ASSUME OneAtATime PROVE Spec => RunIsCounter`. By
  `SerialInvariant` the progress of a run is a function of its row and of the plan's
  order alone, wherever the run is (`ProgressInRow`). Initial states map to initial
  states; a handler maps to `Start`, `Reset`, `Step`, `Fail` or a stutter, an edit or
  merge to `Merge` or `Save`, a step that concerns no run to `Save` or a stutter, a
  restart to `Lose` or a stutter.

The theorems of `ConversationProofs` hold for any sessions, questions, datasets, queries and
kinds, with an LLM or none, if `None` is none of the values
(`ResolverAssumption`, `ConversationAssumption`, `RowAssumption`); the first four for requests
that overlap or not.

* `ConversationTypeCorrect` and `StateIsOneQueryCorrect` follow from `ConversationInv`.
  `StateIsOneQuery` is not inductive: a transaction in flight holds a *copy* of a
  state and writes it, or a state made from it, later. The invariant says that
  every copy, in a row or in what a transaction read, is about one query
  (`OneQuery`), and names only *settled* questions, whose answer no step changes
  again. Since each commit takes the whole state from one such copy, the columns
  that others wrote cannot mix into it.
* `ContextOfDatasetCorrect`: `ContextInv` adds the same of the state a question read,
  and that `VisibleState` lets through only one made for the dataset the question
  names, or for none.
* `FollowUpKeptCorrect`: `SeenKept` adds that the row of a question that saw a history
  exists and is the one its transaction reads, so that it need not insert it.
* `StateIsLatestQueryCorrect` and `RevisionOfAnswerCorrect` suppose `~ Overlap`.
  `AwaitedInv` adds that one request at most is under way (`Alone`), that what it read
  is still so (`Current`), and that row and messages of a session tell the same
  (`Agree`). Both change only when a question is stored, and then only the last message
  decides which query is the latest, whether or not it changed the dataset.

The theorems on logins hold for any addresses, tabs, browsers, lifetimes and limits, if
those limits are natural numbers and the maximal number of attempts is not zero
(`LoginAssumption`).

* `LoginTypeCorrect`: rows are revised or added, never removed, so a number that a
  request holds stays that of a row. A logout without a cookie holds the number 0, and its
  transaction finds nothing to do.
* `CookieIsLiveCorrect`: `CookieInv` adds that no session is in the hands of two
  browsers (`OneBrowser`), so that a logout ends no session but that of the cookie it
  deletes, and that a session whose answer is under way is active and nobody else's
  (`Welcomed`).
* The five theorems on codes follow from `CodesInv`. None of the properties is
  inductive, since a transaction acts on what it read. The invariant says that while
  no two transactions of an address overlap, what the one in flight read is still so
  (the codes it saw are the pending ones, the code it judges is the latest and has
  the attempts it read); once two overlap the address is `mixed`, and what is proved
  of such an address is what the code still guarantees: a spent code stays spent.

The theorems on semantic search hold for any data, images, queries, batches and shortlists
(`SqlAssumption`, `SearchAssumption`: `None` is no image or listing, `Order` is a sequence of
images, the queries pass the checks of the rewriter). No bound on builds or changes is used.

* `SearchTypeCorrect`: `TypedInv` adds to `TypeOK` which fields the records have, that a
  shortlist is finite and of a loaded index, and that what was sent to the vision model was
  there. `Found` is a recursive function over `imgs.csv`; what it lists is shown by a least
  position at which it would not (`ListedType`, `AllListed`).

* `RowsAreWantedCorrect`: in a row of the joined tables the key of a filter is `None` exactly
  when the filter does not match (`KeyTellsMatch`), so that every literal, under any
  negation, has the same value in both queries (`RewriteCorrect`, a lemma on the
  operators alone); `SearchInv` adds that only queries whose aliases are bound are
  executed.
* `ScoreOfFileCorrect`, for worlds without `overlap` and `revert`: `ScoreInv` says that a cache
  key names contents some file has had already (`KeysKnown`), and a file that changes gets
  others; so a score that was made under the key of a stale manifest is under a key no file has
  again. Without overlap what was sent to the vision model is the file as it is (`SentNow`).
  With `revert` the conclusion is false, which `semantic_promise` shows.
* `RankedByOwnVectorCorrect`: while no image is lost, every list of ids a build writes is the
  whole of `imgs.csv`, in its order (`OwnInv`, by `AllListed`). So vectors of one build and
  ids of another agree, and so do ids the server loaded long ago.
* `ReuseIsRightCorrect`, the deepest of these: a build may be stopped between two files,
  and then new vectors stand beside an old manifest. While nothing is put back,
  `ReuseInv` orders contents and models by when they came: a vector that was found is of
  the contents of its checksum or of later ones (`FoundRight`), and a manifest on disk
  is no newer than a build under way (`BuildUpto`). What the manifest says of a file
  that still *is* so therefore holds of the newer vector as well (`IndexRight`,
  `FoundIsRight`). With losses and without crashes the vectors, ids and manifest are of
  one build whenever none is under way (`Written`). That is also what is left when files
  and settings are put back: without crashes and races (`Whole`) a build embeds the
  files of its checksums (`SumsStill`, `FoundWhole`), so what the manifest says of a
  file is true of its vector, whatever the file is now (`WholeInv`).

The theorems on repair cases hold for any users, plans and clients (`RepairAssumption`, and
`SummaryAssumption`: `None` is no kind of error and no ratio).

* `PickedIsRecoveryCorrect`: rows are added, and only those of stepwise runs are
  revised, each by one of its own (`Grows`, which `StepsAwaited` ensures: a request
  holds no other row). A case whose runs the server picked is about executions, so what
  it found when it was created (`Found`) is there for good; it is said of any sequence
  of rows and kept by what it grows into (`FoundStays`).
* `EditCameFirstCorrect`, under `Serial`, for cases of two executions: `InOrder`
  compares the order of the rows with the number of edits each of them knew. A run is
  followed only by edits it did not see, an edit only by runs that saw it, because an
  execution in flight knows all edits of its plan (`NoEditAwaited`).
* `RepairIsFoundCorrect` needs only the types: a nonempty set of rows has a first one,
  which the library's theorem on well-founded relations gives.

* `UnavailableNotZeroCorrect` and `EvaluationAddsUpCorrect` speak of sums over sets. A sum is a
  function on the subsets met by taking one chosen element after the other (`Chosen`), and
  what is said of it holds because a smallest subset of which it does not would be neither
  empty nor not (`ChosenInduction`); `Judged` says that each question of an evaluation is
  correct or has one kind of error.

Model-checked only: liveness (`FullRunEnds`, `RetryIsAnswered`), which is out of the
prover's reach, and what the code does not have: the properties of the runs expected to
fail. All other invariants and action properties of the runs, and the refinement, are
stated by a theorem.

## 5. Not modelled

`GET /execute/{run}/result` of a run that memory lost colours the result node again
(`demo_pipeline.py:677`); executions without a plan id, which take the youngest plan;
merges whose selection names one node twice; the sales demo; ownership between users;
`plan_edits` and operation logs. Of the chat: the screen and what it restores from the
history; the text of messages, prompts and summaries; the active plan of a conversation,
and the dataset that `persist_query_plan` writes into a conversation named in a plan. Of
the login: mails, hashes, the admin routes. Of evaluation: the offline scoring of
Craigslist predictions (`evaluation/craigslist.py`), whose `ensure_test_only` no code
calls. Of semantic SQL: the multimodal demo, the vectors of titles, score columns and
previews; `use_vision`, with which only the offline evaluation skips the vision model.
Scripts that convert benchmarks (`scripts/`), templates of the demo (`simple_nl2sql.py`)
and the LLM services compute texts and keep no state. All components with status
`not_modelled` in `PROJECT.json`.

## 6. Plan

Order of the modules still to write, the most important first:

1. `PlanService`: the fetch of an old result (`RUN_STORE`).
2. `PlanGraph`: order, downstream nodes and rewiring on DAGs against reference
   definitions, over all small graphs; the sales demo.
3. `ChatScreen` and `ExecutionView`: the messages, execution and plan contexts of the
   client with late answers and a restore of the history, over `Conversation`.
4. `ToolCall`: catalogue, approval, records.
5. Proofs about these modules. The theorems of `PlanSerialProofs` might be extended to
   `MaxGenerates > 0` for runs created after the last generation (`own`).
