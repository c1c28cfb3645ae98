---------------------------- MODULE Conversation ----------------------------
(* Conversations of a user: the messages, and the working state that lets  *)
(* the next question refine the last query. A question reads both, waits   *)
(* for its answer and then stores it; an execution adds its summary to the *)
(* working state (chat_routes.py, capabilities_routes.py, persistence.py). *)
(* Every write is a transaction that reads the row, changes it in memory   *)
(* and commits the columns it changed, so two of them can overlap.         *)
EXTENDS ChatResolver, Sequences, FiniteSets

CONSTANTS
    Sessions,       \* session ids
    Questions,      \* messages, each sent once
    Asked,          \* kinds of message sent
    Scopes,         \* datasets, or None, a message is sent with
    Overlap,        \* whether requests overlap, or each awaits the last
    DbMayFail,      \* whether a write may be lost
    MaxCalls        \* bound: executions of proposed queries

ASSUME ConversationAssumption ==
    /\ None \notin Questions
    /\ Asked \subseteq Kinds
    /\ Scopes \subseteq Datasets \cup {None}
    /\ Overlap \in BOOLEAN
    /\ DbMayFail \in BOOLEAN
    /\ MaxCalls \in Nat

VARIABLES
    rows,           \* conversations: the dataset and the working state
    messages,       \* the questions whose messages are stored, by session
    asks,           \* what the request of a question knows
    calls,          \* executions in flight, by the question that proposed them
    called          \* executions so far

vars == <<rows, messages, asks, calls, called>>

-----------------------------------------------------------------------------
(* Types *)

WorkingState == [
    question : Questions,               \* latest_user_request
    original : Questions,               \* original_question
    sql : Sqls,                         \* current_sql
    dataset : Datasets \cup {None},     \* dataset_context
    ran : Questions \cup {None},        \* latest_execution_run_id, with its summary
    revision : Nat]

Row == [dataset : Datasets \cup {None}, state : WorkingState \cup {None}]

ASSUME RowAssumption == None \notin Row /\ None \notin WorkingState

Stages == {"new", "history", "llm", "write", "done"}

Ask == [
    stage : Stages,
    session : Sessions \cup {None},
    kind : Kinds,
    dataset : Datasets \cup {None},
    context : WorkingState \cup {None}, \* the working state it read
    seen : Nat,                         \* messages of the history it read
    sql : Sqls \cup {None},
    mode : {"new_query", "refine_query"},
    revision : Nat,                     \* workingStateRevision of the answer
    read : Row \cup {None}]             \* the row its transaction read

TypeOK ==
    /\ rows \in [Sessions -> Row \cup {None}]
    /\ messages \in [Sessions -> Seq(Questions)]
    /\ asks \in [Questions -> Ask]
    /\ calls \in [Questions -> [read : Row \cup {None}] \cup {None}]
    /\ called \in Nat

-----------------------------------------------------------------------------
(* Functions of persistence.py *)

(* Seeded fault: the dataset of the conversation stands for that of the state. *)
StateDataset_OfRow(row) == row.dataset

(* get_conversation_working_state: nothing when the state, or else the     *)
(* conversation, is about another dataset.                                 *)
StateDataset(row) == IF row.state.dataset # None THEN row.state.dataset ELSE row.dataset

VisibleState(row, d) ==
    IF \/ row = None
       \/ row # None /\ row.state = None
       \/ row # None /\ row.state # None /\ d # None /\ StateDataset(row) # d
    THEN None
    ELSE row.state

(* get_conversation_message_history: all messages or none. *)
VisibleMessages(row, d, m) ==
    IF row = None \/ (row # None /\ d # None /\ row.dataset # d) THEN 0 ELSE Len(m)

(* Seeded fault: another dataset leaves the working state. *)
OpenedRow_KeepsState(row, d) ==
    IF row = None THEN [dataset |-> d, state |-> None]
    ELSE [dataset |-> IF d # None THEN d ELSE row.dataset, state |-> row.state]

(* get_or_create_conversation: another dataset drops the working state. *)
OpenedRow(row, d) ==
    IF row = None THEN [dataset |-> d, state |-> None]
    ELSE [dataset |-> IF d # None THEN d ELSE row.dataset,
          state |-> IF d # None /\ row.dataset # d THEN None ELSE row.state]

(* Seeded fault: a previous state of another dataset is kept. *)
Kept_AnyDataset(previous, d) == previous

(* _build_working_state for the answered question q. *)
Kept(previous, d) ==
    IF previous # None /\ previous.dataset = d THEN previous ELSE None

(* Seeded fault: only a refinement counts as a revision. *)
NewState_RevisesRefinements(q, answer, d, kept) == [
    question |-> q,
    original |-> IF answer.mode = "refine_query" /\ kept # None THEN kept.original ELSE q,
    sql |-> answer.sql,
    dataset |-> d,
    ran |-> IF kept # None THEN kept.ran ELSE None,
    revision |-> IF answer.mode = "refine_query" /\ kept # None THEN kept.revision + 1 ELSE 1]

NewState(q, answer, d, kept) == [
    question |-> q,
    original |-> IF answer.mode = "refine_query" /\ kept # None THEN kept.original ELSE q,
    sql |-> answer.sql,
    dataset |-> d,
    ran |-> IF kept # None THEN kept.ran ELSE None,
    revision |-> IF kept # None THEN kept.revision + 1 ELSE 1]

BuiltState(q, answer, d, previous) ==
    IF answer.sql = None THEN previous ELSE NewState(q, answer, d, Kept(previous, d))

(* What a transaction that read a row makes of it ... *)
AnsweredRow(q, ask) ==
    LET opened == OpenedRow(ask.read, ask.dataset)
        answer == [sql |-> ask.sql, mode |-> ask.mode]
    IN  [opened EXCEPT !.state = BuiltState(q, answer, ask.dataset, @)]

(* ... and what its commit makes of the row as it is then: an UPDATE of    *)
(* the columns that differ from those it read.                             *)
Updated(row, read, new) ==
    [dataset |-> IF new.dataset # read.dataset THEN new.dataset ELSE row.dataset,
     state |-> IF new.state # read.state THEN new.state ELSE row.state]

-----------------------------------------------------------------------------
(* Requests *)

NewAsk == [stage |-> "new", session |-> None, kind |-> "free", dataset |-> None,
           context |-> None, seen |-> 0, sql |-> None, mode |-> "new_query",
           revision |-> 0, read |-> None]

Init ==
    /\ rows = [s \in Sessions |-> None]
    /\ messages = [s \in Sessions |-> << >>]
    /\ asks = [q \in Questions |-> NewAsk]
    /\ calls = [q \in Questions |-> None]
    /\ called = 0

Quiet ==
    /\ \A q \in Questions : asks[q].stage \in {"new", "done"} /\ calls[q] = None

(* POST /query: the request first reads the working state, *)
Query(q) ==
    /\ asks[q].stage = "new"
    /\ Overlap \/ Quiet
    /\ \E s \in Sessions, d \in Scopes, k \in Asked :
          asks' = [asks EXCEPT ![q] = [NewAsk EXCEPT
              !.stage = "history", !.session = s, !.kind = k, !.dataset = d,
              !.context = VisibleState(rows[s], d)]]
    /\ UNCHANGED <<rows, messages, calls, called>>

(* then, in a transaction of its own, the history, and asks the LLM. *)
ReadHistory(q) ==
    /\ asks[q].stage = "history"
    /\ LET s == asks[q].session
       IN  asks' = [asks EXCEPT ![q].stage = "llm",
              ![q].seen = VisibleMessages(rows[s], asks[q].dataset, messages[s])]
    /\ UNCHANGED <<rows, messages, calls, called>>

(* The transaction that stores the answer starts by reading the row. *)
Storing(ask, answer) == [ask EXCEPT
    !.stage = "write",
    !.sql = answer.sql,
    !.mode = answer.mode,
    !.revision = IF answer.sql = None THEN 0
                 ELSE IF ask.context = None THEN 1 ELSE ask.context.revision + 1,
    !.read = rows[ask.session]]

(* handle_chat_message answers, and persist_chat_interaction starts; *)
Answered(q) ==
    /\ asks[q].stage = "llm"
    /\ \E answer \in ChatAnswers(asks[q].kind, asks[q].dataset, asks[q].context) :
          asks' = [asks EXCEPT ![q] = Storing(asks[q], answer)]
    /\ UNCHANGED <<rows, messages, calls, called>>

(* or it raises, and persist_chat_failure starts. *)
Failed(q) ==
    /\ asks[q].stage = "llm"
    /\ Intent(asks[q].kind, asks[q].dataset) # "help"
    /\ asks' = [asks EXCEPT ![q] = Storing(asks[q], NoSql)]
    /\ UNCHANGED <<rows, messages, calls, called>>

Closed(q) == asks' = [asks EXCEPT ![q].stage = "done", ![q].context = None, ![q].read = None]

(* Seeded fault: a version check, which skips the write when the row changed. *)
Stored_Unchanged(q) ==
    LET ask == asks[q]
        s == ask.session
        same == rows[s] = ask.read
    IN  /\ ask.stage = "write"
        /\ rows' = [rows EXCEPT ![s] = IF same THEN AnsweredRow(q, ask) ELSE @]
        /\ messages' = [messages EXCEPT ![s] = IF same THEN Append(@, q) ELSE @]
        /\ Closed(q)
        /\ UNCHANGED <<calls, called>>

(* The commit. A row that another request created meanwhile makes the      *)
(* INSERT fail, and with it the whole transaction.                         *)
Stored(q) ==
    LET ask == asks[q]
        s == ask.session
        new == AnsweredRow(q, ask)
    IN  /\ ask.stage = "write"
        /\ ask.read # None \/ rows[s] = None
        /\ rows' = [rows EXCEPT ![s] =
               IF ask.read = None THEN new ELSE Updated(rows[s], ask.read, new)]
        /\ messages' = [messages EXCEPT ![s] = Append(@, q)]
        /\ Closed(q)
        /\ UNCHANGED <<calls, called>>

(* best_effort: the request goes on without having stored anything. *)
NotStored(q) ==
    /\ asks[q].stage = "write"
    /\ DbMayFail \/ (asks[q].read = None /\ rows[asks[q].session] # None)
    /\ Closed(q)
    /\ UNCHANGED <<rows, messages, calls, called>>

(* POST /tools/execute: the user approves the query that q proposed, it is *)
(* executed, and update_working_state_execution_summary reads the row.     *)
RunSql(q) ==
    /\ asks[q].stage = "done"
    /\ asks[q].sql # None
    /\ calls[q] = None
    /\ called < MaxCalls
    /\ Overlap \/ Quiet
    /\ calls' = [calls EXCEPT ![q] = [read |-> rows[asks[q].session]]]
    /\ called' = called + 1
    /\ UNCHANGED <<rows, messages, asks>>

(* Seeded fault: the query is recorded in place of the run. *)
SummarizedRow_Query(row, q) ==
    IF row.state = None THEN row ELSE [row EXCEPT !.state.ran = asks[q].sql]

SummarizedRow(row, q) ==
    IF row.state = None THEN row ELSE [row EXCEPT !.state.ran = q]

(* The update of the working state always differs from what was read, by   *)
(* its time stamp.                                                         *)
SummaryStored(q) ==
    LET s == asks[q].session
        read == calls[q].read
    IN  /\ calls[q] # None
        /\ rows' = IF read = None \/ (read # None /\ read.state = None) THEN rows
                   ELSE [rows EXCEPT ![s].state = SummarizedRow(read, q).state]
        /\ calls' = [calls EXCEPT ![q] = None]
        /\ UNCHANGED <<messages, asks, called>>

SummaryNotStored(q) ==
    /\ calls[q] # None
    /\ DbMayFail
    /\ calls' = [calls EXCEPT ![q] = None]
    /\ UNCHANGED <<rows, messages, asks, called>>

Next == \E q \in Questions :
    \/ Query(q)
    \/ ReadHistory(q)
    \/ Answered(q)
    \/ Failed(q)
    \/ Stored(q)
    \/ NotStored(q)
    \/ RunSql(q)
    \/ SummaryStored(q)
    \/ SummaryNotStored(q)

Spec == Init /\ [][Next]_vars

-----------------------------------------------------------------------------
(* Properties *)

(* A working state is about one query: the question, the query and the     *)
(* dataset it names were asked and answered together, the question that    *)
(* began the refinement was asked of the same dataset, and everything in   *)
(* it comes from this conversation.                                        *)
OneQuery(s, state) ==
    /\ asks[state.question].session = s
    /\ asks[state.question].dataset = state.dataset
    /\ asks[state.question].sql = state.sql
    /\ asks[state.original].session = s
    /\ asks[state.original].dataset = state.dataset
    /\ state.ran # None => asks[state.ran].session = s /\ asks[state.ran].sql # None

(* However requests overlap and overwrite each other's columns, the stored *)
(* working state is about one query (_build_working_state drops a previous *)
(* one of another dataset, persistence.py:209).                            *)
StateIsOneQuery ==
    \A s \in Sessions : rows[s] # None /\ rows[s].state # None => OneQuery(s, rows[s].state)

(* A question is answered only from a query of its own conversation and    *)
(* never from that of another dataset: "Changing dataset clears context"   *)
(* (ENGINEERING_HANDBOOK.md:1975), also when a request that overlapped     *)
(* overwrote the dataset of the row, or wrote back an older state.         *)
ContextOfDataset ==
    \A q \in Questions : asks[q].context # None =>
        LET p == asks[q].context.question
        IN  /\ asks[p].session = asks[q].session
            /\ asks[q].dataset # None => asks[p].dataset \in {asks[q].dataset, None}

(* A follow-up is never lost: only a question that saw no history, racing  *)
(* another for the first row of the conversation, may fail to be stored    *)
(* while the database works (persistence.py:140).                          *)
FollowUpKept == ~DbMayFail =>
    \A q \in Questions : asks[q].stage = "done" /\ asks[q].seen > 0
        => \E i \in 1..Len(messages[asks[q].session]) : messages[asks[q].session][i] = q

(* Index i of the stored questions m holds the last query answered since   *)
(* the dataset last changed.                                               *)
IsLatestQuery(m, i) ==
    /\ asks[m[i]].sql # None
    /\ \A j \in (i + 1)..Len(m) : asks[m[j]].sql = None
    /\ \A j \in (i + 1)..Len(m) : asks[m[j]].dataset = asks[m[i]].dataset

NamesDatasets(m) == \A i \in 1..Len(m) : asks[m[i]].dataset # None

(* The working state is the one the messages tell: that of the last query  *)
(* answered, none when the dataset changed since; a question without a     *)
(* query, an error, an execution or a lost write changes nothing of that.  *)
(* For a client that awaits its answers and names a dataset.               *)
StateIsLatestQuery ==
    \A s \in Sessions : NamesDatasets(messages[s]) /\ rows[s] # None =>
        LET m == messages[s]
            latest == {i \in 1..Len(m) : IsLatestQuery(m, i)}
        IN  IF latest = {} THEN rows[s].state = None
            ELSE rows[s].state # None /\ \E i \in latest : rows[s].state.question = m[i]

(* The revision a client was told with an answer (chat_routes.py:49,       *)
(* computed before the write) is the one stored with its query (_build_    *)
(* working_state). For a client that awaits its answers and names a        *)
(* dataset.                                                                *)
RevisionOfAnswer ==
    \A s \in Sessions :
        NamesDatasets(messages[s]) /\ rows[s] # None /\ rows[s].state # None
            => asks[rows[s].state.question].revision = rows[s].state.revision

(* "Working state: a structured JSON summary of the active query,          *)
(* including SQL, ... execution summary" (ENGINEERING_HANDBOOK.md:348): a  *)
(* state that a new query began has the summary of no other query. The     *)
(* code does not have this: a new query inherits the summary of the last.  *)
SummaryOfActiveQuery ==
    \A s \in Sessions : rows[s] # None /\ rows[s].state # None =>
        LET state == rows[s].state
        IN  state.original = state.question /\ state.ran # None
                => asks[state.ran].sql = state.sql

(* "Full conversation history and structured working state are sent only   *)
(* for the authenticated user's current session and dataset"               *)
(* (ENGINEERING_HANDBOOK.md:83). The code does not have this: the second   *)
(* question after a change of dataset gets the messages of before it.      *)
HistoryOfDataset ==
    \A q \in Questions : asks[q].stage = "llm" /\ asks[q].dataset # None =>
        \A i \in 1..asks[q].seen :
            asks[messages[asks[q].session][i]].dataset \in {asks[q].dataset, None}

(* One of the two at least is kept at any moment, which is weaker than each *)
(* of them. The code does not have this either: a conversation can be in a  *)
(* state that contradicts both.                                            *)
SomePromiseKept == SummaryOfActiveQuery \/ HistoryOfDataset

=============================================================================
