---------------------------- MODULE ChatResolver ----------------------------
(* How a chat message becomes a query: the classifier and the order in     *)
(* which the LLM, the gold queries and the schema fallback are asked       *)
(* (conversation/handlers.py, sql_resolver.py, tool_assistant.py).         *)
EXTENDS Naturals

CONSTANTS
    None,           \* no query, no dataset, no working state
    Datasets,       \* databases a user can select
    DbTypes,        \* DbTypes[d] is the dbType of dataset d
    Sqls,           \* queries
    Llm             \* whether an LLM provider is configured

Kinds == {"help", "schema", "known", "simple", "free"}

ASSUME ResolverAssumption ==
    /\ None \notin Datasets \cup Sqls
    /\ DbTypes \in [Datasets -> {"sqlite_benchmark", "craigslist", "multimodal_demo", "postgres"}]
    /\ Llm \in BOOLEAN

-----------------------------------------------------------------------------
(* A message that names no dataset is one for postgres. *)
TypeOf(d) == IF d = None THEN "postgres" ELSE DbTypes[d]

Intent(kind, d) ==
    CASE kind = "help" -> "help"
      [] kind \notin {"help", "schema"} /\ TypeOf(d) = "sqlite_benchmark" /\ ~Llm -> "unsupported"
      [] OTHER -> "benchmark_query"

(* An answer has a query and says whether it refines the one before. The   *)
(* other two modes of the LLM are those of answers without a query, and    *)
(* with one they have the effect of "new_query".                           *)
Answers == [sql : Sqls \cup {None}, mode : {"new_query", "refine_query"}]
NoSql == [sql |-> None, mode |-> "new_query"]
NewQueries == [sql : Sqls, mode : {"new_query"}]

(* The LLM may answer anything, with the working state or, when that gave  *)
(* nothing, with the message alone.                                        *)
LlmAnswers == IF Llm THEN [sql : Sqls, mode : {"new_query", "refine_query"}] \cup {NoSql} ELSE {}

(* What is left when the LLM gave nothing: a follow-up is asked to be      *)
(* restated; a known question has its gold query and a simple one that of  *)
(* the fallback, which a message with a word for a schema may be as well.  *)
WithoutLlm(kind, d, context) ==
    IF context # None \/ TypeOf(d) # "sqlite_benchmark"
    THEN {NoSql}
    ELSE {answer \in NewQueries \cup {NoSql} :
             \/ answer # NoSql /\ kind \in {"known", "simple", "schema"}
             \/ answer = NoSql /\ kind \in {"schema", "free"}}

(* The media planner always prepares a query, and refines the one before   *)
(* when there is one and the message reads like a follow-up.               *)
MediaAnswers(context) ==
    IF context = None THEN NewQueries ELSE [sql : Sqls, mode : {"new_query", "refine_query"}]

ChatAnswers(kind, d, context) ==
    CASE Intent(kind, d) = "help" -> {NoSql}
      [] Intent(kind, d) = "unsupported" /\ context = None -> {NoSql}
      [] Intent(kind, d) # "help" /\ TypeOf(d) = "multimodal_demo" -> MediaAnswers(context)
      [] OTHER -> LlmAnswers \cup WithoutLlm(kind, d, context)

=============================================================================
