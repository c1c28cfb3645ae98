------------------------- MODULE ConversationProofs -------------------------
(* What holds of the conversations for any number of sessions, questions,  *)
(* datasets and executions, and however their transactions overlap.        *)
(*                                                                         *)
(* The argument.  A transaction writes what it made of the row it read,    *)
(* over a row that may have changed since.  So the invariant speaks of     *)
(* every copy of a row, stored or in the hands of a request: each working  *)
(* state in it is made of settled questions, whose session, dataset and    *)
(* query no later step changes.                                            *)
(*                                                                         *)
(* For a client that awaits its answers the copy is the row, and the row   *)
(* agrees with the messages (Agree): both only change when a question is   *)
(* stored, and only the last message can change what they tell.            *)
EXTENDS Conversation, TLAPS

USE ResolverAssumption, ConversationAssumption, RowAssumption

(* A working state made of questions that are settled in f, the requests   *)
(* at some moment.                                                         *)
Settled(f, s, state) ==
    /\ f[state.question].stage = "done"
    /\ f[state.question].session = s
    /\ f[state.question].dataset = state.dataset
    /\ f[state.question].sql = state.sql
    /\ f[state.original].stage = "done"
    /\ f[state.original].session = s
    /\ f[state.original].dataset = state.dataset
    /\ state.ran # None => /\ f[state.ran].stage = "done"
                           /\ f[state.ran].session = s
                           /\ f[state.ran].sql # None

SettledRow(f, s, row) == row # None /\ row.state # None => Settled(f, s, row.state)

(* A copy of the row of session s, once read, stays the copy of a row.     *)
SoundCopy(f, s, read) ==
    /\ read # None => rows[s] # None
    /\ SettledRow(f, s, read)

SoundAsk(q) ==
    /\ asks[q].stage # "new" => asks[q].session \in Sessions
    /\ asks[q].read # None => asks[q].stage = "write"
    /\ SoundCopy(asks, asks[q].session, asks[q].read)

SoundCall(q) == calls[q] # None =>
    /\ asks[q].stage = "done"
    /\ asks[q].sql # None
    /\ SoundCopy(asks, asks[q].session, calls[q].read)

(* The inductive invariant behind StateIsOneQuery. *)
ConversationInv ==
    /\ TypeOK
    /\ \A s \in Sessions : SettledRow(asks, s, rows[s])
    /\ \A q \in Questions : SoundAsk(q) /\ SoundCall(q)

-----------------------------------------------------------------------------
(* The functions of persistence.py return what their callers expect. *)

LEMMA AnswersType ==
    ASSUME NEW kind, NEW d, NEW context
    PROVE  ChatAnswers(kind, d, context) \subseteq Answers
<1>1. NoSql \in Answers /\ NewQueries \subseteq Answers
  BY DEF NoSql, NewQueries, Answers
<1>2. LlmAnswers \subseteq Answers
  BY <1>1 DEF LlmAnswers, Answers
<1>3. WithoutLlm(kind, d, context) \subseteq Answers
  BY <1>1 DEF WithoutLlm
<1>4. MediaAnswers(context) \subseteq Answers
  BY <1>1 DEF MediaAnswers, Answers
<1>5. QED
  BY <1>1, <1>2, <1>3, <1>4 DEF ChatAnswers

LEMMA VisibleType ==
    ASSUME NEW row \in Row \cup {None}, NEW d, NEW m \in Seq(Questions)
    PROVE  /\ VisibleState(row, d) \in WorkingState \cup {None}
           /\ VisibleMessages(row, d, m) \in Nat
  BY DEF VisibleState, VisibleMessages, Row

LEMMA OpenedType ==
    ASSUME NEW row \in Row \cup {None}, NEW d \in Datasets \cup {None}
    PROVE  /\ OpenedRow(row, d) \in Row
           /\ OpenedRow(row, d).state # None
                => row # None /\ OpenedRow(row, d).state = row.state
<1>1. CASE row = None
  BY <1>1 DEF OpenedRow, Row
<1>2. CASE row # None
  BY <1>2 DEF OpenedRow, Row
<1>3. QED
  BY <1>1, <1>2

LEMMA NewStateType ==
    ASSUME NEW q \in Questions, NEW answer \in Answers, answer.sql # None,
           NEW d \in Datasets \cup {None}, NEW kept \in WorkingState \cup {None}
    PROVE  NewState(q, answer, d, kept) \in WorkingState
<1> DEFINE new == NewState(q, answer, d, kept)
<1>1. answer.sql \in Sqls
  BY DEF Answers
<1>2. CASE kept = None
  BY <1>1, <1>2 DEF NewState, WorkingState
<1>3. CASE kept # None
  <2>1. kept \in WorkingState
    BY <1>3
  <2>2. kept.original \in Questions /\ kept.ran \in Questions \cup {None} /\ kept.revision + 1 \in Nat
    BY <2>1 DEF WorkingState
  <2>3. QED
    BY <1>1, <1>3, <2>2 DEF NewState, WorkingState
<1>4. QED
  BY <1>2, <1>3

LEMMA BuiltType ==
    ASSUME NEW q \in Questions, NEW answer \in Answers,
           NEW d \in Datasets \cup {None}, NEW previous \in WorkingState \cup {None}
    PROVE  BuiltState(q, answer, d, previous) \in WorkingState \cup {None}
<1>1. Kept(previous, d) \in WorkingState \cup {None}
  BY DEF Kept
<1>2. QED
  BY <1>1, NewStateType DEF BuiltState

LEMMA AnsweredType ==
    ASSUME NEW q \in Questions, NEW ask \in Ask
    PROVE  AnsweredRow(q, ask) \in Row
<1> DEFINE opened == OpenedRow(ask.read, ask.dataset)
           answer == [sql |-> ask.sql, mode |-> ask.mode]
<1>1. opened \in Row
  BY OpenedType DEF Ask
<1>2. answer \in Answers
  BY DEF Answers, Ask
<1>3. BuiltState(q, answer, ask.dataset, opened.state) \in WorkingState \cup {None}
  <2>1. opened.state \in WorkingState \cup {None} /\ ask.dataset \in Datasets \cup {None}
    BY <1>1 DEF Row, Ask
  <2> HIDE DEF opened, answer
  <2>2. QED
    BY <1>2, <2>1, BuiltType
<1>4. AnsweredRow(q, ask) = [opened EXCEPT !.state = BuiltState(q, answer, ask.dataset, opened.state)]
  BY DEF AnsweredRow
<1> HIDE DEF opened, answer
<1>5. QED
  BY <1>1, <1>3, <1>4 DEF Row

LEMMA UpdatedType ==
    ASSUME NEW row \in Row, NEW read, NEW new \in Row
    PROVE  /\ Updated(row, read, new) \in Row
           /\ Updated(row, read, new).state \in {row.state, new.state}
  BY DEF Updated, Row

-----------------------------------------------------------------------------
(* What is settled stays so: no step changes a request that is done. *)

LEMMA StateKept ==
    ASSUME NEW f \in [Questions -> Ask], NEW g \in [Questions -> Ask],
           \A p \in Questions : f[p].stage = "done" => g[p] = f[p],
           NEW s, NEW state \in WorkingState, Settled(f, s, state)
    PROVE  Settled(g, s, state)
<1>1. /\ state.question \in Questions
      /\ state.original \in Questions
      /\ state.ran \in Questions \cup {None}
  BY DEF WorkingState
<1>2. QED
  BY <1>1 DEF Settled

LEMMA SettledKept ==
    ASSUME NEW f \in [Questions -> Ask], NEW g \in [Questions -> Ask],
           \A p \in Questions : f[p].stage = "done" => g[p] = f[p],
           NEW s, NEW row \in Row \cup {None}, SettledRow(f, s, row)
    PROVE  SettledRow(g, s, row)
<1> SUFFICES ASSUME row # None, row.state # None
             PROVE  Settled(g, s, row.state)
  BY DEF SettledRow
<1>1. row.state \in WorkingState
  BY DEF Row
<1>2. Settled(f, s, row.state)
  BY DEF SettledRow
<1>3. QED
  BY <1>1, <1>2, StateKept

LEMMA DoneStays ==
    ASSUME TypeOK, [Next]_vars, NEW p \in Questions, asks[p].stage = "done"
    PROVE  asks'[p] = asks[p]
<1>1. asks \in [Questions -> Ask]
  BY DEF TypeOK
<1>2. CASE UNCHANGED asks
  BY <1>2
<1>3. CASE \E q \in Questions : Query(q) \/ ReadHistory(q)
  BY <1>1, <1>3 DEF Query, ReadHistory
<1>4. CASE \E q \in Questions : Answered(q) \/ Failed(q)
  BY <1>1, <1>4 DEF Answered, Failed
<1>5. CASE \E q \in Questions : Stored(q) \/ NotStored(q)
  BY <1>1, <1>5 DEF Stored, NotStored, Closed
<1>6. QED
  BY <1>2, <1>3, <1>4, <1>5 DEF Next, vars, RunSql, SummaryStored, SummaryNotStored

LEMMA RowSession ==
    ASSUME TypeOK, NEW q \in Questions, SoundAsk(q), asks[q].stage # "new"
    PROVE  /\ asks[q].session \in Sessions
           /\ rows[asks[q].session] \in Row \cup {None}
           /\ messages[asks[q].session] \in Seq(Questions)
           /\ asks[q] \in Ask
  BY DEF TypeOK, SoundAsk

LEMMA InitSound == Init => ConversationInv
<1> SUFFICES ASSUME Init PROVE ConversationInv
  OBVIOUS
<1>1. NewAsk \in Ask
  BY DEF NewAsk, Ask, Stages, Kinds
<1>2. TypeOK
  BY <1>1 DEF Init, TypeOK
<1>3. QED
  BY <1>2 DEF Init, NewAsk, ConversationInv, SoundAsk, SoundCall, SoundCopy, SettledRow

(* A step that changes only requests which are not done, and leaves rows   *)
(* and executions alone, keeps the invariant if those requests are sound.  *)
LEMMA AskStep ==
    ASSUME ConversationInv, NEW q \in Questions, NEW ask \in Ask,
           asks[q].stage # "done", ask.stage # "new" => ask.session \in Sessions,
           ask.read # None => ask.stage = "write",
           SoundCopy(asks, ask.session, ask.read),
           asks' = [asks EXCEPT ![q] = ask],
           rows' = rows, messages' = messages, calls' = calls, called' = called
    PROVE  ConversationInv'
<1>1. TypeOK'
  BY DEF ConversationInv, TypeOK
<1>2. \A p \in Questions : asks[p].stage = "done" => asks'[p] = asks[p]
  BY DEF ConversationInv, TypeOK
<1>3. asks \in [Questions -> Ask] /\ asks' \in [Questions -> Ask]
  BY <1>1 DEF ConversationInv, TypeOK
<1>4. \A s \in Sessions : SettledRow(asks, s, rows[s])'
  BY <1>2, <1>3, SettledKept DEF ConversationInv, TypeOK
<1>5. ASSUME NEW p \in Questions PROVE SoundAsk(p)'
  <2>1. asks[p].read \in Row \cup {None} /\ ask.read \in Row \cup {None}
    BY <1>3 DEF Ask
  <2>2. CASE p = q
    <3>1. asks'[p] = ask
      BY <2>2 DEF ConversationInv, TypeOK
    <3>2. SettledRow(asks', ask.session, ask.read)
      BY <1>2, <1>3, <2>1, SettledKept DEF SoundCopy
    <3>3. QED
      BY <3>1, <3>2 DEF SoundAsk, SoundCopy
  <2>3. CASE p # q
    <3>1. asks'[p] = asks[p]
      BY <2>3 DEF ConversationInv, TypeOK
    <3>2. SettledRow(asks', asks[p].session, asks[p].read)
      BY <1>2, <1>3, <2>1, SettledKept DEF ConversationInv, SoundAsk, SoundCopy
    <3>3. QED
      BY <3>1, <3>2 DEF ConversationInv, SoundAsk, SoundCopy
  <2>4. QED
    BY <2>2, <2>3
<1>6. ASSUME NEW p \in Questions PROVE SoundCall(p)'
  <2> SUFFICES ASSUME calls[p] # None PROVE SoundCall(p)'
    BY DEF SoundCall
  <2>1. calls[p].read \in Row \cup {None}
    BY DEF ConversationInv, TypeOK
  <2>2. SoundCall(p)
    BY DEF ConversationInv
  <2>3. asks'[p] = asks[p]
    BY <1>2, <2>2 DEF SoundCall
  <2>4. SettledRow(asks', asks[p].session, calls[p].read)
    BY <1>2, <1>3, <2>1, <2>2, SettledKept DEF SoundCall, SoundCopy
  <2>5. QED
    BY <2>2, <2>3, <2>4 DEF SoundCall, SoundCopy
<1>7. QED
  BY <1>1, <1>4, <1>5, <1>6 DEF ConversationInv

-----------------------------------------------------------------------------
(* Every action keeps the invariant. *)

LEMMA QuerySound == ASSUME ConversationInv, NEW q \in Questions, Query(q)
                    PROVE  ConversationInv'
<1>1. PICK s \in Sessions, d \in Scopes, k \in Asked :
        asks' = [asks EXCEPT ![q] = [NewAsk EXCEPT
            !.stage = "history", !.session = s, !.kind = k, !.dataset = d,
            !.context = VisibleState(rows[s], d)]]
  BY DEF Query
<1> DEFINE ask == [NewAsk EXCEPT
            !.stage = "history", !.session = s, !.kind = k, !.dataset = d,
            !.context = VisibleState(rows[s], d)]
<1>2. VisibleState(rows[s], d) \in WorkingState \cup {None}
  BY VisibleType DEF ConversationInv, TypeOK
<1>3. ask \in Ask
  BY <1>2 DEF NewAsk, Ask, Stages, Kinds
<1>4. ask.stage = "history" /\ ask.session = s /\ ask.read = None
  BY DEF NewAsk
<1>5. asks[q].stage # "done" /\ UNCHANGED <<rows, messages, calls, called>>
  BY DEF Query
<1>6. SoundCopy(asks, ask.session, ask.read)
  BY <1>4 DEF SoundCopy, SettledRow
<1>7. asks' = [asks EXCEPT ![q] = ask]
  BY <1>1
<1> HIDE DEF ask
<1>8. QED
  BY <1>3, <1>4, <1>5, <1>6, <1>7, AskStep

LEMMA ReadHistorySound == ASSUME ConversationInv, NEW q \in Questions, ReadHistory(q)
                          PROVE  ConversationInv'
<1> DEFINE n == VisibleMessages(rows[asks[q].session], asks[q].dataset, messages[asks[q].session])
           ask == [asks[q] EXCEPT !.stage = "llm", !.seen = n]
<1>1. asks[q].stage = "history" /\ UNCHANGED <<rows, messages, calls, called>>
  BY DEF ReadHistory
<1>2. /\ asks[q] \in Ask /\ asks \in [Questions -> Ask]
      /\ asks[q].session \in Sessions
      /\ asks[q].read = None
      /\ n \in Nat
  BY <1>1, RowSession, VisibleType DEF ConversationInv, TypeOK, SoundAsk
<1>3. asks' = [asks EXCEPT ![q] = ask]
  BY <1>2 DEF ReadHistory, Ask
<1> HIDE DEF n
<1>4. ask \in Ask
  BY <1>2 DEF Ask, Stages
<1>5. ask.stage = "llm" /\ ask.session = asks[q].session /\ ask.read = None
  BY <1>2 DEF Ask
<1>6. SoundCopy(asks, ask.session, ask.read)
  BY <1>5 DEF SoundCopy, SettledRow
<1> HIDE DEF ask
<1>7. QED
  BY <1>1, <1>2, <1>3, <1>4, <1>5, <1>6, AskStep

LEMMA StoringSound ==
    ASSUME ConversationInv, NEW q \in Questions, asks[q].stage = "llm",
           NEW answer \in Answers,
           asks' = [asks EXCEPT ![q] = Storing(asks[q], answer)],
           UNCHANGED <<rows, messages, calls, called>>
    PROVE  ConversationInv'
<1> DEFINE ask == Storing(asks[q], answer)
<1>1. /\ asks[q] \in Ask
      /\ asks[q].session \in Sessions
      /\ rows[asks[q].session] \in Row \cup {None}
      /\ SettledRow(asks, asks[q].session, rows[asks[q].session])
  BY RowSession DEF ConversationInv
<1>2. asks[q].context # None => asks[q].context.revision + 1 \in Nat
  BY <1>1 DEF Ask, WorkingState
<1>3. ask \in Ask
  <2> DEFINE rev == IF answer.sql = None THEN 0
                    ELSE IF asks[q].context = None THEN 1 ELSE asks[q].context.revision + 1
  <2>1. rev \in Nat
    BY <1>2
  <2>2. ask = [asks[q] EXCEPT !.stage = "write", !.sql = answer.sql, !.mode = answer.mode,
                              !.revision = rev, !.read = rows[asks[q].session]]
    BY DEF Storing
  <2>3. answer.sql \in Sqls \cup {None} /\ answer.mode \in {"new_query", "refine_query"}
    BY DEF Answers
  <2> HIDE DEF rev, ask
  <2>4. QED
    BY <1>1, <2>1, <2>2, <2>3 DEF Ask, Stages
<1>4. /\ ask.stage = "write" /\ ask.session = asks[q].session
      /\ ask.read = rows[asks[q].session]
  BY <1>1 DEF Storing, Ask
<1>5. SoundCopy(asks, ask.session, ask.read)
  BY <1>1, <1>4 DEF SoundCopy
<1> HIDE DEF ask
<1>6. asks' = [asks EXCEPT ![q] = ask]
  BY DEF ask
<1>7. QED
  BY <1>1, <1>3, <1>4, <1>5, <1>6, AskStep

LEMMA AnsweredSound == ASSUME ConversationInv, NEW q \in Questions, Answered(q)
                       PROVE  ConversationInv'
<1>1. PICK answer \in ChatAnswers(asks[q].kind, asks[q].dataset, asks[q].context) :
         asks' = [asks EXCEPT ![q] = Storing(asks[q], answer)]
  BY DEF Answered
<1>2. answer \in Answers
  BY <1>1, AnswersType
<1>3. QED
  BY <1>1, <1>2, StoringSound DEF Answered

LEMMA FailedSound == ASSUME ConversationInv, NEW q \in Questions, Failed(q)
                     PROVE  ConversationInv'
<1>1. NoSql \in Answers
  BY DEF NoSql, Answers
<1>2. QED
  BY <1>1, StoringSound DEF Failed

(* The end of a question: its request is done, the rest is given. *)
LEMMA ClosedAsks ==
    ASSUME TypeOK, NEW q \in Questions, Closed(q), asks[q].stage = "write"
    PROVE  /\ asks' \in [Questions -> Ask]
           /\ \A p \in Questions : asks[p].stage = "done" => asks'[p] = asks[p]
           /\ \A p \in Questions \ {q} : asks'[p] = asks[p]
           /\ asks'[q] = [asks[q] EXCEPT !.stage = "done", !.context = None, !.read = None]
           /\ asks'[q].read = None /\ asks'[q].session = asks[q].session
<1> DEFINE ask == [asks[q] EXCEPT !.stage = "done", !.context = None, !.read = None]
<1>1. asks[q] \in Ask
  BY DEF TypeOK
<1>2. ask \in Ask
  BY <1>1 DEF Ask, Stages
<1>3. asks' = [asks EXCEPT ![q] = ask]
  BY <1>1 DEF Closed, TypeOK, Ask
<1> HIDE DEF ask
<1>4. asks' \in [Questions -> Ask] /\ asks'[q] = ask
  BY <1>2, <1>3 DEF TypeOK
<1>5. \A p \in Questions \ {q} : asks'[p] = asks[p]
  BY <1>3 DEF TypeOK
<1>6. ask.read = None /\ ask.session = asks[q].session
  BY <1>1 DEF ask, Ask
<1>7. QED
  BY <1>4, <1>5, <1>6 DEF ask

(* A step that settles requests, and replaces the row of one session by a  *)
(* sound one, keeps the copies that other requests hold sound.             *)
LEMMA CopyKept ==
    ASSUME NEW f \in [Questions -> Ask], NEW g \in [Questions -> Ask],
           \A p \in Questions : f[p].stage = "done" => g[p] = f[p],
           \A s \in Sessions : rows[s] # None => rows'[s] # None,
           NEW s \in Sessions, NEW read \in Row \cup {None},
           rows[s] # None \/ read = None, SettledRow(f, s, read)
    PROVE  /\ read # None => rows'[s] # None
           /\ SettledRow(g, s, read)
  BY SettledKept

LEMMA RowStep ==
    ASSUME ConversationInv, TypeOK',
           \A p \in Questions : asks[p].stage = "done" => asks'[p] = asks[p],
           \A p \in Questions :
              \/ asks'[p] = asks[p]
              \/ asks'[p].read = None /\ asks'[p].session \in Sessions,
           \A s \in Sessions : rows[s] # None => rows'[s] # None,
           \A s \in Sessions : SettledRow(asks', s, rows'[s]),
           \A p \in Questions : calls'[p] \in {calls[p], None}
    PROVE  ConversationInv'
<1>1. asks \in [Questions -> Ask] /\ asks' \in [Questions -> Ask]
  BY DEF ConversationInv, TypeOK
<1>2. ASSUME NEW p \in Questions PROVE SoundAsk(p)'
  <2>1. CASE asks'[p] = asks[p] /\ asks[p].read # None
    <3>1. /\ asks[p].stage = "write" /\ asks[p].session \in Sessions
          /\ asks[p].read \in Row \cup {None}
          /\ rows[asks[p].session] # None
          /\ SettledRow(asks, asks[p].session, asks[p].read)
      BY <1>1, <2>1 DEF ConversationInv, SoundAsk, SoundCopy, Ask
    <3>2. /\ rows'[asks[p].session] # None
          /\ SettledRow(asks', asks[p].session, asks[p].read)
      BY <1>1, <2>1, <3>1, CopyKept
    <3>3. QED
      BY <2>1, <3>1, <3>2 DEF SoundAsk, SoundCopy
  <2>2. CASE asks'[p] = asks[p] /\ asks[p].read = None
    BY <2>2 DEF ConversationInv, SoundAsk, SoundCopy, SettledRow
  <2>3. CASE asks'[p].read = None /\ asks'[p].session \in Sessions
    BY <2>3 DEF SoundAsk, SoundCopy, SettledRow
  <2>4. QED
    BY <2>1, <2>2, <2>3
<1>3. ASSUME NEW p \in Questions PROVE SoundCall(p)'
  <2> SUFFICES ASSUME calls'[p] # None PROVE SoundCall(p)'
    BY DEF SoundCall
  <2>1. calls'[p] = calls[p] /\ SoundCall(p) /\ SoundAsk(p) /\ calls[p].read \in Row \cup {None}
    BY DEF ConversationInv, TypeOK
  <2>2. /\ asks[p].stage = "done" /\ asks'[p] = asks[p] /\ asks[p].session \in Sessions
        /\ asks[p].sql # None
        /\ calls[p].read # None => rows[asks[p].session] # None
        /\ SettledRow(asks, asks[p].session, calls[p].read)
    BY <2>1 DEF SoundCall, SoundAsk, SoundCopy
  <2>3. /\ calls[p].read # None => rows'[asks[p].session] # None
        /\ SettledRow(asks', asks[p].session, calls[p].read)
    BY <1>1, <2>1, <2>2, CopyKept
  <2>4. QED
    BY <2>1, <2>2, <2>3 DEF SoundCall, SoundCopy
<1>4. QED
  BY <1>2, <1>3 DEF ConversationInv

(* The row that stores an answer is about the question it answers, or the  *)
(* state it read.                                                          *)
LEMMA AnsweredSettled ==
    ASSUME ConversationInv, NEW q \in Questions, Closed(q), asks[q].stage = "write"
    PROVE  SettledRow(asks', asks[q].session, AnsweredRow(q, asks[q]))
<1> DEFINE ask == asks[q]
           d == ask.dataset
           opened == OpenedRow(ask.read, d)
           answer == [sql |-> ask.sql, mode |-> ask.mode]
           new == AnsweredRow(q, ask)
           kept == Kept(opened.state, d)
<1>1. /\ ask \in Ask /\ ask.read \in Row \cup {None} /\ d \in Datasets \cup {None}
      /\ ask.session \in Sessions
      /\ SettledRow(asks, ask.session, ask.read)
  BY DEF ConversationInv, TypeOK, SoundAsk, SoundCopy, Ask
<1>2. /\ asks \in [Questions -> Ask] /\ asks' \in [Questions -> Ask]
      /\ \A p \in Questions : asks[p].stage = "done" => asks'[p] = asks[p]
      /\ asks'[q] = [asks[q] EXCEPT !.stage = "done", !.context = None, !.read = None]
  BY ClosedAsks DEF ConversationInv, TypeOK
<1>3. opened \in Row /\ (opened.state # None => ask.read # None /\ opened.state = ask.read.state)
  BY <1>1, OpenedType
<1>4. opened.state # None => Settled(asks', ask.session, opened.state)
  <2>1. SettledRow(asks', ask.session, ask.read)
    BY <1>1, <1>2, SettledKept
  <2>2. QED
    BY <1>3, <2>1 DEF SettledRow
<1>5. new.state = BuiltState(q, answer, d, opened.state)
  <2>1. new = [opened EXCEPT !.state = BuiltState(q, answer, d, opened.state)]
    BY DEF AnsweredRow
  <2> HIDE DEF opened, answer, new
  <2>2. QED
    BY <1>3, <2>1 DEF Row
<1>6. /\ asks'[q].stage = "done" /\ asks'[q].session = ask.session
      /\ asks'[q].dataset = d /\ asks'[q].sql = answer.sql
  BY <1>1, <1>2 DEF Ask
<1>7. kept # None => kept.dataset = d /\ Settled(asks', ask.session, kept)
  BY <1>4 DEF Kept
<1> HIDE DEF opened, answer, new, kept
<1>8. CASE answer.sql = None
  BY <1>4, <1>5, <1>8 DEF BuiltState, SettledRow, new, ask
<1>9. CASE answer.sql # None
  <2>1. new.state = NewState(q, answer, d, kept)
    BY <1>5, <1>9 DEF BuiltState, kept
  <2>2. /\ new.state.question = q /\ new.state.sql = answer.sql /\ new.state.dataset = d
        /\ kept = None => new.state.original = q /\ new.state.ran = None
        /\ kept # None => /\ new.state.original \in {q, kept.original}
                          /\ new.state.ran = kept.ran
    BY <2>1 DEF NewState
  <2>3. Settled(asks', ask.session, new.state)
    <3>1. CASE kept = None
      BY <1>6, <2>2, <3>1 DEF Settled
    <3>2. CASE kept # None
      BY <1>6, <1>7, <2>2, <3>2 DEF Settled
    <3>3. QED
      BY <3>1, <3>2
  <2>4. QED
    BY <2>3 DEF SettledRow, new, ask
<1>10. QED
  BY <1>8, <1>9

LEMMA StoredSound == ASSUME ConversationInv, NEW q \in Questions, Stored(q)
                     PROVE  ConversationInv'
<1> DEFINE ask == asks[q]
           s == ask.session
           new == AnsweredRow(q, ask)
           row == IF ask.read = None THEN new ELSE Updated(rows[s], ask.read, new)
<1>1. /\ ask.stage = "write" /\ Closed(q) /\ UNCHANGED <<calls, called>>
      /\ ask.read # None \/ rows[s] = None
      /\ rows' = [rows EXCEPT ![s] = row]
      /\ messages' = [messages EXCEPT ![s] = Append(@, q)]
  BY DEF Stored
<1>2. /\ ask \in Ask /\ s \in Sessions /\ new \in Row
      /\ ask.read # None => rows[s] \in Row
      /\ SettledRow(asks, s, rows[s])
  BY <1>1, AnsweredType DEF ConversationInv, TypeOK, SoundAsk, SoundCopy
<1>3. /\ asks \in [Questions -> Ask] /\ asks' \in [Questions -> Ask]
      /\ \A p \in Questions : asks[p].stage = "done" => asks'[p] = asks[p]
      /\ \A p \in Questions \ {q} : asks'[p] = asks[p]
      /\ asks'[q].read = None /\ asks'[q].session = s
  BY <1>1, ClosedAsks DEF ConversationInv, TypeOK
<1>4. SettledRow(asks', s, new)
  BY <1>1, AnsweredSettled
<1>5. row \in Row /\ SettledRow(asks', s, row)
  <2>1. CASE ask.read = None
    BY <1>2, <1>4, <2>1
  <2>2. CASE ask.read # None
    <3>1. SettledRow(asks', s, rows[s])
      BY <1>2, <1>3, <2>2, SettledKept
    <3>2. /\ row \in Row
          /\ row.state \in {rows[s].state, new.state}
      BY <1>2, <2>2, UpdatedType
    <3>3. rows[s] # None /\ new # None
      BY <1>2, <2>2
    <3> HIDE DEF row, new
    <3>4. QED
      BY <1>4, <3>1, <3>2, <3>3 DEF SettledRow
  <2>3. QED
    BY <2>1, <2>2
<1> HIDE DEF row, new
<1>6. TypeOK'
  BY <1>1, <1>2, <1>3, <1>5 DEF ConversationInv, TypeOK
<1>7. \A r \in Sessions : SettledRow(asks', r, rows'[r])
  <2> SUFFICES ASSUME NEW r \in Sessions PROVE SettledRow(asks', r, rows'[r])
    OBVIOUS
  <2>1. rows[r] \in Row \cup {None} /\ SettledRow(asks, r, rows[r])
    BY DEF ConversationInv, TypeOK
  <2>2. SettledRow(asks', r, rows[r])
    BY <1>3, <2>1, SettledKept
  <2>3. rows'[r] = IF r = s THEN row ELSE rows[r]
    BY <1>1 DEF ConversationInv, TypeOK
  <2>4. QED
    BY <1>5, <2>2, <2>3
<1>8. \A r \in Sessions : rows[r] # None => rows'[r] # None
  <2>1. row # None
    BY <1>5
  <2>2. rows \in [Sessions -> Row \cup {None}]
    BY DEF ConversationInv, TypeOK
  <2>3. QED
    BY ONLY <1>1, <2>1, <2>2
<1> HIDE DEF ask, s
<1>9. QED
  BY <1>1, <1>2, <1>3, <1>6, <1>7, <1>8, RowStep

LEMMA NotStoredSound == ASSUME ConversationInv, NEW q \in Questions, NotStored(q)
                        PROVE  ConversationInv'
<1>1. /\ asks[q].stage = "write" /\ Closed(q) /\ UNCHANGED <<rows, messages, calls, called>>
  BY DEF NotStored
<1>2. asks[q] \in Ask /\ asks[q].session \in Sessions
  BY <1>1 DEF ConversationInv, TypeOK, SoundAsk
<1>3. /\ asks \in [Questions -> Ask] /\ asks' \in [Questions -> Ask]
      /\ \A p \in Questions : asks[p].stage = "done" => asks'[p] = asks[p]
      /\ \A p \in Questions \ {q} : asks'[p] = asks[p]
      /\ asks'[q].read = None /\ asks'[q].session = asks[q].session
  BY <1>1, ClosedAsks DEF ConversationInv, TypeOK
<1>4. TypeOK'
  BY <1>1, <1>3 DEF ConversationInv, TypeOK
<1>5. \A r \in Sessions : SettledRow(asks', r, rows'[r])
  BY <1>1, <1>3, SettledKept DEF ConversationInv, TypeOK
<1>6. QED
  BY <1>1, <1>2, <1>3, <1>4, <1>5, RowStep

LEMMA RunSqlSound == ASSUME ConversationInv, NEW q \in Questions, RunSql(q)
                     PROVE  ConversationInv'
<1> DEFINE read == rows[asks[q].session]
<1>1. /\ asks[q].stage = "done" /\ asks[q].sql # None
      /\ calls' = [calls EXCEPT ![q] = [read |-> read]]
      /\ called' = called + 1
      /\ UNCHANGED <<rows, messages, asks>>
  BY DEF RunSql
<1>2. asks[q].session \in Sessions /\ read \in Row \cup {None}
      /\ SettledRow(asks, asks[q].session, read)
  BY <1>1 DEF ConversationInv, TypeOK, SoundAsk
<1> HIDE DEF read
<1>3. TypeOK'
  BY <1>1, <1>2 DEF ConversationInv, TypeOK
<1>4. \A p \in Questions : calls'[p] = IF p = q THEN [read |-> read] ELSE calls[p]
  BY <1>1 DEF ConversationInv, TypeOK
<1>5. ASSUME NEW p \in Questions PROVE SoundCall(p)'
  <2>1. CASE p = q
    BY <1>1, <1>2, <1>4, <2>1 DEF SoundCall, SoundCopy, read
  <2>2. CASE p # q
    BY <1>1, <1>4, <2>2 DEF ConversationInv, SoundCall, SoundCopy
  <2>3. QED
    BY <2>1, <2>2
<1>6. \A p \in Questions : SoundAsk(p)'
  BY <1>1 DEF ConversationInv, SoundAsk, SoundCopy
<1>7. QED
  BY <1>1, <1>3, <1>5, <1>6 DEF ConversationInv

LEMMA SummaryStoredSound == ASSUME ConversationInv, NEW q \in Questions, SummaryStored(q)
                            PROVE  ConversationInv'
<1> DEFINE s == asks[q].session
           read == calls[q].read
           state == [read.state EXCEPT !.ran = q]
<1>1. /\ calls[q] # None
      /\ calls' = [calls EXCEPT ![q] = None]
      /\ UNCHANGED <<messages, asks, called>>
      /\ \/ rows' = rows
         \/ /\ read # None /\ read.state # None
            /\ rows' = [rows EXCEPT ![s].state = SummarizedRow(read, q).state]
  BY DEF SummaryStored
<1>2. /\ asks[q].stage = "done" /\ asks[q].sql # None /\ s \in Sessions
      /\ read \in Row \cup {None}
      /\ read # None => rows[s] \in Row
      /\ SettledRow(asks, s, read)
  BY <1>1 DEF ConversationInv, TypeOK, SoundCall, SoundAsk, SoundCopy
<1>3. \A p \in Questions : calls'[p] \in {calls[p], None}
  BY <1>1 DEF ConversationInv, TypeOK
<1>4. calls' \in [Questions -> [read : Row \cup {None}] \cup {None}]
  BY <1>1 DEF ConversationInv, TypeOK
<1>5. CASE rows' = rows
  <2>1. TypeOK'
    BY <1>1, <1>4, <1>5 DEF ConversationInv, TypeOK
  <2>2. QED
    BY <1>1, <1>3, <1>5, <2>1, RowStep DEF ConversationInv
<1>6. CASE /\ read # None /\ read.state # None
           /\ rows' = [rows EXCEPT ![s].state = SummarizedRow(read, q).state]
  <2>1. read \in Row /\ read.state \in WorkingState
    BY <1>2, <1>6 DEF Row
  <2>2. SummarizedRow(read, q).state = state
    BY <1>6, <2>1 DEF SummarizedRow, Row
  <2>3. state \in WorkingState
    BY <2>1 DEF WorkingState
  <2>4. /\ state.question = read.state.question /\ state.original = read.state.original
        /\ state.dataset = read.state.dataset /\ state.sql = read.state.sql
        /\ state.ran = q
    BY <2>1 DEF WorkingState
  <2>5. Settled(asks, s, read.state)
    BY <1>2, <1>6 DEF SettledRow
  <2> HIDE DEF state
  <2>6. Settled(asks, s, state)
    BY <1>2, <2>4, <2>5 DEF Settled
  <2> DEFINE row == [rows[s] EXCEPT !.state = state]
  <2>7. rows[s] \in Row /\ row \in Row /\ row.state = state
    BY <1>2, <1>6, <2>3 DEF Row
  <2>8. rows' = [rows EXCEPT ![s] = row]
    BY <1>2, <1>6, <2>2 DEF ConversationInv, TypeOK
  <2> HIDE DEF row
  <2>9. \A r \in Sessions : rows'[r] = IF r = s THEN row ELSE rows[r]
    BY <2>8 DEF ConversationInv, TypeOK
  <2>10. TypeOK'
    BY <1>1, <1>2, <1>4, <2>7, <2>8 DEF ConversationInv, TypeOK
  <2>11. \A r \in Sessions : SettledRow(asks', r, rows'[r])
    BY <1>1, <2>6, <2>7, <2>9 DEF ConversationInv, SettledRow
  <2>12. \A r \in Sessions : rows[r] # None => rows'[r] # None
    BY <2>7, <2>9
  <2>13. QED
    BY <1>1, <1>3, <2>10, <2>11, <2>12, RowStep
<1>7. QED
  BY <1>1, <1>5, <1>6

LEMMA SummaryNotStoredSound ==
    ASSUME ConversationInv, NEW q \in Questions, SummaryNotStored(q)
    PROVE  ConversationInv'
<1>1. /\ calls' = [calls EXCEPT ![q] = None]
      /\ UNCHANGED <<rows, messages, asks, called>>
  BY DEF SummaryNotStored
<1>2. \A p \in Questions : calls'[p] \in {calls[p], None}
  BY <1>1 DEF ConversationInv, TypeOK
<1>3. TypeOK'
  BY <1>1 DEF ConversationInv, TypeOK
<1>4. QED
  BY <1>1, <1>2, <1>3, RowStep DEF ConversationInv

LEMMA NextSound == ConversationInv /\ [Next]_vars => ConversationInv'
<1> SUFFICES ASSUME ConversationInv, [Next]_vars PROVE ConversationInv'
  OBVIOUS
<1>1. CASE UNCHANGED vars
  BY <1>1 DEF vars, ConversationInv, TypeOK, SoundAsk, SoundCall, SoundCopy
<1>2. ASSUME NEW q \in Questions,
             \/ Query(q) \/ ReadHistory(q) \/ Answered(q) \/ Failed(q) \/ Stored(q)
             \/ NotStored(q) \/ RunSql(q) \/ SummaryStored(q) \/ SummaryNotStored(q)
      PROVE  ConversationInv'
  BY <1>2, QuerySound, ReadHistorySound, AnsweredSound, FailedSound, StoredSound,
     NotStoredSound, RunSqlSound, SummaryStoredSound, SummaryNotStoredSound
<1>3. QED
  BY <1>1, <1>2 DEF Next

(* Every variable keeps its shape: rows, messages and requests are what    *)
(* the handlers of chat_routes.py and persistence.py read and write.       *)
THEOREM ConversationTypeCorrect == Spec => []TypeOK
<1>1. ConversationInv => TypeOK
  BY DEF ConversationInv
<1>2. QED
  BY <1>1, InitSound, NextSound, PTL DEF Spec

(* The stored working state is about one query, however the transactions   *)
(* of questions and executions overlap (persistence.py:197).               *)
THEOREM StateIsOneQueryCorrect == Spec => []StateIsOneQuery
<1>1. ConversationInv => StateIsOneQuery
  BY DEF ConversationInv, SettledRow, Settled, StateIsOneQuery, OneQuery
<1>2. QED
  BY <1>1, InitSound, NextSound, PTL DEF Spec

-----------------------------------------------------------------------------
(* What a question was answered from. *)

(* A question that names a dataset is not handed the state of another. *)
VisibleOf(d, state) == d # None => state.dataset \in {d, None}

ContextSound(q) == asks[q].context # None =>
    /\ Settled(asks, asks[q].session, asks[q].context)
    /\ VisibleOf(asks[q].dataset, asks[q].context)

ContextInv == ConversationInv /\ \A q \in Questions : ContextSound(q)

LEMMA VisibleIsState ==
    ASSUME NEW row \in Row \cup {None}, NEW d, VisibleState(row, d) # None
    PROVE  /\ row # None /\ row.state # None /\ VisibleState(row, d) = row.state
           /\ row.state \in WorkingState
           /\ VisibleOf(d, row.state)
  BY DEF VisibleState, StateDataset, Row, VisibleOf

(* What a question was answered from is kept until its request ends. *)
LEMMA ContextKept ==
    ASSUME ContextInv, [Next]_vars, ConversationInv', NEW p \in Questions,
           asks'[p].context \in {asks[p].context, None},
           asks'[p].session = asks[p].session,
           asks'[p].dataset = asks[p].dataset
    PROVE  ContextSound(p)'
<1> SUFFICES ASSUME asks'[p].context # None
             PROVE  /\ Settled(asks', asks[p].session, asks[p].context)
                    /\ VisibleOf(asks[p].dataset, asks[p].context)
  BY DEF ContextSound
<1>1. /\ asks \in [Questions -> Ask] /\ asks' \in [Questions -> Ask]
      /\ asks[p].context # None
      /\ ContextSound(p)
  BY DEF ContextInv, ConversationInv, TypeOK
<1>2. asks[p].context \in WorkingState
  BY <1>1 DEF Ask
<1>3. \A q \in Questions : asks[q].stage = "done" => asks'[q] = asks[q]
  BY DoneStays DEF ContextInv, ConversationInv
<1>4. QED
  BY <1>1, <1>2, <1>3, StateKept DEF ContextSound

LEMMA ContextRead ==
    ASSUME ContextInv, ConversationInv', NEW p \in Questions, Query(p)
    PROVE  ContextSound(p)'
<1>1. PICK s \in Sessions, d \in Scopes, k \in Asked :
        asks' = [asks EXCEPT ![p] = [NewAsk EXCEPT
            !.stage = "history", !.session = s, !.kind = k, !.dataset = d,
            !.context = VisibleState(rows[s], d)]]
  BY DEF Query
<1>2. /\ asks \in [Questions -> Ask] /\ asks' \in [Questions -> Ask]
      /\ rows[s] \in Row \cup {None}
      /\ SettledRow(asks, s, rows[s])
      /\ asks[p].stage = "new"
  BY DEF ContextInv, ConversationInv, TypeOK, Query
<1>3. /\ asks'[p].session = s /\ asks'[p].dataset = d
      /\ asks'[p].context = VisibleState(rows[s], d)
  BY <1>1, <1>2 DEF NewAsk
<1>4. \A q \in Questions : asks[q].stage = "done" => asks'[q] = asks[q]
  BY <1>1, <1>2
<1> SUFFICES ASSUME VisibleState(rows[s], d) # None
             PROVE  Settled(asks', s, rows[s].state) /\ VisibleOf(d, rows[s].state)
  BY <1>2, <1>3, VisibleIsState DEF ContextSound
<1>5. rows[s] # None /\ rows[s].state # None /\ rows[s].state \in WorkingState
  BY <1>2, VisibleIsState
<1>6. Settled(asks, s, rows[s].state)
  BY <1>2, <1>5 DEF SettledRow
<1>7. QED
  BY <1>2, <1>4, <1>5, <1>6, StateKept, VisibleIsState

LEMMA ContextStep ==
    ASSUME ContextInv, [Next]_vars, ConversationInv', NEW p \in Questions
    PROVE  ContextSound(p)'
<1> DEFINE Same == /\ asks'[p].context \in {asks[p].context, None}
                   /\ asks'[p].session = asks[p].session
                   /\ asks'[p].dataset = asks[p].dataset
<1>0. asks \in [Questions -> Ask] /\ asks[p] \in Ask
  BY DEF ContextInv, ConversationInv, TypeOK
<1>1. CASE UNCHANGED asks
  BY <1>1, ContextKept
<1>2. ASSUME NEW q \in Questions, Query(q) PROVE ContextSound(p)'
  <2>1. CASE p # q
    <3>1. Same
      BY <1>0, <1>2, <2>1 DEF Query
    <3>2. QED
      BY <3>1, ContextKept
  <2>2. CASE p = q
    BY <1>2, <2>2, ContextRead
  <2>3. QED
    BY <2>1, <2>2
<1>3. ASSUME NEW q \in Questions, ReadHistory(q) PROVE Same
  <2> DEFINE n == VisibleMessages(rows[asks[q].session], asks[q].dataset, messages[asks[q].session])
  <2>1. asks' = [asks EXCEPT ![q].stage = "llm", ![q].seen = n]
    BY <1>3 DEF ReadHistory
  <2> HIDE DEF n
  <2>2. QED
    BY <1>0, <2>1 DEF Ask
<1>4. ASSUME NEW q \in Questions, NEW answer, asks' = [asks EXCEPT ![q] = Storing(asks[q], answer)]
      PROVE  Same
  <2>1. CASE p = q
    <3>1. asks'[p] = Storing(asks[p], answer)
      BY <1>0, <1>4, <2>1
    <3>2. /\ Storing(asks[p], answer).context = asks[p].context
          /\ Storing(asks[p], answer).session = asks[p].session
          /\ Storing(asks[p], answer).dataset = asks[p].dataset
      BY <1>0 DEF Storing, Ask
    <3>3. QED
      BY <3>1, <3>2
  <2>2. CASE p # q
    BY <1>0, <1>4, <2>2
  <2>3. QED
    BY <2>1, <2>2
<1>5. ASSUME NEW q \in Questions, Closed(q) PROVE Same
  BY <1>0, <1>5 DEF Closed, Ask
<1>6. ASSUME Same PROVE ContextSound(p)'
  BY <1>6, ContextKept
<1> HIDE DEF Same
<1>7. CASE \E q \in Questions : Answered(q) \/ Failed(q)
  BY <1>4, <1>6, <1>7 DEF Answered, Failed
<1>8. CASE \E q \in Questions : Stored(q) \/ NotStored(q)
  BY <1>5, <1>6, <1>8 DEF Stored, NotStored
<1>9. CASE \E q \in Questions : RunSql(q) \/ SummaryStored(q) \/ SummaryNotStored(q)
  BY <1>1, <1>9 DEF RunSql, SummaryStored, SummaryNotStored
<1>10. QED
  BY <1>1, <1>2, <1>3, <1>6, <1>7, <1>8, <1>9 DEF Next, vars

(* However requests overwrite the row of a conversation, a question is     *)
(* answered only from a query of its own conversation, and never of a      *)
(* dataset other than the one it names (persistence.py:166).               *)
THEOREM ContextOfDatasetCorrect == Spec => []ContextOfDataset
<1>1. Init => ContextInv
  BY InitSound DEF Init, NewAsk, ContextInv, ContextSound
<1>2. ContextInv /\ [Next]_vars => ContextInv'
  <2> SUFFICES ASSUME ContextInv, [Next]_vars PROVE ContextInv'
    OBVIOUS
  <2>1. ConversationInv'
    BY NextSound DEF ContextInv
  <2>2. QED
    BY <2>1, ContextStep DEF ContextInv
<1>3. ContextInv => ContextOfDataset
  BY DEF ContextInv, ContextSound, ContextOfDataset, Settled, VisibleOf
<1>4. QED
  BY <1>1, <1>2, <1>3, PTL DEF Spec

-----------------------------------------------------------------------------
(* What is stored of a question that saw a history. *)

StoredIn(m, q) == \E i \in 1..Len(m) : m[i] = q

SeenKept(q) == asks[q].seen > 0 =>
    /\ asks[q].stage = "llm" => rows[asks[q].session] # None
    /\ asks[q].stage = "write" => asks[q].read # None
    /\ asks[q].stage = "done" => StoredIn(messages[asks[q].session], q)

LEMMA AppendKeeps ==
    ASSUME NEW m \in Seq(Questions), NEW q \in Questions, NEW p \in Questions
    PROVE  /\ StoredIn(Append(m, q), q)
           /\ StoredIn(m, p) => StoredIn(Append(m, q), p)
<1>1. Len(m) \in Nat /\ Len(Append(m, q)) = Len(m) + 1 /\ Append(m, q)[Len(m) + 1] = q
  OBVIOUS
<1>2. \A i \in 1..Len(m) : Append(m, q)[i] = m[i]
  OBVIOUS
<1>3. StoredIn(Append(m, q), q)
  <2>1. Len(m) + 1 \in 1..Len(Append(m, q))
    BY <1>1
  <2>2. QED
    BY <1>1, <2>1 DEF StoredIn
<1>4. ASSUME StoredIn(m, p) PROVE StoredIn(Append(m, q), p)
  <2>1. PICK i \in 1..Len(m) : m[i] = p
    BY <1>4 DEF StoredIn
  <2>2. i \in 1..Len(Append(m, q)) /\ Append(m, q)[i] = p
    BY <1>1, <1>2, <2>1
  <2>3. QED
    BY <2>2 DEF StoredIn
<1>5. QED
  BY <1>3, <1>4

(* A conversation, once created, stays. *)
LEMMA RowsStay ==
    ASSUME ConversationInv, [Next]_vars, NEW s \in Sessions, rows[s] # None
    PROVE  rows'[s] # None
<1>1. rows \in [Sessions -> Row \cup {None}] /\ rows[s] \in Row
  BY DEF ConversationInv, TypeOK
<1>2. CASE UNCHANGED rows
  BY <1>2
<1>3. ASSUME NEW q \in Questions, Stored(q) PROVE rows'[s] # None
  <2> DEFINE ask == asks[q]
             new == AnsweredRow(q, ask)
             row == IF ask.read = None THEN new ELSE Updated(rows[ask.session], ask.read, new)
  <2>1. rows' = [rows EXCEPT ![ask.session] = row]
    BY <1>3 DEF Stored
  <2>2. ask \in Ask /\ new \in Row
    BY AnsweredType DEF ConversationInv, TypeOK
  <2>3. CASE s = ask.session
    <3>1. row \in Row
      BY <1>1, <2>2, <2>3, UpdatedType
    <3> HIDE DEF row, ask, new
    <3>2. QED
      BY <1>1, <2>1, <2>3, <3>1
  <2> HIDE DEF row, ask, new
  <2>4. CASE s # ask.session
    BY <1>1, <2>1, <2>4
  <2>5. QED
    BY <2>3, <2>4
<1>4. ASSUME NEW q \in Questions, SummaryStored(q) PROVE rows'[s] # None
  <2> DEFINE state == SummarizedRow(calls[q].read, q).state
  <2>1. CASE rows' = [rows EXCEPT ![asks[q].session].state = state]
             /\ calls[q].read # None /\ calls[q].read.state # None
    <3>1. calls[q].read \in Row /\ calls[q].read.state \in WorkingState
      BY <1>4, <2>1 DEF SummaryStored, ConversationInv, TypeOK, Row
    <3>2. state = [calls[q].read.state EXCEPT !.ran = q]
      BY <2>1, <3>1 DEF SummarizedRow, Row
    <3>3. state \in WorkingState
      BY <3>1, <3>2 DEF WorkingState
    <3> HIDE DEF state
    <3>4. [rows[s] EXCEPT !.state = state] \in Row
      BY <1>1, <3>3 DEF Row
    <3>5. rows'[s] \in {rows[s], [rows[s] EXCEPT !.state = state]}
      BY <1>1, <2>1
    <3>6. QED
      BY <3>4, <3>5
  <2>2. CASE rows' = rows
    BY <2>2
  <2>3. QED
    BY <1>4, <2>1, <2>2 DEF SummaryStored
<1>5. QED
  BY <1>2, <1>3, <1>4 DEF Next, vars, Query, ReadHistory, Answered, Failed, NotStored,
     RunSql, SummaryNotStored

LEMMA SeenStep ==
    ASSUME ~DbMayFail, ConversationInv, \A q \in Questions : SeenKept(q), [Next]_vars
    PROVE  \A q \in Questions : SeenKept(q)'
<1> SUFFICES ASSUME NEW p \in Questions, asks'[p].seen > 0
             PROVE  /\ asks'[p].stage = "llm" => rows'[asks'[p].session] # None
                    /\ asks'[p].stage = "write" => asks'[p].read # None
                    /\ asks'[p].stage = "done" => StoredIn(messages'[asks'[p].session], p)
  BY DEF SeenKept, StoredIn
<1> DEFINE Goal == /\ asks'[p].stage = "llm" => rows'[asks'[p].session] # None
                   /\ asks'[p].stage = "write" => asks'[p].read # None
                   /\ asks'[p].stage = "done" => StoredIn(messages'[asks'[p].session], p)
<1>1. /\ asks \in [Questions -> Ask] /\ asks[p] \in Ask
      /\ messages \in [Sessions -> Seq(Questions)]
      /\ SoundAsk(p) /\ SeenKept(p)
  BY DEF ConversationInv, TypeOK
<1>2. ASSUME asks'[p] = asks[p], UNCHANGED messages PROVE Goal
  BY <1>1, <1>2, RowsStay DEF SoundAsk, SeenKept
<1>3. ASSUME NEW q \in Questions, Query(q) PROVE Goal
  <2>1. CASE p # q
    BY <1>1, <1>2, <1>3, <2>1 DEF Query
  <2>2. CASE p = q
    BY <1>1, <1>3, <2>2 DEF Query, NewAsk
  <2>3. QED
    BY <2>1, <2>2
<1>4. ASSUME NEW q \in Questions, ReadHistory(q) PROVE Goal
  <2> DEFINE s == asks[q].session
             n == VisibleMessages(rows[s], asks[q].dataset, messages[s])
  <2>1. /\ asks' = [asks EXCEPT ![q].stage = "llm", ![q].seen = n]
        /\ UNCHANGED <<rows, messages>>
    BY <1>4 DEF ReadHistory
  <2>2. CASE p # q
    <3> HIDE DEF n
    <3>1. QED
      BY <1>1, <1>2, <2>1, <2>2
  <2>3. CASE p = q
    <3>1. n > 0 => rows[s] # None
      BY DEF VisibleMessages
    <3> HIDE DEF n
    <3>2. asks'[p].stage = "llm" /\ asks'[p].seen = n /\ asks'[p].session = s
      BY <1>1, <2>1, <2>3 DEF Ask
    <3>3. QED
      BY <2>1, <3>1, <3>2
  <2>4. QED
    BY <2>2, <2>3
<1>5. ASSUME NEW q \in Questions, asks[q].stage = "llm", NEW answer,
             asks' = [asks EXCEPT ![q] = Storing(asks[q], answer)], UNCHANGED messages
      PROVE  Goal
  <2>1. CASE p # q
    BY <1>1, <1>2, <1>5, <2>1
  <2>2. CASE p = q
    <3>1. /\ asks'[p].stage = "write" /\ asks'[p].read = rows[asks[p].session]
          /\ asks'[p].seen = asks[p].seen
      BY <1>1, <1>5, <2>2 DEF Storing, Ask
    <3>2. QED
      BY <1>1, <1>5, <2>2, <3>1 DEF SeenKept
  <2>3. QED
    BY <2>1, <2>2
<1>6. ASSUME NEW q \in Questions, Closed(q), q # p PROVE asks'[p] = asks[p]
  BY <1>1, <1>6 DEF Closed
<1>7. ASSUME Closed(p)
      PROVE  /\ asks'[p].stage = "done" /\ asks'[p].session = asks[p].session
             /\ asks'[p].seen = asks[p].seen
  BY <1>1, <1>7 DEF Closed, Ask
<1>8. ASSUME NEW q \in Questions, Stored(q) PROVE Goal
  <2>1. /\ asks[q].stage = "write" /\ Closed(q)
        /\ messages' = [messages EXCEPT ![asks[q].session] = Append(@, q)]
    BY <1>8 DEF Stored
  <2>2. asks[q].session \in Sessions
    BY <2>1 DEF ConversationInv, SoundAsk
  <2>3. CASE p = q
    <3>1. messages'[asks[p].session] = Append(messages[asks[p].session], q)
      BY <1>1, <2>1, <2>2, <2>3
    <3>2. StoredIn(messages'[asks[p].session], p)
      BY <1>1, <2>2, <2>3, <3>1, AppendKeeps
    <3>3. QED
      BY <1>7, <2>1, <2>3, <3>2
  <2>4. CASE p # q
    <3>1. asks'[p] = asks[p]
      BY <1>6, <2>1, <2>4
    <3>2. CASE asks[p].stage = "done"
      <4>1. StoredIn(messages[asks[p].session], p) /\ asks[p].session \in Sessions
        BY <1>1, <3>1, <3>2 DEF SeenKept, SoundAsk
      <4> DEFINE m == messages[asks[p].session]
      <4>5. m \in Seq(Questions)
        BY <1>1, <4>1
      <4>2. messages'[asks[p].session] \in {messages[asks[p].session],
                                            Append(messages[asks[p].session], q)}
        BY <1>1, <2>1, <2>2, <4>1
      <4>3. StoredIn(messages'[asks[p].session], p)
        BY ONLY <4>1, <4>2, <4>5, AppendKeeps
      <4>4. QED
        BY <3>1, <3>2, <4>3
    <3>3. CASE asks[p].stage # "done"
      BY <1>1, <3>1, <3>3, RowsStay DEF SoundAsk, SeenKept
    <3>4. QED
      BY <3>2, <3>3
  <2>5. QED
    BY <2>3, <2>4
<1>9. ASSUME NEW q \in Questions, NotStored(q) PROVE Goal
  <2>1. /\ asks[q].stage = "write" /\ asks[q].read = None
        /\ Closed(q) /\ UNCHANGED messages
    BY <1>9 DEF NotStored
  <2>2. CASE p = q
    BY <1>1, <1>7, <2>1, <2>2 DEF SeenKept
  <2>3. CASE p # q
    BY <1>2, <1>6, <2>1, <2>3
  <2>4. QED
    BY <2>2, <2>3
<1>10. ASSUME UNCHANGED <<asks, messages>> PROVE Goal
  BY <1>2, <1>10
<1> HIDE DEF Goal
<1>11. ASSUME \E q \in Questions : Answered(q) \/ Failed(q) PROVE Goal
  BY <1>5, <1>11 DEF Answered, Failed
<1>12. ASSUME \E q \in Questions : RunSql(q) \/ SummaryStored(q) \/ SummaryNotStored(q) PROVE Goal
  BY <1>10, <1>12 DEF RunSql, SummaryStored, SummaryNotStored
<1>13. ASSUME UNCHANGED vars PROVE Goal
  BY <1>10, <1>13 DEF vars
<1>14. Goal
  BY <1>3, <1>4, <1>8, <1>9, <1>11, <1>12, <1>13 DEF Next
<1>15. QED
  BY <1>14 DEF Goal

(* A follow-up is never lost: of the questions of a database that works,   *)
(* only one that saw no history may fail to be stored, when another        *)
(* creates the conversation at the same time (persistence.py:140).         *)
THEOREM FollowUpKeptCorrect == Spec => []FollowUpKept
<1> DEFINE SeenInv == ConversationInv /\ (~DbMayFail => \A q \in Questions : SeenKept(q))
<1>1. Init => SeenInv
  BY InitSound DEF Init, NewAsk, SeenKept
<1>2. SeenInv /\ [Next]_vars => SeenInv'
  BY NextSound, SeenStep
<1>3. SeenInv => FollowUpKept
  BY DEF SeenKept, StoredIn, FollowUpKept
<1> HIDE DEF SeenInv
<1>4. QED
  BY <1>1, <1>2, <1>3, PTL DEF Spec

-----------------------------------------------------------------------------
(* A client that awaits its answers: what the messages tell of the state.  *)

Busy(q) == asks[q].stage \in {"history", "llm", "write"} \/ calls[q] # None

Alone == \A p, q \in Questions : Busy(p) /\ Busy(q) => p = q

(* What the one request in flight knows is still so.                       *)
Current(q) ==
    LET ask == asks[q]
    IN  /\ ask.stage \in {"history", "llm", "write"}
              => ask.context = VisibleState(rows[ask.session], ask.dataset)
        /\ ask.stage = "write" =>
              /\ ask.read = rows[ask.session]
              /\ ask.sql # None => ask.revision = IF ask.context = None THEN 1
                                                  ELSE ask.context.revision + 1
        /\ calls[q] # None => calls[q].read = rows[ask.session]

Latest(m) == {i \in 1..Len(m) : IsLatestQuery(m, i)}

(* The row of a session and its messages m tell the same.                  *)
Agree(row, m) ==
    /\ m # << >> /\ row.dataset = asks[m[Len(m)]].dataset
    /\ row.state = None => Latest(m) = {}
    /\ row.state # None =>
          /\ \E i \in Latest(m) : row.state.question = m[i]
          /\ asks[row.state.question].revision = row.state.revision

Told(s) ==
    /\ \A i \in 1..Len(messages[s]) : asks[messages[s][i]].stage = "done"
    /\ rows[s] = None => messages[s] = << >>
    /\ NamesDatasets(messages[s]) /\ rows[s] # None => Agree(rows[s], messages[s])

AwaitedInv ==
    /\ ConversationInv
    /\ Alone /\ \A q \in Questions : Current(q)
    /\ \A s \in Sessions : Told(s)

Act(q) ==
    \/ Query(q) \/ ReadHistory(q) \/ Answered(q) \/ Failed(q) \/ Stored(q)
    \/ NotStored(q) \/ RunSql(q) \/ SummaryStored(q) \/ SummaryNotStored(q)

(* A step is one of the only request there is.                             *)
LEMMA OnlyOne ==
    ASSUME ConversationInv, Alone, ~Overlap, NEW q \in Questions, Act(q)
    PROVE  \A p \in Questions \ {q} :
              ~ Busy(p) /\ asks'[p] = asks[p] /\ calls'[p] = calls[p]
<1>1. CASE Query(q) \/ RunSql(q)
  BY <1>1 DEF Query, RunSql, Quiet, Busy, ConversationInv, TypeOK
<1>2. CASE ReadHistory(q) \/ Answered(q) \/ Failed(q)
  BY <1>2 DEF ReadHistory, Answered, Failed, Alone, Busy, ConversationInv, TypeOK
<1>3. CASE Stored(q) \/ NotStored(q)
  BY <1>3 DEF Stored, NotStored, Closed, Alone, Busy, ConversationInv, TypeOK
<1>4. CASE SummaryStored(q) \/ SummaryNotStored(q)
  BY <1>4 DEF SummaryStored, SummaryNotStored, Alone, Busy, ConversationInv, TypeOK
<1>5. QED
  BY <1>1, <1>2, <1>3, <1>4 DEF Act

LEMMA StillAlone ==
    ASSUME ConversationInv, Alone, ~Overlap, NEW q \in Questions, Act(q), Current(q)'
    PROVE  Alone' /\ \A p \in Questions : Current(p)'
<1>1. \A p \in Questions \ {q} : ~ Busy(p)'
  BY OnlyOne DEF Busy
<1>2. QED
  BY <1>1 DEF Alone, Current, Busy

-----------------------------------------------------------------------------
(* The request in flight.                                                  *)

LEMMA AskCurrent ==
    ASSUME ConversationInv, NEW q \in Questions, Current(q),
           Query(q) \/ ReadHistory(q) \/ Answered(q) \/ Failed(q)
    PROVE  Current(q)'
<1>1. /\ asks \in [Questions -> Ask] /\ calls' = calls /\ rows' = rows
      /\ asks[q] \in Ask /\ calls[q] = None
  BY DEF ConversationInv, TypeOK, SoundCall, Query, ReadHistory, Answered, Failed
<1>2. CASE Query(q)
  <2>1. PICK s \in Sessions, d \in Scopes, k \in Asked :
          asks' = [asks EXCEPT ![q] = [NewAsk EXCEPT
              !.stage = "history", !.session = s, !.kind = k, !.dataset = d,
              !.context = VisibleState(rows[s], d)]]
    BY <1>2 DEF Query
  <2>2. /\ asks'[q].stage = "history" /\ asks'[q].session = s /\ asks'[q].dataset = d
        /\ asks'[q].context = VisibleState(rows[s], d)
    BY <1>1, <2>1 DEF NewAsk
  <2>3. QED
    BY <1>1, <2>2 DEF Current
<1>3. CASE ReadHistory(q)
  <2> DEFINE n == VisibleMessages(rows[asks[q].session], asks[q].dataset, messages[asks[q].session])
             ask == [asks[q] EXCEPT !.stage = "llm", !.seen = n]
  <2>1. asks' = [asks EXCEPT ![q] = ask] /\ asks[q].stage = "history"
    BY <1>1, <1>3 DEF ReadHistory, Ask
  <2>2. /\ ask.stage = "llm" /\ ask.session = asks[q].session /\ ask.dataset = asks[q].dataset
        /\ ask.context = asks[q].context
    BY <1>1 DEF Ask
  <2> HIDE DEF ask
  <2>3. asks'[q] = ask
    BY <1>1, <2>1
  <2>4. QED
    BY <1>1, <2>1, <2>2, <2>3 DEF Current
<1>4. ASSUME NEW answer \in Answers, asks[q].stage = "llm",
             asks' = [asks EXCEPT ![q] = Storing(asks[q], answer)]
      PROVE  Current(q)'
  <2> DEFINE ask == Storing(asks[q], answer)
  <2>1. /\ ask.stage = "write" /\ ask.session = asks[q].session /\ ask.dataset = asks[q].dataset
        /\ ask.context = asks[q].context /\ ask.read = rows[asks[q].session]
        /\ ask.sql = answer.sql
        /\ ask.sql # None => ask.revision = IF asks[q].context = None THEN 1
                                            ELSE asks[q].context.revision + 1
    BY <1>1 DEF Storing, Ask
  <2> HIDE DEF ask
  <2>2. asks'[q] = ask
    BY <1>1, <1>4 DEF ask
  <2>3. QED
    BY <1>1, <1>4, <2>1, <2>2 DEF Current
<1>5. NoSql \in Answers
  BY DEF NoSql, Answers
<1>6. QED
  BY <1>2, <1>3, <1>4, <1>5, AnswersType DEF Answered, Failed

LEMMA RunCurrent ==
    ASSUME ConversationInv, NEW q \in Questions,
           RunSql(q) \/ SummaryStored(q) \/ SummaryNotStored(q)
    PROVE  Current(q)'
<1>1. asks' = asks /\ asks[q].stage = "done"
  BY DEF ConversationInv, SoundCall, RunSql, SummaryStored, SummaryNotStored
<1>2. CASE RunSql(q)
  BY <1>1, <1>2 DEF RunSql, Current, ConversationInv, TypeOK
<1>3. CASE SummaryStored(q) \/ SummaryNotStored(q)
  <2>1. calls'[q] = None
    BY <1>3 DEF SummaryStored, SummaryNotStored, ConversationInv, TypeOK
  <2>2. QED
    BY <1>1, <2>1 DEF Current
<1>4. QED
  BY <1>2, <1>3

LEMMA ClosedCurrent ==
    ASSUME ConversationInv, NEW q \in Questions, Stored(q) \/ NotStored(q)
    PROVE  Current(q)'
<1>1. Closed(q) /\ asks[q].stage = "write" /\ calls' = calls /\ calls[q] = None
  BY DEF Stored, NotStored, ConversationInv, SoundCall
<1>2. asks'[q].stage = "done"
  <2>1. asks'[q] = [asks[q] EXCEPT !.stage = "done", !.context = None, !.read = None]
    BY <1>1, ClosedAsks DEF ConversationInv
  <2>2. asks[q] \in Ask
    BY DEF ConversationInv, TypeOK
  <2>3. QED
    BY <2>1, <2>2 DEF Ask
<1>3. QED
  BY <1>1, <1>2 DEF Current

-----------------------------------------------------------------------------
(* The messages and the row.                                               *)

(* What messages tell is of settled questions, which stay as they are.     *)
LEMMA AgreeKept ==
    ASSUME TypeOK, NEW m \in Seq(Questions), NEW row \in Row, Agree(row, m),
           \A i \in 1..Len(m) : asks[m[i]].stage = "done",
           \A p \in Questions : asks[p].stage = "done" => asks'[p] = asks[p]
    PROVE  Agree(row, m)'
<1>1. \A i \in 1..Len(m) : m[i] \in Questions /\ asks'[m[i]] = asks[m[i]]
  OBVIOUS
<1>2. \A i \in 1..Len(m) : IsLatestQuery(m, i) <=> IsLatestQuery(m, i)'
  BY <1>1 DEF IsLatestQuery
<1>3. Latest(m) = Latest(m)'
  BY <1>2 DEF Latest
<1>4. Len(m) \in 1..Len(m)
  BY DEF Agree
<1>5. asks'[m[Len(m)]] = asks[m[Len(m)]]
  BY <1>1, <1>4
<1>6. row.state # None => asks'[row.state.question] = asks[row.state.question]
  BY <1>1 DEF Agree, Latest
<1>7. QED
  BY <1>3, <1>5, <1>6 DEF Agree

LEMMA ToldKept ==
    ASSUME TypeOK, NEW s \in Sessions, Told(s), rows'[s] = rows[s], messages'[s] = messages[s],
           \A p \in Questions : asks[p].stage = "done" => asks'[p] = asks[p]
    PROVE  Told(s)'
<1>1. messages[s] \in Seq(Questions) /\ rows[s] \in Row \cup {None}
  BY DEF TypeOK
<1>2. \A i \in 1..Len(messages[s]) : /\ asks[messages[s][i]].stage = "done"
                                     /\ asks'[messages[s][i]] = asks[messages[s][i]]
  BY <1>1 DEF Told
<1>3. NamesDatasets(messages[s])' => NamesDatasets(messages[s])
  BY <1>2 DEF NamesDatasets
<1>4. NamesDatasets(messages[s]) /\ rows[s] # None => Agree(rows[s], messages[s])'
  BY <1>1, <1>2, AgreeKept DEF Told
<1>5. QED
  BY <1>2, <1>3, <1>4 DEF Told

(* The rest of a Stored: the message is added, the question is settled.    *)
LEMMA MessageAdded ==
    ASSUME ConversationInv, NEW q \in Questions, Stored(q), Told(asks[q].session)
    PROVE  LET s == asks[q].session
               m == messages[s]
           IN  /\ s \in Sessions /\ m \in Seq(Questions)
               /\ messages'[s] = Append(m, q)
               /\ Len(messages'[s]) = Len(m) + 1 /\ messages'[s][Len(m) + 1] = q
               /\ \A i \in 1..Len(m) : /\ messages'[s][i] = m[i]
                                       /\ m[i] \in Questions
                                       /\ asks[m[i]].stage = "done"
                                       /\ asks'[m[i]] = asks[m[i]]
               /\ asks'[q] = [asks[q] EXCEPT !.stage = "done", !.context = None, !.read = None]
               /\ asks'[q].stage = "done" /\ asks'[q].dataset = asks[q].dataset
               /\ asks'[q].sql = asks[q].sql /\ asks'[q].revision = asks[q].revision
<1> DEFINE s == asks[q].session
           m == messages[s]
<1>1. asks[q].stage = "write" /\ Closed(q) /\ messages' = [messages EXCEPT ![s] = Append(@, q)]
  BY DEF Stored
<1>2. s \in Sessions /\ m \in Seq(Questions) /\ asks[q] \in Ask
  BY <1>1 DEF ConversationInv, TypeOK, SoundAsk
<1>3. /\ asks'[q] = [asks[q] EXCEPT !.stage = "done", !.context = None, !.read = None]
      /\ \A p \in Questions : asks[p].stage = "done" => asks'[p] = asks[p]
  BY <1>1, ClosedAsks DEF ConversationInv
<1>4. messages'[s] = Append(m, q)
  BY <1>1, <1>2 DEF ConversationInv, TypeOK
<1>5. \A i \in 1..Len(m) : m[i] \in Questions /\ asks[m[i]].stage = "done"
  BY <1>2 DEF Told
<1> HIDE DEF s, m
<1>6. /\ Len(messages'[s]) = Len(m) + 1 /\ messages'[s][Len(m) + 1] = q
      /\ \A i \in 1..Len(m) : messages'[s][i] = m[i]
  BY ONLY <1>2, <1>4
<1>7. /\ asks'[q].stage = "done" /\ asks'[q].dataset = asks[q].dataset
      /\ asks'[q].sql = asks[q].sql /\ asks'[q].revision = asks[q].revision
  BY <1>2, <1>3 DEF Ask
<1>8. QED
  BY <1>2, <1>3, <1>4, <1>5, <1>6, <1>7 DEF s, m

(* A row nobody changed becomes the one made of it.                        *)
LEMMA AwaitedRow ==
    ASSUME ConversationInv, NEW q \in Questions, Stored(q), Current(q)
    PROVE  rows'[asks[q].session] = AnsweredRow(q, asks[q])
<1> DEFINE s == asks[q].session
           read == asks[q].read
           new == AnsweredRow(q, asks[q])
<1>1. s \in Sessions /\ read = rows[s] /\ read \in Row \cup {None} /\ new \in Row
  BY AnsweredType DEF Stored, Current, ConversationInv, TypeOK, SoundAsk
<1>2. rows'[s] = IF read = None THEN new ELSE Updated(rows[s], read, new)
  BY <1>1 DEF Stored, ConversationInv, TypeOK
<1> HIDE DEF s, read, new
<1>3. read # None => Updated(read, read, new) = new
  BY <1>1 DEF Updated, Row
<1>4. QED
  BY <1>1, <1>2, <1>3 DEF s, new

(* What the answer of q makes of the row, in a conversation whose messages *)
(* name their datasets.                                                    *)
LEMMA AnswerTold ==
    ASSUME ConversationInv, NEW q \in Questions, Stored(q), Current(q), Told(asks[q].session),
           asks[q].dataset # None, NamesDatasets(messages[asks[q].session])
    PROVE  LET row == rows[asks[q].session]
               new == AnsweredRow(q, asks[q])
               same == row # None /\ row.dataset = asks[q].dataset
           IN  /\ new.dataset = asks[q].dataset
               /\ asks[q].sql = None => new.state = IF same THEN row.state ELSE None
               /\ asks[q].sql # None => /\ new.state # None /\ new.state.question = q
                                        /\ new.state.revision = asks[q].revision
<1> DEFINE ask == asks[q]
           s == ask.session
           d == ask.dataset
           row == rows[s]
           answer == [sql |-> ask.sql, mode |-> ask.mode]
           opened == OpenedRow(row, d)
           new == AnsweredRow(q, ask)
           kept == Kept(opened.state, d)
<1>1. /\ s \in Sessions /\ ask \in Ask /\ ask.stage = "write" /\ ask.read = row
      /\ row \in Row \cup {None} /\ messages[s] \in Seq(Questions)
      /\ ask.context = VisibleState(row, d)
      /\ ask.sql # None => ask.revision = IF ask.context = None THEN 1 ELSE ask.context.revision + 1
  BY DEF Stored, Current, ConversationInv, TypeOK, SoundAsk
<1>2. opened \in Row
  BY <1>1, OpenedType DEF Ask
<1>3. new = [opened EXCEPT !.state = BuiltState(q, answer, d, opened.state)]
  BY <1>1 DEF AnsweredRow
<1>4. answer.sql = ask.sql /\ d # None
  OBVIOUS
<1>5. (* the state is one of the dataset of the row *)
      ASSUME row # None, row.state # None
      PROVE  row.state.dataset = row.dataset /\ row.dataset # None
  <2>1. Agree(row, messages[s])
    BY <1>5 DEF Told
  <2>2. PICK i \in 1..Len(messages[s]) :
           row.state.question = messages[s][i] /\ IsLatestQuery(messages[s], i)
    BY <1>5, <2>1 DEF Agree, Latest
  <2>3. Len(messages[s]) \in Nat /\ Len(messages[s]) \in 1..Len(messages[s])
    BY <1>1, <2>2
  <2>4. asks[messages[s][Len(messages[s])]].dataset = asks[messages[s][i]].dataset
    <3>1. Len(messages[s]) = i \/ Len(messages[s]) \in (i + 1)..Len(messages[s])
      BY <2>3
    <3>2. QED
      BY <3>1, <2>2 DEF IsLatestQuery
  <2>5. asks[messages[s][i]].dataset # None
    BY <2>2 DEF NamesDatasets
  <2>6. row.state.dataset = asks[row.state.question].dataset
    BY <1>1, <1>5 DEF ConversationInv, SettledRow, Settled
  <2>7. QED
    BY <2>1, <2>2, <2>4, <2>5, <2>6 DEF Agree
<1>6. opened.dataset = d /\ opened.state = IF row # None /\ row.dataset = d THEN row.state ELSE None
  BY <1>4 DEF OpenedRow
<1>7. ask.context = IF row # None /\ row.dataset = d THEN row.state ELSE None
  <2>1. row # None /\ row.state # None => StateDataset(row) = row.dataset
    BY <1>5 DEF StateDataset
  <2> HIDE DEF ask, d, row
  <2>2. QED
    BY <1>1, <1>4, <2>1 DEF VisibleState
<1>8. kept = opened.state
  BY <1>5, <1>6 DEF Kept
<1> HIDE DEF ask, s, d, row, answer, opened, new, kept
<1>9. new.dataset = d /\ new.state = BuiltState(q, answer, d, opened.state)
  BY <1>2, <1>3, <1>6 DEF Row
<1>10. CASE ask.sql = None
  <2>1. new.state = opened.state
    BY <1>4, <1>9, <1>10 DEF BuiltState
  <2>2. QED
    BY <1>6, <1>9, <1>10, <2>1 DEF ask, s, d, row, new
<1>11. CASE ask.sql # None
  <2>1. new.state = NewState(q, answer, d, kept)
    BY <1>4, <1>9, <1>11 DEF BuiltState, kept
  <2>2. new.state.question = q /\ new.state.revision = IF kept # None THEN kept.revision + 1 ELSE 1
    BY <2>1 DEF NewState
  <2>3. new.state # None
    <3>1. answer \in Answers /\ kept \in WorkingState \cup {None} /\ d \in Datasets \cup {None}
      BY <1>1, <1>2, <1>8 DEF answer, Answers, Ask, Row, d
    <3>2. new.state \in WorkingState
      BY <1>4, <1>11, <2>1, <3>1, NewStateType
    <3>3. QED
      BY <3>2
  <2>4. QED
    BY <1>1, <1>6, <1>7, <1>8, <1>9, <1>11, <2>2, <2>3 DEF ask, s, d, row, new
<1>12. QED
  BY <1>10, <1>11

(* What the messages tell once q is added to them: its own query, or else  *)
(* what they told, if it did not change the dataset.                       *)
LEMMA LatestAdded ==
    ASSUME NEW q \in Questions, NEW m \in Seq(Questions), NEW n, n = Append(m, q),
           \A i \in 1..Len(m) : asks'[m[i]] = asks[m[i]]
    PROVE  /\ asks'[q].sql # None => Latest(n)' = {Len(n)}
           /\ asks'[q].sql = None =>
                 Latest(n)' = {i \in Latest(m) : asks[m[i]].dataset = asks'[q].dataset}
<1> DEFINE L == Len(m)
<1>1. /\ L \in Nat /\ Len(n) = L + 1 /\ n[L + 1] = q
      /\ \A i \in 1..L : n[i] = m[i] /\ asks'[n[i]] = asks[m[i]]
  OBVIOUS
<1> HIDE DEF L
<1>2. Latest(n)' = {i \in 1..(L + 1) : IsLatestQuery(n, i)'}
  BY <1>1 DEF Latest
<1>3. Latest(m) = {i \in 1..L : IsLatestQuery(m, i)}
  BY DEF Latest, L
<1>4. IsLatestQuery(n, L + 1)' <=> asks'[q].sql # None
  BY <1>1 DEF IsLatestQuery
<1>5. ASSUME NEW i \in 1..L
      PROVE  IsLatestQuery(n, i)' <=> /\ IsLatestQuery(m, i) /\ asks'[q].sql = None
                                      /\ asks[m[i]].dataset = asks'[q].dataset
  <2>1. (i + 1)..(L + 1) = ((i + 1)..L) \cup {L + 1} /\ (i + 1)..L \subseteq 1..L
    BY <1>1
  <2>2. IsLatestQuery(n, i)' <=>
          /\ asks'[n[i]].sql # None
          /\ \A j \in (i + 1)..(L + 1) : asks'[n[j]].sql = None
          /\ \A j \in (i + 1)..(L + 1) : asks'[n[j]].dataset = asks'[n[i]].dataset
    BY <1>1 DEF IsLatestQuery
  <2>3. IsLatestQuery(m, i) <=>
          /\ asks[m[i]].sql # None
          /\ \A j \in (i + 1)..L : asks[m[j]].sql = None
          /\ \A j \in (i + 1)..L : asks[m[j]].dataset = asks[m[i]].dataset
    BY DEF IsLatestQuery, L
  <2>4. /\ asks'[n[i]] = asks[m[i]] /\ n[L + 1] = q
        /\ \A j \in (i + 1)..L : asks'[n[j]] = asks[m[j]]
    BY <1>1, <2>1
  <2>5. CASE asks'[q].sql = None /\ asks[m[i]].dataset = asks'[q].dataset
    BY ONLY <2>1, <2>2, <2>3, <2>4, <2>5
  <2>6. CASE ~ (asks'[q].sql = None /\ asks[m[i]].dataset = asks'[q].dataset)
    BY ONLY <2>1, <2>2, <2>4, <2>6
  <2>7. QED
    BY <2>5, <2>6
<1>6. L + 1 \in 1..(L + 1) /\ 1..(L + 1) = 1..L \cup {L + 1}
  BY <1>1
<1>7. QED
  BY <1>1, <1>2, <1>3, <1>4, <1>5, <1>6

(* All queries of Latest are of the dataset of the last message.           *)
LEMMA LatestOfLast ==
    ASSUME NEW m \in Seq(Questions), NEW i \in Latest(m)
    PROVE  asks[m[i]].dataset = asks[m[Len(m)]].dataset
<1>1. Len(m) \in Nat /\ i \in 1..Len(m) /\ IsLatestQuery(m, i)
  BY DEF Latest
<1>2. i = Len(m) \/ Len(m) \in (i + 1)..Len(m)
  BY <1>1
<1>3. QED
  BY <1>1, <1>2 DEF IsLatestQuery

LEMMA AgreeAdded ==
    ASSUME ConversationInv, NEW q \in Questions, Stored(q), Current(q), Told(asks[q].session),
           NEW m, m = messages[asks[q].session], NEW n, n = Append(m, q),
           NEW new, new = AnsweredRow(q, asks[q]),
           asks[q].dataset # None, NamesDatasets(m)
    PROVE  Agree(new, n)'
<1> DEFINE s == asks[q].session
           row == rows[s]
           d == asks[q].dataset
           same == row # None /\ row.dataset = d
<1>0. /\ ConversationInv /\ q \in Questions /\ Stored(q) /\ Told(asks[q].session)
      /\ m = messages[asks[q].session] /\ n = Append(m, q)
  OBVIOUS
<1>1. /\ s \in Sessions /\ m \in Seq(Questions)
      /\ \A i \in 1..Len(m) : m[i] \in Questions /\ asks'[m[i]] = asks[m[i]]
      /\ asks'[q].dataset = d /\ asks'[q].sql = asks[q].sql
      /\ asks'[q].revision = asks[q].revision
  BY ONLY <1>0, MessageAdded
<1>2. /\ new.dataset = d
      /\ asks[q].sql = None => new.state = IF same THEN row.state ELSE None
      /\ asks[q].sql # None => /\ new.state # None /\ new.state.question = q
                               /\ new.state.revision = asks[q].revision
  BY AnswerTold
<1>3. row # None => Agree(row, m)
  BY DEF Told
<1>4. row = None => m = << >>
  BY DEF Told
<1>5. /\ asks'[q].sql # None => Latest(n)' = {Len(n)}
      /\ asks'[q].sql = None =>
            Latest(n)' = {i \in Latest(m) : asks[m[i]].dataset = d}
  <2>1. asks'[q].dataset = d /\ m \in Seq(Questions) /\ \A i \in 1..Len(m) : asks'[m[i]] = asks[m[i]]
    BY <1>1
  <2>2. /\ asks'[q].sql # None => Latest(n)' = {Len(n)}
        /\ asks'[q].sql = None =>
              Latest(n)' = {i \in Latest(m) : asks[m[i]].dataset = asks'[q].dataset}
    BY ONLY <1>0, <2>1, LatestAdded, ZenonT(60)
  <2> HIDE DEF d
  <2>3. QED
    BY ONLY <2>1, <2>2
<1>6. /\ Len(m) \in Nat /\ n # << >> /\ Len(n) = Len(m) + 1 /\ n[Len(n)] = q
      /\ \A i \in 1..Len(m) : n[i] = m[i]
  BY <1>1
<1>7. \A i \in Latest(m) : asks[m[i]].dataset = asks[m[Len(m)]].dataset /\ i \in 1..Len(m)
  BY <1>1, LatestOfLast DEF Latest
<1> HIDE DEF s, row, d
<1>8. n # << >> /\ new.dataset = asks'[n[Len(n)]].dataset
  BY <1>1, <1>2, <1>6
<1>9. CASE asks[q].sql # None
  <2>1. new.state # None /\ new.state.question = n[Len(n)] /\ Len(n) \in Latest(n)'
    BY <1>1, <1>2, <1>5, <1>6, <1>9
  <2>2. asks'[new.state.question].revision = new.state.revision
    BY <1>1, <1>2, <1>9
  <2>3. QED
    BY <1>8, <2>1, <2>2 DEF Agree
<1>10. CASE asks[q].sql = None /\ same
  <2>1. Agree(row, m) /\ new.state = row.state
    BY <1>2, <1>3, <1>10
  <2>2. Latest(n)' = Latest(m)
    <3>1. asks'[q].sql = None
      BY <1>1, <1>10
    <3>2. d = asks[m[Len(m)]].dataset
      BY <1>10, <2>1 DEF Agree
    <3>3. \A i \in Latest(m) : asks[m[i]].dataset = d
      BY ONLY <1>7, <3>2
    <3>4. QED
      BY ONLY <1>5, <3>1, <3>3
  <2>3. ASSUME new.state # None
        PROVE  /\ \E i \in Latest(n)' : new.state.question = n[i]
               /\ asks'[new.state.question].revision = new.state.revision
    <3>1. PICK i \in Latest(m) : new.state.question = m[i]
      BY <2>1, <2>3 DEF Agree
    <3>2. i \in Latest(n)' /\ n[i] = m[i] /\ asks'[m[i]] = asks[m[i]]
      BY <1>1, <1>6, <1>7, <2>2, <3>1
    <3>3. asks[new.state.question].revision = new.state.revision
      BY <2>1, <2>3 DEF Agree
    <3>4. QED
      BY <3>1, <3>2, <3>3
  <2>4. new.state = None => Latest(n)' = {}
    BY <2>1, <2>2 DEF Agree
  <2>5. QED
    BY <1>8, <2>3, <2>4 DEF Agree
<1>11. CASE asks[q].sql = None /\ ~ same
  <2>1. new.state = None
    BY <1>2, <1>11
  <2>2. Latest(n)' = {}
    <3>1. CASE row = None
      <4>1. Latest(m) = {}
        BY <1>4, <1>7, <3>1
      <4>2. QED
        BY <1>1, <1>5, <1>11, <4>1
    <3>2. CASE row # None
      BY <1>1, <1>3, <1>5, <1>7, <1>11, <3>2 DEF Agree
    <3>3. QED
      BY <3>1, <3>2
  <2>3. QED
    BY <1>8, <2>1, <2>2 DEF Agree
<1>12. QED
  BY <1>9, <1>10, <1>11

LEMMA StoredTold ==
    ASSUME ConversationInv, NEW q \in Questions, Stored(q), Current(q), Told(asks[q].session)
    PROVE  Told(asks[q].session)' /\ asks'[q].session = asks[q].session
<1> DEFINE m == messages[asks[q].session]
           n == Append(m, q)
<1>0. ConversationInv /\ q \in Questions /\ Stored(q) /\ Told(asks[q].session)
  OBVIOUS
<1>1. PICK s \in Sessions : s = asks[q].session
  BY MessageAdded
<1>2. /\ m \in Seq(Questions) /\ messages'[s] = n
      /\ Len(n) = Len(m) + 1 /\ n[Len(m) + 1] = q
      /\ \A i \in 1..Len(m) : /\ n[i] = m[i] /\ m[i] \in Questions
                              /\ asks[m[i]].stage = "done" /\ asks'[m[i]] = asks[m[i]]
      /\ asks'[q].stage = "done" /\ asks'[q].dataset = asks[q].dataset
      /\ asks'[q] = [asks[q] EXCEPT !.stage = "done", !.context = None, !.read = None]
  <2>1. /\ m \in Seq(Questions) /\ messages'[s] = n
        /\ Len(messages'[s]) = Len(m) + 1 /\ messages'[s][Len(m) + 1] = q
        /\ \A i \in 1..Len(m) : /\ messages'[s][i] = m[i] /\ m[i] \in Questions
                                /\ asks[m[i]].stage = "done" /\ asks'[m[i]] = asks[m[i]]
        /\ asks'[q].stage = "done" /\ asks'[q].dataset = asks[q].dataset
        /\ asks'[q] = [asks[q] EXCEPT !.stage = "done", !.context = None, !.read = None]
    BY ONLY <1>0, <1>1, MessageAdded, ZenonT(60)
  <2> HIDE DEF n, m
  <2>2. QED
    BY ONLY <2>1
<1>3. rows'[s] = AnsweredRow(q, asks[q]) /\ AnsweredRow(q, asks[q]) \in Row /\ asks[q] \in Ask
  BY <1>1, AwaitedRow, AnsweredType DEF ConversationInv, TypeOK
<1>4. asks'[q].session = s
  BY <1>1, <1>2, <1>3 DEF Ask
<1> HIDE DEF m, n
<1>5. Len(m) \in Nat /\ 1..Len(n) = 1..Len(m) \cup {Len(m) + 1} /\ Len(m) + 1 \in 1..Len(n)
  BY <1>2
<1>6. \A i \in 1..Len(messages'[s]) : asks'[messages'[s][i]].stage = "done"
  <2>1. ASSUME NEW i \in 1..Len(n)
        PROVE  asks'[n[i]].stage = "done"
    <3>1. CASE i \in 1..Len(m)
      BY ONLY <1>2, <3>1
    <3>2. CASE i = Len(m) + 1
      BY ONLY <1>2, <3>2
    <3>3. QED
      BY <1>5, <3>1, <3>2
  <2>2. QED
    BY <1>2, <2>1
<1>7. ASSUME NamesDatasets(messages[s])'
      PROVE  Agree(rows[s], messages[s])'
  <2>1. \A i \in 1..Len(n) : asks'[n[i]].dataset # None
    BY <1>2, <1>7 DEF NamesDatasets
  <2>2. asks[q].dataset # None
    BY <1>2, <1>5, <2>1
  <2>3. \A i \in 1..Len(m) : asks[m[i]].dataset # None
    BY <1>2, <1>5, <2>1
  <2>4. NamesDatasets(m)
    BY <2>3 DEF NamesDatasets
  <2>5. ASSUME NEW new, new = AnsweredRow(q, asks[q]), NEW added, added = n
        PROVE  Agree(rows[s], messages[s])'
    <3>1. ConversationInv /\ q \in Questions /\ Stored(q) /\ Current(q) /\ Told(asks[q].session)
      OBVIOUS
    <3>2. m = messages[asks[q].session] /\ added = Append(m, q)
      BY <2>5 DEF m, n
    <3>3. ASSUME NEW old, old = m
          PROVE  Agree(new, added)'
      BY ONLY <2>2, <2>4, <2>5, <3>1, <3>2, <3>3, AgreeAdded
    <3>4. Agree(new, added)'
      BY <3>3
    <3>5. new = rows'[s] /\ added = messages'[s]
      BY <1>2, <1>3, <2>5
    <3>6. QED
      BY <3>4, <3>5 DEF Agree
  <2>6. QED
    BY <2>5
<1>8. rows'[s] # None
  BY <1>3
<1>9. Told(s)'
  BY <1>6, <1>7, <1>8 DEF Told
<1>10. QED
  BY <1>1, <1>4, <1>9

(* A summary changes nothing of what the messages tell.                    *)
LEMMA SummaryTold ==
    ASSUME ConversationInv, NEW q \in Questions, SummaryStored(q), Current(q), Told(asks[q].session)
    PROVE  Told(asks[q].session)'
<1> DEFINE read == calls[q].read
<1>1. PICK s \in Sessions : s = asks[q].session
  BY DEF ConversationInv, TypeOK, SummaryStored, SoundCall, SoundAsk
<1>2. /\ messages' = messages /\ asks' = asks
      /\ read = rows[s] /\ rows[s] \in Row \cup {None}
      /\ messages[s] \in Seq(Questions)
  BY <1>1 DEF ConversationInv, TypeOK, SummaryStored, Current
<1>3. ASSUME read # None, read.state # None
      PROVE  /\ rows'[s] # None /\ rows'[s].dataset = rows[s].dataset
             /\ rows[s].state # None /\ rows'[s].state # None
             /\ rows'[s].state.question = rows[s].state.question
             /\ rows'[s].state.revision = rows[s].state.revision
  <2>1. read \in Row /\ read.state \in WorkingState
    BY <1>2, <1>3 DEF Row
  <2>2. rows' = [rows EXCEPT ![s].state = SummarizedRow(read, q).state]
    BY <1>1, <1>3 DEF SummaryStored
  <2>3. SummarizedRow(read, q).state = [read.state EXCEPT !.ran = q]
    BY <1>3, <2>1 DEF SummarizedRow, Row
  <2> DEFINE state == [read.state EXCEPT !.ran = q]
  <2>4. /\ state \in WorkingState
        /\ state.question = read.state.question /\ state.revision = read.state.revision
    BY <2>1 DEF WorkingState
  <2> HIDE DEF state
  <2>5. state # None
    BY <2>4
  <2> DEFINE row == [rows[s] EXCEPT !.state = state]
  <2>6. rows' = [rows EXCEPT ![s] = row]
    BY <2>2, <2>3, <1>2 DEF ConversationInv, TypeOK, state
  <2>7. row.state = state /\ row.dataset = rows[s].dataset /\ row \in Row
    BY <1>2, <2>1, <2>4 DEF Row
  <2> HIDE DEF row
  <2>8. rows'[s] = row
    BY <2>6 DEF ConversationInv, TypeOK
  <2>9. QED
    BY <1>2, <1>3, <2>4, <2>5, <2>7, <2>8
<1>4. Told(asks[q].session) /\ rows[s] # None /\ NamesDatasets(messages[s])
        => Agree(rows[s], messages[s])
  BY <1>1 DEF Told
<1>5. CASE read # None /\ read.state # None
  <2>1. \A i \in 1..Len(messages[s]) : IsLatestQuery(messages[s], i)' <=> IsLatestQuery(messages[s], i)
    BY <1>2 DEF IsLatestQuery
  <2>2. Latest(messages[s])' = Latest(messages[s])
    BY <1>2, <2>1 DEF Latest
  <2>3. NamesDatasets(messages[s])' <=> NamesDatasets(messages[s])
    BY <1>2 DEF NamesDatasets
  <2>4. NamesDatasets(messages[s])' => Agree(rows[s], messages[s])'
    BY <1>2, <1>3, <1>4, <1>5, <2>2, <2>3 DEF Agree
  <2>5. QED
    BY <1>1, <1>2, <1>3, <1>5, <2>4 DEF Told
<1>6. CASE read = None \/ (read # None /\ read.state = None)
  <2>1. rows' = rows
    BY <1>6 DEF SummaryStored
  <2>2. QED
    BY <1>1, <1>2, <2>1, ToldKept DEF ConversationInv
<1>7. QED
  BY <1>5, <1>6

LEMMA StepTold ==
    ASSUME ConversationInv, [Next]_vars, ~Overlap, NEW q \in Questions, Act(q), Current(q),
           NEW s \in Sessions, Told(s)
    PROVE  Told(s)'
<1>1. \A p \in Questions : asks[p].stage = "done" => asks'[p] = asks[p]
  BY DoneStays DEF ConversationInv
<1>2. CASE rows'[s] = rows[s] /\ messages'[s] = messages[s]
  BY <1>1, <1>2, ToldKept DEF ConversationInv
<1>3. CASE Stored(q)
  <2>1. CASE s = asks[q].session
    BY <1>3, <2>1, StoredTold
  <2>2. CASE s # asks[q].session
    BY <1>2, <1>3, <2>2 DEF Stored, ConversationInv, TypeOK
  <2>3. QED
    BY <2>1, <2>2
<1>4. CASE SummaryStored(q)
  <2>1. CASE s = asks[q].session
    <3>1. asks' = asks
      BY <1>4 DEF SummaryStored
    <3>2. Told(asks[q].session)'
      BY <1>4, <2>1, SummaryTold
    <3>3. QED
      BY <2>1, <3>1, <3>2
  <2>2. CASE s # asks[q].session
    BY <1>2, <1>4, <2>2 DEF SummaryStored, ConversationInv, TypeOK
  <2>3. QED
    BY <2>1, <2>2
<1>5. QED
  BY <1>2, <1>3, <1>4 DEF Act, Query, ReadHistory, Answered, Failed, NotStored, RunSql, SummaryNotStored

LEMMA ActCurrent ==
    ASSUME ConversationInv, NEW q \in Questions, Current(q), Act(q)
    PROVE  Current(q)'
BY AskCurrent, RunCurrent, ClosedCurrent DEF Act

LEMMA AwaitedStep == ~Overlap /\ AwaitedInv /\ [Next]_vars => AwaitedInv'
<1>1. SUFFICES ASSUME ~Overlap, AwaitedInv, [Next]_vars
               PROVE  AwaitedInv'
  OBVIOUS
<1>2. ConversationInv'
  BY <1>1, NextSound DEF AwaitedInv
<1>3. CASE UNCHANGED vars
  <2>1. Alone' /\ \A q \in Questions : Current(q)'
    BY <1>1, <1>3 DEF AwaitedInv, vars, Alone, Busy, Current
  <2>2. ASSUME NEW s \in Sessions
        PROVE  Told(s)'
    BY <1>1, <1>3, ToldKept DEF AwaitedInv, vars, ConversationInv
  <2>3. QED
    BY <1>2, <2>1, <2>2 DEF AwaitedInv
<1>4. ASSUME NEW q \in Questions, Act(q)
      PROVE  AwaitedInv'
  <2>1. ConversationInv /\ Alone /\ Current(q) /\ \A s \in Sessions : Told(s)
    BY <1>1 DEF AwaitedInv
  <2>2. Current(q)'
    BY <1>4, <2>1, ActCurrent
  <2>3. Alone' /\ \A p \in Questions : Current(p)'
    BY <1>1, <1>4, <2>1, <2>2, StillAlone
  <2>4. \A s \in Sessions : Told(s)'
    BY <1>1, <1>4, <2>1, StepTold
  <2>5. QED
    BY <1>2, <2>3, <2>4 DEF AwaitedInv
<1>5. QED
  BY <1>1, <1>3, <1>4 DEF Next, Act

LEMMA AwaitedInit == Init => AwaitedInv
<1>1. SUFFICES ASSUME Init
               PROVE  AwaitedInv
  OBVIOUS
<1>2. ConversationInv
  BY <1>1, InitSound
<1>3. Alone /\ \A q \in Questions : Current(q)
  BY <1>1 DEF Init, NewAsk, Alone, Busy, Current
<1>4. \A s \in Sessions : Told(s)
  BY <1>1 DEF Init, Told
<1>5. QED
  BY <1>2, <1>3, <1>4 DEF AwaitedInv

LEMMA AwaitedTells == AwaitedInv => StateIsLatestQuery /\ RevisionOfAnswer
<1>1. SUFFICES ASSUME AwaitedInv, NEW s \in Sessions, NamesDatasets(messages[s]), rows[s] # None
               PROVE  /\ IF Latest(messages[s]) = {} THEN rows[s].state = None
                         ELSE /\ rows[s].state # None
                              /\ \E i \in Latest(messages[s]) : rows[s].state.question = messages[s][i]
                      /\ rows[s].state # None
                           => asks[rows[s].state.question].revision = rows[s].state.revision
  BY DEF StateIsLatestQuery, RevisionOfAnswer, Latest
<1>2. Agree(rows[s], messages[s])
  BY <1>1 DEF AwaitedInv, Told
<1>3. QED
  BY <1>2 DEF Agree

(* The working state is the one the messages tell, for a client that       *)
(* awaits its answers: any number of sessions, questions, changes of       *)
(* dataset, errors, executions and lost writes (persistence.py:197).       *)
THEOREM StateIsLatestQueryCorrect ==
    ASSUME ~Overlap
    PROVE  Spec => []StateIsLatestQuery
<1>1. AwaitedInv /\ [Next]_vars => AwaitedInv'
  BY AwaitedStep
<1>2. QED
  BY <1>1, AwaitedInit, AwaitedTells, PTL DEF Spec

(* The revision of an answer (chat_routes.py:49) is the one stored with    *)
(* its query, for such a client.                                           *)
THEOREM RevisionOfAnswerCorrect ==
    ASSUME ~Overlap
    PROVE  Spec => []RevisionOfAnswer
<1>1. AwaitedInv /\ [Next]_vars => AwaitedInv'
  BY AwaitedStep
<1>2. QED
  BY <1>1, AwaitedInit, AwaitedTells, PTL DEF Spec

=============================================================================
