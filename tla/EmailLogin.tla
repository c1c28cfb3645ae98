----------------------------- MODULE EmailLogin -----------------------------
(***************************************************************************)
(* Login with a code sent by e-mail, and the sessions it opens             *)
(* (src/backend/app/auth_routes.py, auth.py, request_auth.py,              *)
(* email_sender.py).  A request that writes reads first and commits later, *)
(* and others run in between: the two are separate steps, and a commit     *)
(* writes what was computed from the rows as they were read, only in the   *)
(* columns that changed.  Times are ticks of one clock.                    *)
(***************************************************************************)
EXTENDS Naturals, Sequences, FiniteSets

CONSTANTS
    Emails,      \* normalised addresses
    DevEmail,    \* debugsql_dev_user_email
    AutoLogin,   \* debugsql_auto_login
    Tabs,        \* windows, each awaiting one request at a time
    Browsers,    \* the cookie jars ...
    BrowserOf,   \* ... that the tabs share
    CodeTtl,     \* email_login_code_ttl_minutes
    Resend,      \* email_login_resend_seconds
    MaxAttempts, \* email_login_max_attempts
    SessionTtl,  \* SESSION_TTL_DAYS
    MaxCodes, MaxSessions, MaxClock  \* bounds of the model

ASSUME LoginAssumption ==
    /\ AutoLogin \in BOOLEAN
    /\ BrowserOf \in [Tabs -> Browsers]
    /\ {CodeTtl, Resend, SessionTtl} \subseteq Nat
    /\ MaxAttempts \in Nat \ {0}

VARIABLES
    clock,
    codes,    \* rows of email_login_codes, in the order of their commits
    users,    \* addresses with a row in users
    sessions, \* rows of sessions, in the order of their commits
    cookie,   \* [Browsers -> the session of its cookie, 0 for no cookie]
    req,      \* [Tabs -> the request in flight]
    mixed     \* history: addresses two of whose transactions overlapped

vars == <<clock, codes, users, sessions, cookie, req, mixed>>

-----------------------------------------------------------------------------
(* Rows.  guesses and mail are history: the wrong entries the client was    *)
(* told of, and what became of the message ("lost" when it failed and so    *)
(* did the write that withdraws the code).  by and first too: the code that *)
(* opened the session, and whether it was the first login of the address.   *)

Code == [email : Emails, status : {"pending", "used", "expired"},
         attempts : Nat, created : Nat, expires : Nat,
         guesses : Nat, mail : {"sending", "sent", "failed", "lost"}]

SessionRecord == [email : Emails, status : {"active", "expired"}, expires : Nat,
                  by : Nat, first : BOOLEAN]

(* What the handler of a request knows: latest is the code its transaction  *)
(* read, tries the attempts of it, seen the codes it will expire, entry the *)
(* code that was issued or entered (0: a wrong one), token a session (0: a  *)
(* logout without a cookie).                                                *)
Request ==
    [op : {"idle"}]
    \cup [op : {"issue"}, email : Emails, now : Nat, seen : SUBSET DOMAIN codes]
    \cup [op : {"send", "expire"}, email : Emails, entry : DOMAIN codes]
    \cup [op : {"verify"}, email : Emails, now : Nat, latest : DOMAIN codes,
          tries : Nat, entry : Nat, first : BOOLEAN]
    \cup [op : {"welcome"}, token : DOMAIN sessions]
    \cup [op : {"logout", "clear"}, token : {0} \cup DOMAIN sessions]

Idle == [op |-> "idle"]

Set(k, status) == [codes EXCEPT ![k].status = status]

(* latest_pending_email_code: the youngest; the order of equals is open.    *)
Pending(e) == {k \in DOMAIN codes : codes[k].email = e /\ codes[k].status = "pending"}
Youngest(e) == {k \in Pending(e) : \A l \in Pending(e) : codes[l].created <= codes[k].created}

(* expire_pending_email_codes, on the rows that were read.  Seeded fault:   *)
(* the older codes stay.                                                    *)
ExpireAll_Keeps(S) == codes

ExpireAll(S) ==
    [k \in DOMAIN codes |-> IF k \in S THEN [codes[k] EXCEPT !.status = "expired"] ELSE codes[k]]

(* A wrong entry is counted from the attempts that were read.  Seeded       *)
(* fault: one entry too many.                                               *)
Counted_OffByOne(row, tries) ==
    [row EXCEPT !.attempts = tries + 1, !.guesses = @ + 1,
                !.status = IF tries + 1 > MaxAttempts THEN "expired" ELSE @]

Counted(row, tries) ==
    [row EXCEPT !.attempts = tries + 1, !.guesses = @ + 1,
                !.status = IF tries + 1 >= MaxAttempts THEN "expired" ELSE @]

(* A code that was entered is used.  Seeded fault: it stays pending.        *)
Used_Stays(k) == codes

Used(k) == Set(k, "used")

(* upsert_email_user: two first logins of an address insert the same id,    *)
(* and the second is rolled back.  Seeded fault: no such key.               *)
Conflict_Never(e, first) == FALSE

Conflict(e, first) == first /\ e \in users

(* create_session_record *)
NewSession(e, k, first) ==
    [email |-> e, status |-> "active", expires |-> clock + SessionTtl, by |-> k, first |-> first]

(* The session that is returned is the one that was stored.  Seeded fault:  *)
(* its number is taken before the insert.                                   *)
NewToken_BeforeInsert == Len(sessions)

NewToken == Len(sessions) + 1

(* A transaction on the codes of e is between its read and its commit.      *)
InTransaction(t, e) == req[t].op \in {"issue", "verify", "expire"} /\ req[t].email = e
Mix(e) == mixed' = mixed \cup {x \in {e} : \E t \in Tabs : InTransaction(t, e)}

Become(t, r) == req' = [req EXCEPT ![t] = r]

-----------------------------------------------------------------------------
Init ==
    /\ clock = 1
    /\ codes = << >> /\ sessions = << >>
    /\ users = {}
    /\ cookie = [b \in Browsers |-> 0]
    /\ req = [t \in Tabs |-> Idle]
    /\ mixed = {}

Tick ==
    /\ clock < MaxClock
    /\ clock' = clock + 1
    /\ UNCHANGED <<codes, users, sessions, cookie, req, mixed>>

-----------------------------------------------------------------------------
(* What a new code replaces: nothing, the youngest code alone when it is    *)
(* past its time, or all pending ones when the cooldown is over.            *)
Replaced(e) ==
    IF Pending(e) = {}
    THEN {{}}
    ELSE {{l} : l \in {k \in Youngest(e) : codes[k].expires <= clock}}
         \cup {Pending(e) : l \in {k \in Youngest(e) : /\ codes[k].expires > clock
                                                       /\ codes[k].created + Resend <= clock}}

(* request_email_code up to its commit.  Otherwise the answer is 429 and    *)
(* nothing changes.                                                         *)
AskCode(t, e) ==
    /\ req[t].op = "idle"
    /\ Len(codes) + Cardinality({u \in Tabs : req[u].op = "issue"}) < MaxCodes
    /\ \E S \in Replaced(e) :
         Become(t, [op |-> "issue", email |-> e, now |-> clock, seen |-> S])
    /\ Mix(e)
    /\ UNCHANGED <<clock, codes, users, sessions, cookie>>

(* It commits: the new code replaces those that were read.                  *)
Issued(t) ==
    /\ req[t].op = "issue"
    /\ codes' = Append(ExpireAll(req[t].seen),
                       [email |-> req[t].email, status |-> "pending", attempts |-> 0,
                        created |-> req[t].now, expires |-> req[t].now + CodeTtl,
                        guesses |-> 0, mail |-> "sending"])
    /\ Become(t, [op |-> "send", email |-> req[t].email, entry |-> Len(codes) + 1])
    /\ UNCHANGED <<clock, users, sessions, cookie, mixed>>

(* send_login_code returns: by SMTP, or because codes are logged.           *)
Sent(t) ==
    /\ req[t].op = "send"
    /\ codes' = [codes EXCEPT ![req[t].entry].mail = "sent"]
    /\ Become(t, Idle)
    /\ UNCHANGED <<clock, users, sessions, cookie, mixed>>

(* It raises EmailDeliveryError: _expire_email_code reads the latest        *)
(* pending code, and has nothing to do when it is another one.  Seeded      *)
(* fault: the code is left as it is.                                        *)
Withdrawal_None(e, k) == {Idle}

Withdrawal(e, k) ==
    {IF l = k THEN [op |-> "expire", email |-> e, entry |-> k] ELSE Idle : l \in Youngest(e)}
    \cup {r \in {Idle} : Pending(e) = {}}

SendFailed(t) ==
    LET e == req[t].email
        k == req[t].entry
    IN  /\ req[t].op = "send"
        /\ codes' = [codes EXCEPT ![k].mail = "failed"]
        /\ \E r \in Withdrawal(e, k) : Become(t, r)
        /\ Mix(e)
        /\ UNCHANGED <<clock, users, sessions, cookie>>

(* Its transaction commits.                                                 *)
Withdrawn(t) ==
    /\ req[t].op = "expire"
    /\ codes' = Set(req[t].entry, "expired")
    /\ Become(t, Idle)
    /\ UNCHANGED <<clock, users, sessions, cookie, mixed>>

-----------------------------------------------------------------------------
(* verify_email_code up to its commit: a code was entered, one that was     *)
(* sent to this address or a wrong one.  Without a pending code the answer  *)
(* is 400 and nothing changes.                                              *)
Enter(t, e, entry) ==
    /\ req[t].op = "idle"
    /\ \E l \in Youngest(e) :
         Become(t, [op |-> "verify", email |-> e, now |-> clock, latest |-> l,
                    tries |-> codes[l].attempts, entry |-> entry,
                    first |-> e \notin users])
    /\ Mix(e)
    /\ UNCHANGED <<clock, codes, users, sessions, cookie>>

Entries(e) == {0} \cup {k \in DOMAIN codes : codes[k].email = e /\ codes[k].mail = "sent"}

(* What verify_email_code finds out about the code it read.                 *)
TooLate(r) == codes[r.latest].expires <= r.now
Exhausted(r) == r.tries >= MaxAttempts

(* It commits a refusal: the code is past its time or its attempts ...      *)
Refused(t) ==
    LET r == req[t]
    IN  /\ r.op = "verify"
        /\ TooLate(r) \/ Exhausted(r)
        /\ codes' = Set(r.latest, "expired")
        /\ Become(t, Idle)
        /\ UNCHANGED <<clock, users, sessions, cookie, mixed>>

(* ... or another one was entered.                                          *)
WrongCode(t) ==
    LET r == req[t]
    IN  /\ r.op = "verify"
        /\ ~TooLate(r) /\ ~Exhausted(r)
        /\ r.entry # r.latest
        /\ codes' = [codes EXCEPT ![r.latest] = Counted(@, r.tries)]
        /\ Become(t, Idle)
        /\ UNCHANGED <<clock, users, sessions, cookie, mixed>>

(* It commits a login.                                                      *)
Verified(t) ==
    LET r == req[t]
    IN  /\ r.op = "verify"
        /\ ~TooLate(r) /\ ~Exhausted(r)
        /\ r.entry = r.latest
        /\ ~Conflict(r.email, r.first)
        /\ Len(sessions) < MaxSessions
        /\ codes' = Used(r.latest)
        /\ users' = users \cup {r.email}
        /\ sessions' = Append(sessions, NewSession(r.email, r.latest, r.first))
        /\ Become(t, [op |-> "welcome", token |-> NewToken])
        /\ UNCHANGED <<clock, cookie, mixed>>

(* The database refuses the commit: the answer is 500; the withdrawal of an *)
(* undelivered code is given up silently.                                   *)
RolledBack(t) ==
    /\ req[t].op \in {"issue", "verify", "expire"}
    /\ codes' = IF req[t].op = "expire" THEN [codes EXCEPT ![req[t].entry].mail = "lost"] ELSE codes
    /\ Become(t, Idle)
    /\ UNCHANGED <<clock, users, sessions, cookie, mixed>>

(* The answer reaches the browser (_set_session_cookie).                    *)
Welcome(t) ==
    /\ req[t].op = "welcome"
    /\ cookie' = [cookie EXCEPT ![BrowserOf[t]] = req[t].token]
    /\ Become(t, Idle)
    /\ UNCHANGED <<clock, codes, users, sessions, mixed>>

-----------------------------------------------------------------------------
(* get_user_by_session_token: a session counts while it is active and not   *)
(* past its time.                                                           *)
Live(s) == s # 0 /\ sessions[s].status = "active" /\ ~(sessions[s].expires < clock)

(* /me, and request_user_id of any other route, by a browser whose cookie   *)
(* is no longer (or never was) good: with automatic login the request is    *)
(* that of the developer, and a session past its time is marked; without,   *)
(* the exception rolls the mark back and nothing changes.                   *)
FallBack(t) ==
    LET s == cookie[BrowserOf[t]]
    IN  /\ req[t].op = "idle"
        /\ AutoLogin
        /\ ~Live(s)
        /\ sessions' = IF s # 0 THEN [sessions EXCEPT ![s].status = "expired"] ELSE sessions
        /\ users' = users \cup {DevEmail}
        /\ UNCHANGED <<clock, codes, cookie, req, mixed>>

(* logout, with the cookie the request was sent with, if any ...            *)
Logout(t) ==
    /\ req[t].op = "idle"
    /\ Become(t, [op |-> "logout", token |-> cookie[BrowserOf[t]]])
    /\ UNCHANGED <<clock, codes, users, sessions, cookie, mixed>>

(* ... its transaction (expire_session_token), whose failure is ignored and *)
(* which has nothing to do without a token ...                              *)
LoggedOut(t) ==
    LET s == req[t].token
    IN  /\ req[t].op = "logout"
        /\ \E written \in BOOLEAN :
             sessions' = IF written /\ s # 0 THEN [sessions EXCEPT ![s].status = "expired"] ELSE sessions
        /\ Become(t, [op |-> "clear", token |-> s])
        /\ UNCHANGED <<clock, codes, users, cookie, mixed>>

(* ... and the answer, which deletes whatever cookie there is by now.       *)
(* Seeded fault: it does not.                                               *)
Clear_KeepsCookie(t) ==
    /\ req[t].op = "clear"
    /\ Become(t, Idle)
    /\ UNCHANGED <<clock, codes, users, sessions, cookie, mixed>>

Clear(t) ==
    /\ req[t].op = "clear"
    /\ cookie' = [cookie EXCEPT ![BrowserOf[t]] = 0]
    /\ Become(t, Idle)
    /\ UNCHANGED <<clock, codes, users, sessions, mixed>>

-----------------------------------------------------------------------------
Step(t) ==
    \/ \E e \in Emails : AskCode(t, e) \/ (\E k \in Entries(e) : Enter(t, e, k))
    \/ Issued(t) \/ Sent(t) \/ SendFailed(t) \/ Withdrawn(t)
    \/ Refused(t) \/ WrongCode(t) \/ Verified(t) \/ Welcome(t)
    \/ RolledBack(t)
    \/ FallBack(t) \/ Logout(t) \/ LoggedOut(t) \/ Clear(t)

Next == Tick \/ \E t \in Tabs : Step(t)

Spec == Init /\ [][Next]_vars

-----------------------------------------------------------------------------
(* Properties.                                                              *)

(* Every variable has its type, and the rows refer to rows.                 *)
TypeOK ==
    /\ clock \in Nat
    /\ codes \in Seq(Code)
    /\ users \subseteq Emails \cup {DevEmail}
    /\ sessions \in Seq(SessionRecord)
    /\ \A s \in DOMAIN sessions : sessions[s].by \in DOMAIN codes
    /\ cookie \in [Browsers -> {0} \cup DOMAIN sessions]
    /\ req \in [Tabs -> Request]
    /\ mixed \subseteq Emails

(* A code that opened a session cannot be entered again, and the session is *)
(* one of the address the code was sent to, whatever transactions overlap.  *)
SpentCode ==
    \A s \in DOMAIN sessions :
       /\ codes[sessions[s].by].status # "pending"
       /\ codes[sessions[s].by].email = sessions[s].email

(* A code opens one session.  When verifications of an address overlap only *)
(* its first login is unique: both insert the row of the user.              *)
OneLoginPerCode ==
    \A s, u \in DOMAIN sessions :
       s # u => /\ sessions[s].by = sessions[u].by => sessions[s].email \in mixed
                /\ sessions[s].email = sessions[u].email => ~(sessions[s].first /\ sessions[u].first)

(* Only the code issued last can be entered: no older one becomes the       *)
(* latest pending code again when a younger one was used, expired or could  *)
(* not be sent.                                                             *)
PendingIsNewest ==
    \A k, l \in DOMAIN codes :
       /\ codes[k].email = codes[l].email /\ codes[k].email \notin mixed
       /\ k < l
       => codes[k].status # "pending"

(* Every wrong entry the client was told of is counted, none was judged     *)
(* beyond the limit, and a code at the limit is no longer pending.          *)
GuessesCounted ==
    \A k \in DOMAIN codes :
       codes[k].email \notin mixed =>
          /\ codes[k].attempts = codes[k].guesses
          /\ codes[k].guesses <= MaxAttempts
          /\ codes[k].status = "pending" => codes[k].guesses < MaxAttempts

(* A code that could not be sent does not stay pending, where it would keep *)
(* the user from asking for another one, unless the write failed too.       *)
UndeliveredWithdrawn ==
    \A k \in DOMAIN codes :
       /\ codes[k].mail = "failed" /\ codes[k].status = "pending"
       /\ codes[k].email \notin mixed
       => \E t \in Tabs : req[t].op = "expire" /\ req[t].entry = k

(* A cookie names a session that is active or past its time, but for the    *)
(* moment before the answer to a logout deletes it: no browser goes on with *)
(* a session that was ended.                                                *)
CookieIsLive ==
    \A b \in Browsers :
       cookie[b] = 0 \/ sessions[cookie[b]].status = "active"
                     \/ sessions[cookie[b]].expires < clock
                     \/ \E t \in Tabs : BrowserOf[t] = b /\ req[t].op = "clear"

=============================================================================
