--------------------------- MODULE EmailLoginProofs ---------------------------
(* What holds of codes and sessions for any number of addresses, tabs,      *)
(* browsers, codes and sessions, and however their transactions overlap.    *)
EXTENDS EmailLogin, TLAPS

USE LoginAssumption

-----------------------------------------------------------------------------
(* Types.  Requests refer to rows; rows are revised or added, never removed. *)

Requests(n, m) ==
    [op : {"idle"}]
    \cup [op : {"issue"}, email : Emails, now : Nat, seen : SUBSET (1..n)]
    \cup [op : {"send", "expire"}, email : Emails, entry : 1..n]
    \cup [op : {"verify"}, email : Emails, now : Nat, latest : 1..n,
          tries : Nat, entry : Nat, first : BOOLEAN]
    \cup [op : {"welcome"}, token : 1..m]
    \cup [op : {"logout", "clear"}, token : {0} \cup 1..m]

LEMMA SequenceByDomain ==
    ASSUME NEW S, NEW s \in Seq(S), NEW f \in [DOMAIN s -> S]
    PROVE  f \in Seq(S) /\ Len(f) = Len(s) /\ DOMAIN f = DOMAIN s
<1>1. f \in [1..Len(s) -> S] /\ Len(s) \in Nat
  OBVIOUS
<1>2. f \in Seq(S)
  BY <1>1
<1> QED
  BY <1>1, <1>2

LEMMA RequestsOfState ==
    ASSUME codes \in Seq(Code), sessions \in Seq(SessionRecord)
    PROVE  Request = Requests(Len(codes), Len(sessions))
<1>1. DOMAIN codes = 1..Len(codes) /\ DOMAIN sessions = 1..Len(sessions)
  OBVIOUS
<1> QED
  BY <1>1 DEF Request, Requests

LEMMA RequestsGrow ==
    ASSUME NEW n \in Nat, NEW m \in Nat, NEW p \in Nat, NEW q \in Nat, n <= p, m <= q
    PROVE  Requests(n, m) \subseteq Requests(p, q)
<1>1. 1..n \subseteq 1..p /\ 1..m \subseteq 1..q
  OBVIOUS
<1>2. [op : {"issue"}, email : Emails, now : Nat, seen : SUBSET (1..n)]
        \subseteq [op : {"issue"}, email : Emails, now : Nat, seen : SUBSET (1..p)]
  BY <1>1
<1>3. [op : {"send", "expire"}, email : Emails, entry : 1..n]
        \subseteq [op : {"send", "expire"}, email : Emails, entry : 1..p]
  BY <1>1
<1>4. [op : {"verify"}, email : Emails, now : Nat, latest : 1..n,
       tries : Nat, entry : Nat, first : BOOLEAN]
        \subseteq [op : {"verify"}, email : Emails, now : Nat, latest : 1..p,
                   tries : Nat, entry : Nat, first : BOOLEAN]
  BY <1>1
<1>5. /\ [op : {"welcome"}, token : 1..m] \subseteq [op : {"welcome"}, token : 1..q]
      /\ [op : {"logout", "clear"}, token : {0} \cup 1..m]
           \subseteq [op : {"logout", "clear"}, token : {0} \cup 1..q]
  BY <1>1
<1> QED
  BY <1>2, <1>3, <1>4, <1>5 DEF Requests

(* What the request of a tab holds.                                         *)
LEMMA RequestParts ==
    ASSUME TypeOK, NEW t \in Tabs
    PROVE  /\ req[t].op \in {"idle", "issue", "send", "expire", "verify",
                             "welcome", "logout", "clear"}
           /\ req[t].op = "issue" => /\ req[t].email \in Emails /\ req[t].now \in Nat
                                     /\ req[t].seen \subseteq DOMAIN codes
           /\ req[t].op \in {"send", "expire"} => /\ req[t].email \in Emails
                                                  /\ req[t].entry \in DOMAIN codes
           /\ req[t].op = "verify" =>
                /\ req[t].email \in Emails /\ req[t].now \in Nat
                /\ req[t].latest \in DOMAIN codes
                /\ req[t].tries \in Nat /\ req[t].entry \in Nat /\ req[t].first \in BOOLEAN
           /\ req[t].op = "welcome" => req[t].token \in DOMAIN sessions
           /\ req[t].op \in {"logout", "clear"} => req[t].token \in {0} \cup DOMAIN sessions
<1>1. req[t] \in Request
  BY DEF TypeOK
<1> QED
  BY <1>1 DEF Request

(* The rows may be revised or grow, and one tab has a new request.          *)
LEMMA RequestTyped ==
    ASSUME TypeOK,
           codes' \in Seq(Code), sessions' \in Seq(SessionRecord),
           Len(codes) <= Len(codes'), Len(sessions) <= Len(sessions'),
           NEW t \in Tabs, NEW r \in Requests(Len(codes'), Len(sessions')), Become(t, r)
    PROVE  req' \in [Tabs -> Request']
<1>1. Request' = Requests(Len(codes'), Len(sessions'))
  <2>1. DOMAIN codes' = 1..Len(codes') /\ DOMAIN sessions' = 1..Len(sessions')
    OBVIOUS
  <2> QED
    BY <2>1 DEF Request, Requests
<1>2. req \in [Tabs -> Requests(Len(codes), Len(sessions))]
  BY RequestsOfState DEF TypeOK
<1>3. Requests(Len(codes), Len(sessions)) \subseteq Requests(Len(codes'), Len(sessions'))
  <2>1. /\ Len(codes) \in Nat /\ Len(sessions) \in Nat
        /\ Len(codes') \in Nat /\ Len(sessions') \in Nat
    BY DEF TypeOK
  <2> QED
    BY <2>1, RequestsGrow
<1> QED
  BY <1>1, <1>2, <1>3 DEF Become

LEMMA IdleTyped == \A n, m : Idle \in Requests(n, m)
  BY DEF Idle, Requests

(* The codes are revised, or one is added: those of one address, which is    *)
(* never changed, and no code is pending again.                              *)
Revised(row, new) ==
    /\ new.email = row.email
    /\ row.status # "pending" => new.status # "pending"

RevisedCodes(new) ==
    /\ new \in Seq(Code) /\ Len(new) = Len(codes) /\ DOMAIN new = DOMAIN codes
    /\ \A k \in DOMAIN codes : Revised(codes[k], new[k])

LEMMA RevisedFunction ==
    ASSUME TypeOK, NEW new \in [DOMAIN codes -> Code],
           \A k \in DOMAIN codes : Revised(codes[k], new[k])
    PROVE  RevisedCodes(new)
  BY SequenceByDomain DEF TypeOK, RevisedCodes

LEMMA SetRow ==
    ASSUME TypeOK, NEW k \in DOMAIN codes, NEW status \in {"used", "expired"}
    PROVE  /\ Set(k, status) \in [DOMAIN codes -> Code]
           /\ \A j \in DOMAIN codes :
                Set(k, status)[j] = IF j = k THEN [codes[k] EXCEPT !.status = status] ELSE codes[j]
<1>1. codes \in [DOMAIN codes -> Code]
  BY DEF TypeOK
<1>2. [codes[k] EXCEPT !.status = status] \in Code
  BY <1>1 DEF Code
<1> QED
  BY <1>1, <1>2 DEF Set

LEMMA MailRow ==
    ASSUME TypeOK, NEW k \in DOMAIN codes, NEW mail \in {"sent", "failed", "lost"}
    PROVE  /\ [codes EXCEPT ![k].mail = mail] \in [DOMAIN codes -> Code]
           /\ RevisedCodes([codes EXCEPT ![k].mail = mail])
           /\ \A j \in DOMAIN codes :
                [codes EXCEPT ![k].mail = mail][j]
                  = IF j = k THEN [codes[k] EXCEPT !.mail = mail] ELSE codes[j]
<1>1. codes \in [DOMAIN codes -> Code]
  BY DEF TypeOK
<1>2. [codes[k] EXCEPT !.mail = mail] \in Code
  BY <1>1 DEF Code
<1>3. [codes EXCEPT ![k].mail = mail] \in [DOMAIN codes -> Code]
  BY <1>1, <1>2
<1>4. \A j \in DOMAIN codes : Revised(codes[j], [codes EXCEPT ![k].mail = mail][j])
  BY <1>1 DEF Revised, Code
<1> QED
  BY <1>1, <1>3, <1>4, RevisedFunction

(* Every other row stays as it is when one is set, expired with others, or   *)
(* counts a wrong entry.                                                    *)
LEMMA SetRevises ==
    ASSUME TypeOK, NEW k \in DOMAIN codes, NEW status \in {"used", "expired"}
    PROVE  RevisedCodes(Set(k, status))
<1>1. codes[k] \in Code
  BY DEF TypeOK
<1>2. Revised(codes[k], [codes[k] EXCEPT !.status = status])
  BY <1>1 DEF Revised, Code
<1>3. \A j \in DOMAIN codes : Revised(codes[j], Set(k, status)[j])
  <2> TAKE j \in DOMAIN codes
  <2>1. CASE j = k
    <3>1. Set(k, status)[j] = [codes[k] EXCEPT !.status = status]
      BY <2>1, SetRow
    <3> QED
      BY <1>2, <2>1, <3>1
  <2>2. CASE j # k
    <3>1. Set(k, status)[j] = codes[j]
      BY <2>2 DEF Set
    <3> QED
      BY <3>1 DEF Revised
  <2> QED
    BY <2>1, <2>2
<1> QED
  BY <1>3, SetRow, RevisedFunction

LEMMA ExpireRevises ==
    ASSUME TypeOK, NEW S \in SUBSET DOMAIN codes
    PROVE  /\ RevisedCodes(ExpireAll(S))
           /\ \A j \in DOMAIN codes :
                ExpireAll(S)[j] = IF j \in S THEN [codes[j] EXCEPT !.status = "expired"] ELSE codes[j]
<1>1. codes \in [DOMAIN codes -> Code]
  BY DEF TypeOK
<1>2. \A j \in DOMAIN codes :
        ExpireAll(S)[j] = IF j \in S THEN [codes[j] EXCEPT !.status = "expired"] ELSE codes[j]
  BY DEF ExpireAll
<1>3. \A j \in DOMAIN codes : [codes[j] EXCEPT !.status = "expired"] \in Code
  BY <1>1 DEF Code
<1>4. ExpireAll(S) \in [DOMAIN codes -> Code]
  BY <1>1, <1>3 DEF ExpireAll
<1>5. \A j \in DOMAIN codes : Revised(codes[j], ExpireAll(S)[j])
  BY <1>1, <1>2 DEF Revised, Code
<1> QED
  BY <1>2, <1>4, <1>5, RevisedFunction

LEMMA CountRevises ==
    ASSUME TypeOK, NEW k \in DOMAIN codes, NEW tries \in Nat
    PROVE  LET new == [codes EXCEPT ![k] = Counted(@, tries)]
           IN  /\ RevisedCodes(new)
               /\ \A j \in DOMAIN codes :
                    new[j] = IF j = k THEN Counted(codes[k], tries) ELSE codes[j]
<1> DEFINE new == [codes EXCEPT ![k] = Counted(@, tries)]
<1>1. codes \in [DOMAIN codes -> Code]
  BY DEF TypeOK
<1>2. Counted(codes[k], tries) \in Code
  <2> DEFINE row == codes[k]
             status == IF tries + 1 >= MaxAttempts THEN "expired" ELSE row.status
             counted == [row EXCEPT !.attempts = tries + 1, !.guesses = row.guesses + 1, !.status = status]
  <2>1. row \in Code
    BY <1>1
  <2>2. status \in {"pending", "used", "expired"} /\ tries + 1 \in Nat /\ row.guesses + 1 \in Nat
    BY <2>1 DEF Code
  <2>3. Counted(row, tries) = counted
    BY DEF Counted
  <2> HIDE DEF status, row
  <2>4. counted \in Code
    BY <2>1, <2>2 DEF Code
  <2> QED
    BY <2>3, <2>4 DEF row
<1>3. new \in [DOMAIN codes -> Code]
  BY <1>1, <1>2
<1>4. \A j \in DOMAIN codes : new[j] = IF j = k THEN Counted(codes[k], tries) ELSE codes[j]
  BY <1>1
<1>5. Revised(codes[k], Counted(codes[k], tries))
  BY <1>1 DEF Revised, Code, Counted
<1>6. \A j \in DOMAIN codes : Revised(codes[j], new[j])
  BY <1>4, <1>5 DEF Revised
<1> HIDE DEF new
<1>7. RevisedCodes(new)
  BY <1>3, <1>6, RevisedFunction
<1> QED
  BY <1>4, <1>7 DEF new

(* A new code comes after those that are replaced.                          *)
NewCode(r) ==
    [email |-> r.email, status |-> "pending", attempts |-> 0,
     created |-> r.now, expires |-> r.now + CodeTtl, guesses |-> 0, mail |-> "sending"]

LEMMA IssueAdds ==
    ASSUME TypeOK, NEW t \in Tabs, Issued(t)
    PROVE  /\ codes' \in Seq(Code) /\ Len(codes') = Len(codes) + 1
           /\ DOMAIN codes' = DOMAIN codes \cup {Len(codes) + 1}
           /\ Len(codes) + 1 \notin DOMAIN codes
           /\ codes'[Len(codes) + 1] = NewCode(req[t])
           /\ \A j \in DOMAIN codes : codes'[j] = ExpireAll(req[t].seen)[j]
           /\ \A j \in DOMAIN codes : Revised(codes[j], codes'[j])
<1>1. req[t].email \in Emails /\ req[t].now \in Nat /\ req[t].seen \in SUBSET DOMAIN codes
  BY RequestParts DEF Issued
<1>2. NewCode(req[t]) \in Code
  BY <1>1 DEF NewCode, Code, LoginAssumption
<1>3. RevisedCodes(ExpireAll(req[t].seen))
  BY <1>1, ExpireRevises
<1>4. codes' = Append(ExpireAll(req[t].seen), NewCode(req[t]))
  BY DEF Issued, NewCode
<1> HIDE DEF NewCode
<1>5. codes \in Seq(Code)
  BY DEF TypeOK
<1> QED
  BY <1>2, <1>3, <1>4, <1>5 DEF RevisedCodes

-----------------------------------------------------------------------------
(* Type correctness.                                                        *)

LEMMA InitTyped == Init => TypeOK
<1>1. << >> \in Seq(Code) /\ << >> \in Seq(SessionRecord)
  OBVIOUS
<1>2. Init => req \in [Tabs -> Request]
  BY DEF Init, Request, Idle
<1> QED
  BY <1>1, <1>2 DEF Init, TypeOK

(* A session whose status changes, or a new one.                            *)
LEMMA SessionSet ==
    ASSUME TypeOK, NEW s \in DOMAIN sessions
    PROVE  LET new == [sessions EXCEPT ![s].status = "expired"]
           IN  /\ new \in Seq(SessionRecord) /\ Len(new) = Len(sessions)
               /\ DOMAIN new = DOMAIN sessions
               /\ \A u \in DOMAIN sessions :
                    new[u] = IF u = s THEN [sessions[s] EXCEPT !.status = "expired"] ELSE sessions[u]
               /\ \A u \in DOMAIN sessions :
                    /\ new[u].by = sessions[u].by /\ new[u].email = sessions[u].email
                    /\ new[u].first = sessions[u].first /\ new[u].expires = sessions[u].expires
<1> DEFINE new == [sessions EXCEPT ![s].status = "expired"]
<1>1. sessions \in [DOMAIN sessions -> SessionRecord]
  BY DEF TypeOK
<1>2. [sessions[s] EXCEPT !.status = "expired"] \in SessionRecord
  BY <1>1 DEF SessionRecord
<1>3. new \in [DOMAIN sessions -> SessionRecord]
  BY <1>1, <1>2
<1>4. new \in Seq(SessionRecord) /\ Len(new) = Len(sessions) /\ DOMAIN new = DOMAIN sessions
  BY <1>3, SequenceByDomain DEF TypeOK
<1>5. \A u \in DOMAIN sessions :
        new[u] = IF u = s THEN [sessions[s] EXCEPT !.status = "expired"] ELSE sessions[u]
  BY <1>1
<1>6. \A u \in DOMAIN sessions :
        /\ new[u].by = sessions[u].by /\ new[u].email = sessions[u].email
        /\ new[u].first = sessions[u].first /\ new[u].expires = sessions[u].expires
  BY <1>1, <1>5 DEF SessionRecord
<1> QED
  BY <1>4, <1>5, <1>6

LEMMA VerifiedAdds ==
    ASSUME TypeOK, NEW t \in Tabs, Verified(t)
    PROVE  LET new == NewSession(req[t].email, req[t].latest, req[t].first)
           IN  /\ sessions' \in Seq(SessionRecord) /\ Len(sessions') = Len(sessions) + 1
               /\ DOMAIN sessions' = DOMAIN sessions \cup {Len(sessions) + 1}
               /\ Len(sessions) + 1 \notin DOMAIN sessions
               /\ \A s \in DOMAIN sessions : sessions'[s] = sessions[s]
               /\ sessions'[Len(sessions) + 1] = new
<1>1. /\ req[t].email \in Emails /\ req[t].latest \in DOMAIN codes /\ req[t].latest \in Nat
      /\ req[t].first \in BOOLEAN
  BY RequestParts DEF Verified, TypeOK
<1>2. NewSession(req[t].email, req[t].latest, req[t].first) \in SessionRecord
  BY <1>1 DEF NewSession, SessionRecord, TypeOK, LoginAssumption
<1>3. sessions' = Append(sessions, NewSession(req[t].email, req[t].latest, req[t].first))
  BY DEF Verified
<1>4. sessions \in Seq(SessionRecord)
  BY DEF TypeOK
<1> HIDE DEF NewSession
<1> QED
  BY <1>2, <1>3, <1>4

LEMMA IssuedTyped ==
    ASSUME TypeOK, NEW t \in Tabs, Issued(t)
    PROVE  TypeOK'
<1>1. codes' \in Seq(Code) /\ Len(codes') = Len(codes) + 1 /\ DOMAIN codes \subseteq DOMAIN codes'
  BY IssueAdds
<1>2. UNCHANGED <<clock, users, sessions, cookie, mixed>>
  BY DEF Issued
<1>3. [op |-> "send", email |-> req[t].email, entry |-> Len(codes) + 1]
        \in Requests(Len(codes'), Len(sessions'))
  <2>1. req[t].email \in Emails
    BY RequestParts DEF Issued
  <2>2. Len(codes) + 1 \in 1..Len(codes')
    BY <1>1 DEF TypeOK
  <2> QED
    BY <2>1, <2>2 DEF Requests
<1>4. req' \in [Tabs -> Request']
  BY <1>1, <1>2, <1>3, RequestTyped DEF TypeOK, Issued
<1> QED
  BY <1>1, <1>2, <1>4 DEF TypeOK

(* A step that revises codes and gives a tab a request.                     *)
LEMMA RevisionTyped ==
    ASSUME TypeOK, NEW t \in Tabs, RevisedCodes(codes'),
           NEW r \in Requests(Len(codes), Len(sessions)), Become(t, r),
           UNCHANGED <<clock, users, sessions, cookie>>, mixed' \subseteq Emails
    PROVE  TypeOK'
<1>1. codes' \in Seq(Code) /\ Len(codes') = Len(codes) /\ DOMAIN codes' = DOMAIN codes
  BY DEF RevisedCodes
<1>2. req' \in [Tabs -> Request']
  BY <1>1, RequestTyped DEF TypeOK
<1> QED
  BY <1>1, <1>2 DEF TypeOK

LEMMA SameCodes == ASSUME TypeOK PROVE RevisedCodes(codes)
  BY DEF TypeOK, RevisedCodes, Revised

LEMMA MixTyped == ASSUME TypeOK, NEW e \in Emails, Mix(e) PROVE mixed' \subseteq Emails
  BY DEF TypeOK, Mix

LEMMA YoungestPending ==
    ASSUME NEW e, NEW l \in Youngest(e)
    PROVE  l \in DOMAIN codes /\ codes[l].email = e /\ codes[l].status = "pending"
  BY DEF Youngest, Pending

LEMMA AskTyped ==
    ASSUME TypeOK, NEW t \in Tabs, NEW e \in Emails, AskCode(t, e)
    PROVE  TypeOK'
<1>1. PICK S \in Replaced(e) : Become(t, [op |-> "issue", email |-> e, now |-> clock, seen |-> S])
  BY DEF AskCode
<1>2. S \subseteq DOMAIN codes
  BY YoungestPending DEF Replaced, Youngest, Pending
<1>3. DOMAIN codes = 1..Len(codes)
  BY DEF TypeOK
<1>4. [op |-> "issue", email |-> e, now |-> clock, seen |-> S] \in Requests(Len(codes), Len(sessions))
  BY <1>2, <1>3 DEF Requests, TypeOK
<1> QED
  BY <1>1, <1>4, SameCodes, MixTyped, RevisionTyped DEF AskCode

LEMMA EnterTyped ==
    ASSUME TypeOK, NEW t \in Tabs, NEW e \in Emails, NEW k \in Entries(e), Enter(t, e, k)
    PROVE  TypeOK'
<1> DEFINE r(l) == [op |-> "verify", email |-> e, now |-> clock, latest |-> l,
                    tries |-> codes[l].attempts, entry |-> k, first |-> e \notin users]
<1>1. PICK l \in Youngest(e) : Become(t, r(l))
  BY DEF Enter
<1>2. l \in DOMAIN codes /\ DOMAIN codes = 1..Len(codes)
  BY YoungestPending DEF TypeOK
<1>3. codes[l].attempts \in Nat
  <2>1. codes[l] \in Code
    BY <1>2 DEF TypeOK
  <2> QED
    BY <2>1 DEF Code
<1>4. k \in Nat
  BY <1>2 DEF Entries, TypeOK
<1>5. (e \notin users) \in BOOLEAN
  OBVIOUS
<1>6. r(l) \in [op : {"verify"}, email : Emails, now : Nat, latest : 1..Len(codes),
                tries : Nat, entry : Nat, first : BOOLEAN]
  BY <1>2, <1>3, <1>4, <1>5 DEF TypeOK
<1>7. r(l) \in Requests(Len(codes), Len(sessions))
  BY <1>6 DEF Requests
<1> HIDE DEF r
<1> QED
  BY <1>1, <1>7, SameCodes, MixTyped, RevisionTyped DEF Enter

(* Sent, SendFailed, Withdrawn, Refused, WrongCode, RolledBack.             *)
LEMMA WithdrawalTyped ==
    ASSUME TypeOK, NEW e \in Emails, NEW k \in DOMAIN codes, NEW r \in Withdrawal(e, k)
    PROVE  /\ r \in Requests(Len(codes), Len(sessions))
           /\ r = Idle \/ r = [op |-> "expire", email |-> e, entry |-> k]
<1>1. r = Idle \/ r = [op |-> "expire", email |-> e, entry |-> k]
  BY DEF Withdrawal
<1>2. DOMAIN codes = 1..Len(codes)
  BY DEF TypeOK
<1>3. [op |-> "expire", email |-> e, entry |-> k]
        \in [op : {"send", "expire"}, email : Emails, entry : 1..Len(codes)]
  BY <1>2
<1>4. [op |-> "expire", email |-> e, entry |-> k] \in Requests(Len(codes), Len(sessions))
  BY <1>3 DEF Requests
<1> QED
  BY <1>1, <1>4, IdleTyped

LEMMA MailTyped ==
    ASSUME TypeOK, NEW t \in Tabs, Sent(t) \/ SendFailed(t)
    PROVE  TypeOK'
<1>1. req[t].email \in Emails /\ req[t].entry \in DOMAIN codes
  BY RequestParts DEF Sent, SendFailed
<1>2. CASE Sent(t)
  BY <1>1, <1>2, MailRow, IdleTyped, RevisionTyped DEF Sent, TypeOK
<1>3. CASE SendFailed(t)
  <2>1. PICK r \in Withdrawal(req[t].email, req[t].entry) : Become(t, r)
    BY <1>3 DEF SendFailed
  <2>2. r \in Requests(Len(codes), Len(sessions))
    BY <1>1, WithdrawalTyped
  <2>3. RevisedCodes(codes')
    BY <1>1, <1>3, MailRow DEF SendFailed
  <2>4. mixed' \subseteq Emails
    BY <1>1, <1>3, MixTyped DEF SendFailed
  <2> QED
    BY <1>3, <2>1, <2>2, <2>3, <2>4, RevisionTyped DEF SendFailed
<1> QED
  BY <1>2, <1>3

LEMMA ExpiryTyped ==
    ASSUME TypeOK, NEW t \in Tabs, Withdrawn(t) \/ Refused(t) \/ WrongCode(t)
    PROVE  TypeOK' /\ RevisedCodes(codes')
<1>1. CASE Withdrawn(t)
  <2>1. req[t].entry \in DOMAIN codes
    BY <1>1, RequestParts DEF Withdrawn
  <2>2. RevisedCodes(codes')
    BY <1>1, <2>1, SetRevises DEF Withdrawn
  <2> QED
    BY <1>1, <2>2, IdleTyped, RevisionTyped DEF Withdrawn, TypeOK
<1>2. CASE Refused(t)
  <2>1. req[t].latest \in DOMAIN codes
    BY <1>2, RequestParts DEF Refused
  <2>2. RevisedCodes(codes')
    BY <1>2, <2>1, SetRevises DEF Refused
  <2> QED
    BY <1>2, <2>2, IdleTyped, RevisionTyped DEF Refused, TypeOK
<1>3. CASE WrongCode(t)
  <2>1. req[t].latest \in DOMAIN codes /\ req[t].tries \in Nat
    BY <1>3, RequestParts DEF WrongCode
  <2>2. RevisedCodes(codes')
    BY <1>3, <2>1, CountRevises DEF WrongCode
  <2> QED
    BY <1>3, <2>2, IdleTyped, RevisionTyped DEF WrongCode, TypeOK
<1> QED
  BY <1>1, <1>2, <1>3

LEMMA RolledBackTyped ==
    ASSUME TypeOK, NEW t \in Tabs, RolledBack(t)
    PROVE  TypeOK' /\ RevisedCodes(codes')
<1>1. RevisedCodes(codes')
  <2>1. CASE req[t].op = "expire"
    BY <2>1, RequestParts, MailRow DEF RolledBack
  <2>2. CASE req[t].op # "expire"
    BY <2>2, SameCodes DEF RolledBack
  <2> QED
    BY <2>1, <2>2
<1> QED
  BY <1>1, IdleTyped, RevisionTyped DEF RolledBack, TypeOK

(* The steps that write sessions.                                           *)
LEMMA SessionsTyped ==
    ASSUME TypeOK, NEW t \in Tabs,
           sessions' \in Seq(SessionRecord), Len(sessions) <= Len(sessions'),
           DOMAIN sessions \subseteq DOMAIN sessions',
           \A s \in DOMAIN sessions' : sessions'[s].by \in DOMAIN codes,
           RevisedCodes(codes'), users' \subseteq Emails \cup {DevEmail},
           cookie' \in [Browsers -> {0} \cup DOMAIN sessions'],
           NEW r \in Requests(Len(codes), Len(sessions')), Become(t, r),
           UNCHANGED <<clock, mixed>>
    PROVE  TypeOK'
<1>1. codes' \in Seq(Code) /\ Len(codes') = Len(codes) /\ DOMAIN codes' = DOMAIN codes
  BY DEF RevisedCodes
<1>2. req' \in [Tabs -> Request']
  BY <1>1, RequestTyped DEF TypeOK
<1> QED
  BY <1>1, <1>2 DEF TypeOK

(* A step that leaves the rows alone.                                       *)
LEMMA RowsSameTyped ==
    ASSUME TypeOK, NEW t \in Tabs,
           cookie' \in [Browsers -> {0} \cup DOMAIN sessions],
           NEW r \in Requests(Len(codes), Len(sessions)), Become(t, r),
           UNCHANGED <<clock, codes, users, sessions, mixed>>
    PROVE  TypeOK'
<1>1. /\ sessions' \in Seq(SessionRecord) /\ users' \subseteq Emails \cup {DevEmail}
      /\ \A s \in DOMAIN sessions' : sessions'[s].by \in DOMAIN codes
  BY DEF TypeOK
<1>2. RevisedCodes(codes')
  BY SameCodes
<1>3. Len(sessions) <= Len(sessions')
  BY DEF TypeOK
<1> QED
  BY <1>1, <1>2, <1>3, SessionsTyped

LEMMA VerifiedTyped ==
    ASSUME TypeOK, NEW t \in Tabs, Verified(t)
    PROVE  TypeOK' /\ RevisedCodes(codes')
<1> DEFINE r == [op |-> "welcome", token |-> Len(sessions) + 1]
<1>1. req[t].email \in Emails /\ req[t].latest \in DOMAIN codes
  BY RequestParts DEF Verified
<1>2. RevisedCodes(codes')
  BY <1>1, SetRevises DEF Verified, Used
<1>3. /\ sessions' \in Seq(SessionRecord) /\ Len(sessions') = Len(sessions) + 1
      /\ DOMAIN sessions' = DOMAIN sessions \cup {Len(sessions) + 1}
      /\ \A s \in DOMAIN sessions : sessions'[s] = sessions[s]
      /\ sessions'[Len(sessions) + 1] = NewSession(req[t].email, req[t].latest, req[t].first)
  BY VerifiedAdds
<1>4. \A s \in DOMAIN sessions' : sessions'[s].by \in DOMAIN codes
  <2>1. sessions'[Len(sessions) + 1].by = req[t].latest
    BY <1>3 DEF NewSession
  <2>2. \A s \in DOMAIN sessions : sessions'[s].by \in DOMAIN codes
    BY <1>3 DEF TypeOK
  <2> QED
    BY <1>1, <1>3, <2>1, <2>2
<1>5. Len(sessions) \in Nat /\ DOMAIN sessions' = 1..Len(sessions')
  BY <1>3 DEF TypeOK
<1>6. r \in Requests(Len(codes), Len(sessions'))
  BY <1>3, <1>5 DEF Requests
<1>7. cookie' \in [Browsers -> {0} \cup DOMAIN sessions']
  BY <1>3 DEF Verified, TypeOK
<1>8. users' \subseteq Emails \cup {DevEmail}
  BY <1>1 DEF Verified, TypeOK
<1>9. Become(t, r) /\ UNCHANGED <<clock, mixed>>
  BY DEF Verified, NewToken
<1> HIDE DEF r
<1>10. Len(sessions) <= Len(sessions') /\ DOMAIN sessions \subseteq DOMAIN sessions'
  BY <1>3, <1>5
<1> QED
  BY <1>2, <1>3, <1>4, <1>6, <1>7, <1>8, <1>9, <1>10, SessionsTyped

LEMMA WelcomeTyped ==
    ASSUME TypeOK, NEW t \in Tabs, Welcome(t) \/ Clear(t)
    PROVE  TypeOK'
<1>1. cookie' \in [Browsers -> {0} \cup DOMAIN sessions]
  BY RequestParts DEF Welcome, Clear, TypeOK
<1>2. Become(t, Idle) /\ UNCHANGED <<clock, codes, users, sessions, mixed>>
  BY DEF Welcome, Clear
<1> QED
  BY <1>1, <1>2, IdleTyped, RowsSameTyped

LEMMA LogoutTyped ==
    ASSUME TypeOK, NEW t \in Tabs, Logout(t)
    PROVE  TypeOK'
<1> DEFINE r == [op |-> "logout", token |-> cookie[BrowserOf[t]]]
<1>1. cookie[BrowserOf[t]] \in {0} \cup DOMAIN sessions /\ DOMAIN sessions = 1..Len(sessions)
  BY DEF TypeOK, LoginAssumption
<1>2. r \in Requests(Len(codes), Len(sessions))
  BY <1>1 DEF Requests
<1> HIDE DEF r
<1>3. Become(t, r) /\ UNCHANGED <<clock, codes, users, sessions, cookie, mixed>>
  BY DEF Logout, r
<1>4. cookie' \in [Browsers -> {0} \cup DOMAIN sessions]
  BY <1>3 DEF TypeOK
<1> QED
  BY <1>2, <1>3, <1>4, RowsSameTyped

LEMMA LoggedOutTyped ==
    ASSUME TypeOK, NEW t \in Tabs, LoggedOut(t)
    PROVE  TypeOK'
<1> DEFINE r == [op |-> "clear", token |-> req[t].token]
<1>1. req[t].token \in {0} \cup DOMAIN sessions /\ DOMAIN sessions = 1..Len(sessions)
  BY RequestParts DEF LoggedOut, TypeOK
<1>2. /\ sessions' \in Seq(SessionRecord) /\ Len(sessions') = Len(sessions)
      /\ DOMAIN sessions' = DOMAIN sessions
      /\ \A s \in DOMAIN sessions : sessions'[s].by = sessions[s].by
  <2>1. CASE sessions' = sessions
    BY <2>1 DEF TypeOK
  <2>2. CASE req[t].token \in DOMAIN sessions
             /\ sessions' = [sessions EXCEPT ![req[t].token].status = "expired"]
    BY <2>2, SessionSet DEF TypeOK
  <2> QED
    BY <1>1, <2>1, <2>2 DEF LoggedOut
<1>3. r \in Requests(Len(codes), Len(sessions'))
  BY <1>1, <1>2 DEF Requests
<1> HIDE DEF r
<1>4. Become(t, r) /\ UNCHANGED <<clock, codes, users, cookie, mixed>>
  BY DEF LoggedOut, r
<1>5. RevisedCodes(codes')
  BY <1>4, SameCodes
<1>6. /\ \A s \in DOMAIN sessions' : sessions'[s].by \in DOMAIN codes
      /\ users' \subseteq Emails \cup {DevEmail}
      /\ cookie' \in [Browsers -> {0} \cup DOMAIN sessions']
      /\ Len(sessions) <= Len(sessions') /\ DOMAIN sessions \subseteq DOMAIN sessions'
  BY <1>2, <1>4 DEF TypeOK
<1> QED
  BY <1>2, <1>3, <1>4, <1>5, <1>6, SessionsTyped

LEMMA FallBackTyped ==
    ASSUME TypeOK, NEW t \in Tabs, FallBack(t)
    PROVE  TypeOK'
<1>1. cookie[BrowserOf[t]] \in {0} \cup DOMAIN sessions
  BY DEF TypeOK, LoginAssumption
<1>2. /\ sessions' \in Seq(SessionRecord) /\ Len(sessions') = Len(sessions)
      /\ DOMAIN sessions' = DOMAIN sessions
      /\ \A s \in DOMAIN sessions : sessions'[s].by = sessions[s].by
  BY <1>1, SessionSet DEF FallBack, TypeOK
<1>3. req' \in [Tabs -> Request']
  <2>1. codes' = codes /\ req' = req
    BY DEF FallBack
  <2>2. Request' = Request
    BY <1>2, <2>1 DEF Request
  <2> QED
    BY <2>1, <2>2 DEF TypeOK
<1>4. UNCHANGED <<clock, codes, cookie, mixed>> /\ users' = users \cup {DevEmail}
  BY DEF FallBack
<1>5. \A s \in DOMAIN sessions' : sessions'[s].by \in DOMAIN codes'
  BY <1>2, <1>4 DEF TypeOK
<1> QED
  BY <1>2, <1>3, <1>4, <1>5 DEF TypeOK

LEMMA StepTyped ==
    ASSUME TypeOK, [Next]_vars
    PROVE  TypeOK'
<1>1. CASE Tick
  BY <1>1 DEF Tick, TypeOK, Request
<1>2. CASE UNCHANGED vars
  BY <1>2 DEF vars, TypeOK, Request
<1>3. ASSUME NEW t \in Tabs, Step(t)
      PROVE  TypeOK'
  BY <1>3, AskTyped, EnterTyped, IssuedTyped, MailTyped, ExpiryTyped, VerifiedTyped,
     WelcomeTyped, RolledBackTyped, FallBackTyped, LogoutTyped, LoggedOutTyped DEF Step
<1> QED
  BY <1>1, <1>2, <1>3 DEF Next

(* Rows and requests have their types and refer to rows.                    *)
THEOREM LoginTypeCorrect == Spec => []TypeOK
<1>1. TypeOK /\ [Next]_vars => TypeOK'
  BY StepTyped
<1> QED
  BY InitTyped, <1>1, PTL DEF Spec

-----------------------------------------------------------------------------
(* Cookies.  No session is in the hands of two browsers, and one whose       *)
(* answer is under way is in nobody else's: it is active.                   *)

OfSession(t) == req[t].op \in {"welcome", "logout", "clear"} /\ req[t].token # 0

OneBrowser ==
    /\ \A a, b \in Browsers : cookie[a] # 0 /\ cookie[a] = cookie[b] => a = b
    /\ \A a \in Browsers, t \in Tabs : OfSession(t) /\ cookie[a] = req[t].token => BrowserOf[t] = a
    /\ \A t, u \in Tabs :
         OfSession(t) /\ OfSession(u) /\ req[t].token = req[u].token => BrowserOf[t] = BrowserOf[u]

Welcomed(t) ==
    /\ sessions[req[t].token].status = "active"
    /\ \A b \in Browsers : cookie[b] # req[t].token
    /\ \A u \in Tabs : u # t /\ OfSession(u) => req[u].token # req[t].token

CookieInv ==
    /\ TypeOK
    /\ OneBrowser
    /\ \A t \in Tabs : req[t].op = "welcome" => Welcomed(t)
    /\ CookieIsLive

LEMMA BecomeOf ==
    ASSUME TypeOK, NEW t \in Tabs, NEW r, Become(t, r)
    PROVE  req'[t] = r /\ \A u \in Tabs : u # t => req'[u] = req[u]
  BY DEF Become, TypeOK

LEMMA CookiesOfState ==
    ASSUME TypeOK, NEW b \in Browsers
    PROVE  /\ cookie[b] = 0 \/ cookie[b] \in DOMAIN sessions
           /\ 0 \notin DOMAIN sessions
  BY DEF TypeOK

(* The answer to a login carries a session.                                 *)
LEMMA WelcomeOf ==
    ASSUME NEW t \in Tabs
    PROVE  /\ TypeOK /\ req[t].op = "welcome" => OfSession(t)
           /\ TypeOK' /\ req'[t].op = "welcome" => OfSession(t)'
<1>1. TypeOK => req[t] \in Request /\ 0 \notin DOMAIN sessions
  BY DEF TypeOK
<1>2. TypeOK' => req'[t] \in Request' /\ 0 \notin DOMAIN sessions'
  BY DEF TypeOK
<1> QED
  BY <1>1, <1>2 DEF Request, OfSession

ClearKept(t) == req[t].op = "clear" => req'[t].op = "clear"

(* Steps that leave sessions and cookies alone.                             *)
LEMMA CookiesKept ==
    ASSUME CookieInv, TypeOK', UNCHANGED <<sessions, cookie>>, clock' \in {clock, clock + 1},
           \A u \in Tabs : \/ req'[u] = req[u]
                           \/ ~ OfSession(u) /\ ~ OfSession(u)' /\ ClearKept(u)
    PROVE  CookieInv'
<1>1. \A u \in Tabs : OfSession(u)' => OfSession(u) /\ req'[u] = req[u]
  BY DEF OfSession
<1>2. \A u \in Tabs : OfSession(u) => OfSession(u)' /\ req'[u] = req[u]
  BY DEF OfSession
<1>3. OneBrowser'
  BY <1>1 DEF CookieInv, OneBrowser
<1>4. ASSUME NEW t \in Tabs, req'[t].op = "welcome"
      PROVE  Welcomed(t)'
  <2>1. OfSession(t)'
    BY <1>4, WelcomeOf
  <2>2. req'[t] = req[t]
    BY <1>1, <2>1
  <2> QED
    BY <1>1, <1>4, <2>2 DEF CookieInv, Welcomed
<1>5. CookieIsLive'
  <2> SUFFICES ASSUME NEW b \in Browsers, cookie[b] # 0, sessions[cookie[b]].status # "active",
                      ~(sessions[cookie[b]].expires < clock')
               PROVE  \E t \in Tabs : BrowserOf[t] = b /\ req'[t].op = "clear"
    BY DEF CookieIsLive
  <2>1. sessions[cookie[b]].expires \in Nat /\ clock \in Nat
    <3>1. sessions[cookie[b]] \in SessionRecord
      BY CookiesOfState DEF CookieInv, TypeOK
    <3> QED
      BY <3>1 DEF SessionRecord, CookieInv, TypeOK
  <2>2. ~(sessions[cookie[b]].expires < clock)
    BY <2>1
  <2>3. PICK t \in Tabs : BrowserOf[t] = b /\ req[t].op = "clear"
    BY <2>2 DEF CookieInv, CookieIsLive
  <2> QED
    BY <2>3 DEF ClearKept
<1> QED
  BY <1>3, <1>4, <1>5 DEF CookieInv

(* A new session is known to nobody but the tab that is told.               *)
LEMMA VerifiedCookies ==
    ASSUME CookieInv, TypeOK', NEW t \in Tabs, Verified(t)
    PROVE  CookieInv'
<1> DEFINE new == Len(sessions) + 1
<1>1. /\ DOMAIN sessions' = DOMAIN sessions \cup {new} /\ new \notin DOMAIN sessions /\ new # 0
      /\ \A s \in DOMAIN sessions : sessions'[s] = sessions[s]
      /\ sessions'[new].status = "active"
  <2>1. TypeOK /\ Len(sessions) \in Nat
    BY DEF CookieInv, TypeOK
  <2>2. new # 0
    BY <2>1
  <2>3. /\ DOMAIN sessions' = DOMAIN sessions \cup {new} /\ new \notin DOMAIN sessions
        /\ \A s \in DOMAIN sessions : sessions'[s] = sessions[s]
        /\ sessions'[new] = NewSession(req[t].email, req[t].latest, req[t].first)
    BY <2>1, VerifiedAdds
  <2>4. sessions'[new].status = "active"
    BY <2>3 DEF NewSession
  <2> QED
    BY <2>2, <2>3, <2>4
<1>2. /\ req'[t] = [op |-> "welcome", token |-> new]
      /\ \A u \in Tabs : u # t => req'[u] = req[u]
      /\ req[t].op = "verify" /\ UNCHANGED <<cookie, clock>>
  BY BecomeOf DEF Verified, CookieInv, NewToken
<1> HIDE DEF new
<1>3. /\ \A b \in Browsers : cookie[b] # new
      /\ \A u \in Tabs : OfSession(u) => req[u].token \in DOMAIN sessions /\ req[u].token # new
  BY <1>1, CookiesOfState, RequestParts DEF CookieInv, OfSession
<1>4. \A u \in Tabs : OfSession(u)' => u = t \/ (u # t /\ OfSession(u) /\ req'[u] = req[u])
  BY <1>2 DEF OfSession
<1>5. OneBrowser'
  BY <1>2, <1>3, <1>4 DEF CookieInv, OneBrowser
<1>6. ASSUME NEW u \in Tabs, req'[u].op = "welcome"
      PROVE  Welcomed(u)'
  <2>1. CASE u = t
    BY <1>1, <1>2, <1>3, <1>4, <2>1 DEF Welcomed
  <2>2. CASE u # t
    <3>1. req'[u] = req[u] /\ OfSession(u) /\ req[u].token \in DOMAIN sessions
      BY <1>2, <1>3, <1>6, <2>2, WelcomeOf DEF CookieInv
    <3>2. Welcomed(u)
      BY <1>6, <3>1 DEF CookieInv
    <3> QED
      BY <1>1, <1>2, <1>3, <1>4, <2>2, <3>1, <3>2 DEF Welcomed
  <2> QED
    BY <2>1, <2>2
<1>7. CookieIsLive'
  <2> SUFFICES ASSUME NEW b \in Browsers, cookie[b] # 0, sessions'[cookie[b]].status # "active",
                      ~(sessions'[cookie[b]].expires < clock)
               PROVE  \E u \in Tabs : BrowserOf[u] = b /\ req'[u].op = "clear"
    BY <1>2 DEF CookieIsLive
  <2>1. sessions'[cookie[b]] = sessions[cookie[b]]
    BY <1>1, CookiesOfState DEF CookieInv
  <2>2. PICK u \in Tabs : BrowserOf[u] = b /\ req[u].op = "clear"
    BY <2>1 DEF CookieInv, CookieIsLive
  <2> QED
    BY <1>2, <2>2
<1> QED
  BY <1>5, <1>6, <1>7 DEF CookieInv

(* A browser takes a new session, or loses the one it has.                  *)
LEMMA AnswerCookies ==
    ASSUME CookieInv, TypeOK', NEW t \in Tabs, Welcome(t) \/ Clear(t)
    PROVE  CookieInv'
<1> DEFINE c == IF req[t].op = "welcome" THEN req[t].token ELSE 0
<1>1. /\ UNCHANGED <<sessions, clock>> /\ req[t].op \in {"welcome", "clear"}
      /\ req'[t] = Idle /\ Idle.op = "idle" /\ \A u \in Tabs : u # t => req'[u] = req[u]
  BY BecomeOf DEF Welcome, Clear, CookieInv, Idle
<1>2. /\ BrowserOf[t] \in Browsers /\ cookie'[BrowserOf[t]] = c
      /\ \A b \in Browsers : b # BrowserOf[t] => cookie'[b] = cookie[b]
  BY LoginAssumption DEF Welcome, Clear, CookieInv, TypeOK
<1>3. \A u \in Tabs : OfSession(u)' => u # t /\ OfSession(u) /\ req'[u] = req[u]
  BY <1>1 DEF OfSession
<1>4. \A u \in Tabs : OfSession(u) => req[u].token \in DOMAIN sessions /\ req[u].token # 0
  BY RequestParts DEF OfSession, CookieInv, TypeOK
<1>5. req[t].op = "welcome" => Welcomed(t) /\ OfSession(t)
  BY WelcomeOf DEF CookieInv
<1>6. c # 0 => req[t].op = "welcome" /\ c = req[t].token
  OBVIOUS
<1> HIDE DEF c
<1>7. OneBrowser'
  <2>1. ASSUME NEW a \in Browsers, NEW b \in Browsers, cookie'[a] # 0, cookie'[a] = cookie'[b]
        PROVE  a = b
    BY <1>2, <1>5, <1>6, <2>1 DEF CookieInv, OneBrowser, Welcomed
  <2>2. ASSUME NEW a \in Browsers, NEW u \in Tabs, OfSession(u)', cookie'[a] = req'[u].token
        PROVE  BrowserOf[u] = a
    <3>1. u # t /\ OfSession(u) /\ req'[u] = req[u] /\ req[u].token # 0
      BY <1>3, <1>4, <2>2
    <3>2. CASE a = BrowserOf[t]
      BY <1>2, <1>5, <1>6, <2>2, <3>1, <3>2 DEF Welcomed
    <3>3. CASE a # BrowserOf[t]
      BY <1>2, <2>2, <3>1, <3>3 DEF CookieInv, OneBrowser
    <3> QED
      BY <3>2, <3>3
  <2>3. ASSUME NEW u \in Tabs, NEW v \in Tabs, OfSession(u)', OfSession(v)', req'[u].token = req'[v].token
        PROVE  BrowserOf[u] = BrowserOf[v]
    BY <1>3, <2>3 DEF CookieInv, OneBrowser
  <2> QED
    BY <2>1, <2>2, <2>3 DEF OneBrowser
<1>8. ASSUME NEW u \in Tabs, req'[u].op = "welcome"
      PROVE  Welcomed(u)'
  <2>1. u # t /\ OfSession(u) /\ req'[u] = req[u]
    BY <1>3, <1>8, WelcomeOf
  <2>2. Welcomed(u)
    BY <1>8, <2>1 DEF CookieInv
  <2>3. c # req[u].token
    BY <1>4, <1>5, <1>6, <2>1 DEF Welcomed
  <2>4. \A b \in Browsers : cookie'[b] # req[u].token
    BY <1>2, <2>2, <2>3 DEF Welcomed
  <2> QED
    BY <1>1, <1>3, <2>1, <2>2, <2>4 DEF Welcomed
<1>9. CookieIsLive'
  <2> SUFFICES ASSUME NEW b \in Browsers, cookie'[b] # 0, sessions[cookie'[b]].status # "active",
                      ~(sessions[cookie'[b]].expires < clock)
               PROVE  \E u \in Tabs : BrowserOf[u] = b /\ req'[u].op = "clear"
    BY <1>1 DEF CookieIsLive
  <2>1. b # BrowserOf[t]
    BY <1>2, <1>5, <1>6 DEF Welcomed
  <2>2. PICK u \in Tabs : BrowserOf[u] = b /\ req[u].op = "clear"
    BY <1>2, <2>1 DEF CookieInv, CookieIsLive
  <2> QED
    BY <1>1, <2>1, <2>2
<1> QED
  BY <1>7, <1>8, <1>9 DEF CookieInv

(* A session ends: by its browser's logout, or because it is past its time.  *)
LEMMA EndedCookies ==
    ASSUME CookieInv, TypeOK', NEW s \in DOMAIN sessions, NEW b \in Browsers,
           sessions' = [sessions EXCEPT ![s].status = "expired"], UNCHANGED <<clock, cookie>>,
           \A a \in Browsers : cookie[a] = s => a = b,
           \A u \in Tabs : req[u].op = "welcome" => req[u].token # s,
           \/ cookie[b] # s \/ sessions[s].expires < clock
           \/ \E u \in Tabs : BrowserOf[u] = b /\ req'[u].op = "clear",
           \A u \in Tabs : \/ req'[u] = req[u]
                           \/ /\ OfSession(u) /\ req'[u].op = "clear" /\ req'[u].token = req[u].token
                              /\ req[u].op # "clear"
    PROVE  CookieInv'
<1>1. /\ \A u \in DOMAIN sessions :
           sessions'[u] = IF u = s THEN [sessions[s] EXCEPT !.status = "expired"] ELSE sessions[u]
      /\ \A u \in DOMAIN sessions : sessions'[u].expires = sessions[u].expires
  BY SessionSet DEF CookieInv
<1>2. \A u \in Tabs : OfSession(u)' => OfSession(u) /\ req'[u].token = req[u].token
  BY DEF OfSession
<1>3. OneBrowser'
  BY <1>2 DEF CookieInv, OneBrowser
<1>4. ASSUME NEW u \in Tabs, req'[u].op = "welcome"
      PROVE  Welcomed(u)'
  <2>1. req'[u] = req[u] /\ Welcomed(u)
    BY <1>4 DEF CookieInv
  <2>2. req[u].token # s /\ req[u].token \in DOMAIN sessions
    BY <1>4, <2>1, RequestParts DEF CookieInv
  <2>3. sessions'[req[u].token] = sessions[req[u].token]
    BY <1>1, <2>2
  <2> QED
    BY <1>2, <2>1, <2>3 DEF Welcomed
<1>5. CookieIsLive'
  <2> SUFFICES ASSUME NEW a \in Browsers, cookie[a] # 0, sessions'[cookie[a]].status # "active",
                      ~(sessions'[cookie[a]].expires < clock)
               PROVE  \E u \in Tabs : BrowserOf[u] = a /\ req'[u].op = "clear"
    BY DEF CookieIsLive
  <2>1. cookie[a] \in DOMAIN sessions /\ ~(sessions[cookie[a]].expires < clock)
    BY <1>1, CookiesOfState DEF CookieInv
  <2>2. CASE cookie[a] = s
    BY <2>1, <2>2
  <2>3. CASE cookie[a] # s
    <3>1. sessions[cookie[a]].status # "active"
      BY <1>1, <2>1, <2>3
    <3>2. PICK u \in Tabs : BrowserOf[u] = a /\ req[u].op = "clear"
      BY <2>1, <3>1 DEF CookieInv, CookieIsLive
    <3> QED
      BY <3>2
  <2> QED
    BY <2>2, <2>3
<1> QED
  BY <1>3, <1>4, <1>5 DEF CookieInv

(* A logout is sent, or its write fails.                                    *)
LEMMA LogoutCookies ==
    ASSUME CookieInv, TypeOK', UNCHANGED <<sessions, cookie, clock>>, NEW t \in Tabs,
           req[t].op \in {"idle", "logout"}, req'[t].op \in {"logout", "clear"},
           \/ OfSession(t) /\ req'[t].token = req[t].token
           \/ cookie[BrowserOf[t]] # 0 /\ req'[t].token = cookie[BrowserOf[t]],
           \A u \in Tabs : u # t => req'[u] = req[u]
    PROVE  CookieInv'
<1>1. \A u \in Tabs : OfSession(u)' => u = t \/ (OfSession(u) /\ req'[u] = req[u])
  BY DEF OfSession
<1>2. BrowserOf[t] \in Browsers
  BY LoginAssumption
<1>3. \A a \in Browsers : cookie[a] = req'[t].token => BrowserOf[t] = a
  BY <1>2 DEF CookieInv, OneBrowser
<1>4. \A u \in Tabs : OfSession(u) /\ req[u].token = req'[t].token => BrowserOf[u] = BrowserOf[t]
  BY <1>2 DEF CookieInv, OneBrowser
<1>5. OneBrowser'
  <2>1. \A a, b \in Browsers : cookie'[a] # 0 /\ cookie'[a] = cookie'[b] => a = b
    BY DEF CookieInv, OneBrowser
  <2>2. \A a \in Browsers, u \in Tabs :
           OfSession(u)' /\ cookie'[a] = req'[u].token => BrowserOf[u] = a
    BY <1>1, <1>3 DEF CookieInv, OneBrowser
  <2>3. \A u, v \in Tabs :
           OfSession(u)' /\ OfSession(v)' /\ req'[u].token = req'[v].token
              => BrowserOf[u] = BrowserOf[v]
    BY <1>1, <1>4 DEF CookieInv, OneBrowser
  <2> QED
    BY <2>1, <2>2, <2>3 DEF OneBrowser
<1>6. ASSUME NEW u \in Tabs, req'[u].op = "welcome"
      PROVE  Welcomed(u)'
  <2>1. u # t /\ req'[u] = req[u] /\ Welcomed(u)
    BY <1>6 DEF CookieInv
  <2>2. req'[t].token # req[u].token
    BY <1>2, <2>1 DEF Welcomed
  <2> QED
    BY <1>1, <2>1, <2>2 DEF Welcomed
<1>7. CookieIsLive'
  <2> SUFFICES ASSUME NEW b \in Browsers, cookie[b] # 0, sessions[cookie[b]].status # "active",
                      ~(sessions[cookie[b]].expires < clock)
               PROVE  \E u \in Tabs : BrowserOf[u] = b /\ req'[u].op = "clear"
    BY DEF CookieIsLive
  <2>1. PICK u \in Tabs : BrowserOf[u] = b /\ req[u].op = "clear"
    BY DEF CookieInv, CookieIsLive
  <2> QED
    BY <2>1
<1> QED
  BY <1>5, <1>6, <1>7 DEF CookieInv

LEMMA LoggedOutCookies ==
    ASSUME CookieInv, TypeOK', NEW t \in Tabs, LoggedOut(t)
    PROVE  CookieInv'
<1> DEFINE s == req[t].token
           b == BrowserOf[t]
<1>1. /\ req[t].op = "logout" /\ req'[t] = [op |-> "clear", token |-> s]
      /\ \A u \in Tabs : u # t => req'[u] = req[u]
      /\ UNCHANGED <<clock, cookie>>
  BY BecomeOf DEF LoggedOut, CookieInv
<1>2. s \in {0} \cup DOMAIN sessions /\ b \in Browsers /\ (s # 0 => OfSession(t))
  BY <1>1, RequestParts, LoginAssumption DEF CookieInv, OfSession
<1>3. req'[t].op = "clear" /\ req'[t].token = s
  BY <1>1
<1>4. CASE sessions' = sessions
  <2> HIDE DEF s
  <2>1. CASE s = 0
    <3>1. ~ OfSession(t) /\ ~ OfSession(t)' /\ ClearKept(t)
      BY <1>3, <2>1 DEF OfSession, ClearKept, s
    <3> QED
      BY <1>1, <1>4, <3>1, CookiesKept
  <2>2. CASE s # 0
    BY <1>1, <1>2, <1>3, <1>4, <2>2, LogoutCookies DEF s
  <2> QED
    BY <2>1, <2>2
<1>5. CASE s # 0 /\ sessions' = [sessions EXCEPT ![s].status = "expired"]
  <2>1. \A a \in Browsers : cookie[a] = s => a = b
    BY <1>2, <1>5 DEF CookieInv, OneBrowser
  <2>2. \A u \in Tabs : req[u].op = "welcome" => req[u].token # s
    BY <1>1, <1>2, <1>5 DEF CookieInv, Welcomed
  <2>3. \E u \in Tabs : BrowserOf[u] = b /\ req'[u].op = "clear"
    BY <1>3
  <2>4. \A u \in Tabs : \/ req'[u] = req[u]
                         \/ /\ OfSession(u) /\ req'[u].op = "clear" /\ req'[u].token = req[u].token
                            /\ req[u].op # "clear"
    BY <1>1, <1>2, <1>3, <1>5
  <2> HIDE DEF s, b
  <2> QED
    BY <1>1, <1>2, <1>5, <2>1, <2>2, <2>3, <2>4, EndedCookies
<1> QED
  BY <1>4, <1>5 DEF LoggedOut

LEMMA FallBackCookies ==
    ASSUME CookieInv, TypeOK', NEW t \in Tabs, FallBack(t)
    PROVE  CookieInv'
<1> DEFINE b == BrowserOf[t]
           s == cookie[b]
<1>1. b \in Browsers /\ UNCHANGED <<clock, codes, cookie, req, mixed>> /\ ~ Live(s)
  BY LoginAssumption DEF FallBack
<1>2. CASE s = 0
  <2>1. UNCHANGED <<sessions, cookie, clock, req>>
    BY <1>1, <1>2 DEF FallBack
  <2> QED
    BY <2>1, CookiesKept
<1>3. CASE s # 0
  <2>1. sessions' = [sessions EXCEPT ![s].status = "expired"]
    BY <1>3 DEF FallBack
  <2>2. s \in DOMAIN sessions
    BY <1>1, <1>3, CookiesOfState DEF CookieInv
  <2>3. \A a \in Browsers : cookie[a] = s => a = b
    BY <1>1, <1>3 DEF CookieInv, OneBrowser
  <2>4. \A u \in Tabs : req[u].op = "welcome" => req[u].token # s
    BY <1>1 DEF CookieInv, Welcomed
  <2>5. sessions[s].expires < clock \/ \E u \in Tabs : BrowserOf[u] = b /\ req'[u].op = "clear"
    BY <1>1, <1>3 DEF CookieInv, CookieIsLive, Live
  <2>6. \A u \in Tabs : req'[u] = req[u]
    BY <1>1
  <2> HIDE DEF s, b
  <2> QED
    BY <1>1, <2>1, <2>2, <2>3, <2>4, <2>5, <2>6, EndedCookies
<1> QED
  BY <1>2, <1>3

LEMMA StepCookies ==
    ASSUME CookieInv, [Next]_vars
    PROVE  CookieInv'
<1>1. TypeOK /\ TypeOK'
  BY StepTyped DEF CookieInv
<1>2. CASE Tick \/ UNCHANGED vars
  <2>1. UNCHANGED <<sessions, cookie, req>> /\ clock' \in {clock, clock + 1}
    BY <1>2 DEF Tick, vars
  <2> QED
    BY <1>1, <2>1, CookiesKept
<1>3. ASSUME NEW t \in Tabs, NEW e \in Emails, AskCode(t, e) \/ (\E k \in Entries(e) : Enter(t, e, k))
      PROVE  CookieInv'
  <2>1. UNCHANGED <<sessions, cookie, clock>> /\ req[t].op = "idle"
    BY <1>3 DEF AskCode, Enter
  <2>2. \E r : Become(t, r) /\ r.op \in {"issue", "verify"}
    <3>1. CASE AskCode(t, e)
      BY <3>1 DEF AskCode
    <3>2. CASE \E k \in Entries(e) : Enter(t, e, k)
      <4>1. PICK k, l : Become(t, [op |-> "verify", email |-> e, now |-> clock, latest |-> l,
                                   tries |-> codes[l].attempts, entry |-> k,
                                   first |-> e \notin users])
        BY <3>2 DEF Enter
      <4> QED
        BY <4>1
    <3> QED
      BY <1>3, <3>1, <3>2
  <2>3. \A u \in Tabs : \/ req'[u] = req[u]
                        \/ ~ OfSession(u) /\ ~ OfSession(u)' /\ ClearKept(u)
    BY <1>1, <2>1, <2>2, BecomeOf DEF OfSession, ClearKept
  <2> QED
    BY <1>1, <2>1, <2>3, CookiesKept
<1>4. ASSUME NEW t \in Tabs, Issued(t) \/ Sent(t) \/ SendFailed(t) \/ Withdrawn(t) \/ Refused(t)
                              \/ WrongCode(t) \/ RolledBack(t)
      PROVE  CookieInv'
  <2>1. UNCHANGED <<sessions, cookie, clock>> /\ req[t].op \in {"issue", "send", "expire", "verify"}
    BY <1>4 DEF Issued, Sent, SendFailed, Withdrawn, Refused, WrongCode, RolledBack
  <2>2. \E r : Become(t, r) /\ r.op \in {"idle", "send", "expire"}
    <3>1. \A e, k : \A r \in Withdrawal(e, k) : r.op \in {"idle", "expire"}
      BY DEF Withdrawal, Idle
    <3> QED
      BY <1>4, <3>1 DEF Issued, Sent, SendFailed, Withdrawn, Refused, WrongCode, RolledBack, Idle
  <2>3. \A u \in Tabs : \/ req'[u] = req[u]
                        \/ ~ OfSession(u) /\ ~ OfSession(u)' /\ ClearKept(u)
    BY <1>1, <2>1, <2>2, BecomeOf DEF OfSession, ClearKept
  <2> QED
    BY <1>1, <2>1, <2>3, CookiesKept
<1>5. ASSUME NEW t \in Tabs, Logout(t)
      PROVE  CookieInv'
  <2>1. /\ req'[t] = [op |-> "logout", token |-> cookie[BrowserOf[t]]]
        /\ \A u \in Tabs : u # t => req'[u] = req[u]
    BY <1>1, <1>5, BecomeOf DEF Logout
  <2>2. req'[t].op = "logout" /\ req'[t].token = cookie[BrowserOf[t]]
    BY <2>1
  <2>3. req[t].op = "idle" /\ UNCHANGED <<sessions, cookie, clock>>
    BY <1>5 DEF Logout
  <2>4. CASE cookie[BrowserOf[t]] = 0
    <3>1. ~ OfSession(t) /\ ~ OfSession(t)' /\ ClearKept(t)
      BY <2>2, <2>3, <2>4 DEF OfSession, ClearKept
    <3> QED
      BY <1>1, <2>1, <2>3, <3>1, CookiesKept
  <2>5. CASE cookie[BrowserOf[t]] # 0
    BY <1>1, <2>1, <2>2, <2>3, <2>5, LogoutCookies
  <2> QED
    BY <2>4, <2>5
<1>6. ASSUME NEW t \in Tabs, Verified(t) \/ Welcome(t) \/ Clear(t) \/ LoggedOut(t) \/ FallBack(t)
      PROVE  CookieInv'
  BY <1>1, <1>6, VerifiedCookies, AnswerCookies, LoggedOutCookies, FallBackCookies
<1> QED
  BY <1>2, <1>3, <1>4, <1>5, <1>6 DEF Next, Step

LEMMA InitCookies == Init => CookieInv
<1> SUFFICES ASSUME Init
             PROVE  CookieInv
  OBVIOUS
<1>1. (\A t \in Tabs : req[t].op = "idle") /\ \A b \in Browsers : cookie[b] = 0
  BY DEF Init, Idle
<1> QED
  BY <1>1, InitTyped DEF CookieInv, OneBrowser, OfSession, CookieIsLive

(* No browser goes on with a session that was ended, but for the moment      *)
(* before the answer to its logout.                                         *)
THEOREM CookieIsLiveCorrect == Spec => []CookieIsLive
<1>1. CookieInv /\ [Next]_vars => CookieInv'
  BY StepCookies
<1>2. CookieInv => CookieIsLive
  BY DEF CookieInv
<1> QED
  BY InitCookies, <1>1, <1>2, PTL DEF Spec

------------------------------------------------------------------------------
(* The codes of a login, for any number of them.                            *)
(*                                                                          *)
(* The argument.  A commit writes what was computed from a row read before. *)
(* While no two transactions of an address overlap, the one in flight still *)
(* sees the rows as they are (Fresh), so what it writes is right; once they *)
(* overlap, the address is mixed and only what rows never undo is left: a   *)
(* code that is no longer pending stays so, and keeps its address.          *)

(* The code a request is about is one of the address of the request.        *)
Owns(t) ==
    /\ req[t].op \in {"send", "expire"} => codes[req[t].entry].email = req[t].email
    /\ req[t].op = "verify" => codes[req[t].latest].email = req[t].email
    /\ req[t].op = "issue" => \A k \in req[t].seen : codes[k].email = req[t].email

(* What a transaction read is still so.                                     *)
Fresh(t) ==
    /\ req[t].op = "verify" /\ req[t].email \notin mixed =>
         /\ codes[req[t].latest].status = "pending"
         /\ codes[req[t].latest].attempts = req[t].tries
    /\ req[t].op = "issue" /\ req[t].email \notin mixed =>
         \A k \in DOMAIN codes :
            codes[k].email = req[t].email /\ codes[k].status = "pending" => k \in req[t].seen

Alone ==
    \A t, u \in Tabs : t # u =>
       \A e \in Emails : InTransaction(t, e) /\ InTransaction(u, e) => e \in mixed

CodePart ==
    /\ \A t \in Tabs : Owns(t) /\ Fresh(t)
    /\ Alone
    /\ PendingIsNewest /\ GuessesCounted /\ UndeliveredWithdrawn

SessionPart ==
    /\ \A s \in DOMAIN sessions : sessions[s].email \in users
    /\ SpentCode /\ OneLoginPerCode

CodesInv == TypeOK /\ CodePart /\ SessionPart

-----------------------------------------------------------------------------
(* The sessions, when no one is added.                                      *)

LEMMA SessionsKept ==
    ASSUME TypeOK, SessionPart,
           \A k \in DOMAIN codes : Revised(codes[k], codes'[k]),
           DOMAIN sessions' = DOMAIN sessions,
           \A s \in DOMAIN sessions : /\ sessions'[s].by = sessions[s].by
                                      /\ sessions'[s].email = sessions[s].email
                                      /\ sessions'[s].first = sessions[s].first,
           users \subseteq users', mixed \subseteq mixed'
    PROVE  SessionPart'
<1>1. \A s \in DOMAIN sessions' : sessions'[s].email \in users'
  BY DEF SessionPart
<1>2. SpentCode'
  <2> SUFFICES ASSUME NEW s \in DOMAIN sessions
               PROVE  /\ codes'[sessions'[s].by].status # "pending"
                      /\ codes'[sessions'[s].by].email = sessions'[s].email
    BY DEF SpentCode
  <2>1. sessions[s].by \in DOMAIN codes
    BY DEF TypeOK
  <2> QED
    BY <2>1 DEF SessionPart, SpentCode, Revised
<1>3. OneLoginPerCode'
  BY DEF SessionPart, OneLoginPerCode
<1> QED
  BY <1>1, <1>2, <1>3 DEF SessionPart

-----------------------------------------------------------------------------
(* The codes, when nothing of them changes but the mail.                    *)

SameButMail ==
    /\ DOMAIN codes' = DOMAIN codes
    /\ \A k \in DOMAIN codes :
         /\ codes'[k].email = codes[k].email /\ codes'[k].status = codes[k].status
         /\ codes'[k].attempts = codes[k].attempts /\ codes'[k].guesses = codes[k].guesses

LEMMA MailKeepsRows ==
    ASSUME TypeOK, CodePart, SameButMail, mixed \subseteq mixed'
    PROVE  PendingIsNewest' /\ GuessesCounted'
<1>1. PendingIsNewest'
  BY DEF CodePart, PendingIsNewest, SameButMail
<1>2. GuessesCounted'
  BY DEF CodePart, GuessesCounted, SameButMail
<1> QED
  BY <1>1, <1>2

LEMMA MailKeepsRequest ==
    ASSUME TypeOK, CodePart, SameButMail, mixed \subseteq mixed',
           NEW u \in Tabs, req'[u] = req[u]
    PROVE  Owns(u)' /\ Fresh(u)'
<1>1. /\ req[u].op \in {"send", "expire"} => req[u].entry \in DOMAIN codes
      /\ req[u].op = "verify" => req[u].latest \in DOMAIN codes
      /\ req[u].op = "issue" => req[u].seen \subseteq DOMAIN codes
  BY RequestParts
<1>2. Owns(u) /\ Fresh(u)
  BY DEF CodePart
<1>3. Owns(u)'
  BY <1>1, <1>2 DEF Owns, SameButMail
<1>4. Fresh(u)'
  BY <1>1, <1>2 DEF Fresh, SameButMail
<1> QED
  BY <1>3, <1>4

(* Steps of tabs that do not touch codes: none enters a transaction, and no  *)
(* withdrawal ends.                                                          *)
LEMMA StillKeeps ==
    ASSUME TypeOK, CodePart, UNCHANGED <<codes, mixed>>,
           \A u \in Tabs : \/ req'[u] = req[u]
                           \/ /\ req'[u].op \notin {"issue", "verify", "expire", "send"}
                              /\ req[u].op # "expire"
    PROVE  CodePart'
<1>1. SameButMail
  BY DEF SameButMail
<1>2. \A u \in Tabs : Owns(u)' /\ Fresh(u)'
  <2> TAKE u \in Tabs
  <2>1. CASE req'[u] = req[u]
    BY <1>1, <2>1, MailKeepsRequest
  <2>2. CASE req'[u].op \notin {"issue", "verify", "expire", "send"}
    BY <2>2 DEF Owns, Fresh
  <2> QED
    BY <2>1, <2>2
<1>3. Alone'
  <2>1. \A u \in Tabs, e \in Emails : InTransaction(u, e)' => InTransaction(u, e)
    BY DEF InTransaction
  <2> QED
    BY <2>1 DEF CodePart, Alone
<1>4. UndeliveredWithdrawn'
  BY DEF CodePart, UndeliveredWithdrawn
<1> QED
  BY <1>1, <1>2, <1>3, <1>4, MailKeepsRows DEF CodePart

-----------------------------------------------------------------------------
(* A transaction of the address e ends: it wrote rows of e only.            *)

OnlyOf(e) ==
    /\ DOMAIN codes \subseteq DOMAIN codes'
    /\ \A k \in DOMAIN codes : /\ codes'[k].email = codes[k].email
                               /\ codes[k].email # e => codes'[k] = codes[k]
    /\ \A k \in DOMAIN codes' \ DOMAIN codes : codes'[k].email = e

LEMMA OthersKept ==
    ASSUME TypeOK, CodePart, NEW t \in Tabs, NEW e \in Emails, InTransaction(t, e), OnlyOf(e),
           mixed' = mixed, NEW u \in Tabs, u # t, req'[u] = req[u]
    PROVE  Owns(u)' /\ Fresh(u)'
<1>1. /\ req[u].op \in {"send", "expire"} => req[u].entry \in DOMAIN codes
      /\ req[u].op = "verify" => req[u].latest \in DOMAIN codes /\ req[u].email \in Emails
      /\ req[u].op = "issue" => req[u].seen \subseteq DOMAIN codes /\ req[u].email \in Emails
  BY RequestParts
<1>2. Owns(u) /\ Fresh(u)
  BY DEF CodePart
<1>3. Owns(u)'
  BY <1>1, <1>2 DEF Owns, OnlyOf
<1>4. req[u].op \in {"issue", "verify"} /\ req[u].email \notin mixed => req[u].email # e
  BY <1>1 DEF CodePart, Alone, InTransaction
<1>5. Fresh(u)'
  BY <1>1, <1>2, <1>4 DEF Fresh, Owns, OnlyOf
<1> QED
  BY <1>3, <1>5

(* It leaves the tab with a request that is in no transaction.              *)
LEMMA AloneKept ==
    ASSUME CodePart, mixed \subseteq mixed', NEW t \in Tabs,
           \A u \in Tabs : u # t => req'[u] = req[u],
           req'[t].op \notin {"issue", "verify", "expire"}
    PROVE  Alone'
<1>1. \A u \in Tabs, e \in Emails : InTransaction(u, e)' => u # t /\ InTransaction(u, e)
  BY DEF InTransaction
<1> QED
  BY <1>1 DEF CodePart, Alone

(* It wrote one row.                                                        *)
LEMMA CommitKeeps ==
    ASSUME TypeOK, CodePart, NEW t \in Tabs, NEW k \in DOMAIN codes, NEW row,
           codes[k].email \in Emails, InTransaction(t, codes[k].email),
           DOMAIN codes' = DOMAIN codes,
           \A j \in DOMAIN codes : codes'[j] = IF j = k THEN row ELSE codes[j],
           Revised(codes[k], row),
           codes[k].email \notin mixed =>
              /\ row.attempts = row.guesses /\ row.guesses <= MaxAttempts
              /\ row.status = "pending" => row.guesses < MaxAttempts,
           row.mail = "failed" => codes[k].mail = "failed" /\ (req[t].op = "expire" => row.status # "pending"),
           req[t].op = "expire" => req[t].entry = k,
           \A u \in Tabs : u # t => req'[u] = req[u],
           req'[t].op \in {"idle", "welcome"}, mixed' = mixed
    PROVE  CodePart'
<1>1. OnlyOf(codes[k].email)
  BY DEF OnlyOf, Revised
<1>2. \A u \in Tabs : Owns(u)' /\ Fresh(u)'
  <2> TAKE u \in Tabs
  <2>1. CASE u = t
    BY <2>1 DEF Owns, Fresh
  <2>2. CASE u # t
    BY <1>1, <2>2, OthersKept
  <2> QED
    BY <2>1, <2>2
<1>3. PendingIsNewest'
  BY DEF CodePart, PendingIsNewest, Revised
<1>4. GuessesCounted'
  BY DEF CodePart, GuessesCounted, Revised
<1>5. UndeliveredWithdrawn'
  <2> SUFFICES ASSUME NEW j \in DOMAIN codes, codes'[j].mail = "failed",
                      codes'[j].status = "pending", codes'[j].email \notin mixed
               PROVE  \E u \in Tabs : req'[u].op = "expire" /\ req'[u].entry = j
    BY DEF UndeliveredWithdrawn
  <2>1. codes[j].mail = "failed" /\ codes[j].status = "pending" /\ codes[j].email \notin mixed
    BY DEF Revised
  <2>2. PICK u \in Tabs : req[u].op = "expire" /\ req[u].entry = j
    BY <2>1 DEF CodePart, UndeliveredWithdrawn
  <2>3. u # t
    BY <2>2
  <2> QED
    BY <2>2, <2>3
<1>6. Alone'
  BY AloneKept
<1> QED
  BY <1>2, <1>3, <1>4, <1>5, <1>6 DEF CodePart

-----------------------------------------------------------------------------
(* One lemma per step.                                                      *)

(* Each of these ends a transaction on one row.                             *)
LEMMA RowOfRequest ==
    ASSUME TypeOK, CodePart, NEW t \in Tabs
    PROVE  /\ req[t].op = "expire" =>
                /\ req[t].entry \in DOMAIN codes /\ codes[req[t].entry].email \in Emails
                /\ InTransaction(t, codes[req[t].entry].email)
           /\ req[t].op = "verify" =>
                /\ req[t].latest \in DOMAIN codes /\ codes[req[t].latest].email \in Emails
                /\ InTransaction(t, codes[req[t].latest].email)
<1>1. Owns(t)
  BY DEF CodePart
<1> QED
  BY <1>1, RequestParts DEF Owns, InTransaction

LEMMA RowTyped ==
    ASSUME TypeOK, NEW k \in DOMAIN codes
    PROVE  /\ codes[k].email \in Emails /\ codes[k].status \in {"pending", "used", "expired"}
           /\ codes[k].attempts \in Nat /\ codes[k].guesses \in Nat
           /\ DOMAIN codes[k] = {"email", "status", "attempts", "created", "expires",
                                 "guesses", "mail"}
<1>1. codes[k] \in Code
  BY DEF TypeOK
<1> QED
  BY <1>1 DEF Code

LEMMA BecomeOthers ==
    ASSUME TypeOK, NEW t \in Tabs, NEW r, Become(t, r)
    PROVE  req'[t] = r /\ \A u \in Tabs : u # t => req'[u] = req[u]
  BY DEF Become, TypeOK

(* A row whose status ends a code counts what it counted.                   *)
LEMMA SetEnds ==
    ASSUME TypeOK, CodePart, NEW t \in Tabs, NEW k \in DOMAIN codes,
           NEW status \in {"used", "expired"}, codes' = Set(k, status),
           InTransaction(t, codes[k].email),
           req[t].op = "expire" => req[t].entry = k,
           NEW r, r.op \in {"idle", "welcome"}, Become(t, r), mixed' = mixed
    PROVE  CodePart' /\ \A j \in DOMAIN codes : Revised(codes[j], codes'[j])
<1> DEFINE row == [codes[k] EXCEPT !.status = status]
<1>1. /\ codes[k].email \in Emails
      /\ row.email = codes[k].email /\ row.status = status /\ row.mail = codes[k].mail
      /\ row.attempts = codes[k].attempts /\ row.guesses = codes[k].guesses
  BY RowTyped
<1>2. RevisedCodes(codes')
  BY SetRevises
<1>3. DOMAIN codes' = DOMAIN codes /\ \A j \in DOMAIN codes : Revised(codes[j], codes'[j])
  BY <1>2 DEF RevisedCodes
<1>4. \A j \in DOMAIN codes : codes'[j] = IF j = k THEN row ELSE codes[j]
  <2>1. codes \in [DOMAIN codes -> Code]
    BY DEF TypeOK
  <2>2. codes' = [codes EXCEPT ![k] = row]
    BY DEF Set
  <2> HIDE DEF row
  <2> QED
    BY <2>1, <2>2
<1>5. Revised(codes[k], row)
  BY <1>1 DEF Revised
<1>6. codes[k].email \notin mixed =>
         /\ row.attempts = row.guesses /\ row.guesses <= MaxAttempts
         /\ row.status = "pending" => row.guesses < MaxAttempts
  BY <1>1 DEF CodePart, GuessesCounted
<1>7. row.mail = "failed" => codes[k].mail = "failed" /\ (req[t].op = "expire" => row.status # "pending")
  BY <1>1
<1>8. req'[t] = r /\ \A u \in Tabs : u # t => req'[u] = req[u]
  BY BecomeOthers
<1> HIDE DEF row
<1> QED
  BY <1>1, <1>3, <1>4, <1>5, <1>6, <1>7, <1>8, CommitKeeps

LEMMA ExpiryKeeps ==
    ASSUME CodesInv, NEW t \in Tabs, Withdrawn(t) \/ Refused(t)
    PROVE  CodePart' /\ \A j \in DOMAIN codes : Revised(codes[j], codes'[j])
<1>1. Idle.op = "idle"
  BY DEF Idle
<1>2. CASE Withdrawn(t)
  BY <1>1, <1>2, RowOfRequest, SetEnds DEF Withdrawn, CodesInv
<1>3. CASE Refused(t)
  BY <1>1, <1>3, RowOfRequest, SetEnds DEF Refused, CodesInv
<1> QED
  BY <1>2, <1>3

LEMMA VerifiedKeeps ==
    ASSUME CodesInv, NEW t \in Tabs, Verified(t)
    PROVE  CodePart' /\ \A j \in DOMAIN codes : Revised(codes[j], codes'[j])
<1> DEFINE r == [op |-> "welcome", token |-> Len(sessions) + 1]
<1>1. r.op = "welcome"
  OBVIOUS
<1>2. Become(t, r)
  BY DEF Verified, NewToken
<1> HIDE DEF r
<1> QED
  BY <1>1, <1>2, RowOfRequest, SetEnds DEF Verified, Used, CodesInv

LEMMA WrongCodeKeeps ==
    ASSUME CodesInv, NEW t \in Tabs, WrongCode(t)
    PROVE  CodePart' /\ \A j \in DOMAIN codes : Revised(codes[j], codes'[j])
<1> DEFINE k == req[t].latest
           row == Counted(codes[k], req[t].tries)
<1>1. TypeOK /\ CodePart
  BY DEF CodesInv
<1>2. /\ k \in DOMAIN codes /\ codes[k].email \in Emails
      /\ InTransaction(t, codes[k].email) /\ req[t].tries \in Nat
  BY <1>1, RowOfRequest, RequestParts DEF WrongCode
<1>3. codes[k].email = req[t].email
  BY <1>1 DEF CodePart, Owns, WrongCode
<1>4. codes' = [codes EXCEPT ![k] = Counted(@, req[t].tries)]
  BY DEF WrongCode
<1>5. RevisedCodes(codes') /\ \A j \in DOMAIN codes : codes'[j] = IF j = k THEN row ELSE codes[j]
  BY <1>1, <1>2, <1>4, CountRevises
<1>6. DOMAIN codes' = DOMAIN codes /\ \A j \in DOMAIN codes : Revised(codes[j], codes'[j])
  BY <1>5 DEF RevisedCodes
<1>7. Revised(codes[k], row)
  BY <1>2, <1>5, <1>6
<1>8. /\ row.attempts = req[t].tries + 1 /\ row.guesses = codes[k].guesses + 1
      /\ row.mail = codes[k].mail
      /\ row.status = IF req[t].tries + 1 >= MaxAttempts THEN "expired" ELSE codes[k].status
  BY <1>1, <1>2, RowTyped DEF Counted
<1>9. codes[k].email \notin mixed =>
         /\ row.attempts = row.guesses /\ row.guesses <= MaxAttempts
         /\ row.status = "pending" => row.guesses < MaxAttempts
  <2> SUFFICES ASSUME codes[k].email \notin mixed
               PROVE  /\ row.attempts = row.guesses /\ row.guesses <= MaxAttempts
                      /\ row.status = "pending" => row.guesses < MaxAttempts
    OBVIOUS
  <2>1. codes[k].attempts = req[t].tries /\ codes[k].attempts = codes[k].guesses
    BY <1>1, <1>2, <1>3 DEF CodePart, Fresh, GuessesCounted, WrongCode
  <2>2. MaxAttempts \in Nat
    BY LoginAssumption
  <2>3. ~(req[t].tries >= MaxAttempts)
    BY DEF WrongCode, Exhausted
  <2>4. req[t].tries < MaxAttempts
    BY <1>2, <2>2, <2>3
  <2>5. req[t].tries = codes[k].guesses
    BY <2>1
  <2> HIDE DEF row, k
  <2>6. row.attempts = req[t].tries + 1 /\ row.guesses = req[t].tries + 1
    BY <1>8, <2>5
  <2>7. row.status = "pending" => req[t].tries + 1 < MaxAttempts
    BY <1>2, <1>8, <2>2
  <2> QED
    BY <1>2, <2>2, <2>4, <2>6, <2>7
<1>10. req'[t] = Idle /\ \A u \in Tabs : u # t => req'[u] = req[u]
  BY <1>1, BecomeOthers DEF WrongCode
<1>11. Idle.op = "idle" /\ req[t].op # "expire" /\ mixed' = mixed
  BY DEF Idle, WrongCode
<1> HIDE DEF row, k
<1> QED
  BY <1>1, <1>2, <1>5, <1>6, <1>7, <1>8, <1>9, <1>10, <1>11, CommitKeeps

(* A lost withdrawal leaves the mail of the code as lost.                   *)
LEMMA RolledBackKeeps ==
    ASSUME CodesInv, NEW t \in Tabs, RolledBack(t)
    PROVE  CodePart' /\ \A j \in DOMAIN codes : Revised(codes[j], codes'[j])
<1>1. TypeOK /\ CodePart
  BY DEF CodesInv
<1>2. /\ req'[t] = Idle /\ Idle.op = "idle" /\ mixed' = mixed
      /\ \A u \in Tabs : u # t => req'[u] = req[u]
  BY <1>1, BecomeOthers DEF RolledBack, Idle
<1>3. CASE req[t].op # "expire"
  <2>1. CodePart'
    BY <1>1, <1>2, <1>3, StillKeeps DEF RolledBack
  <2> QED
    BY <1>3, <2>1 DEF RolledBack, Revised
<1>4. CASE req[t].op = "expire"
  <2> DEFINE k == req[t].entry
             row == [codes[k] EXCEPT !.mail = "lost"]
  <2>1. k \in DOMAIN codes /\ codes[k].email \in Emails /\ InTransaction(t, codes[k].email)
    BY <1>1, <1>4, RowOfRequest
  <2>2. codes' = [codes EXCEPT ![k].mail = "lost"]
    BY <1>4 DEF RolledBack
  <2>3. RevisedCodes(codes') /\ \A j \in DOMAIN codes : codes'[j] = IF j = k THEN row ELSE codes[j]
    BY <1>1, <2>1, <2>2, MailRow
  <2>4. DOMAIN codes' = DOMAIN codes /\ \A j \in DOMAIN codes : Revised(codes[j], codes'[j])
    BY <2>3 DEF RevisedCodes
  <2>5. /\ row.email = codes[k].email /\ row.status = codes[k].status /\ row.mail = "lost"
        /\ row.attempts = codes[k].attempts /\ row.guesses = codes[k].guesses
    BY <1>1, <2>1, RowTyped
  <2>6. Revised(codes[k], row)
    BY <2>5 DEF Revised
  <2>7. codes[k].email \notin mixed =>
           /\ row.attempts = row.guesses /\ row.guesses <= MaxAttempts
           /\ row.status = "pending" => row.guesses < MaxAttempts
    BY <1>1, <2>1, <2>5 DEF CodePart, GuessesCounted
  <2> HIDE DEF row
  <2> QED
    BY <1>1, <1>2, <2>1, <2>3, <2>4, <2>5, <2>6, <2>7, CommitKeeps
<1> QED
  BY <1>3, <1>4

(* The new code is the only one that can be pending.                        *)
LEMMA IssuedKeeps ==
    ASSUME CodesInv, NEW t \in Tabs, Issued(t)
    PROVE  CodePart' /\ \A j \in DOMAIN codes : Revised(codes[j], codes'[j])
<1> DEFINE e == req[t].email
           new == Len(codes) + 1
<1>1. TypeOK /\ CodePart
  BY DEF CodesInv
<1>2. /\ DOMAIN codes' = DOMAIN codes \cup {new} /\ new \notin DOMAIN codes
      /\ codes'[new] = NewCode(req[t])
      /\ \A j \in DOMAIN codes : codes'[j] = ExpireAll(req[t].seen)[j]
      /\ \A j \in DOMAIN codes : Revised(codes[j], codes'[j])
  BY <1>1, IssueAdds
<1>3. /\ codes'[new].email = e /\ codes'[new].attempts = 0 /\ codes'[new].guesses = 0
      /\ codes'[new].mail = "sending"
  BY <1>2 DEF NewCode
<1>4. e \in Emails /\ req[t].seen \in SUBSET DOMAIN codes /\ InTransaction(t, e)
  BY <1>1, RequestParts DEF Issued, InTransaction
<1>5. \A j \in DOMAIN codes :
        /\ codes'[j].email = codes[j].email /\ codes'[j].mail = codes[j].mail
        /\ codes'[j].attempts = codes[j].attempts /\ codes'[j].guesses = codes[j].guesses
        /\ codes'[j].status = IF j \in req[t].seen THEN "expired" ELSE codes[j].status
        /\ j \notin req[t].seen => codes'[j] = codes[j]
  <2> TAKE j \in DOMAIN codes
  <2>1. codes'[j] = IF j \in req[t].seen THEN [codes[j] EXCEPT !.status = "expired"] ELSE codes[j]
    BY <1>2 DEF ExpireAll
  <2> QED
    BY <1>1, <2>1, RowTyped
<1>6. /\ req'[t] = [op |-> "send", email |-> e, entry |-> new]
      /\ \A u \in Tabs : u # t => req'[u] = req[u]
      /\ mixed' = mixed
  <2>1. Become(t, [op |-> "send", email |-> e, entry |-> new]) /\ mixed' = mixed
    BY DEF Issued
  <2> HIDE DEF e, new
  <2> QED
    BY <1>1, <2>1, BecomeOthers
<1>7. Owns(t) /\ Fresh(t) /\ req[t].op = "issue"
  BY <1>1 DEF CodePart, Issued
<1>8. DOMAIN codes = 1..Len(codes) /\ Len(codes) \in Nat
  BY <1>1 DEF TypeOK
<1>9. OnlyOf(e)
  BY <1>2, <1>3, <1>5, <1>7 DEF OnlyOf, Owns
<1>10. \A u \in Tabs : Owns(u)' /\ Fresh(u)'
  <2> TAKE u \in Tabs
  <2>1. CASE u = t
    <3>1. req'[u] = [op |-> "send", email |-> e, entry |-> new]
      BY <1>6, <2>1
    <3> HIDE DEF e, new
    <3> QED
      BY <1>3, <3>1 DEF Owns, Fresh
  <2>2. CASE u # t
    <3>1. req'[u] = req[u]
      BY <1>6, <2>2
    <3> HIDE DEF e, new
    <3> QED
      BY <1>1, <1>4, <1>6, <1>9, <2>2, <3>1, OthersKept
  <2> QED
    BY <2>1, <2>2
<1>11. PendingIsNewest'
  <2> SUFFICES ASSUME NEW k \in DOMAIN codes', NEW l \in DOMAIN codes', k < l,
                      codes'[k].email = codes'[l].email, codes'[k].email \notin mixed,
                      codes'[k].status = "pending"
               PROVE  FALSE
    BY <1>6 DEF PendingIsNewest
  <2>1. k \in DOMAIN codes
    BY <1>2, <1>8
  <2>2. codes[k].status = "pending" /\ codes[k].email = codes'[k].email /\ k \notin req[t].seen
    BY <1>5, <2>1
  <2>3. CASE l = new
    BY <1>3, <1>7, <2>1, <2>2, <2>3 DEF Fresh
  <2>4. CASE l \in DOMAIN codes
    BY <1>1, <1>5, <2>1, <2>2, <2>4 DEF CodePart, PendingIsNewest
  <2> QED
    BY <1>2, <2>3, <2>4
<1>12. GuessesCounted'
  <2> SUFFICES ASSUME NEW k \in DOMAIN codes', codes'[k].email \notin mixed
               PROVE  /\ codes'[k].attempts = codes'[k].guesses
                      /\ codes'[k].guesses <= MaxAttempts
                      /\ codes'[k].status = "pending" => codes'[k].guesses < MaxAttempts
    BY <1>6 DEF GuessesCounted
  <2>1. CASE k = new
    BY <1>3, <2>1, LoginAssumption
  <2>2. CASE k \in DOMAIN codes
    BY <1>1, <1>5, <2>2 DEF CodePart, GuessesCounted
  <2> QED
    BY <1>2, <2>1, <2>2
<1>13. UndeliveredWithdrawn'
  <2> SUFFICES ASSUME NEW k \in DOMAIN codes', codes'[k].mail = "failed",
                      codes'[k].status = "pending", codes'[k].email \notin mixed
               PROVE  \E u \in Tabs : req'[u].op = "expire" /\ req'[u].entry = k
    BY <1>6 DEF UndeliveredWithdrawn
  <2>1. k \in DOMAIN codes
    BY <1>2, <1>3
  <2>2. codes[k].mail = "failed" /\ codes[k].status = "pending" /\ codes[k].email \notin mixed
    BY <1>5, <2>1
  <2>3. PICK u \in Tabs : req[u].op = "expire" /\ req[u].entry = k
    BY <1>1, <2>1, <2>2 DEF CodePart, UndeliveredWithdrawn
  <2>4. u # t
    BY <1>7, <2>3
  <2> QED
    BY <1>6, <2>3, <2>4
<1>14. Alone'
  BY <1>1, <1>6, AloneKept
<1> QED
  BY <1>2, <1>10, <1>11, <1>12, <1>13, <1>14 DEF CodePart

(* A request that reads a code enters a transaction: whoever is in another   *)
(* one of the address makes it mixed.                                       *)
LEMMA MixAlone ==
    ASSUME TypeOK, CodePart, NEW t \in Tabs, NEW e \in Emails, Mix(e), req[t].op \in {"idle", "send"},
           NEW r, Become(t, r), r.op \in {"issue", "verify", "expire"} => r.email = e
    PROVE  Alone' /\ mixed \subseteq mixed'
<1>1. req'[t] = r /\ \A u \in Tabs : u # t => req'[u] = req[u]
  BY BecomeOthers
<1>2. mixed' = mixed \cup {x \in {e} : \E u \in Tabs : InTransaction(u, e)}
  BY DEF Mix
<1>3. mixed \subseteq mixed'
  BY <1>2
<1>4. \A x \in Emails : InTransaction(t, x)' => x = e
  BY <1>1 DEF InTransaction
<1>5. \A u \in Tabs : \A x \in Emails : u # t => (InTransaction(u, x)' <=> InTransaction(u, x))
  BY <1>1 DEF InTransaction
<1>6. \A u \in Tabs : u # t /\ InTransaction(u, e) => e \in mixed'
  BY <1>2
<1> QED
  BY <1>3, <1>4, <1>5, <1>6 DEF CodePart, Alone

LEMMA ReadKeeps ==
    ASSUME TypeOK, CodePart, NEW t \in Tabs, NEW e \in Emails, Mix(e), req[t].op = "idle",
           NEW r, Become(t, r), r.email = e, r.op \in {"issue", "verify"}, codes' = codes,
           (Owns(t) /\ Fresh(t))'
    PROVE  CodePart'
<1>1. req'[t] = r /\ \A u \in Tabs : u # t => req'[u] = req[u]
  BY BecomeOthers
<1>2. Alone' /\ mixed \subseteq mixed'
  BY MixAlone
<1>3. SameButMail
  BY DEF SameButMail
<1>4. \A u \in Tabs : Owns(u)' /\ Fresh(u)'
  BY <1>1, <1>2, <1>3, MailKeepsRequest
<1>5. UndeliveredWithdrawn'
  <2> SUFFICES ASSUME NEW k \in DOMAIN codes, codes[k].mail = "failed",
                      codes[k].status = "pending", codes[k].email \notin mixed'
               PROVE  \E u \in Tabs : req'[u].op = "expire" /\ req'[u].entry = k
    BY DEF UndeliveredWithdrawn
  <2>1. PICK u \in Tabs : req[u].op = "expire" /\ req[u].entry = k
    BY <1>2 DEF CodePart, UndeliveredWithdrawn
  <2> QED
    BY <1>1, <2>1
<1> QED
  BY <1>2, <1>3, <1>4, <1>5, MailKeepsRows DEF CodePart

LEMMA AskKeeps ==
    ASSUME TypeOK, CodePart, NEW t \in Tabs, NEW e \in Emails, AskCode(t, e)
    PROVE  CodePart'
<1>1. PICK S \in Replaced(e) : Become(t, [op |-> "issue", email |-> e, now |-> clock, seen |-> S])
  BY DEF AskCode
<1> DEFINE r == [op |-> "issue", email |-> e, now |-> clock, seen |-> S]
<1>2. r.op = "issue" /\ r.email = e /\ r.seen = S
  OBVIOUS
<1>3. Become(t, r) /\ codes' = codes /\ Mix(e) /\ req[t].op = "idle"
  BY <1>1 DEF AskCode
<1> HIDE DEF r
<1>4. req'[t] = r
  BY <1>3, BecomeOthers
<1>5. \A k \in S : k \in DOMAIN codes /\ codes[k].email = e
  BY DEF Replaced, Youngest, Pending
<1>6. Owns(t)'
  BY <1>2, <1>3, <1>4, <1>5 DEF Owns
<1>7. Fresh(t)'
  <2> SUFFICES ASSUME e \notin mixed', NEW k \in DOMAIN codes,
                      codes[k].email = e, codes[k].status = "pending"
               PROVE  k \in S
    BY <1>2, <1>3, <1>4 DEF Fresh
  <2>1. e \notin mixed
    BY <1>3 DEF Mix
  <2>2. k \in Pending(e)
    BY DEF Pending
  <2>3. CASE S = Pending(e)
    BY <2>2, <2>3
  <2>4. CASE \E l \in Youngest(e) : S = {l}
    <3>1. PICK l \in Youngest(e) : S = {l}
      BY <2>4
    <3>2. l \in DOMAIN codes /\ codes[l].email = e /\ codes[l].status = "pending"
      BY YoungestPending
    <3>3. ~(k < l) /\ ~(l < k)
      BY <2>1, <3>2 DEF CodePart, PendingIsNewest
    <3>4. k \in Nat /\ l \in Nat
      BY <3>2 DEF TypeOK
    <3> QED
      BY <3>1, <3>3, <3>4
  <2> QED
    BY <2>2, <2>3, <2>4 DEF Replaced
<1> QED
  BY <1>2, <1>3, <1>6, <1>7, ReadKeeps

LEMMA EnterKeeps ==
    ASSUME TypeOK, CodePart, NEW t \in Tabs, NEW e \in Emails, NEW k \in Entries(e), Enter(t, e, k)
    PROVE  CodePart'
<1>1. PICK l \in Youngest(e) :
        Become(t, [op |-> "verify", email |-> e, now |-> clock, latest |-> l,
                   tries |-> codes[l].attempts, entry |-> k, first |-> e \notin users])
  BY DEF Enter
<1> DEFINE r == [op |-> "verify", email |-> e, now |-> clock, latest |-> l,
                 tries |-> codes[l].attempts, entry |-> k, first |-> e \notin users]
<1>2. r.op = "verify" /\ r.email = e /\ r.latest = l /\ r.tries = codes[l].attempts
  OBVIOUS
<1>3. Become(t, r) /\ codes' = codes /\ Mix(e) /\ req[t].op = "idle"
  BY <1>1 DEF Enter
<1> HIDE DEF r
<1>4. req'[t] = r
  BY <1>3, BecomeOthers
<1>5. Owns(t)' /\ Fresh(t)'
  BY <1>2, <1>3, <1>4, YoungestPending DEF Owns, Fresh
<1> QED
  BY <1>2, <1>3, <1>5, ReadKeeps

(* The mail of a code that was sent, or could not be: then its withdrawal    *)
(* finds it, for it is the only pending code of the address.                *)
LEMMA SameCodeButMail ==
    ASSUME TypeOK, NEW k \in DOMAIN codes, NEW mail \in {"sent", "failed", "lost"},
           codes' = [codes EXCEPT ![k].mail = mail]
    PROVE  /\ SameButMail /\ \A j \in DOMAIN codes : Revised(codes[j], codes'[j])
           /\ codes'[k].mail = mail
           /\ \A j \in DOMAIN codes : j # k => codes'[j] = codes[j]
<1>1. codes \in [DOMAIN codes -> Code]
  BY DEF TypeOK
<1>2. \A j \in DOMAIN codes : j # k => codes'[j] = codes[j]
  BY <1>1
<1>3. codes'[k] = [codes[k] EXCEPT !.mail = mail] /\ DOMAIN codes' = DOMAIN codes
  BY <1>1
<1>4. /\ codes'[k].mail = mail /\ codes'[k].email = codes[k].email
      /\ codes'[k].status = codes[k].status /\ codes'[k].attempts = codes[k].attempts
      /\ codes'[k].guesses = codes[k].guesses
  BY <1>3, RowTyped
<1> QED
  BY <1>2, <1>3, <1>4 DEF SameButMail, Revised

LEMMA SentKeeps ==
    ASSUME CodesInv, NEW t \in Tabs, Sent(t)
    PROVE  CodePart' /\ \A j \in DOMAIN codes : Revised(codes[j], codes'[j])
<1>1. TypeOK /\ CodePart /\ mixed' = mixed /\ req[t].op = "send"
  BY DEF CodesInv, Sent
<1>2. req'[t] = Idle /\ Idle.op = "idle" /\ \A u \in Tabs : u # t => req'[u] = req[u]
  BY <1>1, BecomeOthers DEF Sent, Idle
<1>3. req[t].entry \in DOMAIN codes
  BY <1>1, RequestParts
<1>4. /\ SameButMail /\ \A j \in DOMAIN codes : Revised(codes[j], codes'[j])
      /\ codes'[req[t].entry].mail = "sent"
      /\ \A j \in DOMAIN codes : j # req[t].entry => codes'[j] = codes[j]
  BY <1>1, <1>3, SameCodeButMail DEF Sent
<1>5. \A u \in Tabs : Owns(u)' /\ Fresh(u)'
  <2> TAKE u \in Tabs
  <2>1. CASE u = t
    BY <1>2, <2>1 DEF Owns, Fresh
  <2>2. CASE u # t
    BY <1>1, <1>2, <1>4, <2>2, MailKeepsRequest
  <2> QED
    BY <2>1, <2>2
<1>6. UndeliveredWithdrawn'
  <2> SUFFICES ASSUME NEW k \in DOMAIN codes, codes'[k].mail = "failed",
                      codes'[k].status = "pending", codes'[k].email \notin mixed
               PROVE  \E u \in Tabs : req'[u].op = "expire" /\ req'[u].entry = k
    BY <1>1, <1>4 DEF UndeliveredWithdrawn, SameButMail
  <2>1. codes'[k] = codes[k]
    BY <1>4
  <2>2. PICK u \in Tabs : req[u].op = "expire" /\ req[u].entry = k
    BY <1>1, <2>1 DEF CodePart, UndeliveredWithdrawn
  <2> QED
    BY <1>1, <1>2, <2>2
<1>7. Alone'
  BY <1>1, <1>2, AloneKept
<1> QED
  BY <1>1, <1>4, <1>5, <1>6, <1>7, MailKeepsRows DEF CodePart

LEMMA SendFailedKeeps ==
    ASSUME CodesInv, NEW t \in Tabs, SendFailed(t)
    PROVE  CodePart' /\ \A j \in DOMAIN codes : Revised(codes[j], codes'[j])
<1> DEFINE e == req[t].email
           k == req[t].entry
<1>1. TypeOK /\ CodePart /\ req[t].op = "send" /\ Mix(e)
  BY DEF CodesInv, SendFailed
<1>2. e \in Emails /\ k \in DOMAIN codes /\ codes[k].email = e
  BY <1>1, RequestParts DEF CodePart, Owns
<1>3. /\ SameButMail /\ \A j \in DOMAIN codes : Revised(codes[j], codes'[j])
      /\ codes'[k].mail = "failed"
      /\ \A j \in DOMAIN codes : j # k => codes'[j] = codes[j]
  BY <1>1, <1>2, SameCodeButMail DEF SendFailed
<1>4. PICK r \in Withdrawal(e, k) : Become(t, r)
  BY DEF SendFailed
<1> HIDE DEF e, k
<1>5. r = Idle \/ r = [op |-> "expire", email |-> e, entry |-> k]
  BY DEF Withdrawal
<1>6. r.op \in {"idle", "expire"} /\ (r.op = "expire" => r.email = e /\ r.entry = k)
  BY <1>5 DEF Idle
<1>7. req'[t] = r /\ \A u \in Tabs : u # t => req'[u] = req[u]
  BY <1>1, <1>4, BecomeOthers
<1>8. Alone' /\ mixed \subseteq mixed'
  BY <1>1, <1>2, <1>4, <1>6, MixAlone
<1>9. \A u \in Tabs : Owns(u)' /\ Fresh(u)'
  <2> TAKE u \in Tabs
  <2>1. CASE u = t
    BY <1>2, <1>3, <1>6, <1>7, <2>1 DEF Owns, Fresh, SameButMail
  <2>2. CASE u # t
    BY <1>1, <1>3, <1>7, <1>8, <2>2, MailKeepsRequest
  <2> QED
    BY <2>1, <2>2
<1>10. UndeliveredWithdrawn'
  <2> SUFFICES ASSUME NEW j \in DOMAIN codes, codes'[j].mail = "failed",
                      codes'[j].status = "pending", codes'[j].email \notin mixed'
               PROVE  \E u \in Tabs : req'[u].op = "expire" /\ req'[u].entry = j
    BY <1>3 DEF UndeliveredWithdrawn, SameButMail
  <2>1. codes[j].status = "pending" /\ codes[j].email \notin mixed
    BY <1>3, <1>8 DEF SameButMail
  <2>2. CASE j # k
    <3>1. PICK u \in Tabs : req[u].op = "expire" /\ req[u].entry = j
      BY <1>1, <1>3, <2>1, <2>2 DEF CodePart, UndeliveredWithdrawn
    <3> QED
      BY <1>1, <1>7, <3>1
  <2>3. CASE j = k
    <3>1. \A l \in Pending(e) : l = k
      <4> TAKE l \in Pending(e)
      <4>1. l \in DOMAIN codes /\ codes[l].email = e /\ codes[l].status = "pending"
        BY DEF Pending
      <4>2. ~(k < l) /\ ~(l < k)
        BY <1>1, <1>2, <2>1, <2>3, <4>1 DEF CodePart, PendingIsNewest
      <4>3. k \in Nat /\ l \in Nat
        BY <1>1, <1>2, <4>1 DEF TypeOK
      <4> QED
        BY <4>2, <4>3
    <3>2. Pending(e) = {k}
      BY <1>2, <2>1, <2>3, <3>1 DEF Pending
    <3>3. Youngest(e) \subseteq {k}
      BY <3>2 DEF Youngest
    <3>4. r = [op |-> "expire", email |-> e, entry |-> k]
      BY <3>2, <3>3 DEF Withdrawal
    <3> QED
      BY <1>7, <2>3, <3>4
  <2> QED
    BY <2>2, <2>3
<1> QED
  BY <1>1, <1>3, <1>8, <1>9, <1>10, MailKeepsRows DEF CodePart

(* A login: its code was pending unless transactions of the address overlap, *)
(* so no session has it; and a second first login is refused.               *)
LEMMA VerifiedOnce ==
    ASSUME CodesInv, NEW t \in Tabs, Verified(t)
    PROVE  SessionPart'
<1> DEFINE k == req[t].latest
           e == req[t].email
           new == Len(sessions) + 1
<1>1. TypeOK /\ CodePart /\ SessionPart
  BY DEF CodesInv
<1>2. /\ DOMAIN sessions' = DOMAIN sessions \cup {new} /\ new \notin DOMAIN sessions
      /\ \A s \in DOMAIN sessions : sessions'[s] = sessions[s]
      /\ sessions'[new] = NewSession(e, k, req[t].first)
  BY <1>1, VerifiedAdds
<1>3. sessions'[new].by = k /\ sessions'[new].email = e /\ sessions'[new].first = req[t].first
  BY <1>2 DEF NewSession
<1>4. /\ users' = users \cup {e} /\ mixed' = mixed /\ req[t].op = "verify"
      /\ codes' = Set(k, "used") /\ ~ Conflict(e, req[t].first)
  BY DEF Verified, Used
<1>5. k \in DOMAIN codes /\ codes[k].email = e
  BY <1>1, <1>4, RequestParts DEF CodePart, Owns
<1>6. e \notin mixed => codes[k].status = "pending"
  BY <1>1, <1>4 DEF CodePart, Fresh
<1>7. codes'[k].status = "used" /\ codes'[k].email = e
  <2>1. codes \in [DOMAIN codes -> Code]
    BY <1>1 DEF TypeOK
  <2>2. codes'[k] = [codes[k] EXCEPT !.status = "used"]
    BY <1>4, <1>5, <2>1 DEF Set
  <2> HIDE DEF k, e
  <2> QED
    BY <1>1, <1>5, <2>2, RowTyped
<1>8. \A j \in DOMAIN codes : Revised(codes[j], codes'[j])
  BY VerifiedKeeps
<1> HIDE DEF k, e, new
<1>9. SpentCode'
  <2> SUFFICES ASSUME NEW s \in DOMAIN sessions'
               PROVE  /\ codes'[sessions'[s].by].status # "pending"
                      /\ codes'[sessions'[s].by].email = sessions'[s].email
    BY DEF SpentCode
  <2>1. CASE s = new
    BY <1>3, <1>7, <2>1
  <2>2. CASE s \in DOMAIN sessions
    <3>1. sessions[s].by \in DOMAIN codes /\ sessions'[s] = sessions[s]
      BY <1>1, <1>2, <2>2 DEF TypeOK
    <3> QED
      BY <1>1, <1>8, <2>2, <3>1 DEF SessionPart, SpentCode, Revised
  <2> QED
    BY <1>2, <2>1, <2>2
<1>10. \A s \in DOMAIN sessions :
         /\ sessions[s].by = k => e \in mixed
         /\ sessions[s].email = e => ~ req[t].first
  <2> TAKE s \in DOMAIN sessions
  <2>1. sessions[s].by = k => e \in mixed
    BY <1>1, <1>6 DEF SessionPart, SpentCode
  <2>2. sessions[s].email = e => ~ req[t].first
    BY <1>1, <1>4 DEF SessionPart, Conflict
  <2> QED
    BY <2>1, <2>2
<1>11. OneLoginPerCode'
  <2> SUFFICES ASSUME NEW s \in DOMAIN sessions', NEW u \in DOMAIN sessions', s # u
               PROVE  /\ sessions'[s].by = sessions'[u].by => sessions'[s].email \in mixed
                      /\ sessions'[s].email = sessions'[u].email
                            => ~(sessions'[s].first /\ sessions'[u].first)
    BY <1>4 DEF OneLoginPerCode
  <2>1. CASE s \in DOMAIN sessions /\ u \in DOMAIN sessions
    BY <1>1, <1>2, <2>1 DEF SessionPart, OneLoginPerCode
  <2>2. CASE s \in DOMAIN sessions /\ u = new
    <3>1. sessions[s].by = k => sessions[s].email = e
      BY <1>1, <1>5, <2>2 DEF SessionPart, SpentCode
    <3> QED
      BY <1>2, <1>3, <1>10, <2>2, <3>1
  <2>3. CASE s = new /\ u \in DOMAIN sessions
    BY <1>2, <1>3, <1>10, <2>3
  <2> QED
    BY <1>2, <2>1, <2>2, <2>3
<1>12. \A s \in DOMAIN sessions' : sessions'[s].email \in users'
  BY <1>1, <1>2, <1>3, <1>4 DEF SessionPart
<1> QED
  BY <1>9, <1>11, <1>12 DEF SessionPart

(* Steps of a tab that write neither a code nor a request in a transaction.  *)
LEMMA SessionStepKeeps ==
    ASSUME CodesInv, NEW t \in Tabs,
           Welcome(t) \/ FallBack(t) \/ Logout(t) \/ LoggedOut(t) \/ Clear(t)
    PROVE  CodePart' /\ SessionPart'
<1>1. TypeOK /\ CodePart /\ SessionPart
  BY DEF CodesInv
<1>2. UNCHANGED <<codes, mixed>> /\ users \subseteq users'
  BY DEF Welcome, FallBack, Logout, LoggedOut, Clear
<1>3. \A u \in Tabs : \/ req'[u] = req[u]
                       \/ /\ req'[u].op \notin {"issue", "verify", "expire", "send"}
                          /\ req[u].op # "expire"
  <2>1. req[t].op # "expire" \/ req' = req
    BY DEF Welcome, FallBack, Logout, LoggedOut, Clear
  <2>2. \/ req' = req
        \/ \E r : Become(t, r) /\ r.op \in {"idle", "logout", "clear"}
    BY DEF Welcome, FallBack, Logout, LoggedOut, Clear, Idle
  <2> QED
    BY <1>1, <2>1, <2>2, BecomeOthers
<1>4. CodePart'
  BY <1>1, <1>2, <1>3, StillKeeps
<1>5. /\ DOMAIN sessions' = DOMAIN sessions
      /\ \A s \in DOMAIN sessions : /\ sessions'[s].by = sessions[s].by
                                     /\ sessions'[s].email = sessions[s].email
                                     /\ sessions'[s].first = sessions[s].first
  <2>1. CASE UNCHANGED sessions
    BY <2>1
  <2>2. CASE \E s \in DOMAIN sessions : sessions' = [sessions EXCEPT ![s].status = "expired"]
    BY <1>1, <2>2, SessionSet
  <2>3. FallBack(t) => cookie[BrowserOf[t]] = 0 \/ cookie[BrowserOf[t]] \in DOMAIN sessions
    BY <1>1, LoginAssumption DEF TypeOK
  <2>4. LoggedOut(t) => req[t].token = 0 \/ req[t].token \in DOMAIN sessions
    BY <1>1, RequestParts DEF LoggedOut
  <2> QED
    BY <2>1, <2>2, <2>3, <2>4 DEF Welcome, FallBack, Logout, LoggedOut, Clear
<1>6. SessionPart'
  BY <1>1, <1>2, <1>5, SessionsKept DEF Revised
<1> QED
  BY <1>4, <1>6

LEMMA StepKeeps ==
    ASSUME CodesInv, [Next]_vars
    PROVE  CodesInv'
<1>1. TypeOK /\ CodePart /\ SessionPart
  BY DEF CodesInv
<1>2. TypeOK'
  BY <1>1, StepTyped
<1>3. ASSUME CodePart', \A j \in DOMAIN codes : Revised(codes[j], codes'[j]),
             users' = users, sessions' = sessions, mixed \subseteq mixed'
      PROVE  CodesInv'
  BY <1>1, <1>2, <1>3, SessionsKept DEF CodesInv
<1>4. ASSUME NEW t \in Tabs, NEW e \in Emails, AskCode(t, e) \/ (\E k \in Entries(e) : Enter(t, e, k))
      PROVE  CodesInv'
  <2>1. CodePart'
    BY <1>1, <1>4, AskKeeps, EnterKeeps
  <2>2. codes' = codes /\ users' = users /\ sessions' = sessions /\ mixed \subseteq mixed'
    BY <1>4 DEF AskCode, Enter, Mix
  <2> QED
    BY <1>3, <2>1, <2>2 DEF Revised
<1>5. ASSUME NEW t \in Tabs, Issued(t) \/ Sent(t) \/ SendFailed(t) \/ Withdrawn(t) \/ Refused(t)
                              \/ WrongCode(t) \/ RolledBack(t)
      PROVE  CodesInv'
  <2>1. CodePart' /\ \A j \in DOMAIN codes : Revised(codes[j], codes'[j])
    BY <1>5, IssuedKeeps, SentKeeps, SendFailedKeeps, ExpiryKeeps, WrongCodeKeeps, RolledBackKeeps
  <2>2. users' = users /\ sessions' = sessions /\ mixed \subseteq mixed'
    BY <1>5 DEF Issued, Sent, SendFailed, Withdrawn, Refused, WrongCode, RolledBack, Mix
  <2> QED
    BY <1>3, <2>1, <2>2
<1>6. ASSUME NEW t \in Tabs, Verified(t)
      PROVE  CodesInv'
  BY <1>2, <1>6, VerifiedKeeps, VerifiedOnce DEF CodesInv
<1>7. ASSUME NEW t \in Tabs, Welcome(t) \/ FallBack(t) \/ Logout(t) \/ LoggedOut(t) \/ Clear(t)
      PROVE  CodesInv'
  BY <1>2, <1>7, SessionStepKeeps DEF CodesInv
<1>8. CASE Tick \/ UNCHANGED vars
  <2>1. UNCHANGED <<codes, users, sessions, req, mixed>>
    BY <1>8 DEF Tick, vars
  <2>2. CodePart'
    BY <1>1, <2>1, StillKeeps
  <2> QED
    BY <1>3, <2>1, <2>2 DEF Revised
<1> QED
  BY <1>4, <1>5, <1>6, <1>7, <1>8 DEF Next, Step

LEMMA InitKeeps == Init => CodesInv
<1> SUFFICES ASSUME Init
             PROVE  CodesInv
  OBVIOUS
<1>1. TypeOK
  BY InitTyped
<1>2. DOMAIN codes = {} /\ DOMAIN sessions = {} /\ \A t \in Tabs : req[t].op = "idle"
  BY DEF Init, Idle
<1>3. CodePart
  BY <1>2 DEF CodePart, Owns, Fresh, Alone, InTransaction, PendingIsNewest, GuessesCounted,
              UndeliveredWithdrawn
<1>4. SessionPart
  BY <1>2 DEF SessionPart, SpentCode, OneLoginPerCode
<1> QED
  BY <1>1, <1>3, <1>4 DEF CodesInv

LEMMA CodesInvariant == Spec => []CodesInv
<1>1. CodesInv /\ [Next]_vars => CodesInv'
  BY StepKeeps
<1> QED
  BY InitKeeps, <1>1, PTL DEF Spec

-----------------------------------------------------------------------------
(* A code that opened a session cannot be entered again, however the        *)
(* verifications of an address overlap.                                     *)
THEOREM SpentCodeCorrect == Spec => []SpentCode
<1>1. CodesInv => SpentCode
  BY DEF CodesInv, SessionPart
<1> QED
  BY CodesInvariant, <1>1, PTL

(* A code opens one session, unless transactions of its address overlap;    *)
(* an address has one first login even then.                                *)
THEOREM OneLoginPerCodeCorrect == Spec => []OneLoginPerCode
<1>1. CodesInv => OneLoginPerCode
  BY DEF CodesInv, SessionPart
<1> QED
  BY CodesInvariant, <1>1, PTL

(* Only the code issued last can be entered.                                *)
THEOREM PendingIsNewestCorrect == Spec => []PendingIsNewest
<1>1. CodesInv => PendingIsNewest
  BY DEF CodesInv, CodePart
<1> QED
  BY CodesInvariant, <1>1, PTL

(* Wrong entries are counted, and end a code at the limit, for any limit.   *)
THEOREM GuessesCountedCorrect == Spec => []GuessesCounted
<1>1. CodesInv => GuessesCounted
  BY DEF CodesInv, CodePart
<1> QED
  BY CodesInvariant, <1>1, PTL

(* A code that could not be sent is withdrawn, or its withdrawal is in       *)
(* flight or failed.                                                        *)
THEOREM UndeliveredWithdrawnCorrect == Spec => []UndeliveredWithdrawn
<1>1. CodesInv => UndeliveredWithdrawn
  BY DEF CodesInv, CodePart
<1> QED
  BY CodesInvariant, <1>1, PTL

=============================================================================
