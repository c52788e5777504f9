--------------------------- MODULE SessionsProofs ---------------------------
(***************************************************************************)
(* Proofs about sessions, for any accounts, tokens, requests and limits    *)
(* that SessionsAssumption admits: types, that the store implements        *)
(* SessionLife, both time limits, who may manage an account and which      *)
(* accounts are deleted.                                                   *)
(*                                                                         *)
(* A request acts on what it read some steps ago.  The invariant says what *)
(* remains true of it: a token that was handed out keeps its account, its  *)
(* creation and its expiry (RowInv), so what a request checked about them  *)
(* still holds (ReqInv), and the clock it read is at most Lag behind       *)
(* (UseInv, ReqInv).                                                       *)
(***************************************************************************)
EXTENDS Sessions, TLAPS

\* Rows of tokens that were handed out; an account not yet handed out has no
\* password.
RowInv ==
    /\ \A t \in Tokens \ fresh :
          /\ session[t].expires = session[t].created + SessionTTL
          /\ session[t].seen <= used[t]
    /\ \A u \in Users \cap fresh : password[u] = 0

\* A request past the lookup has a token of its account, checked in time.
ReqOK(q) ==
    /\ q.pc \notin {"idle", "login"} => q.token \notin fresh /\ q.user = session[q.token].user
    /\ q.pc # "idle" => q.at <= now /\ now <= q.at + Lag
    /\ q.pc = "touch" => /\ q.at < session[q.token].created + SessionTTL
                         /\ q.at < used[q.token] + IdleTTL
    /\ q.pc \in {"password", "revoke", "review"} => session[q.token].created + ManageAge <= now
ReqInv == \A r \in Reqs : ReqOK(req[r])

\* last_seen_at of an account is at most Lag behind the use of its sessions.
UseInv ==
    /\ cleaner.at <= now
    /\ \A t \in Tokens : used[t] <= now
    /\ \A t \in open : used[t] <= lastSeen[session[t].user] + Lag

IInv == TypeOK /\ RowInv /\ ReqInv /\ UseInv

-----------------------------------------------------------------------------
(* Types.                                                                  *)

\* The limits are natural numbers.
LEMMA Limits ==
    /\ SessionTTL \in Nat /\ IdleTTL \in Nat /\ ManageAge \in Nat /\ InactiveTTL \in Nat
    /\ Lag \in Nat /\ MaxTime \in Nat /\ MaxPasswords \in Nat \ {0}
  BY SessionsAssumption

\* An idle request is a request.
LEMMA IdleOK == IdleReq \in ReqRecord /\ AnyUser \in Users /\ AnyToken \in Tokens
  BY SessionsAssumption DEF IdleReq, ReqRecord, ReqPC, AnyUser, AnyToken, Times

\* A session as it is inserted has the type of a row.
LEMMA NewSessionOK ==
    ASSUME TypeOK, NEW u \in Users, NEW c \in Clock, NEW b \in BOOLEAN
    PROVE  NewSession(u, c, b) \in Session /\ c \in Times /\ NewSession(u, c, b).user = u
  BY Limits DEF TypeOK, NewSession, Session, Times, Clock

\* Nothing is stored at the start.
LEMMA InitInv == Init => IInv
  <1> SUFFICES ASSUME Init PROVE IInv
    OBVIOUS
  <1>1. NoSession \in Session
    BY IdleOK, Limits DEF NoSession, Session, Times
  <1>2. TypeOK
    BY <1>1, IdleOK, Limits DEF Init, TypeOK, Times
  <1>3. RowInv /\ UseInv
    BY Limits DEF Init, RowInv, UseInv
  <1>4. ReqInv
    BY DEF Init, ReqInv, ReqOK, IdleReq
  <1> QED BY <1>2, <1>3, <1>4 DEF IInv

\* The step of a request that ends or goes on keeps the requests typed.
LEMMA ReqTypes ==
    ASSUME TypeOK, NEW r \in Reqs
    PROVE  /\ Done(r) => req' \in [Reqs -> ReqRecord]
           /\ \A pc \in ReqPC : Goto(r, pc) => req' \in [Reqs -> ReqRecord]
           /\ req[r] \in ReqRecord
  BY IdleOK DEF TypeOK, Done, Goto, ReqRecord

\* Steps of a request that only read the tables.
Reading(r) ==
    \/ \E u \in Users : Login(r, u)
    \/ \E t \in Tokens : UserBySessionHash(r, t)
    \/ SecurityState(r) \/ Handler(r) \/ SecuritySessions(r) \/ Abort(r)
    \/ \E t \in Tokens, pc \in {"password", "review", "revoke"} : Manage(r, pc, t)

\* They change nothing but the request.
LEMMA ReadsOnly ==
    ASSUME NEW r \in Reqs, Reading(r) PROVE UNCHANGED <<now, ops, Tables, cleaner, used>>
  BY DEF Reading, Login, UserBySessionHash, SecurityState, Handler, SecuritySessions, Abort, Manage, ReadOnly

\* TouchSession changes one column of one row, to the time of the lookup.
LEMMA Touched ==
    ASSUME TypeOK, NEW r \in Reqs, TouchSession(r)
    PROVE  /\ session' \in [Tokens -> Session]
           /\ \A s \in Tokens : /\ session'[s].user = session[s].user
                                /\ session'[s].created = session[s].created
                                /\ session'[s].expires = session[s].expires
                                /\ session'[s].reviewed = session[s].reviewed
  <1>1. req[r].token \in Tokens /\ req[r].at \in Times
    BY ReqTypes DEF ReqRecord
  <1> DEFINE row == [session[req[r].token] EXCEPT !.seen = req[r].at]
  <1>2. session[req[r].token] \in Session
    BY <1>1 DEF TypeOK
  <1>3. /\ row \in Session /\ row.user = session[req[r].token].user
        /\ row.created = session[req[r].token].created
        /\ row.expires = session[req[r].token].expires
        /\ row.reviewed = session[req[r].token].reviewed
    BY <1>1, <1>2 DEF Session
  <1>4. session' = session \/ session' = [session EXCEPT ![req[r].token] = row]
    BY DEF TouchSession
  <1> HIDE DEF row
  <1> QED BY <1>1, <1>3, <1>4 DEF TypeOK

\* Every step keeps the types and the references of sessions to accounts.
LEMMA TypeStep == TypeOK /\ [Next]_vars => TypeOK'
  <1> SUFFICES ASSUME TypeOK, [Next]_vars PROVE TypeOK'
    OBVIOUS
  <1>t. now \in Nat /\ now \in Times
    BY Limits DEF TypeOK, Times
  <1>1. CASE \E u \in Users, t \in Tokens : Register(u, t)
    <2> PICK u \in Users, t \in Tokens : Register(u, t)
      BY <1>1
    <2> PICK c \in Clock : InsertSession(t, u, c, TRUE)
      BY DEF Register
    <2>1. NewSession(u, c, TRUE) \in Session /\ NewSession(u, c, TRUE).user = u /\ c \in Times
      BY NewSessionOK
    <2>2. session' \in [Tokens -> Session] /\ session'[t].user = u
          /\ \A s \in Tokens : s # t => session'[s] = session[s]
      BY <2>1 DEF TypeOK, Register, InsertSession
    <2>3. \A s \in open' : session'[s].user \in users'
      BY <2>2 DEF TypeOK, Register, InsertSession
    <2>4. /\ password' \in [Users -> 0 .. MaxPasswords]
          /\ lastSeen' \in [Users -> Times] /\ used' \in [Tokens -> Times]
      BY <2>1, Limits DEF TypeOK, Register, InsertSession
    <2>5. /\ fresh' \subseteq Users \cup Tokens
          /\ users' \subseteq Users /\ users' \cap fresh' = {}
          /\ open' \subseteq Tokens /\ open' \cap fresh' = {}
      BY SessionsAssumption DEF TypeOK, Register, InsertSession
    <2> QED BY <2>2, <2>3, <2>4, <2>5 DEF TypeOK, Register
  <1>2. CASE \E r \in Reqs, u \in Users : Login(r, u)
    <2> PICK r \in Reqs, u \in Users : Login(r, u)
      BY <1>2
    <2>1. [IdleReq EXCEPT !.pc = "login", !.user = u, !.at = now] \in ReqRecord
      BY <1>t, IdleOK DEF ReqRecord, ReqPC
    <2> QED BY <2>1 DEF TypeOK, Login, ReadOnly, Tables
  <1>3. CASE \E r \in Reqs, t \in Tokens : CreateSession(r, t)
    <2> PICK r \in Reqs, t \in Tokens : CreateSession(r, t)
      BY <1>3
    <2> DEFINE u == req[r].user
    <2>1. u \in Users /\ u \in users /\ req' \in [Reqs -> ReqRecord]
      BY ReqTypes DEF CreateSession, ReqRecord
    <2> PICK c \in Clock : InsertSession(t, u, c, FALSE)
      BY DEF CreateSession
    <2>2. NewSession(u, c, FALSE) \in Session /\ NewSession(u, c, FALSE).user = u /\ c \in Times
      BY <2>1, NewSessionOK
    <2>3. session' \in [Tokens -> Session] /\ session'[t].user = u
          /\ \A s \in Tokens : s # t => session'[s] = session[s]
      BY <2>1, <2>2 DEF TypeOK, CreateSession, InsertSession
    <2>4. \A s \in open' : session'[s].user \in users'
      <3>1. users' = users /\ open' = open \cup {t}
        BY DEF CreateSession, InsertSession
      <3> QED BY <2>1, <2>3, <3>1 DEF TypeOK
    <2> QED BY <2>1, <2>2, <2>3, <2>4, <1>t DEF TypeOK, CreateSession, InsertSession
  <1>4. CASE \E r \in Reqs, t \in Tokens : UserBySessionHash(r, t)
    <2> PICK r \in Reqs, t \in Tokens : UserBySessionHash(r, t)
      BY <1>4
    <2>1. PICK c \in Times : /\ Valid(t, c)
                             /\ req' = [req EXCEPT ![r] = [IdleReq EXCEPT !.pc = "touch",
                                           !.user = session[t].user, !.token = t, !.at = c]]
      BY DEF UserBySessionHash, Clock
    <2>2. session[t].user \in Users
      BY DEF TypeOK, Session
    <2> QED BY <2>1, <2>2, IdleOK DEF TypeOK, UserBySessionHash, ReadOnly, Tables, ReqRecord, ReqPC, IdleReq
  <1>5. CASE \E r \in Reqs : TouchSession(r)
    <2> PICK r \in Reqs : TouchSession(r)
      BY <1>5
    <2>1. /\ req' \in [Reqs -> ReqRecord]
          /\ req[r].at \in Times /\ req[r].token \in Tokens /\ req[r].user \in Users
      BY ReqTypes DEF TouchSession, ReqRecord, ReqPC
    <2>2. session' \in [Tokens -> Session] /\ \A s \in Tokens : session'[s].user = session[s].user
      BY Touched
    <2>3. used' \in [Tokens -> Times] /\ lastSeen' \in [Users -> Times]
      BY <2>1 DEF TypeOK, TouchSession
    <2> QED BY <2>1, <2>2, <2>3 DEF TypeOK, TouchSession
  <1>6. CASE \E r \in Reqs : SecurityState(r) \/ Handler(r) \/ SecuritySessions(r) \/ Abort(r)
    BY <1>6, ReqTypes DEF TypeOK, SecurityState, Handler, SecuritySessions, Abort, ReadOnly, Tables, ReqPC
  <1>7. CASE \E r \in Reqs : DeleteUser(r)
    BY <1>7, ReqTypes DEF TypeOK, DeleteUser, Gone
  <1>8. CASE \E r \in Reqs, t \in Tokens, pc \in {"password", "review", "revoke"} : Manage(r, pc, t)
    <2> PICK r \in Reqs, t \in Tokens, pc \in {"password", "review", "revoke"} : Manage(r, pc, t)
      BY <1>8
    <2>1. [req[r] EXCEPT !.pc = pc, !.target = t] \in ReqRecord
      BY ReqTypes DEF ReqRecord, ReqPC
    <2>2. req' = [req EXCEPT ![r] = [req[r] EXCEPT !.pc = pc, !.target = t]]
      BY ReqTypes DEF TypeOK, Manage
    <2> QED BY <2>1, <2>2 DEF TypeOK, Manage, ReadOnly, Tables
  <1>9. CASE \E r \in Reqs : ChangePassword(r)
    <2> PICK r \in Reqs : ChangePassword(r)
      BY <1>9
    <2>1. \A n \in 0 .. MaxPasswords : n < MaxPasswords => n + 1 \in 0 .. MaxPasswords
      BY Limits
    <2>2. req[r].user \in Users
      BY ReqTypes DEF ReqRecord
    <2>3. password[req[r].user] \in 0 .. MaxPasswords
      BY <2>2 DEF TypeOK
    <2>4. password' \in [Users -> 0 .. MaxPasswords]
      BY <2>1, <2>2, <2>3 DEF TypeOK, ChangePassword
    <2> QED BY <2>4, ReqTypes DEF TypeOK, ChangePassword
  <1>10. CASE \E r \in Reqs : RevokeSecuritySession(r)
    BY <1>10, ReqTypes DEF TypeOK, RevokeSecuritySession
  <1>11. CASE \E r \in Reqs : ReviewNewSessions(r)
    <2> PICK r \in Reqs : ReviewNewSessions(r)
      BY <1>11
    <2>1. session' \in [Tokens -> Session] /\ \A s \in Tokens : session'[s].user = session[s].user
      BY DEF TypeOK, ReviewNewSessions, Session
    <2> QED BY <2>1, ReqTypes DEF TypeOK, ReviewNewSessions, ReqPC
  <1>12. CASE \E t \in Tokens : RevokeSession(t)
    BY <1>12 DEF TypeOK, RevokeSession
  <1>13. CASE Cleanup \/ DeleteExpiredSessions \/ DeleteInactiveUsers
    BY <1>13, <1>t, Limits DEF TypeOK, Cleanup, DeleteExpiredSessions, DeleteInactiveUsers, Gone, Tables, Times
  <1>14. CASE Tick
    BY <1>14, <1>t, Limits DEF TypeOK, Tick, Tables, Times
  <1>15. CASE UNCHANGED vars
    BY <1>15 DEF TypeOK, vars
  <1>16. CASE \E t \in Tokens : Unauthorized(t)
    BY <1>16, <1>15 DEF Unauthorized
  <1> QED BY <1>1, <1>2, <1>3, <1>4, <1>5, <1>6, <1>7, <1>8, <1>9, <1>10, <1>11, <1>12, <1>13, <1>14,
             <1>15, <1>16, IdleOK DEF Next, Authenticate, Serve

\* TypeOK is an invariant of the sessions and accounts of app/users and
\* store/users.
THEOREM TypeCorrect == Spec => []TypeOK
  <1>1. Init => TypeOK
    BY InitInv DEF IInv
  <1> QED BY <1>1, TypeStep, PTL DEF Spec

-----------------------------------------------------------------------------
(* The invariant.                                                          *)

\* What no step takes back: identifiers handed out, the row of a token, the
\* latest use, the clock.
Mono ==
    /\ fresh' \subseteq fresh /\ now <= now'
    /\ \A t \in Tokens \ fresh :
          /\ session'[t].user = session[t].user
          /\ session'[t].created = session[t].created
          /\ session'[t].expires = session[t].expires
          /\ used[t] <= used'[t]

\* Register and CreateSession hand out a token nobody had; other rows stay.  The
\* row bears a clock at most Lag behind.
InsertedAt(t, u, c) ==
    /\ t \in fresh /\ t \notin open /\ open' = open \cup {t}
    /\ fresh' \subseteq fresh /\ (\A s \in Tokens : s \in fresh' <=> s \in fresh /\ s # t)
    /\ session'[t].user = u /\ session'[t].created = c /\ session'[t].seen = c
    /\ session'[t].expires = c + SessionTTL /\ used'[t] = c
    /\ \A s \in Tokens : s # t => session'[s] = session[s] /\ used'[s] = used[s]
    /\ lastSeen'[u] = c /\ \A v \in Users : v # u => lastSeen'[v] = lastSeen[v]
    /\ now' = now

\* That is what both actions do.
LEMMA Inserted ==
    ASSUME TypeOK, NEW t \in Tokens, NEW u \in Users,
           Register(u, t) \/ \E r \in Reqs : CreateSession(r, t) /\ u = req[r].user
    PROVE  \E c \in Nat : c <= now /\ now <= c + Lag /\ InsertedAt(t, u, c)
  <1>1. ASSUME Register(u, t)
        PROVE  /\ fresh' \subseteq fresh /\ (\A s \in Tokens : s \in fresh' <=> s \in fresh /\ s # t)
               /\ (\E c \in Clock : InsertSession(t, u, c, TRUE)) /\ now' = now
    BY <1>1, SessionsAssumption DEF Register
  <1>2. ASSUME NEW r \in Reqs, CreateSession(r, t), u = req[r].user
        PROVE  /\ fresh' \subseteq fresh /\ (\A s \in Tokens : s \in fresh' <=> s \in fresh /\ s # t)
               /\ (\E c \in Clock : InsertSession(t, u, c, FALSE)) /\ now' = now
    BY <1>2 DEF CreateSession
  <1>3. /\ fresh' \subseteq fresh /\ (\A s \in Tokens : s \in fresh' <=> s \in fresh /\ s # t)
        /\ (\E c \in Clock, b \in BOOLEAN : InsertSession(t, u, c, b)) /\ now' = now
    <2>1. CASE Register(u, t)
      BY <1>1, <2>1
    <2>2. CASE \E r \in Reqs : CreateSession(r, t) /\ u = req[r].user
      BY <1>2, <2>2
    <2> QED BY <2>1, <2>2
  <1>4. PICK c \in Clock, b \in BOOLEAN : InsertSession(t, u, c, b)
    BY <1>3
  <1>5. c \in Nat /\ c <= now /\ now <= c + Lag
    BY Limits DEF TypeOK, Clock, Times
  <1>6. InsertedAt(t, u, c)
    BY <1>3, <1>4 DEF TypeOK, InsertSession, NewSession, InsertedAt
  <1> QED BY <1>5, <1>6

\* TouchSession and ReviewNewSessions change other columns, and an inserted
\* session has a token nobody had before.
LEMMA MonoStep == TypeOK /\ [Next]_vars => Mono
  <1> SUFFICES ASSUME TypeOK, [Next]_vars PROVE Mono
    OBVIOUS
  <1>t. now \in Nat /\ \A t \in Tokens : used[t] \in Nat
    BY Limits DEF TypeOK, Times
  <1>1. CASE \E u \in Users, t \in Tokens : Register(u, t)
    <2> PICK u \in Users, t \in Tokens : Register(u, t)
      BY <1>1
    <2> QED BY <1>t, Inserted DEF Mono, InsertedAt
  <1>2. CASE \E r \in Reqs, t \in Tokens : CreateSession(r, t)
    <2> PICK r \in Reqs, t \in Tokens : CreateSession(r, t)
      BY <1>2
    <2> PICK u \in Users : u = req[r].user
      BY ReqTypes DEF ReqRecord
    <2> QED BY <1>t, Inserted DEF Mono, InsertedAt
  <1>3. CASE \E r \in Reqs : TouchSession(r)
    <2> PICK r \in Reqs : TouchSession(r)
      BY <1>3
    <2>1. req[r].at \in Nat /\ req[r].token \in Tokens
      BY ReqTypes, Limits DEF ReqRecord, Times
    <2>2. now' = now /\ fresh' = fresh
      BY DEF TouchSession
    <2>3. \A t \in Tokens : /\ session'[t].user = session[t].user
                            /\ session'[t].created = session[t].created
                            /\ session'[t].expires = session[t].expires
      BY Touched
    <2>4. \A t \in Tokens : used[t] <= used'[t]
      BY <1>t, <2>1 DEF TypeOK, TouchSession
    <2> QED BY <1>t, <2>2, <2>3, <2>4 DEF Mono
  <1>4. CASE \E r \in Reqs : ReviewNewSessions(r)
    <2> PICK r \in Reqs : ReviewNewSessions(r)
      BY <1>4
    <2>1. \A t \in Tokens : /\ session'[t].user = session[t].user
                            /\ session'[t].created = session[t].created
                            /\ session'[t].expires = session[t].expires
      BY DEF TypeOK, ReviewNewSessions, Session
    <2> QED BY <2>1, <1>t DEF Mono, ReviewNewSessions
  <1>5. CASE Tick
    BY <1>5, <1>t DEF Mono, Tick, Tables
  <1>6. CASE UNCHANGED <<now, fresh, session, used>>
    BY <1>6, <1>t DEF Mono
  <1>7. CASE \E r \in Reqs : Reading(r)
    BY <1>6, <1>7, ReadsOnly DEF Tables
  <1>8. CASE \E r \in Reqs : DeleteUser(r) \/ ChangePassword(r) \/ RevokeSecuritySession(r)
    BY <1>6, <1>8 DEF DeleteUser, ChangePassword, RevokeSecuritySession
  <1>9. CASE Cleanup \/ DeleteExpiredSessions \/ DeleteInactiveUsers
    BY <1>6, <1>9 DEF Cleanup, DeleteExpiredSessions, DeleteInactiveUsers, Tables
  <1>10. CASE (\E t \in Tokens : RevokeSession(t) \/ Unauthorized(t)) \/ UNCHANGED vars
    BY <1>6, <1>10 DEF RevokeSession, Unauthorized, vars
  <1> QED BY <1>1, <1>2, <1>3, <1>4, <1>5, <1>7, <1>8, <1>9, <1>10, IdleOK
          DEF Next, Authenticate, Serve, Reading

\* Rows: an expiry is set with the creation; a touch never gets ahead of the
\* latest use.
LEMMA RowStep == TypeOK /\ RowInv /\ [Next]_vars => RowInv'
  <1> SUFFICES ASSUME TypeOK, RowInv, [Next]_vars PROVE RowInv'
    OBVIOUS
  <1>t. now \in Nat /\ (\A t \in Tokens : used[t] \in Nat /\ session[t] \in Session)
    BY Limits DEF TypeOK, Times
  <1>1. CASE \E u \in Users, t \in Tokens : Register(u, t)
    <2> PICK u \in Users, t \in Tokens : Register(u, t)
      BY <1>1
    <2>1. u \notin fresh' /\ \A v \in Users : v # u => password'[v] = password[v]
      BY DEF TypeOK, Register
    <2> QED BY <1>t, <2>1, Inserted DEF RowInv, InsertedAt
  <1>2. CASE \E r \in Reqs, t \in Tokens : CreateSession(r, t)
    <2> PICK r \in Reqs, t \in Tokens : CreateSession(r, t)
      BY <1>2
    <2> PICK u \in Users : u = req[r].user
      BY ReqTypes DEF ReqRecord
    <2>1. password' = password
      BY DEF CreateSession
    <2> QED BY <1>t, <2>1, Inserted DEF RowInv, InsertedAt
  <1>3. CASE \E r \in Reqs : TouchSession(r)
    <2> PICK r \in Reqs : TouchSession(r)
      BY <1>3
    <2>1. req[r].at \in Nat /\ req[r].token \in Tokens
      BY ReqTypes, Limits DEF ReqRecord, Times
    <2>2. fresh' = fresh /\ password' = password
      BY DEF TouchSession
    <2>3. \A t \in Tokens : /\ session'[t].created = session[t].created
                            /\ session'[t].expires = session[t].expires
      BY Touched
    <2>4. \A t \in Tokens : \/ session'[t] = session[t] /\ used'[t] = used[t]
                            \/ session'[t].seen = req[r].at /\ req[r].at <= used'[t]
      BY <1>t, <2>1 DEF TypeOK, TouchSession, Session
    <2> QED BY <1>t, <2>2, <2>3, <2>4 DEF RowInv
  <1>4. CASE \E r \in Reqs : ReviewNewSessions(r)
    <2> PICK r \in Reqs : ReviewNewSessions(r)
      BY <1>4
    <2>1. \A t \in Tokens : /\ session'[t].seen = session[t].seen
                            /\ session'[t].created = session[t].created
                            /\ session'[t].expires = session[t].expires
      BY DEF TypeOK, ReviewNewSessions, Session
    <2> QED BY <2>1 DEF RowInv, ReviewNewSessions
  <1>5. CASE \E r \in Reqs : ChangePassword(r)
    <2> PICK r \in Reqs : ChangePassword(r)
      BY <1>5
    <2>1. \A u \in Users : u \notin users => password'[u] = password[u]
      BY ReqTypes DEF TypeOK, ChangePassword, ReqRecord
    <2>2. \A u \in Users \cap fresh : password'[u] = password[u]
      BY <2>1 DEF TypeOK
    <2> QED BY <2>2 DEF RowInv, ChangePassword
  <1>6. CASE UNCHANGED <<fresh, session, used, password>>
    BY <1>6 DEF RowInv
  <1>7. CASE \E r \in Reqs : Reading(r)
    BY <1>6, <1>7, ReadsOnly DEF Tables
  <1>8. CASE \E r \in Reqs : DeleteUser(r) \/ RevokeSecuritySession(r)
    BY <1>6, <1>8 DEF DeleteUser, RevokeSecuritySession
  <1>9. CASE Cleanup \/ DeleteExpiredSessions \/ DeleteInactiveUsers \/ Tick
    BY <1>6, <1>9 DEF Cleanup, DeleteExpiredSessions, DeleteInactiveUsers, Tick, Tables
  <1>10. CASE (\E t \in Tokens : RevokeSession(t) \/ Unauthorized(t)) \/ UNCHANGED vars
    BY <1>6, <1>10 DEF RevokeSession, Unauthorized, vars
  <1> QED BY <1>1, <1>2, <1>3, <1>4, <1>5, <1>7, <1>8, <1>9, <1>10, IdleOK
          DEF Next, Authenticate, Serve, Reading

\* A request that does not move keeps what it knows while the clock stands.
LEMMA KeepReq ==
    ASSUME TypeOK, TypeOK', Mono, now' = now, NEW r \in Reqs, ReqOK(req[r]), req'[r] = req[r]
    PROVE  ReqOK(req[r])'
  <1>1. req[r].token \in Tokens /\ req[r].at \in Nat
    BY ReqTypes, Limits DEF ReqRecord, Times
  <1>2. CASE req[r].pc \in {"idle", "login"}
    BY <1>2 DEF ReqOK
  <1>3. CASE req[r].pc \notin {"idle", "login"}
    <2> DEFINE t == req[r].token
    <2>1. t \in Tokens \ fresh
      BY <1>1, <1>3 DEF ReqOK
    <2>2. /\ t \notin fresh' /\ session'[t].user = session[t].user
          /\ session'[t].created = session[t].created /\ used[t] <= used'[t]
      BY <2>1 DEF Mono
    <2>3. used[t] \in Nat /\ used'[t] \in Nat
      BY <2>1, Limits DEF TypeOK, Times
    <2>4. req[r].at < used[t] + IdleTTL => req[r].at < used'[t] + IdleTTL
      BY <1>1, <2>2, <2>3, Limits
    <2> HIDE DEF t
    <2> QED BY <1>3, <2>2, <2>4 DEF ReqOK, t
  <1> QED BY <1>2, <1>3

\* The other requests keep what they know; the one that moves is at pc.
LEMMA OtherReqs ==
    ASSUME TypeOK, TypeOK', Mono, now' = now, ReqInv, NEW r \in Reqs, ReqOK(req[r])',
           \A s \in Reqs : s # r => req'[s] = req[s]
    PROVE  ReqInv'
  BY KeepReq DEF ReqInv

\* A request that ended knows nothing.
LEMMA DoneReq ==
    ASSUME TypeOK, TypeOK', Mono, now' = now, ReqInv, NEW r \in Reqs, Done(r)
    PROVE  ReqInv'
  <1>1. req'[r] = IdleReq /\ \A s \in Reqs : s # r => req'[s] = req[s]
    BY DEF TypeOK, Done
  <1>2. ReqOK(req[r])'
    BY <1>1 DEF ReqOK, IdleReq
  <1> QED BY <1>1, <1>2, OtherReqs

\* A request that goes on, past its touch, with the token it had.
LEMMA GotoReq ==
    ASSUME TypeOK, TypeOK', Mono, now' = now, ReqInv, NEW r \in Reqs,
           req[r].pc \notin {"idle", "login"}, NEW pc \in {"state", "serve", "list"}, Goto(r, pc)
    PROVE  ReqInv'
  <1>1. /\ req'[r].pc = pc /\ req'[r].token = req[r].token
        /\ req'[r].user = req[r].user /\ req'[r].at = req[r].at
        /\ \A s \in Reqs : s # r => req'[s] = req[s]
    BY ReqTypes DEF TypeOK, Goto, ReqRecord
  <1>2. req[r].token \in Tokens \ fresh /\ req[r].user = session[req[r].token].user
        /\ req[r].at <= now /\ now <= req[r].at + Lag
    BY ReqTypes DEF ReqInv, ReqOK, ReqRecord
  <1>3. req[r].token \notin fresh' /\ session'[req[r].token].user = session[req[r].token].user
    BY <1>2 DEF Mono
  <1>4. ReqOK(req[r])'
    BY <1>1, <1>2, <1>3 DEF ReqOK
  <1> QED BY <1>1, <1>4, OtherReqs

\* Requests: what one checked stays true until it acts on it.
LEMMA ReqStep == IInv /\ TypeOK' /\ [Next]_vars => ReqInv'
  <1> SUFFICES ASSUME IInv, TypeOK', [Next]_vars PROVE ReqInv'
    OBVIOUS
  <1>t. TypeOK /\ RowInv /\ ReqInv /\ Mono
    BY MonoStep DEF IInv
  <1>n. now \in Nat
    BY <1>t, Limits DEF TypeOK, Times
  <1>1. CASE \E u \in Users, t \in Tokens : Register(u, t)
    BY <1>1, <1>t, KeepReq DEF Register, ReqInv
  <1>2. CASE \E r \in Reqs, u \in Users : Login(r, u)
    <2> PICK r \in Reqs, u \in Users : Login(r, u)
      BY <1>2
    <2>1. /\ req'[r].pc = "login" /\ req'[r].at = now /\ now' = now
          /\ \A s \in Reqs : s # r => req'[s] = req[s]
      BY <1>t, IdleOK DEF TypeOK, Login, ReadOnly, ReqRecord
    <2>2. ReqOK(req[r])'
      BY <1>n, <2>1, Limits DEF ReqOK
    <2> QED BY <1>t, <2>1, <2>2, OtherReqs
  <1>3. CASE \E r \in Reqs, t \in Tokens : CreateSession(r, t)
    BY <1>3, <1>t, DoneReq DEF CreateSession
  <1>4. CASE \E r \in Reqs, t \in Tokens : UserBySessionHash(r, t)
    <2> PICK r \in Reqs, t \in Tokens : UserBySessionHash(r, t)
      BY <1>4
    <2>1. PICK c \in Clock : /\ Valid(t, c)
                             /\ req' = [req EXCEPT ![r] = [IdleReq EXCEPT !.pc = "touch",
                                           !.user = session[t].user, !.token = t, !.at = c]]
      BY DEF UserBySessionHash
    <2>2. /\ req'[r].pc = "touch" /\ req'[r].user = session[t].user
          /\ req'[r].token = t /\ req'[r].at = c
          /\ \A s \in Reqs : s # r => req'[s] = req[s]
      BY <2>1, <1>t, IdleOK DEF TypeOK, ReqRecord
    <2>3. now' = now /\ fresh' = fresh /\ session' = session /\ used' = used
      BY DEF UserBySessionHash, ReadOnly, Tables
    <2>4. c \in Nat /\ c <= now /\ now <= c + Lag
      BY <1>n, <2>1, Limits DEF Clock, Times
    <2>5. /\ t \notin fresh /\ session[t].expires > c /\ session[t].seen > c - IdleTTL
          /\ session[t].seen \in Nat /\ used[t] \in Nat /\ session[t].created \in Nat
      BY <2>1, <1>t, Limits DEF Valid, TypeOK, Session, Times
    <2>6. c < session[t].created + SessionTTL /\ c < used[t] + IdleTTL
      BY <2>4, <2>5, <1>t, Limits DEF RowInv
    <2>7. ReqOK(req[r])'
      BY <2>2, <2>3, <2>4, <2>5, <2>6 DEF ReqOK
    <2> QED BY <1>t, <2>2, <2>3, <2>7, OtherReqs
  <1>5. CASE \E r \in Reqs : TouchSession(r)
    BY <1>5, <1>t, DoneReq, GotoReq DEF TouchSession, At
  <1>6. CASE \E r \in Reqs : SecurityState(r) \/ Handler(r) \/ SecuritySessions(r) \/ Abort(r)
    BY <1>6, <1>t, DoneReq, GotoReq DEF SecurityState, Handler, SecuritySessions, Abort, ReadOnly, At
  <1>7. CASE \E r \in Reqs : DeleteUser(r) \/ ChangePassword(r) \/ RevokeSecuritySession(r)
    BY <1>7, <1>t, DoneReq DEF DeleteUser, ChangePassword, RevokeSecuritySession
  <1>8. CASE \E r \in Reqs, t \in Tokens, pc \in {"password", "review", "revoke"} : Manage(r, pc, t)
    <2> PICK r \in Reqs, t \in Tokens, pc \in {"password", "review", "revoke"} : Manage(r, pc, t)
      BY <1>8
    <2> DEFINE k == req[r].token
    <2>1. /\ req'[r].pc = pc /\ req'[r].token = k
          /\ req'[r].user = req[r].user /\ req'[r].at = req[r].at
          /\ \A s \in Reqs : s # r => req'[s] = req[s]
      BY <1>t, ReqTypes DEF TypeOK, Manage, ReqRecord
    <2>2. now' = now /\ fresh' = fresh /\ session' = session
      BY DEF Manage, ReadOnly, Tables
    <2>3. k \in Tokens \ fresh /\ req[r].user = session[k].user /\ req[r].at <= now /\ now <= req[r].at + Lag
      BY <1>t, ReqTypes DEF Manage, At, ReqInv, ReqOK, ReqRecord
    <2>4. session[k].created + ManageAge <= now
      <3>1. session[k].created \in Nat /\ now - session[k].created >= ManageAge
        BY <1>t, <2>3, Limits DEF Manage, CanManage, TypeOK, Session, Times
      <3> QED BY <1>n, <3>1, Limits
    <2> HIDE DEF k
    <2>5. ReqOK(req[r])'
      BY <2>1, <2>2, <2>3, <2>4 DEF ReqOK
    <2> QED BY <1>t, <2>1, <2>2, <2>5, OtherReqs
  <1>9. CASE \E r \in Reqs : ReviewNewSessions(r)
    BY <1>9, <1>t, GotoReq DEF ReviewNewSessions, At
  <1>10. CASE Tick
    <2> SUFFICES ASSUME NEW r \in Reqs PROVE ReqOK(req[r])'
      BY DEF ReqInv
    <2>1. /\ req' = req /\ session' = session /\ used' = used /\ fresh' = fresh /\ now' = now + 1
          /\ req[r].pc # "idle" => now < req[r].at + Lag
      BY <1>10 DEF Tick, Tables, At
    <2>2. req[r].at \in Nat /\ session[req[r].token].created \in Nat
      BY <1>t, ReqTypes, Limits DEF TypeOK, Session, ReqRecord, Times
    <2>3. ReqOK(req[r])
      BY <1>t DEF ReqInv
    <2>4. req[r].at <= now => req[r].at <= now + 1
      BY <1>n, <2>2
    <2>5. now < req[r].at + Lag => now + 1 <= req[r].at + Lag
      BY <1>n, <2>2, Limits
    <2>6. session[req[r].token].created + ManageAge <= now => session[req[r].token].created + ManageAge <= now + 1
      BY <1>n, <2>2, Limits
    <2> QED BY <2>1, <2>3, <2>4, <2>5, <2>6 DEF ReqOK
  <1>11. CASE UNCHANGED <<now, req>>
    BY <1>11, <1>t, KeepReq DEF ReqInv
  <1>12. CASE Cleanup \/ DeleteExpiredSessions \/ DeleteInactiveUsers
    BY <1>11, <1>12 DEF Cleanup, DeleteExpiredSessions, DeleteInactiveUsers
  <1>13. CASE (\E t \in Tokens : RevokeSession(t) \/ Unauthorized(t)) \/ UNCHANGED vars
    BY <1>11, <1>13 DEF RevokeSession, Unauthorized, vars
  <1> QED BY <1>1, <1>2, <1>3, <1>4, <1>5, <1>6, <1>7, <1>8, <1>9, <1>10, <1>12, <1>13, IdleOK
          DEF Next, Authenticate, Serve

\* Use: a late touch sets last_seen_at back by at most Lag.
LEMMA UseStep == IInv /\ TypeOK' /\ [Next]_vars => UseInv'
  <1> SUFFICES ASSUME IInv, TypeOK', [Next]_vars PROVE UseInv'
    OBVIOUS
  <1>t. TypeOK /\ ReqInv /\ UseInv
    BY DEF IInv
  <1>n. /\ now \in Nat /\ cleaner.at \in Nat /\ (\A t \in Tokens : used[t] \in Nat)
        /\ (\A u \in Users : lastSeen[u] \in Nat) /\ (\A t \in Tokens : session[t].user \in Users)
    BY <1>t, Limits DEF TypeOK, Times, Session
  <1>1. ASSUME NEW t \in Tokens, NEW u \in Users, cleaner' = cleaner,
               Register(u, t) \/ \E r \in Reqs : CreateSession(r, t) /\ u = req[r].user
        PROVE  UseInv'
    <2> PICK c \in Nat : c <= now /\ now <= c + Lag /\ InsertedAt(t, u, c)
      BY <1>1, <1>t, Inserted
    <2>1. /\ open' = open \cup {t} /\ session'[t].user = u /\ used'[t] = c
          /\ \A s \in Tokens : s # t => session'[s] = session[s] /\ used'[s] = used[s]
          /\ lastSeen'[u] = c /\ \A v \in Users : v # u => lastSeen'[v] = lastSeen[v]
          /\ now' = now
      BY DEF InsertedAt
    <2>2. \A s \in Tokens : used'[s] <= now /\ used'[s] \in Nat
      BY <1>t, <1>n, <2>1 DEF UseInv
    <2>3. \A s \in open' : used'[s] <= lastSeen'[session'[s].user] + Lag
      <3> SUFFICES ASSUME NEW s \in open' PROVE used'[s] <= lastSeen'[session'[s].user] + Lag
        OBVIOUS
      <3>1. CASE session'[s].user = u
        BY <1>n, <2>1, <2>2, <3>1, Limits DEF TypeOK
      <3>2. CASE session'[s].user # u
        BY <1>t, <1>n, <2>1, <3>2 DEF UseInv, TypeOK
      <3> QED BY <3>1, <3>2
    <2> QED BY <1>1, <1>t, <2>1, <2>2, <2>3 DEF UseInv
  <1>2. CASE \E u \in Users, t \in Tokens : Register(u, t)
    BY <1>1, <1>2 DEF Register
  <1>3. CASE \E r \in Reqs, t \in Tokens : CreateSession(r, t)
    <2> PICK r \in Reqs, t \in Tokens : CreateSession(r, t)
      BY <1>3
    <2> PICK u \in Users : u = req[r].user
      BY <1>t, ReqTypes DEF ReqRecord
    <2> QED BY <1>1 DEF CreateSession
  <1>4. CASE \E r \in Reqs : TouchSession(r)
    <2> PICK r \in Reqs : TouchSession(r)
      BY <1>4
    <2> DEFINE q == req[r]
    <2>1. q.token \in Tokens /\ q.user \in Users /\ q.at \in Nat /\ q.at <= now /\ now <= q.at + Lag
      BY <1>t, ReqTypes, Limits DEF ReqRecord, Times, TouchSession, At, ReqInv, ReqOK
    <2>2. /\ now' = now /\ open' = open /\ cleaner' = cleaner
          /\ \A s \in Tokens : session'[s].user = session[s].user
      BY <1>t, Touched DEF TouchSession
    <2>3. \A s \in Tokens : used'[s] <= now /\ used'[s] \in Nat /\ (s # q.token => used'[s] = used[s])
      BY <1>t, <1>n, <2>1 DEF TypeOK, TouchSession, UseInv
    <2>4. CASE q.token \in open
      <3>1. lastSeen'[q.user] = q.at /\ \A v \in Users : v # q.user => lastSeen'[v] = lastSeen[v]
        BY <1>t, <2>1, <2>4 DEF TypeOK, TouchSession
      <3>2. session[q.token].user = q.user
        BY <1>t DEF TouchSession, At, ReqInv, ReqOK
      <3>3. ASSUME NEW s \in open PROVE used'[s] <= lastSeen'[session'[s].user] + Lag
        <4>0. s \in Tokens
          BY <1>t DEF TypeOK
        <4>1. CASE session[s].user = q.user
          BY <1>n, <2>1, <2>2, <2>3, <3>1, <4>0, <4>1, Limits
        <4>2. CASE session[s].user # q.user
          BY <1>t, <1>n, <2>2, <2>3, <3>1, <3>2, <4>0, <4>2 DEF UseInv
        <4> QED BY <4>1, <4>2
      <3> QED BY <1>t, <2>2, <2>3, <3>3 DEF UseInv
    <2>5. CASE q.token \notin open
      BY <1>t, <2>5 DEF TouchSession, UseInv
    <2> QED BY <2>4, <2>5
  <1>5. CASE \E r \in Reqs : ReviewNewSessions(r)
    <2> PICK r \in Reqs : ReviewNewSessions(r)
      BY <1>5
    <2>1. \A s \in Tokens : session'[s].user = session[s].user
      BY <1>t DEF TypeOK, ReviewNewSessions, Session
    <2> QED BY <1>t, <2>1 DEF UseInv, TypeOK, ReviewNewSessions
  <1>6. CASE Tick
    <2>1. \A n \in Nat : n <= now => n <= now + 1
      BY <1>n
    <2> QED BY <1>6, <1>t, <1>n, <2>1 DEF UseInv, Tick, Tables
  <1>7. ASSUME UNCHANGED <<now, used, lastSeen, session>>, open' \subseteq open, cleaner'.at <= now
        PROVE  UseInv'
    BY <1>7, <1>t DEF UseInv
  <1>c. cleaner.at <= now /\ 0 <= now /\ now <= now
    BY <1>t, <1>n DEF UseInv
  <1>8. CASE \E r \in Reqs : Reading(r)
    BY <1>7, <1>8, <1>c, ReadsOnly DEF Tables
  <1>9. CASE \E r \in Reqs : DeleteUser(r) \/ ChangePassword(r) \/ RevokeSecuritySession(r)
    BY <1>7, <1>9, <1>c DEF DeleteUser, ChangePassword, RevokeSecuritySession, Gone
  <1>10. CASE Cleanup \/ DeleteExpiredSessions \/ DeleteInactiveUsers
    BY <1>7, <1>10, <1>c, <1>t DEF Cleanup, DeleteExpiredSessions, DeleteInactiveUsers, Gone, Tables, TypeOK
  <1>11. CASE (\E t \in Tokens : RevokeSession(t) \/ Unauthorized(t)) \/ UNCHANGED vars
    BY <1>7, <1>11, <1>c DEF RevokeSession, Unauthorized, vars
  <1> QED BY <1>2, <1>3, <1>4, <1>5, <1>6, <1>8, <1>9, <1>10, <1>11, IdleOK
          DEF Next, Authenticate, Serve, Reading

\* IInv is inductive.
LEMMA InvStep == IInv /\ [Next]_vars => IInv'
  BY TypeStep, RowStep, ReqStep, UseStep DEF IInv

\* IInv is an invariant: what a request read of the session it acts for stays
\* true of it.
THEOREM Inductive == Spec => []IInv
  BY InitInv, InvStep, PTL DEF Spec

-----------------------------------------------------------------------------
(* Time limits, management and deletion.                                   *)

\* A request that TouchSession accepts was looked up within SESSION_TTL of the
\* login and within SESSION_IDLE_TTL of an accepted request.
THEOREM TTLs == Spec => TTLsHold
  <1>1. IInv => AcceptStep
    BY DEF IInv, ReqInv, ReqOK, AcceptStep, At
  <1> QED BY <1>1, Inductive, PTL DEF TTLsHold

\* Accounts go with DeleteUser or with the pass over inactive ones.
LEMMA AccountsGo == IInv /\ [Next]_vars => AccountStep
  <1> SUFFICES ASSUME IInv, [Next]_vars, NEW u \in users \ users'
               PROVE  \/ \E r \in Reqs : At(r, "serve") /\ req[r].user = u
                      \/ \A t \in open : session[t].user = u => used[t] < now - InactiveTTL + Lag
    BY DEF AccountStep
  <1>t. TypeOK /\ UseInv
    BY DEF IInv
  <1>1. CASE \E r \in Reqs : DeleteUser(r)
    BY <1>1 DEF DeleteUser, Gone
  <1>2. CASE DeleteInactiveUsers
    <2> SUFFICES ASSUME NEW t \in open, session[t].user = u
                 PROVE  used[t] < now - InactiveTTL + Lag
      OBVIOUS
    <2>1. lastSeen[u] < cleaner.at - InactiveTTL
      BY <1>2 DEF DeleteInactiveUsers, Gone, InactiveBefore
    <2>2. used[t] <= lastSeen[u] + Lag /\ cleaner.at <= now
      BY <1>t DEF UseInv
    <2>3. used[t] \in Nat /\ lastSeen[u] \in Nat /\ cleaner.at \in Nat /\ now \in Nat
      BY <1>t, Limits DEF TypeOK, Times
    <2> QED BY ONLY <2>1, <2>2, <2>3, Limits
  <1>3. CASE users \subseteq users'
    BY <1>3
  <1>4. CASE \/ \E v \in Users, t \in Tokens : Register(v, t)
             \/ \E r \in Reqs, t \in Tokens : CreateSession(r, t)
    BY <1>3, <1>4 DEF Register, CreateSession
  <1>5. CASE \E r \in Reqs : Reading(r)
    BY <1>3, <1>5, ReadsOnly DEF Tables
  <1>6. CASE \E r \in Reqs : TouchSession(r) \/ ChangePassword(r) \/ RevokeSecuritySession(r) \/ ReviewNewSessions(r)
    BY <1>3, <1>6 DEF TouchSession, ChangePassword, RevokeSecuritySession, ReviewNewSessions
  <1>7. CASE Cleanup \/ DeleteExpiredSessions \/ Tick
    BY <1>3, <1>7 DEF Cleanup, DeleteExpiredSessions, Tick, Tables
  <1>8. CASE (\E t \in Tokens : RevokeSession(t) \/ Unauthorized(t)) \/ UNCHANGED vars
    BY <1>3, <1>8 DEF RevokeSession, Unauthorized, vars
  <1> QED BY <1>1, <1>2, <1>4, <1>5, <1>6, <1>7, <1>8, IdleOK DEF Next, Authenticate, Serve, Reading

\* DeleteInactiveUsers spares accounts with a session used within InactiveTTL.
THEOREM AccountsStay == Spec => UsedAccountsStay
  BY Inductive, AccountsGo, PTL DEF Spec, UsedAccountsStay

\* The three parts of ManageStep: ChangePassword, ReviewNewSessions and
\* RevokeSecuritySession.
PasswordPart == \A u \in Users : password[u] # 0 /\ password'[u] # password[u] =>
                   \E r \in Reqs : At(r, "password") /\ req[r].user = u /\ OldEnough(r)
ReviewPart == \A t \in open : session'[t].reviewed /\ ~session[t].reviewed =>
                 \E r \in Reqs : /\ At(r, "review") /\ OldEnough(r)
                                 /\ session[req[r].token].user = session[t].user
                                 /\ session[req[r].token].created < session[t].created
RevokePart == \A r \in Reqs : At(r, "revoke") /\ open' # open /\ req'[r].pc = "idle" =>
                 OldEnough(r) /\ \A t \in open \ open' : session[t].user = req[r].user

\* Management, action by action.
LEMMA Managed == IInv /\ [Next]_vars => PasswordPart /\ ReviewPart /\ RevokePart
  <1> SUFFICES ASSUME IInv, [Next]_vars PROVE PasswordPart /\ ReviewPart /\ RevokePart
    OBVIOUS
  <1>t. TypeOK /\ RowInv
    BY DEF IInv
  <1>o. \A r \in Reqs : req[r].pc \in {"password", "revoke", "review"} => OldEnough(r)
    BY DEF IInv, ReqInv, ReqOK, OldEnough
  <1>1. ASSUME UNCHANGED password PROVE PasswordPart
    BY <1>1 DEF PasswordPart
  <1>2. ASSUME \A t \in open : session'[t].reviewed = session[t].reviewed PROVE ReviewPart
    BY <1>2 DEF ReviewPart
  <1>3. ASSUME UNCHANGED open \/ UNCHANGED req PROVE RevokePart
    BY <1>3 DEF RevokePart, At
  <1>4. ASSUME NEW s \in Reqs, ~At(s, "revoke"), Done(s) PROVE RevokePart
    <2>1. \A r \in Reqs : r # s => req'[r] = req[r]
      BY <1>4, <1>t DEF Done, TypeOK
    <2> QED BY <1>4, <2>1 DEF RevokePart, At
  <1>5. CASE \E u \in Users, t \in Tokens : Register(u, t)
    <2> PICK u \in Users, t \in Tokens : Register(u, t)
      BY <1>5
    <2>1. PasswordPart
      BY <1>t DEF PasswordPart, Register, TypeOK, RowInv
    <2>2. ReviewPart
      BY <1>t, <1>2, Inserted DEF TypeOK, InsertedAt
    <2> QED BY <1>3, <2>1, <2>2 DEF Register
  <1>6. CASE \E r \in Reqs, t \in Tokens : CreateSession(r, t)
    <2> PICK r \in Reqs, t \in Tokens : CreateSession(r, t)
      BY <1>6
    <2> PICK u \in Users : u = req[r].user
      BY <1>t, ReqTypes DEF ReqRecord
    <2>1. ReviewPart
      BY <1>t, <1>2, Inserted DEF TypeOK, InsertedAt
    <2> QED BY <1>1, <1>4, <2>1 DEF CreateSession, At
  <1>7. CASE \E r \in Reqs : TouchSession(r)
    <2> PICK r \in Reqs : TouchSession(r)
      BY <1>7
    <2>1. \A t \in Tokens : session'[t].reviewed = session[t].reviewed
      BY <1>t, Touched
    <2> QED BY <1>t, <1>1, <1>2, <1>3, <2>1 DEF TouchSession, TypeOK
  <1>8. CASE \E r \in Reqs : ReviewNewSessions(r)
    <2> PICK r \in Reqs : ReviewNewSessions(r)
      BY <1>8
    <2>1. ASSUME NEW t \in open, session'[t].reviewed, ~session[t].reviewed
          PROVE  t \in Younger(req[r].token)
      BY <1>t, <2>1 DEF ReviewNewSessions, TypeOK
    <2>2. \A t \in Younger(req[r].token) :
              /\ session[req[r].token].user = session[t].user
              /\ session[req[r].token].created < session[t].created
      <3> SUFFICES ASSUME NEW t \in Younger(req[r].token)
                   PROVE  /\ session[req[r].token].user = session[t].user
                          /\ session[req[r].token].created < session[t].created
        OBVIOUS
      <3>1. req[r].token \in Tokens /\ t \in Tokens
        BY <1>t, ReqTypes DEF ReqRecord, Younger, TypeOK
      <3>2. session[req[r].token].created \in Nat /\ session[t].created \in Nat
        BY <1>t, <3>1, Limits DEF TypeOK, Session, Times
      <3> QED BY <3>2 DEF Younger
    <2>3. At(r, "review") /\ OldEnough(r)
      BY <1>o DEF ReviewNewSessions, At
    <2>4. ReviewPart
      BY <2>1, <2>2, <2>3 DEF ReviewPart
    <2> QED BY <1>1, <1>3, <2>4 DEF ReviewNewSessions
  <1>9. CASE \E r \in Reqs : ChangePassword(r)
    <2> PICK r \in Reqs : ChangePassword(r)
      BY <1>9
    <2>1. \A u \in Users : u # req[r].user => password'[u] = password[u]
      BY <1>t DEF ChangePassword, TypeOK
    <2>2. PasswordPart
      BY <1>o, <2>1 DEF PasswordPart, ChangePassword, At
    <2> QED BY <1>2, <1>3, <2>2 DEF ChangePassword
  <1>10. CASE \E r \in Reqs : RevokeSecuritySession(r)
    <2> PICK r \in Reqs : RevokeSecuritySession(r)
      BY <1>10
    <2>1. \A s \in Reqs : s # r => req'[s] = req[s]
      BY <1>t DEF RevokeSecuritySession, Done, TypeOK
    <2>2. \A t \in open \ open' : session[t].user = req[r].user
      BY DEF RevokeSecuritySession
    <2>3. RevokePart
      BY <1>o, <2>1, <2>2 DEF RevokePart, At
    <2> QED BY <1>1, <1>2, <2>3 DEF RevokeSecuritySession
  <1>11. CASE \E r \in Reqs : DeleteUser(r)
    BY <1>1, <1>2, <1>4, <1>11 DEF DeleteUser, At
  <1>12. CASE \E r \in Reqs : Reading(r)
    BY <1>1, <1>2, <1>3, <1>12, ReadsOnly DEF Tables
  <1>13. CASE Cleanup \/ DeleteExpiredSessions \/ DeleteInactiveUsers \/ Tick
    BY <1>1, <1>2, <1>3, <1>13 DEF Cleanup, DeleteExpiredSessions, DeleteInactiveUsers, Tick, Tables
  <1>14. CASE (\E t \in Tokens : RevokeSession(t) \/ Unauthorized(t)) \/ UNCHANGED vars
    BY <1>1, <1>2, <1>3, <1>14 DEF RevokeSession, Unauthorized, vars
  <1> QED BY <1>5, <1>6, <1>7, <1>8, <1>9, <1>10, <1>11, <1>12, <1>13, <1>14, IdleOK
          DEF Next, Authenticate, Serve, Reading

\* CanManage, checked before the statement runs, still holds when it does: only
\* sessions ManageAge old change the password, revoke or review.
THEOREM OldSessionsManage == Spec => OnlyOldSessionsManage
  <1>1. IInv /\ [Next]_vars => ManageStep
    BY Managed DEF ManageStep, PasswordPart, ReviewPart, RevokePart
  <1> QED BY <1>1, Inductive, PTL DEF Spec, OnlyOldSessionsManage

-----------------------------------------------------------------------------
(* The store implements SessionLife.                                       *)

\* A request that ends leaves the others served as they were.
LEMMA Ended ==
    ASSUME TypeOK, NEW r \in Reqs, Done(r)
    PROVE  [s \in Reqs |-> IF LetIn(req[s]) THEN req[s].user ELSE None]' =
           [[s \in Reqs |-> IF LetIn(req[s]) THEN req[s].user ELSE None] EXCEPT ![r] = None]
  <1>1. req'[r] = IdleReq /\ \A s \in Reqs : s # r => req'[s] = req[s]
    BY DEF TypeOK, Done
  <1>2. ~LetIn(IdleReq)
    BY DEF LetIn, IdleReq
  <1> QED BY <1>1, <1>2 DEF LetIn

\* Every step is a step of SessionLife or changes nothing it speaks of.
LEMMA LifeStep == IInv /\ TypeOK' /\ [Next]_vars => [Life!Next]_(Life!life)
  <1> SUFFICES ASSUME IInv, TypeOK', [Next]_vars PROVE [Life!Next]_(Life!life)
    OBVIOUS
  <1>t. TypeOK /\ ReqInv
    BY DEF IInv
  <1> DEFINE serving == [s \in Reqs |-> IF LetIn(req[s]) THEN req[s].user ELSE None]
             phase == [t \in Tokens |-> IF t \in fresh THEN "new"
                                        ELSE IF t \in open THEN "open" ELSE "closed"]
             account == [t \in Tokens |-> IF t \in open THEN session[t].user ELSE None]
  \* Handing out a token.
  <1>1. ASSUME NEW t \in Tokens, NEW u \in Users, serving' = serving,
               Register(u, t) \/ \E r \in Reqs : CreateSession(r, t) /\ u = req[r].user
        PROVE  Life!Next
    <2>1. /\ t \in fresh /\ open' = open \cup {t} /\ t \notin open
          /\ \A s \in Tokens : s \in fresh' <=> s \in fresh /\ s # t
          /\ session'[t].user = u /\ \A s \in Tokens : s # t => session'[s] = session[s]
      BY <1>1, <1>t, Inserted DEF InsertedAt
    <2>2. phase[t] = "new" /\ phase' = [phase EXCEPT ![t] = "open"]
      BY <2>1
    <2>3. account' = [account EXCEPT ![t] = u]
      BY <2>1
    <2>4. Life!Open(t, u)
      BY <1>1, <2>2, <2>3 DEF Life!Open
    <2> QED BY <2>4 DEF Life!Next
  \* Deleting rows.
  <1>2. ASSUME open' \subseteq open, UNCHANGED <<fresh, session>>,
               serving' = serving \/ \E r \in Reqs : serving' = [serving EXCEPT ![r] = None]
        PROVE  Life!Next
    <2> PICK T \in SUBSET Tokens : T = open \ open'
      BY <1>t DEF TypeOK
    <2>1. \A t \in T : phase[t] = "open"
      BY <1>t DEF TypeOK
    <2>2. phase' = [t \in Tokens |-> IF t \in T THEN "closed" ELSE phase[t]]
      BY <1>2, <1>t DEF TypeOK
    <2>3. account' = [t \in Tokens |-> IF t \in T THEN None ELSE account[t]]
      BY <1>2
    <2>4. Life!Close(T)
      BY <1>2, <2>1, <2>2, <2>3 DEF Life!Close
    <2> QED BY <2>4 DEF Life!Next
  \* The end of a request.
  <1>3. ASSUME NEW r \in Reqs, UNCHANGED <<fresh, open, session>>, Done(r)
        PROVE  Life!Next
    <2>1. serving' = [serving EXCEPT ![r] = None]
      BY <1>t, <1>3, Ended
    <2>2. Life!Finish(r)
      BY <1>3, <2>1 DEF Life!Finish
    <2> QED BY <2>2 DEF Life!Next
  \* Nothing SessionLife speaks of.
  <1>4. ASSUME phase' = phase, account' = account, serving' = serving
        PROVE  UNCHANGED Life!life
    BY <1>4 DEF Life!life
  <1> HIDE DEF serving, phase, account
  <1>5. ASSUME UNCHANGED <<fresh, open>>, \A t \in Tokens : session'[t].user = session[t].user
        PROVE  phase' = phase /\ account' = account
    BY <1>5 DEF phase, account
  <1>6. ASSUME UNCHANGED req PROVE serving' = serving
    BY <1>6 DEF serving, LetIn
  <1>7. CASE \E u \in Users, t \in Tokens : Register(u, t)
    BY <1>1, <1>6, <1>7 DEF Register
  <1>8. CASE \E r \in Reqs, t \in Tokens : CreateSession(r, t)
    <2> PICK r \in Reqs, t \in Tokens : CreateSession(r, t)
      BY <1>8
    <2> PICK u \in Users : u = req[r].user
      BY <1>t, ReqTypes DEF ReqRecord
    <2>1. ~LetIn(req[r]) /\ Done(r)
      BY DEF CreateSession, At, LetIn
    <2>2. serving' = serving
      BY <1>t, <2>1, Ended DEF serving
    <2> QED BY <1>1, <2>2
  <1>9. CASE \E r \in Reqs : \/ \E u \in Users : Login(r, u)
                             \/ \E t \in Tokens : UserBySessionHash(r, t)
                             \/ \E k \in Tokens, pc \in {"password", "review", "revoke"} : Manage(r, pc, k)
    <2> PICK r \in Reqs : \/ \E u \in Users : Login(r, u)
                          \/ \E t \in Tokens : UserBySessionHash(r, t)
                          \/ \E t \in Tokens, pc \in {"password", "review", "revoke"} : Manage(r, pc, t)
      BY <1>9
    <2>1. UNCHANGED <<fresh, open, session>>
      BY DEF Login, UserBySessionHash, Manage, ReadOnly, Tables
    <2>2. /\ \A s \in Reqs : s # r => req'[s] = req[s]
          /\ \/ req[r].pc = "idle" /\ req'[r].pc \in {"login", "touch"}
             \/ /\ req[r].pc = "serve" /\ req'[r].pc \in {"password", "review", "revoke"}
                /\ req'[r].user = req[r].user
      <3>1. ASSUME NEW u \in Users, Login(r, u)
            PROVE  /\ req[r].pc = "idle" /\ req'[r].pc = "login"
                   /\ \A s \in Reqs : s # r => req'[s] = req[s]
        BY <1>t, <3>1, IdleOK DEF Login, At, TypeOK, ReqRecord
      <3>2. ASSUME NEW t \in Tokens, UserBySessionHash(r, t)
            PROVE  /\ req[r].pc = "idle" /\ req'[r].pc = "touch"
                   /\ \A s \in Reqs : s # r => req'[s] = req[s]
        <4> PICK c \in Clock : req' = [req EXCEPT ![r] = [IdleReq EXCEPT !.pc = "touch",
                                   !.user = session[t].user, !.token = t, !.at = c]]
          BY <3>2 DEF UserBySessionHash
        <4> QED BY <1>t, <3>2, IdleOK DEF UserBySessionHash, At, TypeOK, ReqRecord
      <3>3. ASSUME NEW t \in Tokens, NEW pc \in {"password", "review", "revoke"}, Manage(r, pc, t)
            PROVE  /\ req[r].pc = "serve" /\ req'[r].pc = pc /\ req'[r].user = req[r].user
                   /\ \A s \in Reqs : s # r => req'[s] = req[s]
        BY <1>t, <3>3, ReqTypes DEF Manage, At, TypeOK, ReqRecord
      <3> QED BY <3>1, <3>2, <3>3
    <2>3. serving' = serving
      BY <2>2 DEF serving, LetIn
    <2> QED BY <1>4, <1>5, <2>1, <2>3
  <1>10. CASE \E r \in Reqs : TouchSession(r)
    <2> PICK r \in Reqs : TouchSession(r)
      BY <1>10
    <2>1. /\ UNCHANGED <<fresh, open>>
          /\ \A t \in Tokens : session'[t].user = session[t].user
      BY <1>t, Touched DEF TouchSession
    <2>2. /\ \A s \in Reqs : s # r => req'[s] = req[s]
          /\ req[r].pc = "touch" /\ req'[r].pc \in {"idle", "state"}
      BY <1>t, ReqTypes DEF TouchSession, Goto, Done, At, TypeOK, ReqRecord, IdleReq
    <2>3. serving' = serving
      BY <2>2 DEF serving, LetIn
    <2> QED BY <1>4, <1>5, <2>1, <2>3
  <1>11. CASE \E r \in Reqs : SecurityState(r)
    <2> PICK r \in Reqs : SecurityState(r)
      BY <1>11
    <2>1. UNCHANGED <<fresh, open, session>>
      BY DEF SecurityState, ReadOnly, Tables
    <2>2. CASE req[r].token \in open
      <3> PICK t \in Tokens : t = req[r].token
        BY <1>t, ReqTypes DEF ReqRecord
      <3>1. /\ \A s \in Reqs : s # r => req'[s] = req[s]
            /\ req[r].pc = "state" /\ req'[r].pc = "serve" /\ req'[r].user = req[r].user
        BY <1>t, <2>2, ReqTypes DEF SecurityState, Goto, At, TypeOK, ReqRecord
      <3>2. req[r].user = session[t].user /\ t \notin fresh
        BY <1>t, <3>1 DEF ReqInv, ReqOK
      <3>3. serving[r] = None /\ phase[t] = "open" /\ account[t] = req[r].user
        BY <2>2, <3>1, <3>2 DEF serving, phase, account, LetIn
      <3>4. serving' = [serving EXCEPT ![r] = account[t]]
        BY <3>1, <3>3 DEF serving, LetIn
      <3>5. phase' = phase /\ account' = account
        BY <1>5, <2>1
      <3>6. Life!LetIn(r, t)
        BY <3>3, <3>4, <3>5 DEF Life!LetIn, serving, phase, account
      <3> QED BY <3>6 DEF Life!Next
    <2>3. CASE req[r].token \notin open
      BY <1>3, <2>1, <2>3 DEF SecurityState
    <2> QED BY <2>2, <2>3
  <1>12. CASE \E r \in Reqs : Handler(r) \/ SecuritySessions(r) \/ Abort(r) \/ ChangePassword(r)
    BY <1>3, <1>12 DEF Handler, SecuritySessions, Abort, ChangePassword, ReadOnly, Tables
  <1>13. CASE \E r \in Reqs : DeleteUser(r) \/ RevokeSecuritySession(r)
    <2> PICK r \in Reqs : DeleteUser(r) \/ RevokeSecuritySession(r)
      BY <1>13
    <2>1. serving' = [serving EXCEPT ![r] = None]
      BY <1>t, Ended DEF serving, DeleteUser, RevokeSecuritySession
    <2> QED BY <1>2, <2>1 DEF DeleteUser, RevokeSecuritySession, Gone
  <1>14. CASE \E r \in Reqs : ReviewNewSessions(r)
    <2> PICK r \in Reqs : ReviewNewSessions(r)
      BY <1>14
    <2>1. UNCHANGED <<fresh, open>> /\ \A t \in Tokens : session'[t].user = session[t].user
      BY <1>t DEF TypeOK, ReviewNewSessions, Session
    <2>2. /\ \A s \in Reqs : s # r => req'[s] = req[s]
          /\ req[r].pc = "review" /\ req'[r].pc = "list" /\ req'[r].user = req[r].user
      BY <1>t, ReqTypes DEF ReviewNewSessions, Goto, At, TypeOK, ReqRecord
    <2>3. serving' = serving
      BY <2>2 DEF serving, LetIn
    <2> QED BY <1>4, <1>5, <2>1, <2>3
  <1>15. CASE (\E t \in Tokens : RevokeSession(t)) \/ DeleteExpiredSessions \/ DeleteInactiveUsers
    BY <1>2, <1>6, <1>15 DEF RevokeSession, DeleteExpiredSessions, DeleteInactiveUsers, Gone
  <1>16. CASE Cleanup \/ Tick \/ (\E t \in Tokens : Unauthorized(t)) \/ UNCHANGED vars
    BY <1>4, <1>5, <1>6, <1>16 DEF Cleanup, Tick, Unauthorized, vars, Tables
  <1> QED BY <1>7, <1>8, <1>9, <1>10, <1>11, <1>12, <1>13, <1>14, <1>15, <1>16, IdleOK
          DEF Next, Authenticate, Serve

\* The code implements SessionLife: a token is handed out once, and after
\* logout, revocation, expiry or the end of the account it is never let in or
\* brought back, whatever requests are in flight.
THEOREM Implements == Spec => LifeSpec
  <1>1. Init => Life!Init
    BY DEF Init, Life!Init, LetIn, IdleReq
  <1>2. IInv /\ IInv' /\ [Next]_vars => [Life!Next]_(Life!life)
    BY LifeStep DEF IInv
  <1> QED BY <1>1, <1>2, Inductive, PTL DEF Spec, LifeSpec, Life!Spec
=============================================================================
