------------------------------ MODULE Sessions ------------------------------
(***************************************************************************)
(* Accounts and their sessions (app/users, store/users, the authenticate   *)
(* middleware): register, login, the three store calls that authenticate a *)
(* request, logout, password change, the list of sessions and their        *)
(* review, revocation, deletion of accounts, and the periodic cleanup.     *)
(*                                                                         *)
(* Every store call is one step; a request keeps the time it read first.   *)
(* A token and its hash are the same value.  abuseGuard authenticates once *)
(* more before the middleware does, as another request would.              *)
(***************************************************************************)
EXTENDS Integers

CONSTANTS
    Users, Tokens,  \* identifiers of accounts and sessions, handed out once
    Reqs,           \* requests in flight at the same time
    SessionTTL,     \* SESSION_TTL
    IdleTTL,        \* SESSION_IDLE_TTL
    ManageAge,      \* age of a session that may manage the account: 24 hours
    InactiveTTL,    \* unused accounts are deleted after 7 days
    Workloads,      \* bounds: sets of operations; a behaviour uses one of them
    MaxPasswords,   \* bound: passwords of an account
    Lag,            \* bound: ticks a request or a cleanup pass may take
    MaxTime,        \* bound on the clock
    None

Times == 0 .. MaxTime

ASSUME SessionsAssumption ==
    /\ Users # {} /\ Tokens # {} /\ Users \cap Tokens = {} /\ None \notin Users \cup Tokens
    /\ SessionTTL \in Nat \ {0} /\ IdleTTL \in 1 .. SessionTTL
    /\ ManageAge \in Nat /\ InactiveTTL \in Nat
    /\ Workloads \subseteq SUBSET STRING
    /\ MaxPasswords \in Nat \ {0} /\ Lag \in Nat /\ MaxTime \in Nat

VARIABLES
    now,            \* the clock
    ops,            \* the operations this behaviour uses (rigid)
    fresh,          \* identifiers that were not handed out yet
    users,          \* rows of users
    lastSeen,       \* users.last_seen_at
    password,       \* users.password_hash: the how manieth password
    open,           \* rows of sessions
    session,        \* their columns
    req,            \* requests in flight
    cleaner,        \* the periodic pass
    used            \* history: the latest time a token was accepted at

vars == <<now, ops, fresh, users, lastSeen, password, open, session, req, cleaner, used>>

ReqPC == {"idle", "login", "touch", "state", "serve", "password", "revoke", "review", "list"}

Session    == [user : Users, created : Times, seen : Times, expires : Nat, reviewed : BOOLEAN]
AnyUser    == CHOOSE u \in Users : TRUE
AnyToken   == CHOOSE t \in Tokens : TRUE
NoSession  == [user |-> AnyUser, created |-> 0, seen |-> 0, expires |-> 0, reviewed |-> FALSE]
ReqRecord  == [pc : ReqPC, user : Users, token : Tokens, at : Times, target : Tokens]
IdleReq    == [pc |-> "idle", user |-> AnyUser, token |-> AnyToken, at |-> 0, target |-> AnyToken]

\* Requests that got past Authenticate.
LetIn(q) == q.pc \in {"serve", "password", "revoke", "review", "list"}

\* Types; a session belongs to an account that exists.
TypeOK ==
    /\ now \in Times /\ ops \in Workloads
    /\ fresh \subseteq Users \cup Tokens
    /\ users \subseteq Users /\ users \cap fresh = {}
    /\ lastSeen \in [Users -> Times]
    /\ password \in [Users -> 0 .. MaxPasswords]
    /\ open \subseteq Tokens /\ open \cap fresh = {}
    /\ session \in [Tokens -> Session]
    /\ \A t \in open : session[t].user \in users
    /\ req \in [Reqs -> ReqRecord]
    /\ cleaner \in [pc : {"idle", "sessions", "users"}, at : Times]
    /\ used \in [Tokens -> Times]

Init ==
    /\ now = 0 /\ ops \in Workloads
    /\ fresh = Users \cup Tokens
    /\ users = {}
    /\ lastSeen = [u \in Users |-> 0]
    /\ password = [u \in Users |-> 0]
    /\ open = {}
    /\ session = [t \in Tokens |-> NoSession]
    /\ req = [r \in Reqs |-> IdleReq]
    /\ cleaner = [pc |-> "idle", at |-> 0]
    /\ used = [t \in Tokens |-> 0]

At(r, pc)   == req[r].pc = pc
Done(r)     == req' = [req EXCEPT ![r] = IdleReq]
Goto(r, pc) == req' = [req EXCEPT ![r].pc = pc]
Tables      == <<fresh, users, lastSeen, password, open, session>>
ReadOnly    == UNCHANGED <<now, ops, Tables, cleaner, used>>

-----------------------------------------------------------------------------
(* Register and login.                                                     *)

\* What the clock may have said when it was read for the store call of now.
Clock == {c \in Times : now - Lag <= c /\ c <= now}

\* A session as it is inserted; the one of Register counts as reviewed.
NewSession(u, c, reviewed) == [user |-> u, created |-> c, seen |-> c,
                               expires |-> c + SessionTTL, reviewed |-> reviewed]

\* The row bears the clock that was read before the call.
InsertSession(t, u, c, reviewed) ==
    /\ t \in fresh \cap Tokens
    /\ open' = open \cup {t}
    /\ session' = [session EXCEPT ![t] = NewSession(u, c, reviewed)]
    /\ lastSeen' = [lastSeen EXCEPT ![u] = c]
    /\ used' = [used EXCEPT ![t] = c]

\* CreateUserWithSession, one transaction.
Register(u, t) ==
    /\ u \in fresh \cap Users
    /\ \E c \in Clock : InsertSession(t, u, c, TRUE)
    /\ users' = users \cup {u}
    /\ password' = [password EXCEPT ![u] = 1]
    /\ fresh' = fresh \ {u, t}
    /\ UNCHANGED <<now, ops, req, cleaner>>

\* UserByEmail and the comparison with the hash it returned; a wrong password
\* ends here.
Login(r, u) ==
    /\ At(r, "idle") /\ "login" \in ops /\ u \in users
    /\ req' = [req EXCEPT ![r] = [IdleReq EXCEPT !.pc = "login", !.user = u, !.at = now]]
    /\ ReadOnly

\* The clock is read once the password has been compared, which does not happen
\* again.
CreateSession(r, t) ==
    LET u == req[r].user IN
    /\ At(r, "login") /\ u \in users
    /\ \E c \in Clock : c >= req[r].at /\ InsertSession(t, u, c, FALSE)
    /\ fresh' = fresh \ {t}
    /\ Done(r)
    /\ UNCHANGED <<now, ops, users, password, cleaner>>

-----------------------------------------------------------------------------
(* Authenticate: look the session up, touch it, read the security state.   *)

\* UserBySessionHash: neither expired nor idle at time c.
ValidWithoutIdle(t, c) == t \in open /\ session[t].expires > c        \* mutant
Valid(t, c) == t \in open /\ session[t].expires > c /\ session[t].seen > c - IdleTTL

UserBySessionHash(r, t) ==
    /\ At(r, "idle")
    /\ \E c \in Clock :
        /\ Valid(t, c)
        /\ req' = [req EXCEPT ![r] = [IdleReq EXCEPT !.pc = "touch", !.user = session[t].user,
                                                     !.token = t, !.at = c]]
    /\ ReadOnly

\* 401 for every other token.
Unauthorized(t) == (\E c \in Clock : ~Valid(t, c)) /\ UNCHANGED vars

\* Writes the time of the lookup, which may be earlier than what a faster
\* request wrote; a session that was deleted meanwhile is not touched.
TouchSessionUpsert(r) ==                                              \* mutant
    LET t == req[r].token
        q == req[r] IN
    /\ At(r, "touch")
    /\ open' = open \cup (IF q.user \in users THEN {t} ELSE {})
    /\ session' = [session EXCEPT ![t].seen = q.at]
    /\ lastSeen' = [lastSeen EXCEPT ![q.user] = q.at]
    /\ used' = [used EXCEPT ![t] = IF q.at > @ THEN q.at ELSE @]
    /\ Goto(r, "state")
    /\ UNCHANGED <<now, ops, fresh, users, password, cleaner>>
TouchSessionOnly(r) ==                                                \* mutant
    LET t == req[r].token
        q == req[r] IN
    /\ At(r, "touch") /\ t \in open
    /\ session' = [session EXCEPT ![t].seen = q.at]
    /\ used' = [used EXCEPT ![t] = IF q.at > @ THEN q.at ELSE @]
    /\ Goto(r, "state")
    /\ UNCHANGED <<now, ops, fresh, users, lastSeen, password, open, cleaner>>
TouchSession(r) ==
    LET t == req[r].token
        q == req[r] IN
    /\ At(r, "touch")
    /\ IF t \in open
       THEN /\ session' = [session EXCEPT ![t].seen = q.at]
            /\ lastSeen' = [lastSeen EXCEPT ![q.user] = q.at]
            /\ used' = [used EXCEPT ![t] = IF q.at > @ THEN q.at ELSE @]
            /\ Goto(r, "state")
       ELSE Done(r) /\ UNCHANGED <<session, lastSeen, used>>
    /\ UNCHANGED <<now, ops, fresh, users, password, open, cleaner>>

\* SecurityState of the caller's session: without its row there is no answer.
SecurityState(r) ==
    /\ At(r, "state")
    /\ IF req[r].token \in open THEN Goto(r, "serve") ELSE Done(r)
    /\ ReadOnly

\* A handler without a say in sessions: the rest of the API.
Handler(r) == At(r, "serve") /\ Done(r) /\ ReadOnly

-----------------------------------------------------------------------------
(* Managing the account, for sessions that are old enough.                 *)

\* SecurityState is read once more, and then the statement runs.
CanManageAny(r) == req[r].token \in open                              \* mutant
CanManage(r) == req[r].token \in open /\ now - session[req[r].token].created >= ManageAge

Manage(r, pc, t) ==
    /\ At(r, "serve") /\ pc \in ops /\ CanManage(r)
    /\ req' = [req EXCEPT ![r].pc = pc, ![r].target = t]
    /\ ReadOnly

\* Other sessions stay open.
ChangePassword(r) ==
    LET u == req[r].user IN
    /\ At(r, "password")
    /\ password' = [password EXCEPT ![u] = IF u \in users /\ @ < MaxPasswords THEN @ + 1 ELSE @]
    /\ Done(r)
    /\ UNCHANGED <<now, ops, fresh, users, lastSeen, open, session, cleaner, used>>

RevokeSecuritySession(r) ==
    LET t == req[r].target IN
    /\ At(r, "revoke")
    /\ open' = {s \in open : ~(s = t /\ session[s].user = req[r].user)}
    /\ Done(r)
    /\ UNCHANGED <<now, ops, fresh, users, lastSeen, password, session, cleaner, used>>

\* Sessions younger than the caller's; none when the caller's row is gone.
Younger(t) == {s \in open : /\ t \in open
                            /\ session[s].user = session[t].user
                            /\ session[s].created > session[t].created}

ReviewNewSessions(r) ==
    /\ At(r, "review")
    /\ session' = [t \in Tokens |-> IF t \in Younger(req[r].token)
                                    THEN [session[t] EXCEPT !.reviewed = TRUE] ELSE session[t]]
    /\ Goto(r, "list")
    /\ UNCHANGED <<now, ops, fresh, users, lastSeen, password, open, cleaner, used>>

\* SecuritySessions answers with the rows that are valid at this moment.
SecuritySessions(r) == At(r, "list") /\ Done(r) /\ ReadOnly

-----------------------------------------------------------------------------
(* Logout needs no authentication; the rows of a deleted account cascade.  *)

RevokeSession(t) ==
    /\ "logout" \in ops /\ t \in open
    /\ open' = open \ {t}
    /\ UNCHANGED <<now, ops, fresh, users, lastSeen, password, session, req, cleaner, used>>

GoneKeepingSessions(U) == users' = users \ U /\ UNCHANGED open         \* mutant
Gone(U) ==
    /\ users' = users \ U
    /\ open' = {t \in open : session[t].user \notin U}

DeleteUser(r) ==
    /\ At(r, "serve") /\ "account" \in ops
    /\ Gone({req[r].user})
    /\ Done(r)
    /\ UNCHANGED <<now, ops, fresh, lastSeen, password, session, cleaner, used>>

\* A database error, a client that goes away or a crash between two steps.
Abort(r) == ~At(r, "idle") /\ Done(r) /\ ReadOnly

-----------------------------------------------------------------------------
(* The part of the periodic cleanup that is about accounts.                *)

Cleanup ==
    /\ cleaner.pc = "idle" /\ "cleanup" \in ops
    /\ cleaner' = [pc |-> "sessions", at |-> now]
    /\ UNCHANGED <<now, ops, Tables, req, used>>

DeleteExpiredSessionsByUse ==                                         \* mutant
    /\ cleaner.pc = "sessions"
    /\ open' = {t \in open : session[t].seen + SessionTTL > cleaner.at}
    /\ cleaner' = [cleaner EXCEPT !.pc = "users"]
    /\ UNCHANGED <<now, ops, fresh, users, lastSeen, password, session, req, used>>
DeleteExpiredSessions ==
    /\ cleaner.pc = "sessions"
    /\ open' = {t \in open : session[t].expires > cleaner.at}
    /\ cleaner' = [cleaner EXCEPT !.pc = "users"]
    /\ UNCHANGED <<now, ops, fresh, users, lastSeen, password, session, req, used>>

InactiveBefore(t) == {u \in users : lastSeen[u] < t - InactiveTTL}

DeleteInactiveUsers ==
    /\ cleaner.pc = "users"
    /\ Gone(InactiveBefore(cleaner.at))
    /\ cleaner' = [pc |-> "idle", at |-> 0]
    /\ UNCHANGED <<now, ops, fresh, lastSeen, password, session, req, used>>

Tick ==
    /\ now < MaxTime
    /\ \A r \in Reqs : ~At(r, "idle") => now < req[r].at + Lag
    /\ cleaner.pc # "idle" => now < cleaner.at + Lag
    /\ now' = now + 1
    /\ UNCHANGED <<ops, Tables, req, cleaner, used>>

Authenticate(r) ==
    \/ \E t \in Tokens : UserBySessionHash(r, t)
    \/ TouchSession(r) \/ SecurityState(r)

Serve(r) ==
    \/ Handler(r) \/ DeleteUser(r)
    \/ Manage(r, "password", AnyToken) \/ Manage(r, "review", AnyToken)
    \/ \E t \in Tokens : Manage(r, "revoke", t)
    \/ ChangePassword(r) \/ RevokeSecuritySession(r)
    \/ ReviewNewSessions(r) \/ SecuritySessions(r)

Next ==
    \/ \E u \in Users, t \in Tokens : Register(u, t)
    \/ \E r \in Reqs : \/ \E u \in Users : Login(r, u)
                       \/ \E t \in Tokens : CreateSession(r, t)
                       \/ Authenticate(r) \/ Serve(r) \/ Abort(r)
    \/ \E t \in Tokens : RevokeSession(t) \/ Unauthorized(t)
    \/ Cleanup \/ DeleteExpiredSessions \/ DeleteInactiveUsers
    \/ Tick

Spec == Init /\ [][Next]_vars

\* Passes start again and again and run to their end.
FairSpec ==
    Spec /\ WF_vars(Cleanup) /\ WF_vars(DeleteExpiredSessions) /\ WF_vars(DeleteInactiveUsers)

-----------------------------------------------------------------------------
(* Properties.                                                             *)

\* Sessions are SessionLife: a token is open while it has a row.
Life == INSTANCE SessionLife WITH
            phase   <- [t \in Tokens |-> IF t \in fresh THEN "new"
                                         ELSE IF t \in open THEN "open" ELSE "closed"],
            account <- [t \in Tokens |-> IF t \in open THEN session[t].user ELSE None],
            serving <- [r \in Reqs |-> IF LetIn(req[r]) THEN req[r].user ELSE None]

\* A revoked, expired or cascaded session never serves a request again, and no
\* touch, however late, brings it back: the code implements SessionLife.
LifeSpec == Life!Spec

\* What may be true when a request is accepted.
AcceptStep ==
    \A r \in Reqs : At(r, "touch") /\ req'[r].pc = "state" =>
        LET t == req[r].token IN
        /\ req[r].at < session[t].created + SessionTTL
        /\ req[r].at < used[t] + IdleTTL

\* SESSION_TTL and SESSION_IDLE_TTL: a request is accepted only within
\* SessionTTL of the login and within IdleTTL of a request that was accepted
\* before, although touches arrive late and out of order.
TTLsHold == [][AcceptStep]_vars

\* The session a request manages with has been open for ManageAge.
OldEnough(r) == session[req[r].token].created + ManageAge <= now

\* What one step may do to the account and its other sessions.
ManageStep ==
    /\ \A u \in Users : password[u] # 0 /\ password'[u] # password[u] =>
          \E r \in Reqs : At(r, "password") /\ req[r].user = u /\ OldEnough(r)
    /\ \A t \in open : session'[t].reviewed /\ ~session[t].reviewed =>
          \E r \in Reqs : /\ At(r, "review") /\ OldEnough(r)
                          /\ session[req[r].token].user = session[t].user
                          /\ session[req[r].token].created < session[t].created
    /\ \A r \in Reqs : At(r, "revoke") /\ open' # open /\ req'[r].pc = "idle" =>
          OldEnough(r) /\ \A t \in open \ open' : session[t].user = req[r].user

\* Password and sessions are managed only ManageAge after the login: a session
\* that has just logged in neither changes the password, nor ends the sessions
\* that could notice it, nor marks itself as reviewed.
OnlyOldSessionsManage == [][ManageStep]_vars

\* What one step may do to an account.
AccountStep ==
    \A u \in users \ users' :
        \/ \E r \in Reqs : At(r, "serve") /\ req[r].user = u
        \/ \A t \in open : session[t].user = u => used[t] < now - InactiveTTL + Lag

\* DeleteInactiveUsers takes only accounts none of whose sessions was used for
\* InactiveTTL, up to the time a request may take; otherwise an account goes when
\* its owner deletes it.
UsedAccountsStay == [][AccountStep]_vars

\* Rows of expired sessions do not stay, however long the token is used.
ExpiredSessionsGo ==
    \A t \in Tokens :
        ("cleanup" \in ops /\ t \in open /\ session[t].expires <= now) ~> t \notin open
=============================================================================
