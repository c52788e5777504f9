------------------------------- MODULE Rooms -------------------------------
(***************************************************************************)
(* Temporary voice rooms: the rooms and room_members tables, the service   *)
(* operations of app/rooms.go and app/users.go that change them, the two   *)
(* cleanup loops of app/cleanup.go, and the LiveKit server they steer.     *)
(*                                                                         *)
(* SQLite is opened with one connection, so a store call (a statement or a *)
(* transaction) is one step and everything else interleaves between store  *)
(* calls.  DeleteRoom calls LiveKit while its transaction is open: it owns *)
(* the connection (variable tx) and every other store call waits.          *)
(* Time is counted in abstract ticks of the clock the code truncates to    *)
(* seconds.                                                                *)
(***************************************************************************)
EXTENDS Integers, FiniteSets

CONSTANTS
    Users,          \* accounts, all registered at time 0
    Codes,          \* room codes; a 130-bit random code is drawn only once
    Reqs,           \* HTTP requests in flight at the same time
    Ops,            \* operations requests ask for: a subset of AllOps
    Clients,        \* users who use the LiveKit tokens they are given
    Cleaners,       \* cleanup loops running: a subset of {"regular", "emergency"}
    MaxMembers,     \* MAX_ROOM_PARTICIPANTS
    RoomTTL,        \* ROOM_TTL
    TokenTTL,       \* LIVEKIT_TOKEN_TTL
    EmptyGrace,     \* the regular loop's two minutes
    InactiveTTL,    \* seven days without a request
    Lag,            \* bound: a request ends at most Lag ticks after it read the clock
    MaxTime,        \* bound on the clock
    MaxRestarts     \* bound on crashes

AllOps == {"create", "join", "leave", "delete", "ban", "account"}

\* RoomTTL <= InactiveTTL is what the shipped configuration has (12h, 168h);
\* config.go does not enforce it.  MAX_ROOM_PARTICIPANTS < 1 is refused there.
ASSUME RoomsAssumption ==
    /\ IsFiniteSet(Users) /\ Users # {} /\ Codes # {}
    /\ Clients \subseteq Users
    /\ Ops \subseteq AllOps
    /\ Cleaners \subseteq {"regular", "emergency"}
    /\ MaxMembers \in Nat \ {0}
    /\ RoomTTL \in Nat /\ TokenTTL \in Nat /\ EmptyGrace \in Nat
    /\ InactiveTTL \in Nat /\ RoomTTL <= InactiveTTL
    /\ Lag \in Nat /\ MaxTime \in Nat /\ MaxRestarts \in Nat

NoMark == -1                    \* empty_since_at IS NULL

VARIABLES
    now,            \* the clock
    users,          \* rows of users
    lastSeen,       \* users.last_seen_at
    rooms,          \* codes with a row in rooms
    issued,         \* codes ever drawn by roomCode
    owner,          \* rooms.owner_id
    expires,        \* rooms.expires_at
    emptySince,     \* rooms.empty_since_at
    members,        \* room_members by code
    tokens,         \* expiry of the last LiveKit token given to a user for a code
    connected,      \* LiveKit participants by room (external)
    req,            \* requests in flight
    pass,           \* cleanup passes in progress
    tx,             \* the request, if any, whose transaction is open across a LiveKit call
    restarts

dbVars   == <<users, lastSeen, rooms, issued, owner, expires, emptySince, members>>
lkVars   == <<tokens, connected>>
vars     == <<now, dbVars, lkVars, req, pass, tx, restarts>>

ReqPC  == {"idle", "create", "join", "getRoom", "mint", "leave", "evict",
           "delete", "terminate", "commit", "ban", "account", "terminateOwned"}
PassPC == {"idle", "listEmpty", "empty", "deleteEmpty", "expired", "deleteExpired"}

ReqRecord  == [pc : ReqPC, user : Users, code : Codes, at : Nat, todo : SUBSET Codes]
PassRecord == [pc : PassPC, at : Nat, todo : SUBSET Codes, code : Codes]

DataTypes ==
    /\ now \in Nat /\ restarts \in Nat
    /\ users \subseteq Users
    /\ lastSeen \in [Users -> Nat]
    /\ rooms \subseteq issued
    /\ issued \subseteq Codes
    /\ owner \in [Codes -> Users]
    /\ expires \in [Codes -> Nat]
    /\ emptySince \in [Codes -> Nat \cup {NoMark}]
    /\ members \in [Codes -> SUBSET Users]
    /\ tokens \in [Codes -> [Clients -> Nat]]
    /\ connected \in [Codes -> SUBSET Users]

ProcTypes ==
    /\ req \in [Reqs -> ReqRecord]
    /\ pass \in [Cleaners -> PassRecord]

\* The connection is held exactly while a DeleteRoom is between the start and
\* the end of its transaction.
LockHeld == tx = {r \in Reqs : req[r].pc \in {"terminate", "commit"}}

\* Types, and who holds the connection.
TypeOK == DataTypes /\ ProcTypes /\ LockHeld

SomeUser == CHOOSE u \in Users : TRUE
SomeCode == CHOOSE c \in Codes : TRUE
IdleReq  == [pc |-> "idle", user |-> SomeUser, code |-> SomeCode, at |-> 0, todo |-> {}]
IdlePass == [pc |-> "idle", at |-> 0, todo |-> {}, code |-> SomeCode]

Init ==
    /\ now = 0
    /\ users = Users
    /\ lastSeen = [u \in Users |-> 0]
    /\ rooms = {} /\ issued = {}
    /\ owner = [c \in Codes |-> SomeUser]
    /\ expires = [c \in Codes |-> 0]
    /\ emptySince = [c \in Codes |-> NoMark]
    /\ members = [c \in Codes |-> {}]
    /\ tokens = [c \in Codes |-> [u \in Clients |-> 0]]
    /\ connected = [c \in Codes |-> {}]
    /\ req = [r \in Reqs |-> IdleReq]
    /\ pass = [k \in Cleaners |-> IdlePass]
    /\ tx = {}
    /\ restarts = 0

-----------------------------------------------------------------------------
(* What the store's statements do.                                         *)

\* The one database connection is not held by an open transaction.
DbFree == tx = {}

\* WHERE code = ? AND expires_at > ?
Live(c, at) == c \in rooms /\ expires[c] > at

\* WHERE empty_since_at IS NOT NULL AND empty_since_at <= ?
EmptySinceBy(c, cutoff) == c \in rooms /\ emptySince[c] # NoMark /\ emptySince[c] <= cutoff

\* UPDATE rooms SET empty_since_at = NULL
OccupyForgotten(c) == UNCHANGED emptySince                            \* mutant
Occupy(c) == emptySince' = [emptySince EXCEPT ![c] = NoMark]

\* DeleteEmptyRoom's WHERE clause repeats the one the list was made with.
StillEmptyUnchecked(c, cutoff) == c \in rooms                         \* mutant
StillEmpty(c, cutoff) == EmptySinceBy(c, cutoff)

\* The deferred tx.Rollback of a request that ends early.
RollbackForgotten(r) == UNCHANGED tx                                  \* mutant
Rollback(r) == tx' = tx \ {r}

\* DELETE FROM rooms; room_members follow ON DELETE CASCADE.
DropRooms(C) ==
    /\ rooms' = rooms \ C
    /\ members' = [c \in Codes |-> IF c \in C THEN {} ELSE members[c]]
    /\ emptySince' = [c \in Codes |-> IF c \in C THEN NoMark ELSE emptySince[c]]

\* DELETE FROM users; owned rooms and memberships follow ON DELETE CASCADE.
\* The cascade does not touch empty_since_at of the rooms that lose a member.
DropUsers(D) ==
    /\ users' = users \ D
    /\ rooms' = {c \in rooms : owner[c] \notin D}
    /\ members' = [c \in Codes |-> IF c \in rooms /\ owner[c] \in D THEN {} ELSE members[c] \ D]
    /\ emptySince' = [c \in Codes |-> IF c \in rooms /\ owner[c] \in D THEN NoMark ELSE emptySince[c]]

Goto(r, pc) == req' = [req EXCEPT ![r].pc = pc]
Done(r)     == req' = [req EXCEPT ![r] = IdleReq]

-----------------------------------------------------------------------------
(* Requests.  Authenticate has touched the user's row and the handler has  *)
(* read the clock: both within the tick in which the request starts.       *)

Start(r, u, op, c) ==
    /\ DbFree
    /\ req[r].pc = "idle"
    /\ u \in users
    /\ req' = [req EXCEPT ![r] = [pc |-> op, user |-> u, code |-> c, at |-> now, todo |-> {}]]
    /\ lastSeen' = [lastSeen EXCEPT ![u] = now]
    /\ UNCHANGED <<now, users, rooms, issued, owner, expires, emptySince, members,
                   lkVars, pass, tx, restarts>>

\* InsertRoom: the row and the owner's membership in one transaction.  A code
\* that exists is a conflict and is drawn again; an owner whose row is gone
\* violates the foreign key, which the retry loop also reports as a conflict.
InsertRoom(r) ==
    /\ DbFree
    /\ req[r].pc = "create"
    /\ Done(r)
    /\ \/ \E c \in Codes \ issued :
            /\ req[r].user \in users
            /\ rooms' = rooms \cup {c}
            /\ issued' = issued \cup {c}
            /\ owner' = [owner EXCEPT ![c] = req[r].user]
            /\ expires' = [expires EXCEPT ![c] = req[r].at + RoomTTL]
            /\ emptySince' = [emptySince EXCEPT ![c] = NoMark]
            /\ members' = [members EXCEPT ![c] = {req[r].user}]
            /\ UNCHANGED <<now, users, lastSeen, lkVars, pass, tx, restarts>>
       \/ /\ req[r].user \notin users \/ issued = Codes
          /\ UNCHANGED <<now, dbVars, lkVars, pass, tx, restarts>>

\* What JoinRoom's transaction checks: the room is live, and a newcomer finds
\* a free place and still has an account (foreign key of room_members).
CanJoinOffByOne(u, c, at) ==                                          \* mutant
    Live(c, at) /\ (u \in members[c] \/ (Cardinality(members[c]) <= MaxMembers /\ u \in users))
CanJoinNoForeignKey(u, c, at) ==                                      \* mutant
    Live(c, at) /\ (u \in members[c] \/ Cardinality(members[c]) < MaxMembers)
CanJoin(u, c, at) ==
    /\ Live(c, at)
    /\ u \in members[c] \/ (Cardinality(members[c]) < MaxMembers /\ u \in users)

JoinTx(r) ==
    LET u == req[r].user
        c == req[r].code IN
    /\ DbFree
    /\ req[r].pc = "join"
    /\ \/ /\ CanJoin(u, c, req[r].at)
          /\ members' = [members EXCEPT ![c] = @ \cup {u}]
          /\ Occupy(c)
          /\ Goto(r, "getRoom")
       \/ /\ ~CanJoin(u, c, req[r].at)      \* notFound, roomFull or conflict
          /\ Done(r)
          /\ UNCHANGED <<members, emptySince>>
    /\ UNCHANGED <<now, users, lastSeen, rooms, issued, owner, expires, lkVars, pass, tx, restarts>>

\* JoinRoom reads the room back outside the transaction: it may be gone, or
\* the user may have left it, by then.
GetRoom(r) ==
    /\ DbFree
    /\ req[r].pc = "getRoom"
    /\ IF Live(req[r].code, req[r].at) /\ req[r].user \in members[req[r].code]
       THEN Goto(r, "mint") ELSE Done(r)
    /\ UNCHANGED <<now, dbVars, lkVars, pass, tx, restarts>>

\* minDuration(tokenTTL, what the room has left)
MinTTLIgnoresRoom(a, b) == a                                          \* mutant
MinTTL(a, b) == IF a < b THEN a ELSE b

\* The token's lifetime is measured from the clock reading at the start of the
\* request but counts from the moment it is signed.
JoinToken(r) ==
    LET c   == req[r].code
        ttl == MinTTL(TokenTTL, expires[c] - req[r].at) IN
    /\ req[r].pc = "mint"
    /\ tokens' = [tokens EXCEPT ![c] = [u \in Clients |-> IF u = req[r].user THEN now + ttl ELSE @[u]]]
    /\ Done(r)
    /\ UNCHANGED <<now, dbVars, connected, pass, tx, restarts>>

\* Store.LeaveRoom: the marker is set whenever the room ends up without
\* members, also when the caller was not one of them.
LeaveTx(r) ==
    LET u == req[r].user
        c == req[r].code IN
    /\ DbFree
    /\ req[r].pc = "leave"
    /\ \/ /\ Live(c, req[r].at)
          /\ members' = [members EXCEPT ![c] = @ \ {u}]
          /\ emptySince' = IF members[c] \subseteq {u}
                           THEN [emptySince EXCEPT ![c] = req[r].at] ELSE emptySince
          /\ req' = [req EXCEPT ![r].pc = "evict", ![r].todo = {c}]
       \/ /\ ~Live(c, req[r].at)
          /\ Done(r)
          /\ UNCHANGED <<members, emptySince>>
    /\ UNCHANGED <<now, users, lastSeen, rooms, issued, owner, expires, lkVars, pass, tx, restarts>>

\* Store.CleanupBannedUser: every membership of the user in one transaction.
BanTx(r) ==
    LET u      == req[r].user
        joined == {c \in Codes : u \in members[c]} IN
    /\ DbFree
    /\ req[r].pc = "ban"
    /\ members' = [c \in Codes |-> members[c] \ {u}]
    /\ emptySince' = [c \in Codes |-> IF c \in joined /\ members[c] = {u}
                                      THEN req[r].at ELSE emptySince[c]]
    /\ req' = [req EXCEPT ![r].pc = "evict", ![r].todo = joined]
    /\ UNCHANGED <<now, users, lastSeen, rooms, issued, owner, expires, lkVars, pass, tx, restarts>>

\* voice.RemoveParticipant for the rooms left.  After a failure LeaveRoom logs
\* and CleanupBannedUser skips the rest: both end the request (Abort).
Evict(r) ==
    /\ req[r].pc = "evict"
    /\ \/ \E c \in req[r].todo :
            /\ connected' = [connected EXCEPT ![c] = @ \ {req[r].user}]
            /\ req' = [req EXCEPT ![r].todo = @ \ {c}]
       \/ /\ req[r].todo = {}
          /\ Done(r)
          /\ UNCHANGED connected
    /\ UNCHANGED <<now, dbVars, tokens, pass, tx, restarts>>

\* Store.DeleteRoom opens its transaction and checks owner and expiry ...
DeleteBegin(r) ==
    LET c == req[r].code IN
    /\ DbFree
    /\ req[r].pc = "delete"
    /\ \/ /\ Live(c, req[r].at) /\ owner[c] = req[r].user
          /\ Goto(r, "terminate")
          /\ tx' = {r}
       \/ /\ ~(Live(c, req[r].at) /\ owner[c] = req[r].user)   \* notFound, forbidden
          /\ Done(r)
          /\ UNCHANGED tx
    /\ UNCHANGED <<now, dbVars, lkVars, pass, restarts>>

\* ... calls LiveKit with the transaction open ...
DeleteTerminate(r) ==
    /\ req[r].pc = "terminate"
    /\ connected' = [connected EXCEPT ![req[r].code] = {}]
    /\ Goto(r, "commit")
    /\ UNCHANGED <<now, dbVars, tokens, pass, tx, restarts>>

\* ... and deletes the row.
DeleteCommit(r) ==
    /\ req[r].pc = "commit"
    /\ Done(r)
    /\ tx' = tx \ {r}
    /\ DropRooms({req[r].code})
    /\ UNCHANGED <<now, users, lastSeen, issued, owner, expires, lkVars, pass, restarts>>

\* DeleteUser: the owned codes are read first ...
OwnedRoomCodes(r) ==
    /\ DbFree
    /\ req[r].pc = "account"
    /\ req' = [req EXCEPT ![r].pc = "terminateOwned",
                          ![r].todo = {c \in rooms : owner[c] = req[r].user}]
    /\ UNCHANGED <<now, dbVars, lkVars, pass, tx, restarts>>

\* ... their LiveKit rooms terminated one by one ...
TerminateOwned(r) ==
    /\ req[r].pc = "terminateOwned"
    /\ \E c \in req[r].todo :
        /\ connected' = [connected EXCEPT ![c] = {}]
        /\ req' = [req EXCEPT ![r].todo = @ \ {c}]
    /\ UNCHANGED <<now, dbVars, tokens, pass, tx, restarts>>

\* ... and the user's row deleted with everything that refers to it.
DeleteUser(r) ==
    /\ DbFree
    /\ req[r].pc = "terminateOwned" /\ req[r].todo = {}
    /\ DropUsers({req[r].user})
    /\ Done(r)
    /\ UNCHANGED <<now, lastSeen, issued, owner, expires, lkVars, pass, tx, restarts>>

\* A LiveKit or SQLite error, or the client going away, ends the request where
\* it stands; an open transaction is rolled back, earlier steps are not undone.
Abort(r) ==
    /\ req[r].pc # "idle"
    /\ Done(r)
    /\ Rollback(r)
    /\ UNCHANGED <<now, dbVars, lkVars, pass, restarts>>

-----------------------------------------------------------------------------
(* Cleanup.  A pass reads the clock once.  RunCleanup's loop and the       *)
(* low-disk monitor's EmergencyCleanup are separate goroutines.            *)

Grace(k) == IF k = "emergency" THEN 0 ELSE EmptyGrace

PassBegin(k) ==
    /\ pass[k].pc = "idle"
    /\ pass' = [pass EXCEPT ![k].pc = "listEmpty", ![k].at = now]
    /\ UNCHANGED <<now, dbVars, lkVars, req, tx, restarts>>

ListEmpty(k) ==
    /\ DbFree
    /\ pass[k].pc = "listEmpty"
    /\ pass' = [pass EXCEPT ![k].pc = "empty",
                            ![k].todo = {c \in Codes : EmptySinceBy(c, pass[k].at - Grace(k))}]
    /\ UNCHANGED <<now, dbVars, lkVars, req, tx, restarts>>

\* voice.DeleteRoom of a listed code succeeds: its row is deleted next.
TerminateListed(k, from, to, c) ==
    /\ pass[k].pc = from
    /\ c \in pass[k].todo
    /\ connected' = [connected EXCEPT ![c] = {}]
    /\ pass' = [pass EXCEPT ![k].pc = to, ![k].code = c, ![k].todo = @ \ {c}]
    /\ UNCHANGED <<now, dbVars, tokens, req, tx, restarts>>

\* It fails or times out: the code is skipped until the next pass.
TerminateFails(k, from) ==
    /\ pass[k].pc = from
    /\ \E c \in pass[k].todo : pass' = [pass EXCEPT ![k].todo = @ \ {c}]
    /\ UNCHANGED <<now, dbVars, lkVars, req, tx, restarts>>

\* DeleteEmptyRoom looks at the marker again: a room joined since it was
\* listed keeps its row.
DeleteEmptyRoom(k) ==
    LET c == pass[k].code IN
    /\ DbFree
    /\ pass[k].pc = "deleteEmpty"
    /\ \/ StillEmpty(c, pass[k].at - Grace(k)) /\ DropRooms({c})
       \/ ~StillEmpty(c, pass[k].at - Grace(k)) /\ UNCHANGED <<rooms, members, emptySince>>
    /\ pass' = [pass EXCEPT ![k].pc = "empty"]
    /\ UNCHANGED <<now, users, lastSeen, issued, owner, expires, lkVars, req, tx, restarts>>

ListExpired(k) ==
    /\ DbFree
    /\ pass[k].pc = "empty" /\ pass[k].todo = {}
    /\ pass' = [pass EXCEPT ![k].pc = "expired",
                            ![k].todo = {c \in rooms : expires[c] <= pass[k].at}]
    /\ UNCHANGED <<now, dbVars, lkVars, req, tx, restarts>>

DeleteExpiredRoom(k) ==
    /\ DbFree
    /\ pass[k].pc = "deleteExpired"
    /\ DropRooms({c \in {pass[k].code} : expires[c] <= pass[k].at})
    /\ pass' = [pass EXCEPT ![k].pc = "expired"]
    /\ UNCHANGED <<now, users, lastSeen, issued, owner, expires, lkVars, req, tx, restarts>>

\* DeleteInactiveUsers (the emergency batch of 500 covers every user here).
DeleteInactiveUsers(k) ==
    /\ DbFree
    /\ pass[k].pc = "expired" /\ pass[k].todo = {}
    /\ DropUsers({u \in users : lastSeen[u] < pass[k].at - InactiveTTL})
    /\ pass' = [pass EXCEPT ![k] = IdlePass]
    /\ UNCHANGED <<now, lastSeen, issued, owner, expires, lkVars, req, tx, restarts>>

\* A store call fails and is logged: a list counts as empty, a deletion is left
\* to the next pass.
StoreFails(k) ==
    /\ \/ /\ pass[k].pc \in {"listEmpty", "deleteEmpty"}
          /\ pass' = [pass EXCEPT ![k].pc = "empty"]
       \/ /\ pass[k].pc = "deleteExpired" \/ (pass[k].pc = "empty" /\ pass[k].todo = {})
          /\ pass' = [pass EXCEPT ![k].pc = "expired"]
       \/ /\ pass[k].pc = "expired" /\ pass[k].todo = {}
          /\ pass' = [pass EXCEPT ![k] = IdlePass]
    /\ UNCHANGED <<now, dbVars, lkVars, req, tx, restarts>>

-----------------------------------------------------------------------------
(* The environment: LiveKit's clients, time, and crashes of the process.   *)

\* LiveKit checks the token when a client connects and creates the room then.
Connect(u, c) ==
    /\ tokens[c][u] > now
    /\ connected' = [connected EXCEPT ![c] = @ \cup {u}]
    /\ UNCHANGED <<now, dbVars, tokens, req, pass, tx, restarts>>

Disconnect(u, c) ==
    /\ u \in connected[c]
    /\ connected' = [connected EXCEPT ![c] = @ \ {u}]
    /\ UNCHANGED <<now, dbVars, tokens, req, pass, tx, restarts>>

Tick ==
    /\ now < MaxTime
    /\ \A r \in Reqs : req[r].pc # "idle" => now < req[r].at + Lag
    /\ now' = now + 1
    /\ UNCHANGED <<dbVars, lkVars, req, pass, tx, restarts>>

\* The open transaction rolls back; requests and passes are forgotten.
Restart ==
    /\ restarts < MaxRestarts
    /\ restarts' = restarts + 1
    /\ req' = [r \in Reqs |-> IdleReq]
    /\ pass' = [k \in Cleaners |-> IdlePass]
    /\ tx' = {}
    /\ UNCHANGED <<now, dbVars, lkVars>>

RequestStep(r) ==
    \/ \E u \in Users, op \in Ops, c \in Codes : Start(r, u, op, c)
    \/ InsertRoom(r)
    \/ JoinTx(r) \/ GetRoom(r) \/ JoinToken(r)
    \/ LeaveTx(r) \/ BanTx(r) \/ Evict(r)
    \/ DeleteBegin(r) \/ DeleteTerminate(r) \/ DeleteCommit(r)
    \/ OwnedRoomCodes(r) \/ TerminateOwned(r) \/ DeleteUser(r)
    \/ Abort(r)

PassStep(k) ==
    \/ PassBegin(k)
    \/ ListEmpty(k)
    \/ \E c \in Codes : TerminateListed(k, "empty", "deleteEmpty", c)
    \/ TerminateFails(k, "empty")
    \/ DeleteEmptyRoom(k)
    \/ ListExpired(k)
    \/ \E c \in Codes : TerminateListed(k, "expired", "deleteExpired", c)
    \/ TerminateFails(k, "expired")
    \/ DeleteExpiredRoom(k)
    \/ DeleteInactiveUsers(k)
    \/ StoreFails(k)

Next ==
    \/ \E r \in Reqs : RequestStep(r)
    \/ \E k \in Cleaners : PassStep(k)
    \/ \E u \in Clients, c \in Codes : Connect(u, c) \/ Disconnect(u, c)
    \/ Tick
    \/ Restart

Spec == Init /\ [][Next]_vars

\* Requests and loops do not stop halfway.  SF for store calls: database/sql
\* serves waiters for the one connection in order, while DbFree comes and goes.
\* SF for LiveKit: an outage ends, so a call repeated by every pass succeeds.
Fairness ==
    /\ \A r \in Reqs : WF_vars(DeleteTerminate(r)) /\ WF_vars(DeleteCommit(r))
    /\ \A k \in Cleaners :
        /\ WF_vars(PassBegin(k))
        /\ SF_vars(ListEmpty(k)) /\ SF_vars(DeleteEmptyRoom(k))
        /\ SF_vars(ListExpired(k)) /\ SF_vars(DeleteExpiredRoom(k))
        /\ SF_vars(DeleteInactiveUsers(k))
        /\ \A c \in Codes :
            /\ SF_vars(TerminateListed(k, "empty", "deleteEmpty", c))
            /\ SF_vars(TerminateListed(k, "expired", "deleteExpired", c))

FairSpec == Spec /\ Fairness

-----------------------------------------------------------------------------
(* Properties.                                                             *)

\* A room marked empty has no members.  JoinRoom, LeaveRoom, CleanupBannedUser
\* and the cascades of a deleted user must agree on it, because the cleanup
\* loops delete on the marker alone.
EmptyMarkerSound ==
    \A c \in rooms : emptySince[c] # NoMark => members[c] = {}

\* MAX_ROOM_PARTICIPANTS holds whatever joins run at the same time.
CapacityRespected ==
    \A c \in rooms : Cardinality(members[c]) <= MaxMembers

\* No room or membership outlives the account it refers to, although requests
\* of a deleted account may still be in flight.
NoDanglingAccount ==
    \A c \in rooms : owner[c] \in users /\ members[c] \subseteq users

\* A LiveKit token outlives its room by no more than the request that fetched
\* it took: JoinRoom shortens the token's lifetime to what the room has left.
TokenWithinRoom ==
    \A c \in Codes, u \in Clients : tokens[c][u] <= expires[c] + Lag

\* What one step may do to a room in use.
OccupiedStep ==
    \A c \in rooms \ rooms' :
        members[c] # {} /\ now < expires[c] =>
           \E r \in Reqs : /\ req[r].user = owner[c]
                           /\ req[r].pc \in {"commit", "terminateOwned"}

\* A room that has members and has not expired disappears only because its
\* owner deletes the room or the owner's account is deleted by DeleteUser:
\* neither cleanup loop, nor the deletion of inactive users, takes it away.
OccupiedRoomSurvives == [][OccupiedStep]_vars

\* What the expiry loop may leave behind of a room.
ExpiryStep ==
    \A c \in rooms \ rooms', k \in Cleaners :
        pass[k].pc = "deleteExpired" /\ pass'[k].pc = "expired" /\ expires[c] + Lag <= pass[k].at =>
           connected[c] = {}

\* When cleanup deletes the row of an expired room nobody is connected to the
\* room in LiveKit any more: terminated first, and no token lets one back in.
\* (From Lag after the expiry on: until then a request that was under way can
\* hand out a token that outlives the room.)
NoGhostAfterExpiry == [][ExpiryStep]_vars

\* Every expired room is eventually deleted, LiveKit outages and restarts
\* notwithstanding: a failed termination is retried by the next pass.
ExpiredRoomsGo ==
    \A c \in Codes : (c \in rooms /\ expires[c] <= now) ~> c \notin rooms
=============================================================================
