---------------------------- MODULE RoomsProofs ----------------------------
(***************************************************************************)
(* Theorems about temporary rooms for every number of users, rooms,        *)
(* concurrent requests and cleanup loops, and every value of the limits.   *)
(***************************************************************************)
EXTENDS Rooms, FiniteSetTheorems, TLAPS

-----------------------------------------------------------------------------
(* The inductive invariant.                                                *)

\* Clock readings lie in the past, a request ends within Lag of its reading,
\* and Authenticate has recorded the reading as the user's last activity.
ClocksInv ==
    /\ \A k \in Cleaners : pass[k].at <= now
    /\ \A r \in Reqs : req[r].pc # "idle" =>
          /\ req[r].at <= now /\ now <= req[r].at + Lag
          /\ req[r].at <= lastSeen[req[r].user]
    /\ \A u \in Users : lastSeen[u] <= now

\* A room expires no later than RoomTTL after its owner was last seen.
RoomAgeInv ==
    \A c \in rooms : expires[c] <= lastSeen[owner[c]] + RoomTTL

\* A request past its check of the room works on a code that was issued, with
\* the owner and the expiry it checked.
CheckedInv ==
    \A r \in Reqs :
      /\ req[r].pc = "mint" =>
            req[r].code \in issued /\ req[r].at <= expires[req[r].code]
      /\ req[r].pc \in {"terminate", "commit"} =>
            req[r].code \in issued /\ owner[req[r].code] = req[r].user

\* Nobody holds a token for a code that was never issued.
TokensInv ==
    \A c \in Codes \ issued, u \in Clients : tokens[c][u] = 0

IInv ==
    /\ TypeOK
    /\ EmptyMarkerSound
    /\ CapacityRespected
    /\ NoDanglingAccount
    /\ TokenWithinRoom
    /\ ClocksInv
    /\ RoomAgeInv
    /\ CheckedInv
    /\ TokensInv

-----------------------------------------------------------------------------
(* Facts about single steps.                                               *)

\* The constants used for idle records are of the right type.
LEMMA Idle ==
    /\ SomeUser \in Users /\ SomeCode \in Codes
    /\ IdleReq \in ReqRecord
    /\ IdlePass \in PassRecord
    /\ IdleReq.pc = "idle" /\ IdlePass.at = 0
<1>1. SomeUser \in Users /\ SomeCode \in Codes
  BY RoomsAssumption DEF SomeUser, SomeCode
<1>. QED  BY <1>1 DEF IdleReq, IdlePass, ReqPC, PassPC, ReqRecord, PassRecord

\* Replacing one entry of a table of sets by another set.
LEMMA UpdateEntry ==
    ASSUME NEW S, NEW T, NEW f \in [S -> T], NEW x \in S, NEW v \in T
    PROVE  [f EXCEPT ![x] = v] \in [S -> T]
OBVIOUS

\* A step that is not one of ten store calls leaves the database as it is.
LEMMA DatabaseSteps ==
    ASSUME Next
    PROVE  \/ UNCHANGED dbVars
           \/ \E r \in Reqs :
                \/ \E u \in Users, op \in Ops, c \in Codes : Start(r, u, op, c)
                \/ InsertRoom(r) \/ JoinTx(r) \/ LeaveTx(r) \/ BanTx(r)
                \/ DeleteCommit(r) \/ DeleteUser(r)
           \/ \E k \in Cleaners : DeleteEmptyRoom(k) \/ DeleteExpiredRoom(k) \/ DeleteInactiveUsers(k)
<1>1. ASSUME NEW r \in Reqs, RequestStep(r)
      PROVE  \/ UNCHANGED dbVars
             \/ \E u \in Users, op \in Ops, c \in Codes : Start(r, u, op, c)
             \/ InsertRoom(r) \/ JoinTx(r) \/ LeaveTx(r) \/ BanTx(r)
             \/ DeleteCommit(r) \/ DeleteUser(r)
  BY <1>1 DEF RequestStep, GetRoom, JoinToken, Evict, DeleteBegin, DeleteTerminate,
              OwnedRoomCodes, TerminateOwned, Abort
<1>2. ASSUME NEW k \in Cleaners, PassStep(k)
      PROVE  UNCHANGED dbVars \/ DeleteEmptyRoom(k) \/ DeleteExpiredRoom(k) \/ DeleteInactiveUsers(k)
  BY <1>2 DEF PassStep, PassBegin, ListEmpty, TerminateListed, TerminateFails, ListExpired, StoreFails
<1>. QED  BY <1>1, <1>2 DEF Next, Connect, Disconnect, Tick, Restart

-----------------------------------------------------------------------------
(* Types.                                                                  *)

\* The records of requests and passes stay well-formed.
LEMMA ProcTypesStep ==
    ASSUME DataTypes, ProcTypes, [Next]_vars
    PROVE  ProcTypes'
<1>. USE Idle DEF ProcTypes, ReqRecord, PassRecord, ReqPC, PassPC
<1>1. CASE UNCHANGED vars
  BY <1>1 DEF vars
<1>2. ASSUME NEW r \in Reqs, RequestStep(r)
      PROVE  ProcTypes'
  <2>1. ASSUME NEW u \in Users, NEW op \in Ops, NEW c \in Codes, Start(r, u, op, c)
        PROVE  ProcTypes'
    BY <2>1, RoomsAssumption DEF Start, AllOps, DataTypes
  <2>2. CASE InsertRoom(r)
    BY <2>2 DEF InsertRoom, Done, DbFree
  <2>3. CASE JoinTx(r)
    BY <2>3 DEF JoinTx, CanJoin, Occupy, Goto, Done, DbFree
  <2>4. CASE GetRoom(r)
    BY <2>4 DEF GetRoom, Goto, Done
  <2>5. CASE JoinToken(r)
    BY <2>5 DEF JoinToken, Done
  <2>6. CASE LeaveTx(r)
    BY <2>6 DEF LeaveTx, Goto, Done, DbFree
  <2>7. CASE BanTx(r)
    BY <2>7, ZenonT(60) DEF BanTx, DbFree
  <2>8. CASE Evict(r)
    BY <2>8 DEF Evict, Done
  <2>9. CASE DeleteBegin(r)
    BY <2>9 DEF DeleteBegin, Goto, Done, DbFree
  <2>10. CASE DeleteTerminate(r)
    BY <2>10 DEF DeleteTerminate, Goto
  <2>11. CASE DeleteCommit(r)
    BY <2>11 DEF DeleteCommit, Done
  <2>12. CASE OwnedRoomCodes(r)
    BY <2>12, ZenonT(60) DEF OwnedRoomCodes, DbFree, DataTypes
  <2>13. CASE TerminateOwned(r)
    BY <2>13 DEF TerminateOwned
  <2>14. CASE DeleteUser(r)
    BY <2>14 DEF DeleteUser, Done, DbFree
  <2>15. CASE Abort(r)
    BY <2>15 DEF Abort, Done, Rollback
  <2>. QED  BY <1>2, <2>1, <2>2, <2>3, <2>4, <2>5, <2>6, <2>7, <2>8, <2>9, <2>10, <2>11, <2>12, <2>13, <2>14, <2>15 DEF RequestStep
<1>3. ASSUME NEW k \in Cleaners, PassStep(k)
      PROVE  ProcTypes'
  <2>1. CASE PassBegin(k)
    BY <2>1, ZenonT(60) DEF PassBegin, DataTypes
  <2>2. CASE ListEmpty(k)
    BY <2>2, ZenonT(60) DEF ListEmpty, DataTypes
  <2>3. CASE TerminateFails(k, "empty")
    BY <2>3 DEF TerminateFails
  <2>4. CASE TerminateFails(k, "expired")
    BY <2>4 DEF TerminateFails
  <2>5. CASE DeleteEmptyRoom(k)
    BY <2>5 DEF DeleteEmptyRoom
  <2>6. CASE ListExpired(k)
    BY <2>6, ZenonT(60) DEF ListExpired, DataTypes
  <2>7. CASE DeleteExpiredRoom(k)
    BY <2>7 DEF DeleteExpiredRoom
  <2>8. CASE DeleteInactiveUsers(k)
    BY <2>8 DEF DeleteInactiveUsers
  <2>9. ASSUME NEW c \in Codes, NEW from \in PassPC, NEW to \in PassPC, TerminateListed(k, from, to, c)
        PROVE  ProcTypes'
    BY <2>9 DEF TerminateListed
  <2>10. CASE StoreFails(k)
    BY <2>10 DEF StoreFails
  <2>. QED  BY <1>3, <2>1, <2>2, <2>3, <2>4, <2>5, <2>6, <2>7, <2>8, <2>9, <2>10 DEF PassStep
<1>4. ASSUME NEW u \in Clients, NEW c \in Codes, Connect(u, c) \/ Disconnect(u, c)
      PROVE  ProcTypes'
  BY <1>4 DEF Connect, Disconnect
<1>5. CASE Tick
  BY <1>5 DEF Tick
<1>6. CASE Restart
  BY <1>6 DEF Restart
<1>. QED  BY <1>1, <1>2, <1>3, <1>4, <1>5, <1>6 DEF Next


\* The tables, the tokens and the clock stay well-typed.
LEMMA DataTypesStep ==
    ASSUME DataTypes, ProcTypes, CheckedInv, [Next]_vars
    PROVE  DataTypes'
<1>. USE DEF DataTypes, ProcTypes, ReqRecord, PassRecord, NoMark, dbVars, lkVars
<1>1. CASE UNCHANGED vars
  BY <1>1 DEF vars
<1>2. ASSUME NEW r \in Reqs, RequestStep(r)
      PROVE  DataTypes'
  <2>1. ASSUME NEW u \in Users, NEW op \in Ops, NEW c \in Codes, Start(r, u, op, c)
        PROVE  DataTypes'
    BY <2>1 DEF Start
  <2>2. CASE InsertRoom(r)
    <3>1. req[r].user \in Users /\ req[r].at + RoomTTL \in Nat /\ {req[r].user} \in SUBSET Users
      BY RoomsAssumption
    <3>2. CASE UNCHANGED dbVars
      BY <2>2, <3>2 DEF InsertRoom
    <3>3. ASSUME NEW c \in Codes \ issued,
                 rooms' = rooms \cup {c}, issued' = issued \cup {c},
                 owner' = [owner EXCEPT ![c] = req[r].user],
                 expires' = [expires EXCEPT ![c] = req[r].at + RoomTTL],
                 emptySince' = [emptySince EXCEPT ![c] = NoMark],
                 members' = [members EXCEPT ![c] = {req[r].user}],
                 UNCHANGED <<now, users, lastSeen, lkVars, restarts>>
          PROVE  DataTypes'
      <4>1. members' \in [Codes -> SUBSET Users]
        BY ONLY <3>1, <3>3, UpdateEntry, c \in Codes, members \in [Codes -> SUBSET Users]
      <4>. QED  BY <3>1, <3>3, <4>1
    <3>. QED  BY <2>2, <3>2, <3>3 DEF InsertRoom
  <2>3. CASE JoinTx(r)
    <3>1. req[r].code \in Codes /\ members[req[r].code] \cup {req[r].user} \in SUBSET Users
      OBVIOUS
    <3>2. \/ members' = [members EXCEPT ![req[r].code] = members[req[r].code] \cup {req[r].user}]
          \/ members' = members
      BY ONLY <2>3 DEF JoinTx
    <3>3. members' \in [Codes -> SUBSET Users]
      BY ONLY <3>1, <3>2, UpdateEntry, members \in [Codes -> SUBSET Users]
    <3>. QED  BY <2>3, <3>3 DEF JoinTx, Occupy
  <2>4. CASE GetRoom(r)
    BY <2>4 DEF GetRoom
  <2>5. CASE JoinToken(r)
    BY <2>5, RoomsAssumption DEF JoinToken, MinTTL, CheckedInv
  <2>6. CASE LeaveTx(r)
    <3>1. req[r].code \in Codes /\ members[req[r].code] \ {req[r].user} \in SUBSET Users
      OBVIOUS
    <3>2. \/ members' = [members EXCEPT ![req[r].code] = members[req[r].code] \ {req[r].user}]
          \/ members' = members
      BY ONLY <2>6 DEF LeaveTx
    <3>3. members' \in [Codes -> SUBSET Users]
      BY ONLY <3>1, <3>2, UpdateEntry, members \in [Codes -> SUBSET Users]
    <3>. QED  BY <2>6, <3>3 DEF LeaveTx
  <2>7. CASE BanTx(r)
    BY <2>7 DEF BanTx
  <2>8. CASE Evict(r)
    <3>1. ASSUME NEW c \in Codes
          PROVE  [connected EXCEPT ![c] = @ \ {req[r].user}] \in [Codes -> SUBSET Users]
      <4>1. connected[c] \ {req[r].user} \in SUBSET Users
        OBVIOUS
      <4>. QED  BY ONLY <4>1, UpdateEntry, c \in Codes, connected \in [Codes -> SUBSET Users]
    <3>2. \/ \E c \in Codes : connected' = [connected EXCEPT ![c] = @ \ {req[r].user}]
          \/ connected' = connected
      <4>1. req[r].todo \subseteq Codes
        OBVIOUS
      <4>. QED  BY ONLY <2>8, <4>1 DEF Evict
    <3>3. connected' \in [Codes -> SUBSET Users]
      BY ONLY <3>1, <3>2, connected \in [Codes -> SUBSET Users]
    <3>. QED  BY <2>8, <3>3 DEF Evict
  <2>9. CASE DeleteBegin(r)
    BY <2>9 DEF DeleteBegin
  <2>10. CASE DeleteTerminate(r)
    BY <2>10 DEF DeleteTerminate
  <2>11. CASE DeleteCommit(r)
    BY <2>11 DEF DeleteCommit, DropRooms
  <2>12. CASE OwnedRoomCodes(r)
    BY <2>12 DEF OwnedRoomCodes
  <2>13. CASE TerminateOwned(r)
    BY <2>13 DEF TerminateOwned
  <2>14. CASE DeleteUser(r)
    BY <2>14 DEF DeleteUser, DropUsers
  <2>15. CASE Abort(r)
    BY <2>15 DEF Abort
  <2>. QED  BY <1>2, <2>1, <2>2, <2>3, <2>4, <2>5, <2>6, <2>7, <2>8, <2>9, <2>10, <2>11, <2>12, <2>13, <2>14, <2>15 DEF RequestStep
<1>3. ASSUME NEW k \in Cleaners, PassStep(k)
      PROVE  DataTypes'
  <2>1. CASE PassBegin(k)
    BY <2>1 DEF PassBegin
  <2>2. CASE ListEmpty(k)
    BY <2>2 DEF ListEmpty
  <2>3. CASE TerminateFails(k, "empty")
    BY <2>3 DEF TerminateFails
  <2>4. CASE TerminateFails(k, "expired")
    BY <2>4 DEF TerminateFails
  <2>5. CASE DeleteEmptyRoom(k)
    BY <2>5, ZenonT(60) DEF DeleteEmptyRoom, DropRooms
  <2>6. CASE ListExpired(k)
    BY <2>6 DEF ListExpired
  <2>7. CASE DeleteExpiredRoom(k)
    BY <2>7 DEF DeleteExpiredRoom, DropRooms
  <2>8. CASE DeleteInactiveUsers(k)
    BY <2>8 DEF DeleteInactiveUsers, DropUsers
  <2>9. ASSUME NEW c \in Codes, NEW from \in PassPC, NEW to \in PassPC, TerminateListed(k, from, to, c)
        PROVE  DataTypes'
    BY <2>9 DEF TerminateListed
  <2>10. CASE StoreFails(k)
    BY <2>10 DEF StoreFails
  <2>. QED  BY <1>3, <2>1, <2>2, <2>3, <2>4, <2>5, <2>6, <2>7, <2>8, <2>9, <2>10 DEF PassStep, PassPC
<1>4. ASSUME NEW u \in Clients, NEW c \in Codes, Connect(u, c) \/ Disconnect(u, c)
      PROVE  DataTypes'
  <2>1. connected[c] \cup {u} \in SUBSET Users /\ connected[c] \ {u} \in SUBSET Users
    BY RoomsAssumption
  <2>2. connected' \in [Codes -> SUBSET Users]
    BY <1>4, <2>1, UpdateEntry, ZenonT(60) DEF Connect, Disconnect
  <2>. QED  BY <1>4, <2>2 DEF Connect, Disconnect
<1>5. CASE Tick
  BY <1>5 DEF Tick
<1>6. CASE Restart
  BY <1>6 DEF Restart
<1>. QED  BY <1>1, <1>2, <1>3, <1>4, <1>5, <1>6 DEF Next


-----------------------------------------------------------------------------
(* The database.                                                           *)

\* The marker means what it says, after every store call.
LEMMA MarkerStep ==
    ASSUME TypeOK, EmptyMarkerSound, Next
    PROVE  EmptyMarkerSound'
<1>. USE DEF TypeOK, DataTypes, ProcTypes, ReqRecord, EmptyMarkerSound
<1>1. CASE UNCHANGED dbVars
  BY <1>1 DEF dbVars
<1>2. ASSUME NEW r \in Reqs, NEW u \in Users, NEW op \in Ops, NEW c \in Codes, Start(r, u, op, c)
      PROVE  EmptyMarkerSound'
  BY <1>2 DEF Start
<1>3. ASSUME NEW r \in Reqs, InsertRoom(r)
      PROVE  EmptyMarkerSound'
  BY <1>3 DEF InsertRoom, dbVars
<1>4. ASSUME NEW r \in Reqs, JoinTx(r)
      PROVE  EmptyMarkerSound'
  BY <1>4 DEF JoinTx, Occupy
<1>5. ASSUME NEW r \in Reqs, LeaveTx(r)
      PROVE  EmptyMarkerSound'
  BY <1>5 DEF LeaveTx
<1>6. ASSUME NEW r \in Reqs, BanTx(r)
      PROVE  EmptyMarkerSound'
  BY <1>6 DEF BanTx
<1>7. ASSUME NEW r \in Reqs, DeleteCommit(r) \/ DeleteUser(r)
      PROVE  EmptyMarkerSound'
  BY <1>7 DEF DeleteCommit, DeleteUser, DropRooms, DropUsers
<1>8. ASSUME NEW k \in Cleaners, DeleteEmptyRoom(k) \/ DeleteExpiredRoom(k) \/ DeleteInactiveUsers(k)
      PROVE  EmptyMarkerSound'
  BY <1>8 DEF DeleteEmptyRoom, DeleteExpiredRoom, DeleteInactiveUsers, DropRooms, DropUsers
<1>. QED  BY <1>1, <1>2, <1>3, <1>4, <1>5, <1>6, <1>7, <1>8, DatabaseSteps

\* Members are added only by InsertRoom, one, and by JoinRoom, below the limit.
LEMMA CapacityStep ==
    ASSUME TypeOK, CapacityRespected, Next
    PROVE  CapacityRespected'
<1>1. \A c \in Codes : members[c] \subseteq Users /\ IsFiniteSet(members[c])
  BY RoomsAssumption, FS_Subset DEF TypeOK, DataTypes
<1>2. ASSUME NEW c \in Codes, NEW T, T \subseteq members[c], Cardinality(members[c]) <= MaxMembers
      PROVE  Cardinality(T) <= MaxMembers
  <2>1. Cardinality(T) <= Cardinality(members[c]) /\ Cardinality(T) \in Nat /\ Cardinality(members[c]) \in Nat
    BY <1>1, <1>2, FS_Subset, FS_CardinalityType
  <2>. QED  BY <1>2, <2>1, RoomsAssumption
<1>3. ASSUME NEW u, NEW c \in Codes, Cardinality(members[c]) < MaxMembers
      PROVE  Cardinality(members[c] \cup {u}) <= MaxMembers
  <2>1. Cardinality(members[c]) \in Nat
    BY <1>1, FS_CardinalityType
  <2>2. Cardinality(members[c] \cup {u}) \in {Cardinality(members[c]), Cardinality(members[c]) + 1}
    BY <1>1, <2>1, FS_AddElement
  <2>. QED  BY <1>3, <2>1, <2>2, RoomsAssumption
<1>4. \A u : Cardinality({u}) <= MaxMembers
  <2>1. \A u : Cardinality({u}) = 1
    BY FS_Singleton, Zenon
  <2>. QED  BY <2>1, RoomsAssumption
<1>. USE DEF TypeOK, DataTypes, ProcTypes, ReqRecord, CapacityRespected
<1>5. ASSUME rooms' \subseteq rooms, \A c \in rooms' : members'[c] \subseteq members[c]
      PROVE  CapacityRespected'
  BY <1>2, <1>5
<1>6. ASSUME NEW r \in Reqs, InsertRoom(r)
      PROVE  CapacityRespected'
  <2>1. \A c \in rooms' : (c \in rooms /\ members'[c] = members[c]) \/ members'[c] = {req[r].user}
    BY <1>6 DEF InsertRoom, dbVars
  <2>. QED  BY <1>4, <2>1
<1>7. ASSUME NEW r \in Reqs, JoinTx(r)
      PROVE  CapacityRespected'
  <2>1. ASSUME CanJoin(req[r].user, req[r].code, req[r].at)
        PROVE  Cardinality(members[req[r].code] \cup {req[r].user}) <= MaxMembers
    <3>1. CASE req[r].user \in members[req[r].code]
      <4>1. members[req[r].code] \cup {req[r].user} = members[req[r].code]
        BY <3>1
      <4>. QED  BY <2>1, <4>1 DEF CanJoin, Live
    <3>. QED  BY <1>3, <2>1, <3>1 DEF CanJoin
  <2>. QED  BY <1>7, <2>1 DEF JoinTx
<1>8. ASSUME NEW r \in Reqs, LeaveTx(r) \/ BanTx(r) \/ DeleteCommit(r) \/ DeleteUser(r)
      PROVE  CapacityRespected'
  <2>1. rooms' \subseteq rooms /\ \A c \in Codes : members'[c] \subseteq members[c]
    <3>1. CASE LeaveTx(r)
      BY <3>1 DEF LeaveTx
    <3>2. CASE BanTx(r)
      BY <3>2 DEF BanTx
    <3>3. CASE DeleteCommit(r)
      BY <3>3 DEF DeleteCommit, DropRooms
    <3>4. CASE DeleteUser(r)
      BY <3>4 DEF DeleteUser, DropUsers
    <3>. QED  BY <1>8, <3>1, <3>2, <3>3, <3>4
  <2>. QED  BY <1>5, <2>1
<1>9. ASSUME NEW k \in Cleaners, DeleteEmptyRoom(k) \/ DeleteExpiredRoom(k) \/ DeleteInactiveUsers(k)
      PROVE  CapacityRespected'
  <2>1. rooms' \subseteq rooms /\ \A c \in Codes : members'[c] \subseteq members[c]
    <3>1. CASE DeleteEmptyRoom(k)
      BY <3>1 DEF DeleteEmptyRoom, DropRooms
    <3>2. CASE DeleteExpiredRoom(k)
      BY <3>2 DEF DeleteExpiredRoom, DropRooms
    <3>3. CASE DeleteInactiveUsers(k)
      BY <3>3 DEF DeleteInactiveUsers, DropUsers
    <3>. QED  BY <1>9, <3>1, <3>2, <3>3
  <2>. QED  BY <1>5, <2>1
<1>. QED  BY <1>5, <1>6, <1>7, <1>8, <1>9, DatabaseSteps DEF Start, dbVars

\* The cascades remove everything that refers to a deleted account, and the
\* foreign keys keep requests that are still running from adding to it.
LEMMA AccountStep ==
    ASSUME TypeOK, NoDanglingAccount, Next
    PROVE  NoDanglingAccount'
<1>. USE DEF TypeOK, DataTypes, ProcTypes, ReqRecord, NoDanglingAccount
<1>1. ASSUME NEW r \in Reqs, InsertRoom(r)
      PROVE  NoDanglingAccount'
  BY <1>1 DEF InsertRoom, dbVars
<1>2. ASSUME NEW r \in Reqs, JoinTx(r)
      PROVE  NoDanglingAccount'
  BY <1>2 DEF JoinTx, CanJoin, Live
<1>3. ASSUME NEW r \in Reqs, LeaveTx(r) \/ BanTx(r) \/ DeleteCommit(r)
      PROVE  NoDanglingAccount'
  <2>1. CASE LeaveTx(r)
    <3>1. /\ UNCHANGED <<rooms, owner, users>>
          /\ \/ members' = [members EXCEPT ![req[r].code] = members[req[r].code] \ {req[r].user}]
             \/ members' = members
      BY ONLY <2>1 DEF LeaveTx
    <3>. QED  BY <3>1
  <2>2. CASE BanTx(r)
    BY <2>2 DEF BanTx
  <2>. QED  BY <1>3, <2>1, <2>2 DEF DeleteCommit, DropRooms
<1>4. ASSUME NEW D, DropUsers(D), UNCHANGED owner
      PROVE  NoDanglingAccount'
  BY <1>4 DEF DropUsers
<1>5. ASSUME NEW k \in Cleaners, DeleteEmptyRoom(k) \/ DeleteExpiredRoom(k)
      PROVE  NoDanglingAccount'
  BY <1>5 DEF DeleteEmptyRoom, DeleteExpiredRoom, DropRooms
<1>. QED  BY <1>1, <1>2, <1>3, <1>4, <1>5, DatabaseSteps DEF Start, DeleteUser, DeleteInactiveUsers, dbVars

-----------------------------------------------------------------------------
(* Requests and passes.                                                    *)

\* What a step of a request does to its own record; the records of the other
\* requests, and those of the passes, are left alone.
LEMMA RequestRecords ==
    ASSUME TypeOK, NEW r \in Reqs, RequestStep(r)
    PROVE  /\ \A q \in Reqs \ {r} : req'[q] = req[q]
           /\ UNCHANGED <<now, pass>>
           /\ \/ req'[r].pc = "idle"
              \/ /\ req'[r].user = req[r].user
                 /\ req'[r].code = req[r].code
                 /\ req'[r].at = req[r].at
                 /\ req[r].pc # "idle"
              \/ /\ req'[r].pc \in AllOps
                 /\ req'[r].at = now
                 /\ req'[r].user \in Users
                 /\ lastSeen' = [lastSeen EXCEPT ![req'[r].user] = now]
           /\ \/ UNCHANGED lastSeen
              \/ \E u \in Users : lastSeen' = [lastSeen EXCEPT ![u] = now]
<1>. USE Idle DEF TypeOK, ProcTypes, ReqRecord, Goto, Done, dbVars
<1>1. ASSUME NEW u \in Users, NEW op \in Ops, NEW c \in Codes, Start(r, u, op, c)
      PROVE  /\ \A q \in Reqs \ {r} : req'[q] = req[q]
             /\ UNCHANGED <<now, pass>>
             /\ req'[r].pc \in AllOps
             /\ req'[r].at = now
             /\ req'[r].user \in Users
             /\ lastSeen' = [lastSeen EXCEPT ![req'[r].user] = now]
             /\ \E v \in Users : lastSeen' = [lastSeen EXCEPT ![v] = now]
  BY <1>1, RoomsAssumption DEF Start
<1>2. ASSUME InsertRoom(r) \/ JoinTx(r) \/ GetRoom(r) \/ JoinToken(r) \/ LeaveTx(r) \/ BanTx(r) \/ Evict(r)
      PROVE  /\ \A q \in Reqs \ {r} : req'[q] = req[q]
             /\ UNCHANGED <<now, pass, lastSeen>>
             /\ \/ req'[r].pc = "idle"
                \/ /\ req'[r].user = req[r].user
                   /\ req'[r].code = req[r].code
                   /\ req'[r].at = req[r].at
                   /\ req[r].pc # "idle"
  BY <1>2 DEF InsertRoom, JoinTx, GetRoom, JoinToken, LeaveTx, BanTx, Evict
<1>3. ASSUME DeleteBegin(r) \/ DeleteTerminate(r) \/ DeleteCommit(r) \/ OwnedRoomCodes(r) \/ TerminateOwned(r) \/ DeleteUser(r) \/ Abort(r)
      PROVE  /\ \A q \in Reqs \ {r} : req'[q] = req[q]
             /\ UNCHANGED <<now, pass, lastSeen>>
             /\ \/ req'[r].pc = "idle"
                \/ /\ req'[r].user = req[r].user
                   /\ req'[r].code = req[r].code
                   /\ req'[r].at = req[r].at
                   /\ req[r].pc # "idle"
  BY <1>3 DEF DeleteBegin, DeleteTerminate, DeleteCommit, OwnedRoomCodes, TerminateOwned, DeleteUser, Abort
<1>. QED  BY <1>1, <1>2, <1>3 DEF RequestStep

\* Passes read the clock when they begin and never look at it again.
LEMMA PassRecords ==
    ASSUME TypeOK, NEW k \in Cleaners, PassStep(k)
    PROVE  /\ UNCHANGED <<now, req, lastSeen, owner, expires, issued, tokens, tx>>
           /\ \A j \in Cleaners \ {k} : pass'[j] = pass[j]
           /\ pass'[k].at \in {pass[k].at, now, 0}
<1>. USE Idle DEF TypeOK, ProcTypes, PassRecord, dbVars, lkVars
<1>1. ASSUME PassBegin(k) \/ ListEmpty(k) \/ ListExpired(k) \/ TerminateFails(k, "empty") \/ TerminateFails(k, "expired") \/ StoreFails(k)
      PROVE  /\ UNCHANGED <<now, req, lastSeen, owner, expires, issued, tokens, tx>>
             /\ \A j \in Cleaners \ {k} : pass'[j] = pass[j]
             /\ pass'[k].at \in {pass[k].at, now, 0}
  BY <1>1 DEF PassBegin, ListEmpty, ListExpired, TerminateFails, StoreFails
<1>2. ASSUME NEW c \in Codes, NEW from, NEW to, TerminateListed(k, from, to, c)
      PROVE  /\ UNCHANGED <<now, req, lastSeen, owner, expires, issued, tokens, tx>>
             /\ \A j \in Cleaners \ {k} : pass'[j] = pass[j]
             /\ pass'[k].at \in {pass[k].at, now, 0}
  BY <1>2 DEF TerminateListed
<1>3. ASSUME DeleteEmptyRoom(k) \/ DeleteExpiredRoom(k) \/ DeleteInactiveUsers(k)
      PROVE  /\ UNCHANGED <<now, req, lastSeen, owner, expires, issued, tokens, tx>>
             /\ \A j \in Cleaners \ {k} : pass'[j] = pass[j]
             /\ pass'[k].at \in {pass[k].at, now, 0}
  BY <1>3 DEF DeleteEmptyRoom, DeleteExpiredRoom, DeleteInactiveUsers
<1>. QED  BY <1>1, <1>2, <1>3 DEF PassStep

\* Clock readings stay consistent with the clock and with last_seen_at.
LEMMA ClocksStep ==
    ASSUME TypeOK, ClocksInv, Next
    PROVE  ClocksInv'
<1>. USE DEF ClocksInv
<1>1. ASSUME NEW r \in Reqs, RequestStep(r)
      PROVE  ClocksInv'
  <2>1. \A u \in Users : lastSeen'[u] <= now /\ lastSeen[u] <= lastSeen'[u]
    BY <1>1, RequestRecords DEF TypeOK, DataTypes
  <2>2. \A q \in Reqs : req[q].user \in Users /\ req[q].at \in Nat /\ lastSeen[req[q].user] \in Nat /\ lastSeen'[req[q].user] \in Nat
    BY <1>1, RequestRecords, ZenonT(60) DEF TypeOK, DataTypes, ProcTypes, ReqRecord
  <2>3. ASSUME NEW q \in Reqs, req'[q].pc # "idle"
        PROVE  /\ req'[q].at <= now' /\ now' <= req'[q].at + Lag
               /\ req'[q].at <= lastSeen'[req'[q].user]
    <3>1. CASE q # r
      BY <1>1, <2>1, <2>2, <2>3, <3>1, RequestRecords
    <3>2. CASE q = r
      <4>1. CASE /\ req'[r].user = req[r].user /\ req'[r].at = req[r].at /\ req[r].pc # "idle"
        BY <1>1, <2>1, <2>2, <3>2, <4>1, RequestRecords
      <4>2. CASE /\ req'[r].at = now /\ req'[r].user \in Users
                 /\ lastSeen' = [lastSeen EXCEPT ![req'[r].user] = now]
        BY <1>1, <3>2, <4>2, RequestRecords, RoomsAssumption DEF TypeOK, DataTypes
      <4>. QED  BY <1>1, <2>3, <3>2, <4>1, <4>2, RequestRecords
    <3>. QED  BY <3>1, <3>2
  <2>. QED  BY <1>1, <2>1, <2>3, RequestRecords
<1>2. ASSUME NEW k \in Cleaners, PassStep(k)
      PROVE  ClocksInv'
  <2>1. \A j \in Cleaners : pass'[j].at <= now
    BY <1>2, PassRecords DEF TypeOK, DataTypes
  <2>. QED  BY <1>2, <2>1, PassRecords
<1>3. CASE Tick
  <2>1. \A r \in Reqs : req[r].at \in Nat
    BY DEF TypeOK, ProcTypes, ReqRecord
  <2>2. \A k \in Cleaners : pass[k].at \in Nat
    BY DEF TypeOK, ProcTypes, PassRecord
  <2>3. now \in Nat /\ now' = now + 1 /\ UNCHANGED <<req, pass, lastSeen>> /\ lastSeen \in [Users -> Nat]
    BY <1>3 DEF Tick, TypeOK, DataTypes, dbVars
  <2>4. \A r \in Reqs : req[r].pc # "idle" => now < req[r].at + Lag
    BY <1>3 DEF Tick
  <2>. QED  BY <2>1, <2>2, <2>3, <2>4, RoomsAssumption
<1>4. CASE Restart
  BY <1>4, Idle DEF Restart, TypeOK, DataTypes, dbVars
<1>. QED  BY <1>1, <1>2, <1>3, <1>4 DEF Next, Connect, Disconnect, dbVars

\* Only DeleteRoom opens a transaction that outlasts a step, and it ends it.
LEMMA LockStep ==
    ASSUME TypeOK, Next
    PROVE  LockHeld'
<1>. USE Idle DEF TypeOK, ProcTypes, ReqRecord, LockHeld, Goto, Done
<1>1. ASSUME NEW r \in Reqs, RequestStep(r)
      PROVE  LockHeld'
  <2>1. ASSUME NEW u \in Users, NEW op \in Ops, NEW c \in Codes, Start(r, u, op, c)
        PROVE  LockHeld'
    BY <2>1, RoomsAssumption DEF Start, AllOps
  <2>2. CASE InsertRoom(r) \/ JoinTx(r) \/ GetRoom(r) \/ JoinToken(r) \/ LeaveTx(r) \/ BanTx(r)
    BY <2>2 DEF InsertRoom, JoinTx, GetRoom, JoinToken, LeaveTx, BanTx
  <2>3. CASE Evict(r) \/ OwnedRoomCodes(r) \/ TerminateOwned(r) \/ DeleteUser(r)
    BY <2>3 DEF Evict, OwnedRoomCodes, TerminateOwned, DeleteUser
  <2>4. CASE DeleteBegin(r)
    BY <2>4 DEF DeleteBegin, DbFree
  <2>5. CASE DeleteTerminate(r)
    BY <2>5 DEF DeleteTerminate
  <2>6. CASE Abort(r)
    BY <2>6 DEF Abort, Rollback
  <2>7. CASE DeleteCommit(r)
    BY <2>7 DEF DeleteCommit
  <2>. QED  BY <1>1, <2>1, <2>2, <2>3, <2>4, <2>5, <2>6, <2>7 DEF RequestStep
<1>2. ASSUME NEW k \in Cleaners, PassStep(k)
      PROVE  LockHeld'
  BY <1>2, PassRecords
<1>. QED  BY <1>1, <1>2 DEF Next, Connect, Disconnect, Tick, Restart

\* Expiry dates are bounded by the owner's last activity, which only grows:
\* InsertRoom dates the room from the reading that Authenticate recorded.
LEMMA RoomAgeStep ==
    ASSUME TypeOK, ClocksInv, RoomAgeInv, Next
    PROVE  RoomAgeInv'
<1>. USE DEF RoomAgeInv
<1>1. \A c \in rooms : c \in Codes /\ owner[c] \in Users /\ expires[c] \in Nat /\ lastSeen[owner[c]] \in Nat
  BY DEF TypeOK, DataTypes
<1>2. ASSUME rooms' \subseteq rooms, UNCHANGED <<owner, expires, lastSeen>>
      PROVE  RoomAgeInv'
  BY <1>2
<1>3. ASSUME NEW r \in Reqs, NEW u \in Users, NEW op \in Ops, NEW c \in Codes, Start(r, u, op, c)
      PROVE  RoomAgeInv'
  <2>1. UNCHANGED <<rooms, owner, expires>> /\ \A v \in Users : lastSeen[v] <= lastSeen'[v] /\ lastSeen'[v] \in Nat
    BY <1>3 DEF Start, ClocksInv, TypeOK, DataTypes
  <2>. QED  BY <1>1, <2>1, RoomsAssumption
<1>4. ASSUME NEW r \in Reqs, InsertRoom(r)
      PROVE  RoomAgeInv'
  <2>1. CASE UNCHANGED dbVars
    BY <1>2, <2>1 DEF dbVars
  <2>2. ASSUME NEW c \in Codes \ issued,
               rooms' = rooms \cup {c},
               owner' = [owner EXCEPT ![c] = req[r].user],
               expires' = [expires EXCEPT ![c] = req[r].at + RoomTTL],
               UNCHANGED lastSeen
        PROVE  RoomAgeInv'
    <3>1. req[r].at <= lastSeen[req[r].user] /\ req[r].at \in Nat /\ lastSeen[req[r].user] \in Nat
      BY <1>4 DEF InsertRoom, ClocksInv, TypeOK, DataTypes, ProcTypes, ReqRecord
    <3>2. /\ owner'[c] = req[r].user /\ expires'[c] = req[r].at + RoomTTL
          /\ \A d \in rooms : owner'[d] = owner[d] /\ expires'[d] = expires[d]
      BY <2>2 DEF TypeOK, DataTypes
    <3>. QED  BY <2>2, <3>1, <3>2, RoomsAssumption
  <2>. QED  BY <1>4, <2>1, <2>2 DEF InsertRoom
<1>5. ASSUME NEW r \in Reqs, JoinTx(r) \/ LeaveTx(r) \/ BanTx(r) \/ DeleteCommit(r) \/ DeleteUser(r)
      PROVE  RoomAgeInv'
  BY <1>2, <1>5 DEF JoinTx, LeaveTx, BanTx, DeleteCommit, DeleteUser, DropRooms, DropUsers
<1>6. ASSUME NEW k \in Cleaners, DeleteEmptyRoom(k) \/ DeleteExpiredRoom(k) \/ DeleteInactiveUsers(k)
      PROVE  RoomAgeInv'
  BY <1>2, <1>6 DEF DeleteEmptyRoom, DeleteExpiredRoom, DeleteInactiveUsers, DropRooms, DropUsers
<1>. QED  BY <1>2, <1>3, <1>4, <1>5, <1>6, DatabaseSteps DEF dbVars

\* The row of an issued code keeps its owner and its expiry.
LEMMA IssuedRows ==
    ASSUME TypeOK, Next
    PROVE  /\ issued \subseteq issued'
           /\ \A c \in issued : owner'[c] = owner[c] /\ expires'[c] = expires[c]
           /\ \A c \in Codes : expires'[c] = expires[c] \/ (c \notin issued /\ c \in issued')
<1>1. ASSUME NEW r \in Reqs, InsertRoom(r)
      PROVE  /\ issued \subseteq issued'
             /\ \A c \in issued : owner'[c] = owner[c] /\ expires'[c] = expires[c]
             /\ \A c \in Codes : expires'[c] = expires[c] \/ (c \notin issued /\ c \in issued')
  BY <1>1 DEF InsertRoom, TypeOK, DataTypes, dbVars
<1>. QED  BY <1>1, DatabaseSteps DEF Start, JoinTx, LeaveTx, BanTx, DeleteCommit, DeleteUser,
             DeleteEmptyRoom, DeleteExpiredRoom, DeleteInactiveUsers, dbVars

\* What a request has checked stays true while it acts on it.
LEMMA CheckedStep ==
    ASSUME TypeOK, CheckedInv, Next
    PROVE  CheckedInv'
<1>. DEFINE Ok(q) == /\ req[q].pc = "mint" =>
                           req[q].code \in issued /\ req[q].at <= expires[req[q].code]
                     /\ req[q].pc \in {"terminate", "commit"} =>
                           req[q].code \in issued /\ owner[req[q].code] = req[q].user
<1>1. ASSUME NEW q \in Reqs, Ok(q), req'[q] = req[q]
      PROVE  Ok(q)'
  BY <1>1, IssuedRows
<1>2. ASSUME NEW q \in Reqs, req'[q].pc \notin {"mint", "terminate", "commit"}
      PROVE  Ok(q)'
  BY <1>2
<1>3. ASSUME NEW r \in Reqs, RequestStep(r)
      PROVE  Ok(r)'
  <2>. USE Idle DEF TypeOK, ProcTypes, ReqRecord, Goto, Done
  <2>1. ASSUME NEW u \in Users, NEW op \in Ops, NEW c \in Codes, Start(r, u, op, c)
        PROVE  Ok(r)'
    <3>1. req'[r].pc \in AllOps
      BY <2>1, RoomsAssumption DEF Start
    <3>. QED  BY ONLY <1>2, <3>1, r \in Reqs DEF AllOps
  <2>2. CASE InsertRoom(r) \/ JoinTx(r) \/ JoinToken(r) \/ LeaveTx(r) \/ BanTx(r)
    <3>1. req'[r].pc \notin {"mint", "terminate", "commit"}
      BY <2>2 DEF InsertRoom, JoinTx, JoinToken, LeaveTx, BanTx
    <3>. QED  BY ONLY <1>2, <3>1, r \in Reqs
  <2>3. CASE Evict(r) \/ OwnedRoomCodes(r) \/ TerminateOwned(r) \/ DeleteUser(r) \/ Abort(r) \/ DeleteCommit(r)
    <3>1. req'[r].pc \notin {"mint", "terminate", "commit"}
      BY <2>3 DEF Evict, OwnedRoomCodes, TerminateOwned, DeleteUser, Abort, DeleteCommit
    <3>. QED  BY ONLY <1>2, <3>1, r \in Reqs
  <2>4. CASE GetRoom(r)
    <3>1. /\ UNCHANGED <<issued, owner, expires>>
          /\ \/ req' = [req EXCEPT ![r] = IdleReq]
             \/ /\ req' = [req EXCEPT ![r].pc = "mint"]
                /\ req[r].code \in rooms /\ expires[req[r].code] > req[r].at
      BY ONLY <2>4 DEF GetRoom, Live, dbVars, Goto, Done
    <3>2. CASE req' = [req EXCEPT ![r] = IdleReq]
      BY <3>2
    <3>3. CASE /\ req' = [req EXCEPT ![r].pc = "mint"]
               /\ req[r].code \in rooms /\ expires[req[r].code] > req[r].at
      <4>1. req'[r].pc = "mint" /\ req'[r].code = req[r].code /\ req'[r].at = req[r].at
        BY <3>3
      <4>2. req[r].code \in issued /\ req[r].at <= expires[req[r].code]
        BY <3>3 DEF DataTypes
      <4>. QED  BY ONLY <3>1, <4>1, <4>2
    <3>. QED  BY <3>1, <3>2, <3>3
  <2>5. CASE DeleteBegin(r)
    <3>1. /\ UNCHANGED <<issued, owner, expires>>
          /\ \/ req' = [req EXCEPT ![r] = IdleReq]
             \/ /\ req' = [req EXCEPT ![r].pc = "terminate"]
                /\ req[r].code \in rooms /\ owner[req[r].code] = req[r].user
      BY ONLY <2>5 DEF DeleteBegin, Live, dbVars, Goto, Done
    <3>2. CASE req' = [req EXCEPT ![r] = IdleReq]
      BY <3>2
    <3>3. CASE /\ req' = [req EXCEPT ![r].pc = "terminate"]
               /\ req[r].code \in rooms /\ owner[req[r].code] = req[r].user
      <4>1. req'[r].pc = "terminate" /\ req'[r].code = req[r].code /\ req'[r].user = req[r].user
        BY <3>3
      <4>2. req[r].code \in issued
        BY <3>3 DEF DataTypes
      <4>. QED  BY ONLY <3>1, <3>3, <4>1, <4>2
    <3>. QED  BY <3>1, <3>2, <3>3
  <2>6. CASE DeleteTerminate(r)
    BY <2>6 DEF DeleteTerminate, CheckedInv, dbVars
  <2>. QED  BY <1>3, <2>1, <2>2, <2>3, <2>4, <2>5, <2>6 DEF RequestStep
<1>4. ASSUME NEW q \in Reqs
      PROVE  Ok(q)'
  <2>1. Ok(q)
    BY DEF CheckedInv
  <2>2. ASSUME NEW r \in Reqs, RequestStep(r)
        PROVE  Ok(q)'
    <3>1. CASE q = r
      BY <1>3, <2>2, <3>1
    <3>2. CASE q # r
      <4>1. req'[q] = req[q]
        BY <2>2, <3>2, RequestRecords
      <4>. QED  BY ONLY <1>1, <2>1, <4>1, q \in Reqs
    <3>. QED  BY <3>1, <3>2
  <2>3. CASE req' = req
    BY <1>1, <2>1, <2>3
  <2>4. CASE Restart
    BY <2>4, Idle DEF Restart
  <2>. QED  BY <2>2, <2>3, <2>4, PassRecords DEF Next, Connect, Disconnect, Tick
<1>. QED  BY <1>4 DEF CheckedInv

-----------------------------------------------------------------------------
(* LiveKit tokens.                                                         *)

\* A token is signed for an issued code and lasts no longer than the room has
\* left, counted from the start of the request.
LEMMA TokensStep ==
    ASSUME TypeOK, ClocksInv, CheckedInv, TokensInv, TokenWithinRoom, Next
    PROVE  TokensInv' /\ TokenWithinRoom'
<1>1. ASSUME UNCHANGED tokens
      PROVE  TokensInv' /\ TokenWithinRoom'
  <2>1. TokensInv'
    BY <1>1, IssuedRows DEF TokensInv
  <2>2. ASSUME NEW c \in Codes, NEW u \in Clients
        PROVE  tokens[c][u] <= expires'[c] + Lag
    <3>1. CASE expires'[c] = expires[c]
      BY <3>1 DEF TokenWithinRoom
    <3>2. CASE c \notin issued
      <4>1. tokens[c][u] = 0
        BY <3>2 DEF TokensInv
      <4>2. expires'[c] \in Nat
        BY DataTypesStep DEF TypeOK, DataTypes
      <4>. QED  BY <4>1, <4>2, RoomsAssumption
    <3>. QED  BY <3>1, <3>2, IssuedRows
  <2>. QED  BY <1>1, <2>1, <2>2 DEF TokenWithinRoom
<1>2. ASSUME NEW r \in Reqs, JoinToken(r)
      PROVE  TokensInv' /\ TokenWithinRoom'
  <2>. DEFINE c == req[r].code
              ttl == MinTTL(TokenTTL, expires[c] - req[r].at)
  <2>1. /\ c \in issued /\ c \in Codes
        /\ expires[c] \in Nat /\ req[r].at \in Nat /\ now \in Nat
        /\ req[r].at <= expires[c] /\ req[r].at <= now /\ now <= req[r].at + Lag
    BY <1>2 DEF JoinToken, CheckedInv, ClocksInv, TypeOK, DataTypes, ProcTypes, ReqRecord
  <2>2. now + ttl <= expires[c] + Lag
    BY <2>1, RoomsAssumption DEF MinTTL
  <2>3. /\ UNCHANGED <<issued, expires>>
        /\ tokens' = [tokens EXCEPT ![c] = [u \in Clients |-> IF u = req[r].user THEN now + ttl ELSE tokens[c][u]]]
    BY ONLY <1>2 DEF JoinToken, dbVars
  <2>4. \A d \in Codes, u \in Clients :
           \/ tokens'[d][u] = tokens[d][u]
           \/ d = c /\ tokens'[d][u] = now + ttl
    <3>. HIDE DEF c, ttl
    <3>. QED  BY <2>1, <2>3 DEF TypeOK, DataTypes
  <2>. HIDE DEF c, ttl
  <2>5. TokensInv'
    BY <2>1, <2>3, <2>4 DEF TokensInv
  <2>6. TokenWithinRoom'
    BY <2>2, <2>3, <2>4 DEF TokenWithinRoom
  <2>. QED  BY <2>5, <2>6
<1>3. ASSUME NEW r \in Reqs, RequestStep(r), ~JoinToken(r)
      PROVE  UNCHANGED tokens
  BY <1>3 DEF RequestStep, Start, InsertRoom, JoinTx, GetRoom, LeaveTx, BanTx, Evict, DeleteBegin,
              DeleteTerminate, DeleteCommit, OwnedRoomCodes, TerminateOwned, DeleteUser, Abort, lkVars
<1>. QED  BY <1>1, <1>2, <1>3, PassRecords DEF Next, Connect, Disconnect, Tick, Restart, lkVars

-----------------------------------------------------------------------------
(* The theorems.                                                           *)

\* The initial state satisfies the inductive invariant.
LEMMA InitInv == Init => IInv
<1>. SUFFICES ASSUME Init PROVE IInv
  OBVIOUS
<1>. USE Idle, RoomsAssumption DEF Init
<1>1. DataTypes
  BY DEF DataTypes, NoMark
<1>2. ProcTypes /\ LockHeld
  BY DEF ProcTypes, LockHeld
<1>3. EmptyMarkerSound /\ CapacityRespected /\ NoDanglingAccount /\ RoomAgeInv
  BY DEF EmptyMarkerSound, CapacityRespected, NoDanglingAccount, RoomAgeInv
<1>4. TokenWithinRoom /\ TokensInv
  BY DEF TokenWithinRoom, TokensInv
<1>5. ClocksInv /\ CheckedInv
  BY DEF ClocksInv, CheckedInv
<1>. QED  BY <1>1, <1>2, <1>3, <1>4, <1>5 DEF IInv, TypeOK

\* Every step preserves the inductive invariant.
LEMMA StepInv == IInv /\ [Next]_vars => IInv'
<1>1. ASSUME IInv, Next
      PROVE  IInv'
  <2>1. TypeOK'
    BY <1>1, DataTypesStep, ProcTypesStep, LockStep DEF IInv, TypeOK
  <2>. QED
    BY <1>1, <2>1, MarkerStep, CapacityStep, AccountStep, ClocksStep, RoomAgeStep, CheckedStep, TokensStep DEF IInv
<1>2. ASSUME IInv, UNCHANGED vars
      PROVE  IInv'
  BY <1>2 DEF IInv, TypeOK, DataTypes, ProcTypes, LockHeld, EmptyMarkerSound, CapacityRespected,
              NoDanglingAccount, TokenWithinRoom, ClocksInv, RoomAgeInv, CheckedInv, TokensInv,
              vars, dbVars, lkVars
<1>. QED  BY <1>1, <1>2

\* The inductive invariant holds throughout every behaviour.
LEMMA Invariant == Spec => []IInv
  BY InitInv, StepInv, PTL DEF Spec

\* Types, and the connection held by exactly the DeleteRoom in its transaction.
THEOREM TypeCorrect == Spec => []TypeOK
<1>1. IInv => TypeOK
  BY DEF IInv
<1>. QED  BY <1>1, Invariant, PTL

\* A room that the cleanup loops may delete as empty has no members.
THEOREM EmptyMarkerIsSound == Spec => []EmptyMarkerSound
<1>1. IInv => EmptyMarkerSound
  BY DEF IInv
<1>. QED  BY <1>1, Invariant, PTL

\* No interleaving of joins exceeds MAX_ROOM_PARTICIPANTS.
THEOREM CapacityIsRespected == Spec => []CapacityRespected
<1>1. IInv => CapacityRespected
  BY DEF IInv
<1>. QED  BY <1>1, Invariant, PTL

\* Rooms and memberships refer to existing accounts only.
THEOREM AccountsExist == Spec => []NoDanglingAccount
<1>1. IInv => NoDanglingAccount
  BY DEF IInv
<1>. QED  BY <1>1, Invariant, PTL

\* A LiveKit token outlives its room by at most the latency of its request.
THEOREM TokensEndWithRoom == Spec => []TokenWithinRoom
<1>1. IInv => TokenWithinRoom
  BY DEF IInv
<1>. QED  BY <1>1, Invariant, PTL

\* A room with members and time left is taken away by its owner alone: the
\* empty-room loop is kept off by the marker, the expiry loop by the clock it
\* read, and the deletion of inactive users by RoomAgeInv.
THEOREM OccupiedRoomsSurvive == Spec => OccupiedRoomSurvives
<1>1. ASSUME IInv, Next
      PROVE  OccupiedStep
  <2>. USE <1>1 DEF IInv, TypeOK, DataTypes, ProcTypes
  <2>1. SUFFICES ASSUME NEW c \in rooms \ rooms', members[c] # {}, now < expires[c]
                 PROVE  \E r \in Reqs : req[r].user = owner[c] /\ req[r].pc \in {"commit", "terminateOwned"}
    BY DEF OccupiedStep
  <2>2. ASSUME NEW r \in Reqs, DeleteCommit(r)
        PROVE  req[r].user = owner[c] /\ req[r].pc = "commit"
    BY <2>1, <2>2 DEF DeleteCommit, DropRooms, CheckedInv
  <2>3. ASSUME NEW r \in Reqs, DeleteUser(r)
        PROVE  req[r].user = owner[c] /\ req[r].pc = "terminateOwned"
    BY <2>1, <2>3 DEF DeleteUser, DropUsers
  <2>4. ASSUME NEW k \in Cleaners, DeleteEmptyRoom(k)
        PROVE  FALSE
    BY <2>1, <2>4 DEF DeleteEmptyRoom, StillEmpty, EmptySinceBy, DropRooms, EmptyMarkerSound
  <2>5. ASSUME NEW k \in Cleaners, DeleteExpiredRoom(k)
        PROVE  FALSE
    <3>1. expires[c] <= pass[k].at
      BY <2>1, <2>5 DEF DeleteExpiredRoom, DropRooms
    <3>2. pass[k].at <= now /\ pass[k].at \in Nat
      BY DEF ClocksInv, PassRecord
    <3>. QED  BY <2>1, <3>1, <3>2
  <2>6. ASSUME NEW k \in Cleaners, DeleteInactiveUsers(k)
        PROVE  FALSE
    <3>1. lastSeen[owner[c]] < pass[k].at - InactiveTTL
      BY <2>1, <2>6 DEF DeleteInactiveUsers, DropUsers
    <3>2. pass[k].at <= now /\ pass[k].at \in Nat
      BY DEF ClocksInv, PassRecord
    <3>3. expires[c] <= lastSeen[owner[c]] + RoomTTL /\ expires[c] \in Nat /\ lastSeen[owner[c]] \in Nat
      BY <2>1 DEF RoomAgeInv
    <3>. QED  BY <2>1, <3>1, <3>2, <3>3, RoomsAssumption
  <2>7. ASSUME NEW r \in Reqs, InsertRoom(r) \/ JoinTx(r) \/ LeaveTx(r) \/ BanTx(r)
        PROVE  FALSE
    BY <2>1, <2>7 DEF InsertRoom, JoinTx, LeaveTx, BanTx, dbVars
  <2>. QED  BY <1>1, <2>1, <2>2, <2>3, <2>4, <2>5, <2>6, <2>7, DatabaseSteps DEF Start, dbVars
<1>2. IInv /\ [Next]_vars => [OccupiedStep]_vars
  BY <1>1
<1>. QED  BY <1>2, Invariant, PTL DEF Spec, OccupiedRoomSurvives
-----------------------------------------------------------------------------
(* Ghosts: participants of a room that has no row any more.                *)

\* Expired rooms that a pass works on were issued; the one it is about to delete
\* is empty in LiveKit, once no token for it can be valid.
GhostInv ==
    \A k \in Cleaners :
      /\ pass[k].pc \in {"expired", "deleteExpired"} => pass[k].todo \subseteq issued
      /\ pass[k].pc = "deleteExpired" =>
            /\ pass[k].code \in issued
            /\ expires[pass[k].code] + Lag <= pass[k].at => connected[pass[k].code] = {}

\* Nobody enters a room for which no token is valid.
LEMMA StaysEmpty ==
    ASSUME TypeOK, Next, NEW c \in Codes, connected[c] = {}, \A u \in Clients : tokens[c][u] <= now
    PROVE  connected'[c] = {}
<1>t. connected \in [Codes -> SUBSET Users] /\ now \in Nat /\ tokens \in [Codes -> [Clients -> Nat]]
  BY DEF TypeOK, DataTypes
<1>1. ASSUME NEW r \in Reqs, RequestStep(r)
      PROVE  connected'[c] = {}
  <2>1. CASE Evict(r) \/ DeleteTerminate(r) \/ TerminateOwned(r)
    <3>1. \/ connected' = connected
          \/ \E d : connected' = [connected EXCEPT ![d] = {}]
          \/ \E d : connected' = [connected EXCEPT ![d] = connected[d] \ {req[r].user}]
      BY <2>1 DEF Evict, DeleteTerminate, TerminateOwned
    <3>. QED  BY <1>t, <3>1
  <2>2. CASE ~(Evict(r) \/ DeleteTerminate(r) \/ TerminateOwned(r))
    <3>1. connected' = connected
      BY <1>1, <2>2 DEF RequestStep, Start, InsertRoom, JoinTx, GetRoom, JoinToken, LeaveTx, BanTx, DeleteBegin,
                        DeleteCommit, OwnedRoomCodes, DeleteUser, Abort, lkVars
    <3>. QED  BY <3>1
  <2>. QED  BY <2>1, <2>2
<1>2. ASSUME NEW k \in Cleaners, PassStep(k)
      PROVE  connected'[c] = {}
  <2>1. connected' = connected \/ \E d : connected' = [connected EXCEPT ![d] = {}]
    BY <1>2 DEF PassStep, PassBegin, ListEmpty, TerminateListed, TerminateFails, DeleteEmptyRoom, ListExpired,
                DeleteExpiredRoom, DeleteInactiveUsers, StoreFails, lkVars
  <2>. QED  BY <1>t, <2>1
<1>3. ASSUME NEW u \in Clients, NEW d \in Codes, Connect(u, d)
      PROVE  connected'[c] = {}
  <2>1. tokens[d][u] > now /\ connected' = [connected EXCEPT ![d] = @ \cup {u}]
    BY <1>3 DEF Connect
  <2>2. d # c
    BY <1>t, <2>1
  <2>. QED  BY <1>t, <2>1, <2>2
<1>4. ASSUME NEW u \in Clients, NEW d \in Codes, Disconnect(u, d)
      PROVE  connected'[c] = {}
  <2>1. connected' = [connected EXCEPT ![d] = @ \ {u}]
    BY <1>4 DEF Disconnect
  <2>. QED  BY <1>t, <2>1
<1>. QED  BY <1>1, <1>2, <1>3, <1>4 DEF Next, Tick, Restart, lkVars

\* What a pass is about to delete.
LEMMA ExpiryPass ==
    ASSUME TypeOK, GhostInv, NEW k \in Cleaners, PassStep(k)
    PROVE  /\ pass'[k].pc \in {"expired", "deleteExpired"} => pass'[k].todo \subseteq issued
           /\ pass'[k].pc = "deleteExpired" => pass'[k].code \in issued /\ connected'[pass'[k].code] = {}
<1>t. /\ pass \in [Cleaners -> PassRecord] /\ pass[k] \in PassRecord /\ rooms \subseteq issued /\ issued \subseteq Codes
      /\ connected \in [Codes -> SUBSET Users]
  BY DEF TypeOK, DataTypes, ProcTypes
<1>1. CASE PassBegin(k) \/ ListEmpty(k) \/ DeleteEmptyRoom(k)
  <2>1. pass'[k].pc \in {"listEmpty", "empty"}
    BY <1>1, <1>t DEF PassBegin, ListEmpty, DeleteEmptyRoom, PassRecord
  <2>. QED  BY <2>1
<1>2. CASE DeleteInactiveUsers(k)
  <2>1. pass'[k].pc = "idle"
    BY <1>2, <1>t, Idle DEF DeleteInactiveUsers, IdlePass
  <2>. QED  BY <2>1
<1>3. CASE ListExpired(k)
  <2>1. pass' = [pass EXCEPT ![k].pc = "expired", ![k].todo = {c \in rooms : expires[c] <= pass[k].at}]
    BY <1>3 DEF ListExpired
  <2>2. pass'[k].pc = "expired" /\ pass'[k].todo = {c \in rooms : expires[c] <= pass[k].at}
    BY <1>t, <2>1 DEF PassRecord
  <2>. QED  BY <1>t, <2>2
<1>4. CASE DeleteExpiredRoom(k)
  <2>1. pass[k].pc = "deleteExpired" /\ pass' = [pass EXCEPT ![k].pc = "expired"]
    BY <1>4 DEF DeleteExpiredRoom
  <2>2. pass'[k].pc = "expired" /\ pass'[k].todo = pass[k].todo
    BY <1>t, <2>1 DEF PassRecord
  <2>. QED  BY <2>1, <2>2 DEF GhostInv
<1>5. CASE TerminateFails(k, "empty") \/ TerminateFails(k, "expired")
  <2>1. PICK c : pass' = [pass EXCEPT ![k].todo = @ \ {c}]
    BY <1>5 DEF TerminateFails
  <2>2. pass[k].pc \in {"empty", "expired"}
    BY <1>5 DEF TerminateFails
  <2>3. pass'[k].pc = pass[k].pc /\ pass'[k].todo \subseteq pass[k].todo
    BY <1>t, <2>1 DEF PassRecord
  <2>. QED  BY <2>2, <2>3 DEF GhostInv
<1>6. ASSUME NEW c \in Codes, TerminateListed(k, "empty", "deleteEmpty", c)
      PROVE  pass'[k].pc = "deleteEmpty"
  BY <1>6, <1>t DEF TerminateListed, PassRecord
<1>7. ASSUME NEW c \in Codes, TerminateListed(k, "expired", "deleteExpired", c)
      PROVE  pass'[k].todo \subseteq issued /\ pass'[k].code \in issued /\ connected'[pass'[k].code] = {}
  <2>1. /\ pass[k].pc = "expired" /\ c \in pass[k].todo /\ connected' = [connected EXCEPT ![c] = {}]
        /\ pass' = [pass EXCEPT ![k].pc = "deleteExpired", ![k].code = c, ![k].todo = @ \ {c}]
    BY <1>7 DEF TerminateListed
  <2>2. pass'[k].code = c /\ pass'[k].todo \subseteq pass[k].todo
    BY <1>t, <2>1 DEF PassRecord
  <2>3. pass[k].todo \subseteq issued
    BY <2>1 DEF GhostInv
  <2>. QED  BY <1>t, <2>1, <2>2, <2>3
<1>8. CASE StoreFails(k)
  <2>1. \/ pass' = [pass EXCEPT ![k].pc = "empty"] \/ pass' = [pass EXCEPT ![k] = IdlePass]
        \/ /\ pass' = [pass EXCEPT ![k].pc = "expired"]
           /\ pass[k].pc = "deleteExpired" \/ pass[k].todo = {}
    BY <1>8 DEF StoreFails
  <2>2. \/ pass'[k].pc \in {"empty", "idle"}
        \/ /\ pass'[k].pc = "expired" /\ pass'[k].todo = pass[k].todo
           /\ pass[k].pc = "deleteExpired" \/ pass[k].todo = {}
    BY <1>t, <2>1, Idle DEF PassRecord, IdlePass
  <2>. QED  BY <2>2 DEF GhostInv
<1>. QED  BY <1>1, <1>2, <1>3, <1>4, <1>5, <1>6, <1>7, <1>8 DEF PassStep

\* Every step preserves it: the expiry of a code never changes, and a token lasts
\* until Lag after it.
LEMMA GhostStep == IInv /\ GhostInv /\ [Next]_vars => GhostInv'
<1>1. ASSUME IInv, GhostInv, Next, NEW k \in Cleaners
      PROVE  /\ pass'[k].pc \in {"expired", "deleteExpired"} => pass'[k].todo \subseteq issued'
             /\ pass'[k].pc = "deleteExpired" =>
                  /\ pass'[k].code \in issued'
                  /\ expires'[pass'[k].code] + Lag <= pass'[k].at => connected'[pass'[k].code] = {}
  <2>t. /\ TypeOK /\ TokenWithinRoom /\ pass[k].at \in Nat /\ pass[k].at <= now /\ now \in Nat /\ issued \subseteq Codes
        /\ expires \in [Codes -> Nat] /\ tokens \in [Codes -> [Clients -> Nat]] /\ issued \subseteq issued' /\ Lag \in Nat
    BY <1>1, IssuedRows, RoomsAssumption DEF IInv, TypeOK, DataTypes, ProcTypes, PassRecord, ClocksInv
  <2>1. CASE pass'[k] = pass[k]
    <3>1. pass[k].pc \in {"expired", "deleteExpired"} => pass[k].todo \subseteq issued
      BY <1>1 DEF GhostInv
    <3>2. ASSUME pass[k].pc = "deleteExpired"
          PROVE  /\ pass[k].code \in issued
                 /\ expires'[pass[k].code] + Lag <= pass[k].at => connected'[pass[k].code] = {}
      <4>1. PICK c : c = pass[k].code
        OBVIOUS
      <4>2. c \in issued /\ c \in Codes /\ (expires[c] + Lag <= pass[k].at => connected[c] = {})
        BY <1>1, <2>t, <3>2, <4>1 DEF GhostInv
      <4>3. expires'[c] = expires[c] /\ expires[c] \in Nat
        BY <1>1, <2>t, <4>2, IssuedRows
      <4>4. ASSUME expires[c] + Lag <= pass[k].at PROVE connected'[c] = {}
        <5>1. \A u \in Clients : tokens[c][u] <= now
          <6>1. ASSUME NEW u \in Clients PROVE tokens[c][u] <= now
            <7>1. tokens[c][u] <= expires[c] + Lag /\ tokens[c][u] \in Nat
              BY <2>t, <4>2 DEF TokenWithinRoom
            <7>. QED  BY <2>t, <4>3, <4>4, <7>1
          <6>. QED  BY <6>1
        <5>. QED  BY <1>1, <2>t, <4>2, <4>4, <5>1, StaysEmpty
      <4>. QED  BY <4>1, <4>2, <4>3, <4>4
    <3>. QED  BY <2>t, <2>1, <3>1, <3>2
  <2>2. CASE PassStep(k)
    BY <1>1, <2>t, <2>2, ExpiryPass
  <2>3. CASE Restart
    <3>1. pass'[k].pc = "idle"
      BY <2>3 DEF Restart, IdlePass
    <3>. QED  BY <3>1
  <2>4. ASSUME NEW j \in Cleaners, PassStep(j), j # k
        PROVE  pass'[k] = pass[k]
    BY <2>t, <2>4, PassRecords
  <2>5. ASSUME NEW r \in Reqs, RequestStep(r)
        PROVE  pass'[k] = pass[k]
    BY <2>t, <2>5, RequestRecords
  <2>6. CASE Tick \/ \E u \in Clients, c \in Codes : Connect(u, c) \/ Disconnect(u, c)
    BY <2>1, <2>6 DEF Tick, Connect, Disconnect
  <2>. QED  BY <1>1, <2>1, <2>2, <2>3, <2>4, <2>5, <2>6 DEF Next
<1>2. ASSUME GhostInv, UNCHANGED vars
      PROVE  GhostInv'
  BY <1>2 DEF GhostInv, vars, dbVars, lkVars
<1>. QED  BY <1>1, <1>2 DEF GhostInv

\* The row of an expired room goes only after everybody in it was disconnected,
\* and nobody comes back: LiveKit is told first, and the token of whoever had
\* joined ended with the room.
THEOREM NoGhosts == Spec => NoGhostAfterExpiry
<1>1. ASSUME IInv, GhostInv, Next
      PROVE  ExpiryStep
  <2>. SUFFICES ASSUME NEW c \in rooms \ rooms', NEW k \in Cleaners, pass[k].pc = "deleteExpired",
                       pass'[k].pc = "expired", expires[c] + Lag <= pass[k].at
                PROVE  connected[c] = {}
    BY DEF ExpiryStep
  <2>t. TypeOK
    BY <1>1 DEF IInv
  <2>1. PassStep(k)
    <3>1. ASSUME NEW j \in Cleaners, PassStep(j) PROVE j = k
      BY <2>t, <3>1, PassRecords
    <3>2. ASSUME NEW r \in Reqs, RequestStep(r) PROVE FALSE
      BY <2>t, <3>2, RequestRecords
    <3>3. ~Restart
      BY DEF Restart, IdlePass
    <3>. QED  BY <1>1, <3>1, <3>2, <3>3 DEF Next, Connect, Disconnect, Tick
  <2>2. c = pass[k].code
    BY <2>1 DEF PassStep, PassBegin, ListEmpty, TerminateListed, TerminateFails, DeleteEmptyRoom, ListExpired,
                DeleteExpiredRoom, DropRooms, DeleteInactiveUsers, StoreFails, dbVars
  <2>. QED  BY <1>1, <2>2 DEF GhostInv
<1>2. Init => GhostInv
  BY DEF Init, GhostInv, IdlePass
<1>3. IInv /\ GhostInv /\ [Next]_vars => [ExpiryStep]_vars
  BY <1>1
<1>. QED  BY <1>2, <1>3, GhostStep, Invariant, PTL DEF Spec, NoGhostAfterExpiry

=============================================================================
