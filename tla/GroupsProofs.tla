---------------------------- MODULE GroupsProofs ----------------------------
(***************************************************************************)
(* Proofs about groups for any number of accounts, groups, voice rooms and *)
(* requests in flight, any limits and durations and any lag.               *)
(***************************************************************************)
EXTENDS Groups, Sums, TLAPS

-----------------------------------------------------------------------------
(* Constants and records.                                                  *)

\* The workloads end: MaxTime is the latest of their ends.
LEMMA TimesEnd ==
    /\ MaxTime \in Nat /\ \A w \in Workloads : w.maxTime \in Nat /\ w.maxTime <= MaxTime
    /\ Times = 0 .. MaxTime /\ 0 \in Times /\ Times \subseteq Nat
  <1> DEFINE E == {w.maxTime : w \in Workloads}
             f == [w \in Workloads |-> w.maxTime]
  <1>1. \A w \in Workloads : w.maxTime \in Nat
    BY GroupsAssumption
  <1>2. Workloads # {} /\ IsFiniteSet(Workloads)
    BY GroupsAssumption
  <1>3. E \subseteq Nat /\ E # {}
    BY <1>1, <1>2
  <1>4. f \in Surjection(Workloads, E)
    BY DEF Surjection
  <1>5. IsFiniteSet(E)
    <2> HIDE DEF f, E
    <2> QED BY <1>2, <1>4, FS_Surjection
  <1>6. \E t \in E : \A x \in E : x <= t
    <2> HIDE DEF E
    <2> QED BY <1>3, <1>5, FiniteMax
  <1>7. MaxTime \in E /\ \A w \in Workloads : w.maxTime <= MaxTime
    <2>1. \E t \in E : \A w \in Workloads : w.maxTime <= t
      BY <1>6
    <2> QED BY <2>1 DEF MaxTime
  <1> QED BY <1>1, <1>3, <1>7 DEF Times

\* The other constants that steps compute with.
LEMMA Constants ==
    /\ Users # {} /\ Groups # {} /\ None \notin Groups /\ None \notin VoiceRooms /\ None \notin Users
    /\ Levels \in Nat \ {0} /\ \A i \in 1 .. Levels : Durations[i] \in Nat
    /\ InactiveAfter \in Nat /\ DeleteGrace \in Nat /\ Interval \in Nat /\ Lag \in Nat
    /\ \A w \in Workloads : w.users \subseteq Users
  BY GroupsAssumption

\* The idle request and the empty row.
LEMMA IdleTyped ==
    /\ AnyUser \in Users /\ IdleReq \in ReqRecord /\ IdleReq.pc = "idle" /\ NoRow \in Row
    /\ \A u \in Users, t \in Times : NewRow(u, t) \in Row /\ NewRow(u, t).owner = u
    /\ \A u \in Users, t \in Times : /\ NewRow(u, t).activity = t /\ NewRow(u, t).scheduled = 0
                                     /\ NewRow(u, t).until = 0
  <1>1. AnyUser \in Users /\ (CHOOSE g \in Groups : TRUE) \in Groups
    BY Constants DEF AnyUser
  <1>2. 0 \in Times /\ 0 \in 0 .. Levels
    BY TimesEnd, Constants
  <1>3. IdleReq \in ReqRecord /\ IdleReq.pc = "idle"
    BY <1>1, <1>2 DEF IdleReq, ReqRecord, ReqPC
  <1>4. \A u \in Users, t \in Times : NewRow(u, t) \in Row
    BY <1>2 DEF NewRow, Row
  <1> QED BY <1>1, <1>2, <1>3, <1>4 DEF NewRow, NoRow

-----------------------------------------------------------------------------
(* How requests move.                                                      *)

InVoice == {"voice.delete", "voice.enter", "voice.leave"}
After   == {"join.record", "join.evaluate", "join.isolate", "post"}

\* A request begins with what it has checked.
Begins(q) ==
    /\ q.at = now
    /\ \/ q.pc = "join.member" /\ q.group \in live /\ (q.isolated \/ row[q.group].until <= now)
       \/ q.pc \in {"attack.isolate", "post", "voice.create"}
       \/ q.pc = "leave" /\ q.user \in members[q.group] /\ row[q.group].owner # q.user
       \/ q.pc = "remove" /\ q.group \in live /\ row[q.group].owner = q.user /\ q.target # q.user
       \/ q.pc = "delete" /\ q.group \in live /\ row[q.group].owner = q.user
       \/ q.pc \in InVoice /\ q.target \in VoiceRooms

\* A request goes on with its account, its group and its clock.
GoesOn(a, q) ==
    /\ a.pc # "idle" /\ q.user = a.user /\ q.group = a.group /\ q.at = a.at
    /\ \/ a.pc = "join.member" /\ q.pc = "join.insert" /\ (q.already \/ ~a.isolated)
       \/ q.pc \in After

Succeeds(a, q) == q = IdleReq \/ (a.pc = "idle" /\ Begins(q)) \/ GoesOn(a, q)

\* Request r moves, and no other.
Moves(r) == \E q \in ReqRecord : req' = [req EXCEPT ![r] = q] /\ Succeeds(req[r], q)

\* The parts of a request.
LEMMA ReqParts ==
    ASSUME TypeOK, NEW r \in Reqs
    PROVE  /\ req \in [Reqs -> ReqRecord] /\ req[r] \in ReqRecord /\ req[r].pc \in ReqPC
           /\ req[r].user \in Users /\ req[r].group \in Groups /\ req[r].at \in Times /\ req[r].at \in Nat
           /\ req[r].who \in SUBSET Users /\ now \in Times /\ now \in Nat
  BY TimesEnd DEF TypeOK, ReqRecord

\* A request ends.
LEMMA Ends ==
    ASSUME NEW r \in Reqs, Done(r)
    PROVE  Moves(r)
  BY IdleTyped DEF Done, Moves, Succeeds

\* A request that only goes to another place.
LEMMA Goes ==
    ASSUME TypeOK, NEW r \in Reqs, NEW pc \in After, Goto(r, pc), req[r].pc # "idle"
    PROVE  Moves(r)
  <1> DEFINE q == [req[r] EXCEPT !.pc = pc]
  <1>1. req[r] \in ReqRecord /\ req \in [Reqs -> ReqRecord]
    BY ReqParts
  <1>2. req' = [req EXCEPT ![r] = q]
    BY <1>1 DEF Goto
  <1>3. /\ q \in ReqRecord /\ q.pc = pc /\ q.user = req[r].user /\ q.group = req[r].group /\ q.at = req[r].at
    BY <1>1 DEF ReqRecord, ReqPC, After
  <1> HIDE DEF q
  <1> QED BY <1>2, <1>3 DEF Moves, Succeeds, GoesOn

\* A request starts.
LEMMA Starts ==
    ASSUME TypeOK, NEW r \in Reqs, NEW op, NEW pc \in ReqPC, NEW u \in Users, NEW g \in Groups,
           NEW t \in Users \cup VoiceRooms \cup {None}, Start(r, op, pc, u, g, t),
           \/ pc \in {"post", "voice.create"}
           \/ pc = "leave" /\ u \in members[g] /\ row[g].owner # u
           \/ pc = "remove" /\ g \in live /\ row[g].owner = u /\ t # u
           \/ pc = "delete" /\ g \in live /\ row[g].owner = u
           \/ pc \in InVoice /\ t \in VoiceRooms
    PROVE  Moves(r)
  <1> DEFINE q == [IdleReq EXCEPT !.pc = pc, !.user = u, !.group = g, !.target = t, !.at = now]
  <1>1. req' = [req EXCEPT ![r] = q] /\ req[r].pc = "idle"
    BY DEF Start, At
  <1>2. q \in ReqRecord /\ q.pc = pc /\ q.user = u /\ q.group = g /\ q.target = t /\ q.at = now
    <2>1. now \in Times
      BY DEF TypeOK
    <2> QED BY <2>1, IdleTyped DEF ReqRecord
  <1> HIDE DEF q
  <1> QED BY <1>1, <1>2 DEF Moves, Succeeds, Begins

\* Requests begin.
LEMMA StartMoves ==
    ASSUME TypeOK, NEW r \in Reqs, NEW u \in Users, RequestStart(r, u)
    PROVE  Moves(r)
  <1>t. now \in Times /\ voice \in [VoiceRooms -> live \cup {None}] /\ live \subseteq Groups /\ row \in [Groups -> Row]
    BY DEF TypeOK
  <1>1. ASSUME NEW g \in Groups, NEW byInvite \in BOOLEAN, JoinRead(r, g, u, byInvite) PROVE Moves(r)
    <2> DEFINE i == Isolated(g)
               q == [IdleReq EXCEPT !.pc = "join.member", !.user = u, !.group = g, !.at = now, !.isolated = i]
    <2>1. req' = [req EXCEPT ![r] = q] /\ req[r].pc = "idle" /\ g \in live
      BY <1>1 DEF JoinRead, At
    <2>2. i \in BOOLEAN /\ (i \/ row[g].until <= now)
      <3>1. now \in Nat /\ row[g].until \in Nat
        BY <1>t, TimesEnd DEF Row
      <3> QED BY <3>1 DEF Isolated
    <2> HIDE DEF i
    <2>3. q \in ReqRecord /\ q.pc = "join.member" /\ q.group = g /\ q.at = now /\ q.isolated = i
      BY <1>t, <2>2, IdleTyped DEF ReqRecord, ReqPC
    <2> HIDE DEF q
    <2> QED BY <2>1, <2>2, <2>3 DEF Moves, Succeeds, Begins
  <1>2. ASSUME NEW g \in Groups, MessageAttack(r, g, u) PROVE Moves(r)
    <2> DEFINE q == [IdleReq EXCEPT !.pc = "attack.isolate", !.user = u, !.group = g, !.at = now, !.who = {u}]
    <2>1. req' = [req EXCEPT ![r] = q] /\ req[r].pc = "idle"
      BY <1>2 DEF MessageAttack, At
    <2>2. q \in ReqRecord /\ q.pc = "attack.isolate" /\ q.at = now
      BY <1>t, IdleTyped DEF ReqRecord, ReqPC
    <2> HIDE DEF q
    <2> QED BY <2>1, <2>2 DEF Moves, Succeeds, Begins
  <1>3. ASSUME NEW g \in Groups,
               SendStart(r, g, u) \/ LeaveCheck(r, g, u) \/ DeleteCheck(r, g, u) \/ CreateVoiceCheck(r, g, u)
        PROVE  Moves(r)
    <2>1. {"post", "leave", "delete", "voice.create"} \subseteq ReqPC
      BY DEF ReqPC
    <2> QED BY <1>3, <2>1, Starts DEF SendStart, LeaveCheck, DeleteCheck, CreateVoiceCheck
  <1>4. ASSUME NEW g \in Groups, NEW t \in Users, RemoveCheck(r, g, u, t) PROVE Moves(r)
    BY <1>4, Starts DEF RemoveCheck, ReqPC
  <1>5. ASSUME NEW v \in VoiceRooms, DeleteVoiceCheck(r, v, u) \/ JoinVoiceCheck(r, v, u) \/ LeaveVoiceCheck(r, v, u)
        PROVE  Moves(r)
    <2>1. voice[v] \in Groups
      BY <1>5, <1>t DEF DeleteVoiceCheck, JoinVoiceCheck, LeaveVoiceCheck
    <2>2. \E pc \in InVoice : Start(r, "voice", pc, u, voice[v], v)
      BY <1>5 DEF DeleteVoiceCheck, JoinVoiceCheck, LeaveVoiceCheck, InVoice
    <2>3. InVoice \subseteq ReqPC
      BY DEF InVoice, ReqPC
    <2> QED BY <2>1, <2>2, <2>3, Starts
  <1> QED BY <1>1, <1>2, <1>3, <1>4, <1>5 DEF RequestStart

\* Requests go on and end.
LEMMA EndMoves ==
    ASSUME TypeOK, NEW r \in Reqs, RequestEnd(r)
    PROVE  Moves(r)
  <1>t. TypeOK /\ req[r] \in ReqRecord /\ req \in [Reqs -> ReqRecord]
    BY ReqParts
  <1>1. CASE JoinMember(r)
    <2>1. CASE Done(r)
      BY <2>1, Ends
    <2>2. CASE ~Done(r)
      <3>1. PICK y \in BOOLEAN : y <=> req[r].user \in members[req[r].group]
        <4>1. (req[r].user \in members[req[r].group]) \/ ~(req[r].user \in members[req[r].group])
          OBVIOUS
        <4> QED BY <4>1
      <3>2. req' = [req EXCEPT ![r].pc = "join.insert", ![r].already = y] /\ (y \/ ~req[r].isolated)
        BY <1>1, <2>2, <3>1 DEF JoinMember
      <3> DEFINE q == [req[r] EXCEPT !.pc = "join.insert", !.already = y]
      <3>3. req' = [req EXCEPT ![r] = q]
        BY <1>t, <3>2
      <3>4. /\ q \in ReqRecord /\ q.pc = "join.insert" /\ q.already = y
            /\ q.user = req[r].user /\ q.group = req[r].group /\ q.at = req[r].at
        BY <1>t DEF ReqRecord, ReqPC
      <3> HIDE DEF q
      <3>5. req[r].pc = "join.member"
        BY <1>1 DEF JoinMember, At
      <3> QED BY <3>2, <3>3, <3>4, <3>5 DEF Moves, Succeeds, GoesOn
    <2> QED BY <2>1, <2>2
  <1>2. CASE EvaluateJoinAttack(r)
    <2>0. PICK W : W = JoinAttackCandidates(req[r].group)
      OBVIOUS
    <2>1. PICK pc \in {"post", "join.isolate"} : req' = [req EXCEPT ![r].pc = pc, ![r].who = W]
      BY <1>2, <2>0 DEF EvaluateJoinAttack
    <2>2. W \in SUBSET Users
      <3>1. young \subseteq Users /\ W \subseteq young
        BY <2>0 DEF TypeOK, JoinAttackCandidates
      <3> QED BY <3>1
    <2> DEFINE q == [req[r] EXCEPT !.pc = pc, !.who = W]
    <2>3. req' = [req EXCEPT ![r] = q]
      BY <1>t, <2>1
    <2>4. /\ q \in ReqRecord /\ q.pc = pc
          /\ q.user = req[r].user /\ q.group = req[r].group /\ q.at = req[r].at
      BY <1>t, <2>1, <2>2 DEF ReqRecord, ReqPC
    <2> HIDE DEF q
    <2>5. req[r].pc = "join.evaluate"
      BY <1>2 DEF EvaluateJoinAttack, At
    <2> QED BY <2>1, <2>3, <2>4, <2>5 DEF Moves, Succeeds, GoesOn, After
  <1>3. CASE \/ JoinGroup(r) \/ (\E ip \in IPs : RecordJoinEvent(r, ip)) \/ IsolateGroup(r) \/ LeaveGroup(r)
             \/ RemoveGroupMember(r)
    <2>1. req[r].pc # "idle" /\ (Done(r) \/ \E pc \in After : Goto(r, pc))
      BY <1>3 DEF JoinGroup, RecordJoinEvent, IsolateGroup, LeaveGroup, RemoveGroupMember, At, After
    <2> QED BY <1>t, <2>1, Ends, Goes
  <1>4. CASE \/ Post(r) \/ DeleteGroup(r) \/ CreateVoiceRoom(r) \/ DeleteVoiceRoom(r) \/ EnterVoice(r)
             \/ LeaveVoice(r) \/ Abort(r)
    <2>1. Done(r)
      BY <1>4 DEF Post, DeleteGroup, CreateVoiceRoom, DeleteVoiceRoom, EnterVoice, LeaveVoice, Abort
    <2> QED BY <2>1, Ends
  <1> QED BY <1>1, <1>2, <1>3, <1>4 DEF RequestEnd

\* What a step does to a request.
LEMMA ReqStep ==
    ASSUME TypeOK, [Next]_vars
    PROVE  /\ req' \in [Reqs -> ReqRecord]
           /\ \A x \in Reqs : req'[x] = req[x] \/ (Succeeds(req[x], req'[x]) /\ now' = now)
  <1>t. req \in [Reqs -> ReqRecord]
    BY DEF TypeOK
  <1>1. ASSUME NEW r \in Reqs, Moves(r), now' = now
        PROVE  /\ req' \in [Reqs -> ReqRecord]
               /\ \A x \in Reqs : req'[x] = req[x] \/ (Succeeds(req[x], req'[x]) /\ now' = now)
    BY <1>1, <1>t DEF Moves
  <1>2. ASSUME NEW r \in Reqs, RequestEnd(r) PROVE now' = now
    BY <1>2 DEF RequestEnd, JoinMember, EvaluateJoinAttack, JoinGroup, RecordJoinEvent, IsolateGroup, LeaveGroup,
        RemoveGroupMember, Post, DeleteGroup, CreateVoiceRoom, DeleteVoiceRoom, EnterVoice, LeaveVoice, Abort,
        ReadOnly, Env
  <1>3. ASSUME NEW r \in Reqs, NEW u \in Users, RequestStart(r, u) PROVE now' = now
    BY <1>3 DEF RequestStart, JoinRead, MessageAttack, SendStart, LeaveCheck, DeleteCheck, CreateVoiceCheck,
        RemoveCheck, DeleteVoiceCheck, JoinVoiceCheck, LeaveVoiceCheck, ReadOnly, Env
  <1>4. CASE \/ \E u \in Users : (\E g \in Groups : CreateGroup(u, g)) \/ DeleteUser(u) \/ GrowOld(u)
             \/ (\E g \in Groups : NotFound(g)) \/ Cleanup \/ CleanupFails \/ DeleteInactiveGroupsNow
             \/ Tick \/ UNCHANGED vars
    <2>1. req' = req
      BY <1>4 DEF CreateGroup, DeleteUser, GrowOld, NotFound, Cleanup, CleanupFails, InactiveGroupCandidates,
          ScheduleInactiveGroups, DeleteScheduledGroups, DeleteInactiveGroupsNow, Tick, vars
    <2> QED BY <1>t, <2>1
  <1> QED BY <1>1, <1>2, <1>3, <1>4, StartMoves, EndMoves DEF Next

-----------------------------------------------------------------------------
(* Which steps write which tables.                                         *)

Creates == \E u \in Users, g \in Groups : CreateGroup(u, g)
Drops   == \/ \E r \in Reqs : DeleteGroup(r)
           \/ DeleteScheduledGroups \/ DeleteInactiveGroupsNow \/ \E u \in Users : DeleteUser(u)

Writes ==
    /\ load' = load
    /\ now' = now \/ Tick
    /\ UNCHANGED young \/ \E u \in Users : GrowOld(u)
    /\ UNCHANGED users \/ \E u \in Users : DeleteUser(u)
    /\ UNCHANGED live \/ Drops \/ Creates
    /\ UNCHANGED fresh \/ Creates \/ \E r \in Reqs : CreateVoiceRoom(r)
    /\ UNCHANGED row \/ Drops \/ Creates \/ (\E r \in Reqs : IsolateGroup(r) \/ Post(r)) \/ ScheduleInactiveGroups
    /\ UNCHANGED cleaner \/ Cleanup \/ CleanupFails
    /\ UNCHANGED announced \/ ScheduleInactiveGroups
    /\ UNCHANGED newest \/ Creates \/ \E r \in Reqs : Post(r)

WritesToo ==
    /\ \/ UNCHANGED members \/ Drops \/ Creates
       \/ \E r \in Reqs : JoinGroup(r) \/ IsolateGroup(r) \/ LeaveGroup(r) \/ RemoveGroupMember(r)
    /\ UNCHANGED joins \/ Drops \/ Tick \/ \E r \in Reqs, ip \in IPs : RecordJoinEvent(r, ip)
    /\ UNCHANGED voice \/ Drops \/ \E r \in Reqs : CreateVoiceRoom(r) \/ DeleteVoiceRoom(r)
    /\ \/ UNCHANGED inside \/ Drops
       \/ \E r \in Reqs : \/ IsolateGroup(r) \/ RemoveGroupMember(r) \/ DeleteVoiceRoom(r)
                          \/ EnterVoice(r) \/ LeaveVoice(r)

\* The steps of a request.
LEMMA RequestWrites ==
    ASSUME NEW r \in Reqs, RequestEnd(r) \/ \E u \in Users : RequestStart(r, u)
    PROVE  Writes /\ WritesToo
  <1>1. CASE \E u \in Users : RequestStart(r, u)
    <2>1. ReadOnly
      BY <1>1 DEF RequestStart, JoinRead, MessageAttack, SendStart, LeaveCheck, DeleteCheck, CreateVoiceCheck,
          RemoveCheck, DeleteVoiceCheck, JoinVoiceCheck, LeaveVoiceCheck
    <2> QED BY <2>1 DEF ReadOnly, Env, rows, Ghost, Writes, WritesToo
  <1>2. CASE JoinMember(r) \/ EvaluateJoinAttack(r) \/ Abort(r)
    BY <1>2 DEF JoinMember, EvaluateJoinAttack, Abort, ReadOnly, Env, rows, Ghost, Writes, WritesToo
  <1>3. CASE JoinGroup(r) \/ LeaveGroup(r)
    <2>1. UNCHANGED <<now, load, users, young, fresh, live, row, joins, voice, inside, cleaner, announced, newest>>
      BY <1>3 DEF JoinGroup, LeaveGroup, Env, Ghost
    <2> QED BY <1>3, <2>1 DEF Writes, WritesToo
  <1>4. ASSUME NEW ip \in IPs, RecordJoinEvent(r, ip) PROVE Writes /\ WritesToo
    <2>1. UNCHANGED <<now, load, users, young, fresh, live, row, members, voice, inside, cleaner, announced, newest>>
      BY <1>4 DEF RecordJoinEvent, Env, Ghost
    <2> QED BY <1>4, <2>1 DEF Writes, WritesToo
  <1>5. CASE IsolateGroup(r)
    <2>1. UNCHANGED <<now, load, users, young, fresh, live, joins, voice, cleaner, announced, newest>>
      BY <1>5 DEF IsolateGroup, Env, Ghost
    <2> QED BY <1>5, <2>1 DEF Writes, WritesToo
  <1>6. CASE Post(r)
    <2>1. UNCHANGED <<now, load, users, young, fresh, live, members, joins, voice, inside, cleaner, announced>>
      BY <1>6 DEF Post, Env
    <2> QED BY <1>6, <2>1 DEF Writes, WritesToo
  <1>7. CASE RemoveGroupMember(r)
    <2>1. UNCHANGED <<now, load, users, young, fresh, live, row, joins, voice, cleaner, announced, newest>>
      BY <1>7 DEF RemoveGroupMember, Env, Ghost
    <2> QED BY <1>7, <2>1 DEF Writes, WritesToo
  <1>8. CASE DeleteGroup(r)
    <2>1. UNCHANGED <<now, load, users, young, fresh, cleaner, announced, newest>>
      BY <1>8 DEF DeleteGroup, Env, Ghost
    <2> QED BY <1>8, <2>1 DEF Writes, WritesToo, Drops
  <1>9. CASE CreateVoiceRoom(r)
    <2>1. UNCHANGED <<now, load, users, young, live, row, members, joins, inside, cleaner, announced, newest>>
      BY <1>9 DEF CreateVoiceRoom, Env, Ghost
    <2> QED BY <1>9, <2>1 DEF Writes, WritesToo
  <1>10. CASE DeleteVoiceRoom(r)
    <2>1. UNCHANGED <<now, load, users, young, fresh, live, row, members, joins, cleaner, announced, newest>>
      BY <1>10 DEF DeleteVoiceRoom, Env, Ghost
    <2> QED BY <1>10, <2>1 DEF Writes, WritesToo
  <1>11. CASE EnterVoice(r) \/ LeaveVoice(r)
    <2>1. UNCHANGED <<now, load, users, young, fresh, live, row, members, joins, voice, cleaner, announced, newest>>
      BY <1>11 DEF EnterVoice, LeaveVoice, Env, Ghost
    <2> QED BY <1>11, <2>1 DEF Writes, WritesToo
  <1> QED BY <1>1, <1>2, <1>3, <1>4, <1>5, <1>6, <1>7, <1>8, <1>9, <1>10, <1>11 DEF RequestEnd

\* Every step.
LEMMA StepWrites == [Next]_vars => Writes /\ WritesToo
  <1> SUFFICES ASSUME [Next]_vars PROVE Writes /\ WritesToo
    OBVIOUS
  <1>1. CASE Creates
    <2>1. UNCHANGED <<now, load, users, young, joins, voice, inside, cleaner, announced>>
      BY <1>1 DEF Creates, CreateGroup, Env
    <2> QED BY <1>1, <2>1 DEF Writes, WritesToo
  <1>2. CASE DeleteScheduledGroups \/ DeleteInactiveGroupsNow
    <2>1. UNCHANGED <<now, load, users, young, fresh, announced, newest>> /\ Drops
      BY <1>2 DEF DeleteScheduledGroups, DeleteInactiveGroupsNow, Env, Ghost, Drops
    <2>2. UNCHANGED cleaner \/ Cleanup
      BY <1>2 DEF DeleteInactiveGroupsNow, Cleanup
    <2> QED BY <2>1, <2>2 DEF Writes, WritesToo
  <1>3. ASSUME NEW u \in Users, DeleteUser(u) PROVE Writes /\ WritesToo
    <2>1. UNCHANGED <<now, load, young, fresh, cleaner, announced, newest>> /\ Drops
      BY <1>3 DEF DeleteUser, Ghost, Drops
    <2> QED BY <1>3, <2>1 DEF Writes, WritesToo
  <1>4. ASSUME NEW u \in Users, GrowOld(u) PROVE Writes /\ WritesToo
    BY <1>4 DEF GrowOld, rows, Ghost, Writes, WritesToo
  <1>5. CASE InactiveGroupCandidates
    <2>1. UNCHANGED <<now, load, users, young, fresh, live, row, members, joins, voice, inside, announced, newest>>
      BY <1>5 DEF InactiveGroupCandidates, Env, rows, Ghost
    <2> QED BY <1>5, <2>1 DEF Writes, WritesToo, Cleanup
  <1>6. CASE ScheduleInactiveGroups
    <2>1. UNCHANGED <<now, load, users, young, fresh, live, members, joins, voice, inside, newest>>
      BY <1>6 DEF ScheduleInactiveGroups, Env
    <2> QED BY <1>6, <2>1 DEF Writes, WritesToo, Cleanup
  <1>7. CASE Tick
    <2>1. UNCHANGED <<load, users, young, fresh, live, row, members, voice, inside, cleaner, announced, newest>>
      BY <1>7 DEF Tick, Ghost
    <2> QED BY <1>7, <2>1 DEF Writes, WritesToo
  <1>8. CASE UNCHANGED vars \/ \E g \in Groups : NotFound(g)
    BY <1>8 DEF vars, NotFound, Writes, WritesToo
  <1>9. CASE CleanupFails
    BY <1>9 DEF CleanupFails, Env, rows, Ghost, Writes, WritesToo
  <1> QED BY <1>1, <1>2, <1>3, <1>4, <1>5, <1>6, <1>7, <1>8, <1>9, RequestWrites DEF Next, Creates, Cleanup

\* An isolation takes suspects out of the group, and out of its voice rooms
\* unless a statement fails.
LEMMA Isolates ==
    ASSUME NEW r \in Reqs, IsolateGroup(r)
    PROVE  \E g, out, silent :
              /\ g = req[r].group /\ out \subseteq Removed(g, req[r].who) /\ silent \subseteq out
              /\ "fault" \in load.ops \/ silent = out
              /\ \/ members' = members /\ inside' = inside
                 \/ members' = [members EXCEPT ![g] = members[g] \ out] /\ inside' = WithoutVoice(g, silent)
  <1>1. PICK g : g = req[r].group
    OBVIOUS
  <1>2. CASE g \in live
    <2>1. PICK out \in SUBSET Removed(g, req[r].who) : \E silent \in SUBSET out :
             /\ "fault" \in load.ops \/ (out = Removed(g, req[r].who) /\ silent = Removed(g, req[r].who))
             /\ members' = [members EXCEPT ![g] = members[g] \ out] /\ inside' = WithoutVoice(g, silent)
      BY <1>1, <1>2 DEF IsolateGroup
    <2> QED BY <1>1, <2>1
  <1>3. CASE g \notin live
    <2>1. members' = members /\ inside' = inside
      BY <1>1, <1>3 DEF IsolateGroup
    <2>2. {} \subseteq Removed(g, req[r].who)
      OBVIOUS
    <2> QED BY <1>1, <2>1, <2>2
  <1> QED BY <1>2, <1>3

\* What disappears takes along what refers to it, and an account its groups.
LEMMA DropsGone ==
    ASSUME Drops
    PROVE  \E G, U : /\ Gone(G, U) /\ users' = users \ U /\ UNCHANGED <<now, fresh, announced, newest>>
                     /\ \A g \in live \ G : row[g].owner \notin U
  <1>1. ASSUME NEW G, Gone(G, {}), UNCHANGED <<now, users, fresh, announced, newest>>
        PROVE  \E X, U : /\ Gone(X, U) /\ users' = users \ U /\ UNCHANGED <<now, fresh, announced, newest>>
                         /\ \A g \in live \ X : row[g].owner \notin U
    <2>1. users' = users \ {}
      BY <1>1
    <2> QED BY <1>1, <2>1
  <1>2. ASSUME NEW u \in Users, DeleteUser(u)
        PROVE  \E X, U : /\ Gone(X, U) /\ users' = users \ U /\ UNCHANGED <<now, fresh, announced, newest>>
                         /\ \A g \in live \ X : row[g].owner \notin U
    <2>1. PICK X : X = {g \in live : row[g].owner = u}
      OBVIOUS
    <2>2. Gone(X, {u}) /\ users' = users \ {u} /\ UNCHANGED <<now, fresh, announced, newest>>
      BY <1>2, <2>1 DEF DeleteUser, Ghost
    <2>3. \A g \in live \ X : row[g].owner \notin {u}
      BY <2>1
    <2> QED BY <2>2, <2>3
  <1>3. CASE (\E r \in Reqs : DeleteGroup(r)) \/ DeleteScheduledGroups \/ DeleteInactiveGroupsNow
    <2>1. UNCHANGED <<now, users, fresh, announced, newest>> /\ \E G : Gone(G, {})
      BY <1>3 DEF DeleteGroup, DeleteScheduledGroups, DeleteInactiveGroupsNow, Env, Ghost
    <2> QED BY <1>1, <2>1
  <1> QED BY <1>2, <1>3 DEF Drops

-----------------------------------------------------------------------------
(* Types.                                                                  *)

\* Requests and the cleanup pass take no longer than Lag; who asked for a voice
\* room named one; a group that is gone has no members.
OnTime    == \A r \in Reqs : req[r].pc # "idle" => req[r].at <= now /\ now <= req[r].at + Lag
HasRoom   == \A r \in Reqs : req[r].pc \in InVoice => req[r].target \in VoiceRooms
CleanerOK == cleaner.at <= now /\ (cleaner.pc # "idle" => now <= cleaner.at + Lag)
Empty     == \A g \in Groups \ live : members[g] = {}

TInv == TypeOK /\ OnTime /\ HasRoom /\ CleanerOK /\ Empty

\* NextLevel stays on the ladder.
LEMMA LevelTyped ==
    ASSUME TypeOK, NEW g \in Groups
    PROVE  NextLevel(g) \in 1 .. Levels /\ Durations[NextLevel(g)] \in Nat
  <1>1. row[g].level \in 0 .. Levels /\ Levels \in Nat \ {0}
    BY Constants DEF TypeOK, Row
  <1>2. NextLevel(g) \in 1 .. Levels
    BY <1>1 DEF NextLevel
  <1> QED BY <1>2, Constants

\* The clock, accounts, groups and the cleanup.
LEMMA LiveTyped ==
    ASSUME TInv, [Next]_vars
    PROVE  /\ now' \in Times /\ load' \in Workloads /\ users' \subseteq Users /\ young' \subseteq Users
           /\ fresh' \subseteq fresh /\ live' \subseteq Groups /\ live' \cap fresh' = {}
           /\ now' \in {now, now + 1} /\ users' \subseteq users
  <1>t. /\ TypeOK /\ now \in Times /\ load \in Workloads /\ users \subseteq Users /\ young \subseteq Users
        /\ live \subseteq Groups /\ live \cap fresh = {}
    BY DEF TInv, TypeOK
  <1>1. load' \in Workloads
    BY <1>t, StepWrites DEF Writes
  <1>2. now' \in Times /\ now' \in {now, now + 1}
    <2>1. CASE Tick
      <3>1. now' = now + 1 /\ now < load.maxTime /\ load.maxTime <= MaxTime /\ load.maxTime \in Nat /\ MaxTime \in Nat
        BY <1>t, <2>1, TimesEnd DEF Tick
      <3> QED BY <1>t, <3>1, TimesEnd
    <2> QED BY <1>t, <2>1, StepWrites DEF Writes
  <1>3. users' \subseteq users /\ young' \subseteq young
    BY StepWrites DEF Writes, DeleteUser, GrowOld
  <1>4. CASE Creates
    <2>1. PICK u \in Users, g \in Groups : CreateGroup(u, g)
      BY <1>4 DEF Creates
    <2>2. fresh' = fresh \ {g} /\ live' = live \cup {g}
      BY <2>1 DEF CreateGroup
    <2> QED BY <1>t, <1>1, <1>2, <1>3, <2>2
  <1>5. CASE ~Creates
    <2>1. live' \subseteq live
      BY <1>5, DropsGone, StepWrites DEF Writes, Gone
    <2>2. fresh' \subseteq fresh
      BY <1>5, StepWrites DEF Writes, CreateVoiceRoom
    <2> QED BY <1>t, <1>1, <1>2, <1>3, <2>1, <2>2
  <1> QED BY <1>4, <1>5

\* The columns of groups.
LEMMA RowTyped ==
    ASSUME TInv, [Next]_vars
    PROVE  row' \in [Groups -> Row]
  <1>t. TypeOK /\ row \in [Groups -> Row] /\ now \in Times /\ now \in Nat /\ Times \subseteq Nat
    BY TimesEnd DEF TInv, TypeOK
  <1>1. CASE Drops
    <2>1. PICK G : row' = [g \in Groups |-> IF g \in G THEN NoRow ELSE row[g]]
      BY <1>1, DropsGone DEF Gone
    <2> QED BY <1>t, <2>1, IdleTyped
  <1>2. CASE Creates
    <2>1. PICK u \in Users, g \in Groups : row' = [row EXCEPT ![g] = NewRow(u, now)]
      BY <1>2 DEF Creates, CreateGroup
    <2> QED BY <1>t, <2>1, IdleTyped
  <1>3. ASSUME NEW r \in Reqs, IsolateGroup(r) PROVE row' \in [Groups -> Row]
    <2>1. PICK g \in Groups : g = req[r].group
      BY <1>t, ReqParts
    <2>2. PICK n \in 1 .. Levels : n = NextLevel(g) /\ Durations[n] \in Nat
      BY <1>t, LevelTyped
    <2>3. row' = row \/ row' = [row EXCEPT ![g].until = now + Durations[n], ![g].level = n, ![g].raised = now]
      BY <1>3, <2>1, <2>2 DEF IsolateGroup
    <2>4. PICK x : x = [row[g] EXCEPT !.until = now + Durations[n], !.level = n, !.raised = now]
      OBVIOUS
    <2>5. x \in Row
      <3>1. row[g] \in Row /\ now + Durations[n] \in Nat /\ n \in 0 .. Levels
        BY <1>t, <2>2, Constants
      <3> QED BY <1>t, <2>4, <3>1 DEF Row
    <2>6. row' = row \/ row' = [row EXCEPT ![g] = x]
      BY <1>t, <2>3, <2>4
    <2> QED BY <1>t, <2>5, <2>6
  <1>4. ASSUME NEW r \in Reqs, Post(r) PROVE row' \in [Groups -> Row]
    <2>1. PICK g \in Groups, t \in req[r].at .. now : row' = row \/ Touch(g, t)
      BY <1>4, <1>t, ReqParts DEF Post, AddMessage
    <2>2. t \in Times
      BY <1>t, <2>1, ReqParts, TimesEnd
    <2>3. PICK x : x = [row[g] EXCEPT !.activity = t, !.scheduled = 0]
      OBVIOUS
    <2>4. x \in Row
      BY <1>t, <2>2, <2>3 DEF Row
    <2>5. row' = row \/ row' = [row EXCEPT ![g] = x]
      BY <1>t, <2>1, <2>3 DEF Touch
    <2> QED BY <1>t, <2>4, <2>5
  <1>5. CASE ScheduleInactiveGroups
    <2>1. PICK B, n : /\ n = cleaner.at + DeleteGrace
                      /\ row' = [g \in Groups |-> IF g \in B THEN [row[g] EXCEPT !.scheduled = n] ELSE row[g]]
      BY <1>5 DEF ScheduleInactiveGroups
    <2>2. n \in Nat
      BY <1>t, <2>1, Constants DEF TypeOK
    <2>3. ASSUME NEW g \in Groups PROVE row'[g] \in Row
      <3>1. [row[g] EXCEPT !.scheduled = n] \in Row
        BY <1>t, <2>2 DEF Row
      <3> QED BY <1>t, <2>1, <3>1
    <2> QED BY <2>1, <2>3
  <1> QED BY <1>t, <1>1, <1>2, <1>3, <1>4, <1>5, StepWrites DEF Writes

\* Members are accounts, and of groups that exist.
LEMMA MembersTyped ==
    ASSUME TInv, [Next]_vars
    PROVE  members' \in [Groups -> SUBSET users'] /\ Empty'
  <1>t. /\ TypeOK /\ members \in [Groups -> SUBSET users] /\ Empty /\ users \subseteq Users
        /\ \A g \in Groups \ live : members[g] = {}
    BY DEF TInv, TypeOK, Empty
  <1>1. CASE Drops
    <2>1. PICK G, U : Gone(G, U) /\ users' = users \ U
      BY <1>1, DropsGone
    <2>2. members' = [g \in Groups |-> IF g \in G THEN {} ELSE members[g] \ U] /\ live' = live \ G
      BY <2>1 DEF Gone
    <2>3. members' \in [Groups -> SUBSET users']
      BY <1>t, <2>1, <2>2
    <2>4. \A g \in Groups \ live' : members'[g] = {}
      BY <1>t, <2>2
    <2> QED BY <2>3, <2>4 DEF Empty
  <1>2. CASE Creates
    <2>1. PICK u \in users, g \in Groups : members' = [members EXCEPT ![g] = {u}] /\ live' = live \cup {g} /\ users' = users
      BY <1>2 DEF Creates, CreateGroup, Env
    <2> QED BY <1>t, <2>1 DEF Empty
  <1>3. ASSUME NEW r \in Reqs, JoinGroup(r) PROVE members' \in [Groups -> SUBSET users'] /\ Empty'
    <2>1. PICK g \in Groups, u \in Users : g = req[r].group /\ u = req[r].user
      BY <1>t, ReqParts
    <2>2. /\ members' = [members EXCEPT ![g] = IF g \in live /\ u \in users THEN @ \cup {u} ELSE @]
          /\ live' = live /\ users' = users
      BY <1>3, <2>1 DEF JoinGroup, Env
    <2> QED BY <1>t, <2>2 DEF Empty
  <1>4. ASSUME NEW r \in Reqs, IsolateGroup(r) \/ LeaveGroup(r) \/ RemoveGroupMember(r)
        PROVE  members' \in [Groups -> SUBSET users'] /\ Empty'
    <2>1. PICK g \in Groups : g = req[r].group
      BY <1>t, ReqParts
    <2>2. live' = live /\ users' = users
      BY <1>4 DEF IsolateGroup, LeaveGroup, RemoveGroupMember, Env
    <2>3. members' = members \/ \E M : members' = [members EXCEPT ![g] = @ \ M]
      BY <1>4, <2>1, Isolates DEF LeaveGroup, RemoveGroupMember
    <2> QED BY <1>t, <2>2, <2>3 DEF Empty
  <1>5. ASSUME UNCHANGED <<members, live, users>> PROVE members' \in [Groups -> SUBSET users'] /\ Empty'
    BY <1>5, <1>t DEF Empty
  <1>6. UNCHANGED <<live, users>> \/ Drops \/ Creates
    BY StepWrites DEF Writes, Drops
  <1> QED BY <1>1, <1>2, <1>3, <1>4, <1>5, <1>6, StepWrites DEF WritesToo

\* Join events.
LEMMA JoinsTyped ==
    ASSUME TInv, [Next]_vars
    PROVE  joins' \subseteq JoinEvent
  <1>t. TypeOK /\ joins \subseteq JoinEvent
    BY DEF TInv, TypeOK
  <1>1. CASE Drops
    BY <1>t, <1>1, DropsGone DEF Gone
  <1>2. CASE Tick
    BY <1>t, <1>2 DEF Tick
  <1>3. ASSUME NEW r \in Reqs, NEW ip \in IPs, RecordJoinEvent(r, ip) PROVE joins' \subseteq JoinEvent
    <2>1. PICK e : e = [group |-> req[r].group, user |-> req[r].user, ip |-> ip, at |-> req[r].at]
      OBVIOUS
    <2>2. e \in JoinEvent
      BY <1>t, <2>1, ReqParts DEF JoinEvent
    <2>3. joins' \subseteq joins \cup {e}
      BY <1>3, <2>1 DEF RecordJoinEvent
    <2> QED BY <1>t, <2>2, <2>3
  <1> QED BY <1>t, <1>1, <1>2, <1>3, StepWrites DEF WritesToo

\* Voice rooms belong to groups that exist, and users are in rooms that exist.
LEMMA VoiceTyped ==
    ASSUME TInv, [Next]_vars
    PROVE  /\ voice' \in [VoiceRooms -> live' \cup {None}]
           /\ inside' \in [Users -> {v \in VoiceRooms : voice'[v] # None} \cup {None}]
  <1>t. /\ TypeOK /\ voice \in [VoiceRooms -> live \cup {None}] /\ live \subseteq Groups /\ None \notin Groups
        /\ inside \in [Users -> {v \in VoiceRooms : voice[v] # None} \cup {None}] /\ None \notin VoiceRooms
    BY Constants DEF TInv, TypeOK
  <1>u. ASSUME NEW u \in Users PROVE inside[u] = None \/ (inside[u] \in VoiceRooms /\ voice[inside[u]] # None)
    BY <1>t
  <1>1. CASE Drops
    <2>1. PICK G, U : Gone(G, U)
      BY <1>1, DropsGone
    <2>2. /\ live' = live \ G
          /\ voice' = [v \in VoiceRooms |-> IF voice[v] \in G THEN None ELSE voice[v]]
          /\ inside' = [u \in Users |-> IF u \in U \/ (inside[u] # None /\ voice[inside[u]] \in G)
                                        THEN None ELSE inside[u]]
      BY <2>1 DEF Gone
    <2>3. voice' \in [VoiceRooms -> live' \cup {None}]
      BY <1>t, <2>2
    <2>4. ASSUME NEW u \in Users PROVE inside'[u] = None \/ (inside'[u] \in VoiceRooms /\ voice'[inside'[u]] # None)
      <3>1. inside'[u] = None \/ (inside'[u] = inside[u] /\ inside[u] # None /\ ~(voice[inside[u]] \in G))
        BY <2>2
      <3>2. CASE inside'[u] # None
        <4>1. inside[u] \in VoiceRooms /\ voice[inside[u]] # None
          BY <1>u, <3>1, <3>2
        <4>2. voice'[inside[u]] = voice[inside[u]]
          BY <2>2, <3>1, <3>2, <4>1
        <4> QED BY <3>1, <3>2, <4>1, <4>2
      <3> QED BY <3>2
    <2>5. inside' \in [Users -> {v \in VoiceRooms : voice'[v] # None} \cup {None}]
      BY <2>2, <2>4
    <2> QED BY <2>3, <2>5
  <1>2. ASSUME NEW r \in Reqs, CreateVoiceRoom(r)
        PROVE  /\ voice' \in [VoiceRooms -> live' \cup {None}]
               /\ inside' \in [Users -> {v \in VoiceRooms : voice'[v] # None} \cup {None}]
    <2>1. live' = live /\ inside' = inside
      BY <1>2 DEF CreateVoiceRoom
    <2>2. CASE voice' = voice
      BY <1>t, <2>1, <2>2
    <2>3. CASE voice' # voice
      <3>1. PICK v \in VoiceRooms : voice' = [voice EXCEPT ![v] = req[r].group] /\ req[r].group \in live
        BY <1>2, <2>3 DEF CreateVoiceRoom
      <3>2. voice' \in [VoiceRooms -> live' \cup {None}]
        BY <1>t, <2>1, <3>1
      <3>3. \A x \in VoiceRooms : voice[x] # None => voice'[x] # None
        BY <1>t, <3>1
      <3>4. ASSUME NEW u \in Users PROVE inside[u] \in {x \in VoiceRooms : voice'[x] # None} \cup {None}
        BY <1>u, <3>3
      <3> QED BY <1>t, <2>1, <3>2, <3>4
    <2> QED BY <2>2, <2>3
  <1>3. ASSUME NEW r \in Reqs, DeleteVoiceRoom(r)
        PROVE  /\ voice' \in [VoiceRooms -> live' \cup {None}]
               /\ inside' \in [Users -> {v \in VoiceRooms : voice'[v] # None} \cup {None}]
    <2>1. PICK v : v = req[r].target
      OBVIOUS
    <2>2. v \in VoiceRooms
      BY <1>3, <2>1 DEF DeleteVoiceRoom, At, TInv, HasRoom, InVoice
    <2>3. /\ voice' = [voice EXCEPT ![v] = None] /\ live' = live
          /\ inside' = [u \in Users |-> IF inside[u] = v THEN None ELSE inside[u]]
      BY <1>3, <2>1 DEF DeleteVoiceRoom
    <2>4. voice' \in [VoiceRooms -> live' \cup {None}] /\ \A x \in VoiceRooms \ {v} : voice'[x] = voice[x]
      BY <1>t, <2>2, <2>3
    <2>5. ASSUME NEW u \in Users PROVE inside'[u] \in {x \in VoiceRooms : voice'[x] # None} \cup {None}
      BY <1>u, <2>3, <2>4
    <2> QED BY <2>3, <2>4, <2>5
  <1>4. ASSUME NEW r \in Reqs, IsolateGroup(r) \/ RemoveGroupMember(r) \/ EnterVoice(r) \/ LeaveVoice(r)
        PROVE  /\ voice' = voice /\ live' = live
               /\ inside' \in [Users -> {v \in VoiceRooms : voice[v] # None} \cup {None}]
    <2>1. voice' = voice /\ live' = live
      BY <1>4 DEF IsolateGroup, RemoveGroupMember, EnterVoice, LeaveVoice
    <2>2. CASE IsolateGroup(r) \/ RemoveGroupMember(r)
      <3>1. inside' = inside \/ \E g, U : inside' = WithoutVoice(g, U)
        BY <2>2, Isolates DEF RemoveGroupMember
      <3> QED BY <1>t, <2>1, <3>1 DEF WithoutVoice
    <2>3. CASE EnterVoice(r)
      <3>1. PICK u, v : u = req[r].user /\ v = req[r].target
        OBVIOUS
      <3>2. v \in VoiceRooms
        BY <2>3, <3>1 DEF EnterVoice, At, TInv, HasRoom, InVoice
      <3>3. inside' = [inside EXCEPT ![u] = IF u \in users /\ voice[v] # None THEN v ELSE @]
        BY <2>3, <3>1 DEF EnterVoice
      <3> QED BY <1>t, <2>1, <3>2, <3>3
    <2>4. CASE LeaveVoice(r)
      <3>1. inside' = [inside EXCEPT ![req[r].user] = IF @ = req[r].target THEN None ELSE @]
        BY <2>4 DEF LeaveVoice
      <3> QED BY <1>t, <2>1, <3>1
    <2> QED BY <1>4, <2>1, <2>2, <2>3, <2>4
  <1>5. CASE UNCHANGED <<voice, inside>> /\ live \subseteq live'
    BY <1>t, <1>5
  <1>6. live \subseteq live' \/ Drops
    BY StepWrites DEF Writes, Creates, CreateGroup
  <1> QED BY <1>t, <1>1, <1>2, <1>3, <1>4, <1>5, <1>6, StepWrites DEF WritesToo

\* The cleanup and the history.
LEMMA CleanerTyped ==
    ASSUME TInv, [Next]_vars
    PROVE  /\ cleaner' \in [pc : {"idle", "schedule", "delete"}, at : Times, last : Int] /\ CleanerOK'
           /\ announced' \in [Groups -> Times] /\ newest' \in [Groups -> Times]
  <1>t. /\ TypeOK /\ CleanerOK /\ now \in Times /\ now \in Nat /\ Times \subseteq Nat /\ Lag \in Nat
        /\ cleaner \in [pc : {"idle", "schedule", "delete"}, at : Times, last : Int]
        /\ announced \in [Groups -> Times] /\ newest \in [Groups -> Times] /\ cleaner.at \in Nat
    <2>1. /\ TypeOK /\ CleanerOK /\ now \in Times /\ announced \in [Groups -> Times] /\ newest \in [Groups -> Times]
          /\ cleaner \in [pc : {"idle", "schedule", "delete"}, at : Times, last : Int]
      BY DEF TInv, TypeOK
    <2> QED BY <2>1, TimesEnd, Constants
  <1>1. announced' \in [Groups -> Times]
    BY <1>t, StepWrites DEF Writes, ScheduleInactiveGroups
  <1>2. newest' \in [Groups -> Times]
    <2>1. CASE Creates
      BY <1>t, <2>1 DEF Creates, CreateGroup
    <2>2. ASSUME NEW r \in Reqs, Post(r) PROVE newest' \in [Groups -> Times]
      <3>1. PICK t \in req[r].at .. now : AddMessage(req[r].group, req[r].user, t)
        BY <2>2 DEF Post
      <3>2. t \in Times
        BY <1>t, <3>1, ReqParts, TimesEnd
      <3>3. PICK g \in Groups : g = req[r].group
        BY <1>t, ReqParts
      <3>4. newest' = newest \/ newest' = [newest EXCEPT ![g] = IF t > @ THEN t ELSE @]
        BY <3>1, <3>3 DEF AddMessage
      <3> QED BY <1>t, <3>2, <3>4
    <2> QED BY <1>t, <2>1, <2>2, StepWrites DEF Writes
  <1>3. CASE InactiveGroupCandidates
    <2>1. PICK pc \in {"idle", "schedule"} : cleaner' = [pc |-> pc, at |-> now, last |-> now] /\ now' = now
      BY <1>3 DEF InactiveGroupCandidates, Env
    <2>2. CleanerOK'
      BY <1>t, <2>1 DEF CleanerOK
    <2> QED BY <1>t, <1>1, <1>2, <2>1, <2>2
  <1>4. CASE ScheduleInactiveGroups \/ DeleteScheduledGroups \/ CleanupFails
    <2>1. PICK pc \in {"delete", "idle"} : cleaner' = [cleaner EXCEPT !.pc = pc] /\ now' = now /\ cleaner.pc # "idle"
      BY <1>4 DEF ScheduleInactiveGroups, DeleteScheduledGroups, CleanupFails, Env
    <2>2. cleaner'.at = cleaner.at /\ cleaner' \in [pc : {"idle", "schedule", "delete"}, at : Times, last : Int]
      BY <1>t, <2>1
    <2>3. CleanerOK'
      BY <1>t, <2>1, <2>2 DEF CleanerOK
    <2> QED BY <1>1, <1>2, <2>2, <2>3
  <1>5. CASE cleaner' = cleaner
    <2>1. CASE Tick
      <3>1. now' = now + 1 /\ (cleaner.pc # "idle" => now < cleaner.at + Lag)
        BY <2>1 DEF Tick
      <3>2. CleanerOK'
        BY <1>t, <1>5, <3>1 DEF CleanerOK
      <3> QED BY <1>t, <1>1, <1>2, <1>5, <3>2
    <2>2. CASE now' = now
      BY <1>t, <1>1, <1>2, <1>5, <2>2 DEF CleanerOK
    <2> QED BY <2>1, <2>2, StepWrites DEF Writes
  <1> QED BY <1>3, <1>4, <1>5, StepWrites DEF Writes, Cleanup

\* Requests keep their clocks and their voice rooms.
LEMMA RequestsTyped ==
    ASSUME TInv, [Next]_vars
    PROVE  OnTime' /\ HasRoom'
  <1>t. TypeOK /\ OnTime /\ HasRoom /\ now \in Nat /\ Lag \in Nat
    <2>1. TypeOK /\ OnTime /\ HasRoom /\ now \in Times
      BY DEF TInv, TypeOK
    <2> QED BY <2>1, TimesEnd, Constants
  <1>1. ASSUME NEW x \in Reqs, req'[x].pc \in InVoice PROVE req'[x].target \in VoiceRooms
    <2>1. req'[x] = req[x] \/ Succeeds(req[x], req'[x])
      BY <1>t, ReqStep
    <2>2. CASE Succeeds(req[x], req'[x])
      BY <1>1, <2>2, IdleTyped DEF Succeeds, Begins, GoesOn, InVoice, After
    <2> QED BY <1>1, <1>t, <2>1, <2>2 DEF HasRoom
  <1>2. ASSUME NEW x \in Reqs, req'[x].pc # "idle" PROVE req'[x].at <= now' /\ now' <= req'[x].at + Lag
    <2>0. req[x].at \in Nat
      BY <1>t, ReqParts
    <2>1. CASE req'[x] = req[x] /\ now' = now
      BY <1>2, <1>t, <2>1 DEF OnTime
    <2>2. CASE Tick
      <3>1. req' = req /\ now' = now + 1
        BY <2>2 DEF Tick
      <3>2. now < req[x].at + Lag /\ req[x].at <= now
        BY <1>2, <1>t, <2>2, <3>1 DEF Tick, At, OnTime
      <3> QED BY <1>t, <2>0, <3>1, <3>2
    <2>3. CASE Succeeds(req[x], req'[x]) /\ now' = now
      <3>1. CASE Begins(req'[x])
        BY <1>t, <2>3, <3>1 DEF Begins
      <3>2. CASE GoesOn(req[x], req'[x])
        BY <1>t, <2>3, <3>2 DEF GoesOn, OnTime
      <3> QED BY <1>2, <2>3, <3>1, <3>2, IdleTyped DEF Succeeds
    <2> QED BY <1>t, <2>1, <2>2, <2>3, ReqStep, StepWrites DEF Writes
  <1> QED BY <1>1, <1>2 DEF OnTime, HasRoom

\* Init's tables are empty and its requests idle.
LEMMA InitTyped == Init => TInv
  <1> SUFFICES ASSUME Init PROVE TInv
    OBVIOUS
  <1>1. now \in Times /\ now = 0 /\ load \in Workloads /\ users \subseteq Users /\ young \subseteq Users /\ Interval \in Nat
    BY TimesEnd, Constants DEF Init
  <1>2. fresh = Groups \cup VoiceRooms /\ live = {} /\ row \in [Groups -> Row] /\ members = [g \in Groups |-> {}]
    BY IdleTyped DEF Init
  <1>3. req \in [Reqs -> ReqRecord] /\ \A r \in Reqs : req[r].pc = "idle"
    BY IdleTyped DEF Init
  <1>4. cleaner = [pc |-> "idle", at |-> 0, last |-> 0 - Interval] /\ joins = {}
    BY DEF Init
  <1>5. /\ voice = [v \in VoiceRooms |-> None] /\ inside = [u \in Users |-> None]
        /\ announced = [g \in Groups |-> 0] /\ newest = [g \in Groups |-> 0]
    BY DEF Init
  <1>6. TypeOK
    BY <1>1, <1>2, <1>3, <1>4, <1>5 DEF TypeOK
  <1>7. CleanerOK /\ Empty
    BY <1>1, <1>2, <1>4 DEF CleanerOK, Empty
  <1>8. OnTime /\ HasRoom
    BY <1>3 DEF OnTime, HasRoom, InVoice
  <1> QED BY <1>6, <1>7, <1>8 DEF TInv

\* Every step keeps the types.
LEMMA StepTyped == TInv /\ [Next]_vars => TInv'
  <1> SUFFICES ASSUME TInv, [Next]_vars PROVE TInv'
    OBVIOUS
  <1>0. TypeOK /\ fresh \subseteq Groups \cup VoiceRooms
    BY DEF TInv, TypeOK
  <1>1. fresh' \subseteq Groups \cup VoiceRooms /\ req' \in [Reqs -> ReqRecord]
    BY <1>0, LiveTyped, ReqStep
  <1>2. TypeOK'
    BY <1>1, LiveTyped, RowTyped, MembersTyped, JoinsTyped, VoiceTyped, CleanerTyped DEF TypeOK
  <1> QED BY <1>2, RequestsTyped, CleanerTyped, MembersTyped DEF TInv

\* The type invariant with what it needs to be inductive.
LEMMA TypeInvariant == Spec => []TInv
  BY InitTyped, StepTyped, PTL DEF Spec

\* Members are accounts, voice rooms belong to groups that exist and who is in a
\* voice room is in one that exists, whatever is deleted in between two steps of
\* a request.
THEOREM TypeCorrect == Spec => []TypeOK
  <1>1. TInv => TypeOK
    BY DEF TInv
  <1> QED BY <1>1, TypeInvariant, PTL

-----------------------------------------------------------------------------
(* What a step does to a group that goes on.                               *)

Still(g) == row'[g] = row[g] /\ announced'[g] = announced[g] /\ newest'[g] = newest[g]
RaisedNow(g) ==
    /\ row'[g].raised = now /\ row'[g].activity = row[g].activity /\ row'[g].scheduled = row[g].scheduled
    /\ announced'[g] = announced[g] /\ newest'[g] = newest[g]
TouchedNow(g) ==
    /\ \E r \in Reqs : \E t \in req[r].at .. now :
        /\ req[r].pc = "post" /\ row'[g].activity = t
        /\ newest'[g] = IF t > newest[g] THEN t ELSE newest[g]
    /\ row'[g].scheduled = 0 /\ row'[g].until = row[g].until /\ row'[g].raised = row[g].raised
ScheduledNow(g) ==
    /\ cleaner.pc = "schedule" /\ row'[g].scheduled = cleaner.at + DeleteGrace /\ announced'[g] = now
    /\ row[g].activity < cleaner.at - InactiveAfter /\ newest'[g] = newest[g]
    /\ row'[g].activity = row[g].activity /\ row'[g].until = row[g].until /\ row'[g].raised = row[g].raised

\* A group that was not new and goes on keeps its owner.
LEMMA GroupStep ==
    ASSUME TInv, [Next]_vars, NEW g \in Groups \ fresh, g \in live'
    PROVE  /\ g \in live /\ row'[g].owner = row[g].owner
           /\ Still(g) \/ (now' = now /\ (RaisedNow(g) \/ TouchedNow(g) \/ ScheduledNow(g)))
  <1>t. /\ TypeOK /\ row \in [Groups -> Row] /\ row[g] \in Row /\ g \in Groups
        /\ newest \in [Groups -> Times] /\ announced \in [Groups -> Times]
    BY DEF TInv, TypeOK
  <1>l. g \in live
    <2>1. CASE Drops
      BY <2>1, DropsGone DEF Gone
    <2>2. CASE Creates
      BY <2>2 DEF Creates, CreateGroup
    <2> QED BY <2>1, <2>2, StepWrites DEF Writes
  <1>1. CASE Drops
    <2>1. PICK G, U : Gone(G, U) /\ UNCHANGED <<announced, newest>>
      BY <1>1, DropsGone
    <2>2. g \notin G /\ row' = [h \in Groups |-> IF h \in G THEN NoRow ELSE row[h]]
      BY <2>1 DEF Gone
    <2> QED BY <1>l, <1>t, <2>1, <2>2 DEF Still
  <1>2. CASE Creates
    <2>1. PICK u \in Users, h \in Groups : CreateGroup(u, h)
      BY <1>2 DEF Creates
    <2>2. /\ h # g /\ row' = [row EXCEPT ![h] = NewRow(u, now)] /\ newest' = [newest EXCEPT ![h] = now]
          /\ announced' = announced
      BY <2>1 DEF CreateGroup
    <2> QED BY <1>l, <1>t, <2>2 DEF Still
  <1>3. ASSUME NEW r \in Reqs, IsolateGroup(r)
        PROVE  row'[g].owner = row[g].owner /\ now' = now /\ (Still(g) \/ RaisedNow(g))
    <2>1. PICK h, d, n : h = req[r].group /\ d = now + Durations[NextLevel(h)] /\ n = NextLevel(h)
      BY <1>t, ReqParts
    <2>2. /\ row' = row \/ row' = [row EXCEPT ![h].until = d, ![h].level = n, ![h].raised = now]
          /\ announced' = announced /\ newest' = newest /\ now' = now
      BY <1>3, <2>1 DEF IsolateGroup, Ghost, Env
    <2>3. row'[g] = row[g] \/ row'[g] = [row[g] EXCEPT !.until = d, !.level = n, !.raised = now]
      BY <1>t, <2>2
    <2>4. CASE row'[g] = row[g]
      BY <2>2, <2>4 DEF Still
    <2>5. CASE row'[g] = [row[g] EXCEPT !.until = d, !.level = n, !.raised = now]
      <3>1. /\ row'[g].owner = row[g].owner /\ row'[g].raised = now /\ row'[g].activity = row[g].activity
            /\ row'[g].scheduled = row[g].scheduled
        BY <1>t, <2>5 DEF Row
      <3> QED BY <2>2, <3>1 DEF RaisedNow
    <2> QED BY <2>3, <2>4, <2>5
  <1>4. ASSUME NEW r \in Reqs, Post(r)
        PROVE  row'[g].owner = row[g].owner /\ now' = now /\ (Still(g) \/ TouchedNow(g))
    <2>1. PICK h \in Groups : h = req[r].group
      BY <1>t, ReqParts
    <2>2. PICK t \in req[r].at .. now : AddMessage(h, req[r].user, t)
      BY <1>4, <2>1 DEF Post
    <2>3. announced' = announced /\ now' = now /\ req[r].pc = "post"
      BY <1>4 DEF Post, Env, At
    <2>4. \/ row' = row /\ newest' = newest
          \/ /\ row' = [row EXCEPT ![h].activity = t, ![h].scheduled = 0]
             /\ newest' = [newest EXCEPT ![h] = IF t > @ THEN t ELSE @]
      BY <2>2 DEF AddMessage, Touch
    <2>5. \/ row'[g] = row[g] /\ newest'[g] = newest[g]
          \/ /\ row'[g] = [row[g] EXCEPT !.activity = t, !.scheduled = 0]
             /\ newest'[g] = IF t > newest[g] THEN t ELSE newest[g]
      BY <1>t, <2>4
    <2>6. CASE row'[g] = row[g] /\ newest'[g] = newest[g]
      BY <2>3, <2>6 DEF Still
    <2>7. CASE /\ row'[g] = [row[g] EXCEPT !.activity = t, !.scheduled = 0]
               /\ newest'[g] = IF t > newest[g] THEN t ELSE newest[g]
      <3>1. /\ row'[g].owner = row[g].owner /\ row'[g].activity = t /\ row'[g].scheduled = 0
            /\ row'[g].until = row[g].until /\ row'[g].raised = row[g].raised
        BY <1>t, <2>7 DEF Row
      <3> QED BY <2>2, <2>3, <2>7, <3>1 DEF TouchedNow
    <2> QED BY <2>5, <2>6, <2>7
  <1>5. CASE ScheduleInactiveGroups
    <2>0. PICK n : n = cleaner.at + DeleteGrace
      OBVIOUS
    <2>a. PICK B \in Batches(Unscheduled(cleaner.at), [h \in Groups |-> row[h].activity]) :
             /\ row' = [h \in Groups |-> IF h \in B THEN [row[h] EXCEPT !.scheduled = cleaner.at + DeleteGrace]
                                         ELSE row[h]]
             /\ announced' = [h \in Groups |-> IF h \in B THEN now ELSE announced[h]]
      BY <1>5, Zenon DEF ScheduleInactiveGroups
    <2>1. /\ B \subseteq Unscheduled(cleaner.at)
          /\ row' = [h \in Groups |-> IF h \in B THEN [row[h] EXCEPT !.scheduled = n] ELSE row[h]]
          /\ announced' = [h \in Groups |-> IF h \in B THEN now ELSE announced[h]]
      <3>1. B \subseteq Unscheduled(cleaner.at)
        BY Zenon DEF Batches
      <3> QED BY ONLY <2>0, <2>a, <3>1, Zenon
    <2>2. newest' = newest /\ now' = now /\ cleaner.pc = "schedule"
      BY <1>5 DEF ScheduleInactiveGroups, Env
    <2>3. CASE g \notin B
      BY <1>l, <1>t, <2>1, <2>2, <2>3 DEF Still
    <2>4. CASE g \in B
      <3>1. row'[g] = [row[g] EXCEPT !.scheduled = n] /\ announced'[g] = now
        BY <1>t, <2>1, <2>4
      <3>2. row[g].activity < cleaner.at - InactiveAfter
        BY <2>1, <2>4 DEF Unscheduled, Inactive
      <3>3. /\ row'[g].owner = row[g].owner /\ row'[g].scheduled = n /\ row'[g].activity = row[g].activity
            /\ row'[g].until = row[g].until /\ row'[g].raised = row[g].raised
        BY <1>t, <3>1 DEF Row
      <3> QED BY <1>l, <2>0, <2>2, <3>1, <3>2, <3>3 DEF ScheduledNow
    <2> QED BY <2>3, <2>4
  <1>6. CASE UNCHANGED <<row, announced, newest>>
    BY <1>l, <1>6 DEF Still
  <1>7. \/ Drops \/ Creates \/ (\E r \in Reqs : IsolateGroup(r) \/ Post(r)) \/ ScheduleInactiveGroups
        \/ UNCHANGED <<row, announced, newest>>
    BY StepWrites DEF Writes
  <1> QED BY <1>l, <1>1, <1>2, <1>3, <1>4, <1>5, <1>6, <1>7

-----------------------------------------------------------------------------
(* Owners.                                                                 *)

\* Who leaves is not the owner, and who removes or deletes is: a group keeps its
\* owner and its identifier is never handed out again.
Mine(q)   == q.group \in live => row[q.group].owner = q.user
Others(q) == q.group \in live => row[q.group].owner # q.user
OInv ==
    /\ OwnerStays
    /\ \A r \in Reqs : req[r].pc \in {"leave", "remove", "delete"} => req[r].group \notin fresh
    /\ \A r \in Reqs : req[r].pc = "leave" => Others(req[r])
    /\ \A r \in Reqs : req[r].pc \in {"remove", "delete"} => Mine(req[r])
    /\ \A r \in Reqs : req[r].pc = "remove" => req[r].target # req[r].user

\* What was checked of the owner when a request began is still true.
LEMMA ChecksStay ==
    ASSUME TInv, OInv, [Next]_vars, NEW r \in Reqs, req'[r].pc \in {"leave", "remove", "delete"}
    PROVE  /\ req'[r].group \notin fresh'
           /\ req'[r].pc = "leave" => Others(req[r])'
           /\ req'[r].pc \in {"remove", "delete"} => Mine(req[r])'
           /\ req'[r].pc = "remove" => req'[r].target # req'[r].user
  <1>1. PICK g, u : g = req'[r].group /\ u = req'[r].user
    OBVIOUS
  <1>t. /\ TypeOK /\ Empty /\ live \cap fresh = {} /\ live \subseteq Groups
        /\ req'[r] \in ReqRecord /\ (req'[r] = req[r] \/ Succeeds(req[r], req'[r])) /\ fresh' \subseteq fresh
    BY ReqStep, LiveTyped DEF TInv, TypeOK
  <1>g. g \in Groups
    BY <1>1, <1>t DEF ReqRecord
  <1>2. /\ g \notin fresh
        /\ req'[r].pc = "leave" => (g \in live => row[g].owner # u)
        /\ req'[r].pc \in {"remove", "delete"} => (g \in live => row[g].owner = u)
        /\ req'[r].pc = "remove" => req'[r].target # req'[r].user
    <2>1. CASE req'[r] = req[r]
      BY <1>1, <2>1 DEF OInv, Mine, Others
    <2>2. CASE Begins(req'[r])
      <3>1. /\ g \in live \/ u \in members[g]
            /\ req'[r].pc = "leave" => row[g].owner # u
            /\ req'[r].pc \in {"remove", "delete"} => row[g].owner = u
            /\ req'[r].pc = "remove" => req'[r].target # req'[r].user
        BY <1>1, <2>2 DEF Begins, InVoice
      <3>2. g \in live
        BY <1>g, <1>t, <3>1 DEF Empty
      <3> QED BY <1>t, <3>1, <3>2
    <2>3. ~GoesOn(req[r], req'[r]) /\ req'[r] # IdleReq
      BY IdleTyped DEF GoesOn, After
    <2> QED BY <1>t, <2>1, <2>2, <2>3 DEF Succeeds
  <1>3. g \in live' => g \in live /\ row'[g].owner = row[g].owner
    BY <1>g, <1>2, GroupStep
  <1> QED BY <1>1, <1>2, <1>3, <1>t DEF Mine, Others

\* No step takes the owner out of a group that goes on.
LEMMA StepOwner == TInv /\ OInv /\ [Next]_vars => OInv'
  <1> SUFFICES ASSUME TInv, OInv, [Next]_vars PROVE OInv'
    OBVIOUS
  <1>t. /\ TypeOK /\ live \cap fresh = {} /\ live \subseteq Groups /\ members \in [Groups -> SUBSET users]
        /\ OwnerStays /\ row \in [Groups -> Row]
    BY DEF TInv, TypeOK, OInv
  <1>1. CASE Creates
    <2>1. PICK u \in Users, h \in Groups : CreateGroup(u, h)
      BY <1>1 DEF Creates
    <2>2. /\ u \in users /\ live' = live \cup {h} /\ users' = users /\ h \notin live
          /\ row' = [row EXCEPT ![h] = NewRow(u, now)] /\ members' = [members EXCEPT ![h] = {u}]
      BY <1>t, <2>1 DEF CreateGroup, Env
    <2>3. NewRow(u, now).owner = u
      BY IdleTyped DEF TInv, TypeOK
    <2>4. ASSUME NEW g \in live' PROVE row'[g].owner \in users' \cap members'[g]
      <3>1. CASE g = h
        BY <1>t, <2>2, <2>3, <3>1
      <3>2. CASE g # h
        <4>1. g \in live /\ row'[g] = row[g] /\ members'[g] = members[g]
          BY <1>t, <2>2, <3>2
        <4> QED BY <1>t, <2>2, <4>1 DEF OwnerStays
      <3> QED BY <3>1, <3>2
    <2> QED BY <2>4, ChecksStay DEF OInv, OwnerStays
  <1>2. CASE ~Creates
    <2> SUFFICES ASSUME NEW g \in live' PROVE row'[g].owner \in users' \cap members'[g]
      BY ChecksStay DEF OInv, OwnerStays
    <2>1. g \in live /\ g \in Groups \ fresh /\ row'[g].owner = row[g].owner
      <3>1. live' \subseteq live
        BY <1>2, DropsGone, StepWrites DEF Writes, Gone
      <3> QED BY <1>t, <3>1, GroupStep
    <2>2. PICK o : o = row[g].owner
      OBVIOUS
    <2>3. o \in users /\ o \in members[g]
      BY <1>t, <2>1, <2>2 DEF OwnerStays
    <2>4. CASE Drops
      <3>1. PICK G, U : Gone(G, U) /\ users' = users \ U /\ \A h \in live \ G : row[h].owner \notin U
        BY <2>4, DropsGone
      <3>2. g \notin G /\ members'[g] = members[g] \ U
        BY <2>1, <3>1 DEF Gone
      <3> QED BY <2>1, <2>2, <2>3, <3>1, <3>2
    <2>5. CASE ~Drops
      <3>0. users' = users
        BY <2>5, StepWrites DEF Writes, Drops
      <3>1. o \in members'[g]
        <4>1. ASSUME NEW r \in Reqs, JoinGroup(r) PROVE o \in members'[g]
          <5>1. members' = [members EXCEPT ![req[r].group] =
                    IF req[r].group \in live /\ req[r].user \in users THEN @ \cup {req[r].user} ELSE @]
            BY <4>1 DEF JoinGroup
          <5> QED BY <1>t, <2>1, <2>3, <5>1
        <4>2. ASSUME NEW r \in Reqs, IsolateGroup(r) PROVE o \in members'[g]
          <5>1. PICK h, out : /\ out \subseteq Removed(h, req[r].who)
                              /\ members' = members \/ members' = [members EXCEPT ![h] = members[h] \ out]
            BY <4>2, Isolates
          <5>2. o \notin Removed(g, req[r].who)
            BY <2>2 DEF Removed
          <5> QED BY <1>t, <2>1, <2>3, <5>1, <5>2
        <4>3. ASSUME NEW r \in Reqs, LeaveGroup(r) PROVE o \in members'[g]
          <5>1. members' = [members EXCEPT ![req[r].group] = @ \ {req[r].user}] /\ req[r].pc = "leave"
            BY <4>3 DEF LeaveGroup, At
          <5>2. req[r].group = g => o # req[r].user
            BY <2>1, <2>2, <5>1 DEF OInv, Others
          <5> QED BY <1>t, <2>1, <2>3, <5>1, <5>2
        <4>4. ASSUME NEW r \in Reqs, RemoveGroupMember(r) PROVE o \in members'[g]
          <5>1. /\ members' = members \/ members' = [members EXCEPT ![req[r].group] = @ \ {req[r].target}]
                /\ req[r].pc = "remove"
            BY <4>4 DEF RemoveGroupMember, At
          <5>2. req[r].group = g => o # req[r].target
            BY <2>1, <2>2, <5>1 DEF OInv, Mine
          <5> QED BY <1>t, <2>1, <2>3, <5>1, <5>2
        <4> QED BY <1>2, <2>3, <2>5, <4>1, <4>2, <4>3, <4>4, StepWrites DEF WritesToo
      <3> QED BY <2>1, <2>2, <2>3, <3>0, <3>1
    <2> QED BY <2>4, <2>5
  <1> QED BY <1>1, <1>2

\* The owner invariant, for use below.
LEMMA OwnerInvariant == Spec => []OInv
  <1>1. Init => OInv
    <2> SUFFICES ASSUME Init PROVE OInv
      OBVIOUS
    <2>1. live = {} /\ \A r \in Reqs : req[r].pc = "idle"
      BY IdleTyped DEF Init
    <2> QED BY <2>1 DEF OInv, OwnerStays
  <1> QED BY <1>1, TypeInvariant, StepOwner, PTL DEF Spec

\* No group is without its owner: leaving, removing, isolating and deleting
\* accounts check and write in separate steps, and still never take the owner of
\* a group that exists out of it.
THEOREM OwnersStay == Spec => []OwnerStays
  <1>1. OInv => OwnerStays
    BY DEF OInv
  <1> QED BY <1>1, OwnerInvariant, PTL

-----------------------------------------------------------------------------
(* Isolation.                                                              *)

\* A join that was let in read a group that was not isolated then: what isolates
\* it now was raised since.
Admitted(q) == q.group \in live => row[q.group].until <= q.at \/ q.at <= row[q.group].raised
LetIn(q) == (q.pc = "join.member" /\ ~q.isolated) \/ (q.pc = "join.insert" /\ ~q.already)
JInv == \A r \in Reqs : LetIn(req[r]) => req[r].group \notin fresh /\ Admitted(req[r])

\* What let a join in stays true under every step of the others.
LEMMA StepJoins == TInv /\ JInv /\ [Next]_vars => JInv'
  <1> SUFFICES ASSUME TInv, JInv, [Next]_vars, NEW r \in Reqs, LetIn(req'[r])
               PROVE  req'[r].group \notin fresh' /\ Admitted(req[r])'
    BY DEF JInv, LetIn
  <1>1. PICK g, t : g = req'[r].group /\ t = req'[r].at
    OBVIOUS
  <1>t. /\ TypeOK /\ OnTime /\ live \cap fresh = {} /\ live \subseteq Groups /\ now \in Times
        /\ req'[r] \in ReqRecord /\ (req'[r] = req[r] \/ Succeeds(req[r], req'[r])) /\ fresh' \subseteq fresh
    BY ReqStep, LiveTyped DEF TInv, TypeOK
  <1>n. now \in Nat /\ t \in Nat /\ g \in Groups
    BY <1>1, <1>t, TimesEnd DEF ReqRecord
  <1>2. /\ g \notin fresh /\ t <= now
        /\ g \in live => row[g].until <= t \/ t <= row[g].raised
    <2>1. CASE req'[r] = req[r]
      BY <1>1, <1>t, <2>1 DEF JInv, Admitted, LetIn, OnTime
    <2>2. CASE Begins(req'[r])
      <3>1. g \in live /\ row[g].until <= now /\ t = now
        BY <1>1, <2>2 DEF Begins, InVoice, LetIn
      <3> QED BY <1>t, <1>n, <3>1
    <2>3. CASE GoesOn(req[r], req'[r])
      <3>1. req[r].pc = "join.member" /\ ~req[r].isolated /\ g = req[r].group /\ t = req[r].at
        BY <1>1, <2>3 DEF GoesOn, After, LetIn
      <3> QED BY <1>t, <3>1 DEF JInv, Admitted, LetIn, OnTime
    <2>4. req'[r] # IdleReq
      BY IdleTyped DEF LetIn
    <2> QED BY <1>t, <2>1, <2>2, <2>3, <2>4 DEF Succeeds
  <1>3. ASSUME g \in live' PROVE row'[g].until <= t \/ t <= row'[g].raised
    <2>1. /\ g \in live
          /\ \/ row'[g].until = row[g].until /\ row'[g].raised = row[g].raised
             \/ row'[g].raised = now
      BY <1>n, <1>2, <1>3, GroupStep DEF Still, RaisedNow, TouchedNow, ScheduledNow
    <2> QED BY <1>2, <2>1
  <1> QED BY <1>1, <1>2, <1>3, <1>t DEF Admitted

\* The joins under way, for use below.
LEMMA JoinInvariant == Spec => []JInv
  <1>1. Init => JInv
    <2> SUFFICES ASSUME Init, NEW r \in Reqs PROVE ~LetIn(req[r])
      BY DEF JInv
    <2>1. req[r].pc = "idle"
      BY IdleTyped DEF Init
    <2> QED BY <2>1 DEF LetIn
  <1> QED BY <1>1, TypeInvariant, StepJoins, PTL DEF Spec

\* Who becomes a member of an isolated group asked before the isolation was
\* raised, or was a member when the request looked: the isolation is read first
\* and the row inserted two steps later.
THEOREM IsolationKeepsOut == Spec => IsolationHolds
  <1>1. TInv /\ JInv /\ [Next]_vars => JoinStep
    <2> SUFFICES ASSUME TInv, JInv, [Next]_vars, NEW g \in live, NEW u \in members'[g] \ members[g], Isolated(g)
                 PROVE  \E r \in Reqs : /\ At(r, "join.insert") /\ req[r].user = u /\ req[r].group = g
                                        /\ req[r].already \/ req[r].at <= row[g].raised
      BY DEF JoinStep
    <2>t. /\ TypeOK /\ OnTime /\ live \cap fresh = {} /\ g \in Groups /\ members \in [Groups -> SUBSET users]
          /\ row[g] \in Row
      BY DEF TInv, TypeOK
    <2>1. ~Drops
      BY <2>t, DropsGone DEF Gone
    <2>2. ~Creates
      <3> SUFFICES ASSUME NEW w \in Users, NEW h \in Groups, CreateGroup(w, h) PROVE FALSE
        BY DEF Creates
      <3>1. h # g /\ members' = [members EXCEPT ![h] = {w}]
        BY <2>t DEF CreateGroup
      <3> QED BY <2>t, <3>1
    <2>3. ASSUME NEW r \in Reqs, IsolateGroup(r) \/ LeaveGroup(r) \/ RemoveGroupMember(r) PROVE FALSE
      <3>1. PICK h, X : members' = members \/ members' = [members EXCEPT ![h] = members[h] \ X]
        <4>1. CASE IsolateGroup(r)
          BY <4>1, Isolates
        <4>2. CASE LeaveGroup(r)
          BY <4>2 DEF LeaveGroup
        <4>3. CASE RemoveGroupMember(r)
          BY <4>3 DEF RemoveGroupMember
        <4> QED BY <2>3, <4>1, <4>2, <4>3
      <3> QED BY <2>t, <3>1
    <2>4. PICK r \in Reqs : JoinGroup(r)
      BY <2>1, <2>2, <2>3, StepWrites DEF WritesToo
    <2>5. /\ req[r].pc = "join.insert"
          /\ members' = [members EXCEPT ![req[r].group] =
                IF req[r].group \in live /\ req[r].user \in users THEN @ \cup {req[r].user} ELSE @]
      BY <2>4 DEF JoinGroup, At
    <2>6. req[r].group = g /\ req[r].user = u
      BY <2>t, <2>5
    <2>7. req[r].already \/ req[r].at <= row[g].raised
      <3>1. ~req[r].already => row[g].until <= req[r].at \/ req[r].at <= row[g].raised
        BY <2>5, <2>6 DEF JInv, LetIn, Admitted
      <3>2. row[g].until > now /\ req[r].at <= now
        BY <2>t, <2>5 DEF Isolated, OnTime
      <3>3. row[g].until \in Nat /\ now \in Nat /\ req[r].at \in Nat
        BY <2>t, ReqParts DEF Row
      <3> QED BY <3>1, <3>2, <3>3
    <2> QED BY <2>5, <2>6, <2>7 DEF At
  <1> QED BY <1>1, TypeInvariant, JoinInvariant, PTL DEF Spec, IsolationHolds

-----------------------------------------------------------------------------
(* Voice rooms.                                                            *)

\* Who is taken out of the voice rooms of a group is in none of them.
LEMMA WithoutVoiceLeaves ==
    ASSUME TypeOK, NEW g, NEW U, NEW u \in U, u \in Users, inside' = WithoutVoice(g, U), voice' = voice
    PROVE  inside'[u] = None \/ voice'[inside'[u]] # g
  BY DEF WithoutVoice

\* Whoever loses a membership by what others do loses the voice rooms of that
\* group in the same step; a voice room never outlives its group.
THEOREM ForcedOut == Spec => ForcedOutOfVoice
  <1>1. TInv /\ [Next]_vars => VoiceStep
    <2> SUFFICES ASSUME TInv, [Next]_vars, NEW g \in Groups, NEW u \in members[g] \ members'[g]
                 PROVE  \/ inside'[u] = None \/ voice'[inside'[u]] # g
                        \/ \E r \in Reqs : At(r, "leave") /\ req[r].user = u /\ req[r].group = g
                        \/ /\ "fault" \in load.ops
                           /\ \E r \in Reqs : /\ req[r].pc \in {"join.isolate", "attack.isolate"}
                                              /\ req[r].group = g /\ u \in req[r].who
      BY DEF VoiceStep
    <2>t. /\ TypeOK /\ members \in [Groups -> SUBSET users] /\ users \subseteq Users /\ Empty /\ live \cap fresh = {}
          /\ voice \in [VoiceRooms -> live \cup {None}] /\ inside \in [Users -> VoiceRooms \cup {None}]
      BY DEF TInv, TypeOK
    <2>u. u \in Users
      BY <2>t
    <2>1. CASE Drops
      <3>1. PICK G, U : Gone(G, U)
        BY <2>1, DropsGone
      <3>2. g \in G \/ u \in U
        BY <2>t, <3>1 DEF Gone
      <3>3. /\ inside'[u] = IF u \in U \/ (inside[u] # None /\ voice[inside[u]] \in G) THEN None ELSE inside[u]
            /\ voice' = [v \in VoiceRooms |-> IF voice[v] \in G THEN None ELSE voice[v]]
        BY <2>u, <3>1 DEF Gone
      <3>4. CASE u \notin U /\ inside[u] # None /\ voice[inside[u]] \notin G
        <4>1. inside[u] \in VoiceRooms /\ inside'[u] = inside[u] /\ g \in G
          BY <2>t, <2>u, <3>2, <3>3, <3>4
        <4>2. voice'[inside[u]] = voice[inside[u]]
          BY <3>3, <3>4, <4>1
        <4> QED BY <3>4, <4>1, <4>2
      <3>5. CASE u \in U \/ inside[u] = None \/ voice[inside[u]] \in G
        BY <3>3, <3>5
      <3> QED BY <3>4, <3>5
    <2>2. ~Creates
      <3> SUFFICES ASSUME NEW w \in Users, NEW h \in Groups, CreateGroup(w, h) PROVE FALSE
        BY DEF Creates
      <3>1. members[h] = {} /\ members' = [members EXCEPT ![h] = {w}]
        BY <2>t DEF CreateGroup, Empty
      <3> QED BY <2>t, <3>1
    <2>3. ASSUME NEW r \in Reqs PROVE ~JoinGroup(r)
      <3> SUFFICES ASSUME JoinGroup(r) PROVE FALSE
        OBVIOUS
      <3>1. members' = [members EXCEPT ![req[r].group] =
                IF req[r].group \in live /\ req[r].user \in users THEN @ \cup {req[r].user} ELSE @]
        BY DEF JoinGroup
      <3> QED BY <2>t, <3>1
    <2>4. ASSUME NEW r \in Reqs, IsolateGroup(r)
          PROVE  \/ inside'[u] = None \/ voice'[inside'[u]] # g
                 \/ /\ "fault" \in load.ops
                    /\ req[r].pc \in {"join.isolate", "attack.isolate"} /\ req[r].group = g /\ u \in req[r].who
      <3>1. voice' = voice /\ req[r].pc \in {"join.isolate", "attack.isolate"}
        BY <2>4 DEF IsolateGroup
      <3>2. PICK h, out, silent :
               /\ h = req[r].group /\ out \subseteq Removed(h, req[r].who) /\ silent \subseteq out
               /\ "fault" \in load.ops \/ silent = out
               /\ \/ members' = members /\ inside' = inside
                  \/ members' = [members EXCEPT ![h] = members[h] \ out] /\ inside' = WithoutVoice(h, silent)
        BY <2>4, Isolates
      <3>3. h = g /\ u \in out /\ inside' = WithoutVoice(g, silent)
        BY <2>t, <3>2
      <3>4. u \in req[r].who
        BY <3>2, <3>3 DEF Removed
      <3>5. CASE silent = out
        BY <2>t, <2>u, <3>1, <3>3, <3>5, WithoutVoiceLeaves
      <3> QED BY <3>1, <3>2, <3>3, <3>4, <3>5
    <2>5. ASSUME NEW r \in Reqs, RemoveGroupMember(r) PROVE inside'[u] = None \/ voice'[inside'[u]] # g
      <3>1. PICK h, x : h = req[r].group /\ x = req[r].target
        OBVIOUS
      <3>2. /\ voice' = voice
            /\ members' = members \/ (members' = [members EXCEPT ![h] = @ \ {x}] /\ inside' = WithoutVoice(h, {x}))
        BY <2>5, <3>1 DEF RemoveGroupMember
      <3>3. h = g /\ u \in {x} /\ inside' = WithoutVoice(h, {x})
        BY <2>t, <3>2
      <3> QED BY <2>t, <2>u, <3>2, <3>3, WithoutVoiceLeaves
    <2>6. ASSUME NEW r \in Reqs, LeaveGroup(r) PROVE At(r, "leave") /\ req[r].user = u /\ req[r].group = g
      <3>1. At(r, "leave") /\ members' = [members EXCEPT ![req[r].group] = @ \ {req[r].user}]
        BY <2>6 DEF LeaveGroup
      <3> QED BY <2>t, <3>1
    <2> QED BY <2>1, <2>2, <2>3, <2>4, <2>5, <2>6, StepWrites DEF WritesToo
  <1> QED BY <1>1, TypeInvariant, PTL DEF Spec, ForcedOutOfVoice

-----------------------------------------------------------------------------
(* Deletion of quiet groups.                                               *)

\* The activity of a group is that of its newest message up to the time a
\* request takes; a pending deletion was announced in the quiet period.
Recent(g)   == newest[g] <= now /\ newest[g] <= row[g].activity + Lag
Pending(g) == row[g].scheduled # 0 =>
    /\ announced[g] <= now /\ announced[g] + DeleteGrace <= row[g].scheduled + Lag
    /\ row[g].activity < announced[g] - InactiveAfter
QInv == \A g \in live : Recent(g) /\ Pending(g)

\* Messages move the activity and cancel; only the pass schedules.
LEMMA StepQuiet == TInv /\ QInv /\ [Next]_vars => QInv'
  <1> SUFFICES ASSUME TInv, QInv, [Next]_vars, NEW g \in live' PROVE (Recent(g) /\ Pending(g))'
    BY DEF QInv
  <1>t. /\ TypeOK /\ live \cap fresh = {} /\ live \subseteq Groups /\ row \in [Groups -> Row]
        /\ newest \in [Groups -> Times] /\ announced \in [Groups -> Times] /\ now \in Times /\ CleanerOK /\ OnTime
        /\ cleaner.at \in Times
    BY DEF TInv, TypeOK
  <1>n. now \in Nat /\ Lag \in Nat /\ InactiveAfter \in Nat /\ DeleteGrace \in Nat /\ cleaner.at \in Nat
    BY <1>t, TimesEnd, Constants
  <1>1. CASE g \in live
    <2>g. g \in Groups \ fresh
      BY <1>t, <1>1
    <2>r. row[g].activity \in Times /\ row[g].scheduled \in Nat
      BY <1>t, <2>g DEF Row
    <2>n. newest[g] \in Nat /\ announced[g] \in Nat /\ row[g].activity \in Nat
      BY <1>t, <2>g, <2>r, TimesEnd
    <2>f. newest[g] <= now /\ newest[g] <= row[g].activity + Lag
      BY <1>1 DEF QInv, Recent
    <2>p. row[g].scheduled # 0 => /\ announced[g] <= now /\ announced[g] + DeleteGrace <= row[g].scheduled + Lag
                                  /\ row[g].activity < announced[g] - InactiveAfter
      BY <1>1 DEF QInv, Pending
    <2>c. now' = now \/ now' = now + 1
      BY StepWrites DEF Writes, Tick
    <2>1. CASE Still(g) \/ RaisedNow(g)
      <3>1. /\ newest'[g] = newest[g] /\ announced'[g] = announced[g]
            /\ row'[g].activity = row[g].activity /\ row'[g].scheduled = row[g].scheduled
        BY <2>1 DEF Still, RaisedNow
      <3>2. newest[g] <= now' /\ (announced[g] <= now => announced[g] <= now')
        BY ONLY <1>n, <2>n, <2>f, <2>c
      <3> QED BY <2>f, <2>p, <3>1, <3>2 DEF Recent, Pending
    <2>2. CASE now' = now /\ TouchedNow(g)
      <3>0. PICK r \in Reqs : \E t \in req[r].at .. now :
               /\ req[r].pc = "post" /\ row'[g].activity = t
               /\ newest'[g] = IF t > newest[g] THEN t ELSE newest[g]
        BY <2>2 DEF TouchedNow
      <3>1. PICK t \in req[r].at .. now :
               /\ req[r].pc = "post" /\ row'[g].activity = t
               /\ newest'[g] = IF t > newest[g] THEN t ELSE newest[g]
        BY <3>0
      <3>2. row'[g].scheduled = 0
        BY <2>2 DEF TouchedNow
      <3>3. req[r].at \in Nat /\ now <= req[r].at + Lag
        BY <1>t, <3>1, ReqParts DEF OnTime
      <3>4. newest'[g] <= now /\ newest'[g] <= t + Lag
        BY ONLY <1>n, <2>n, <2>f, <3>1, <3>3
      <3> QED BY <2>2, <3>1, <3>2, <3>4 DEF Recent, Pending
    <2>3. CASE now' = now /\ ScheduledNow(g)
      <3>1. /\ row'[g].scheduled = cleaner.at + DeleteGrace /\ announced'[g] = now
            /\ row[g].activity < cleaner.at - InactiveAfter /\ newest'[g] = newest[g]
            /\ row'[g].activity = row[g].activity
        BY <2>3 DEF ScheduledNow
      <3>2. cleaner.at <= now /\ now <= cleaner.at + Lag
        BY <1>t, <2>3 DEF CleanerOK, ScheduledNow
      <3>3. now + DeleteGrace <= cleaner.at + DeleteGrace + Lag /\ row[g].activity < now - InactiveAfter /\ now <= now
        BY ONLY <1>n, <2>n, <3>1, <3>2
      <3> QED BY <2>3, <2>f, <3>1, <3>3 DEF Recent, Pending
    <2> QED BY <2>g, <2>1, <2>2, <2>3, GroupStep
  <1>2. CASE g \notin live
    <2>1. ~Drops
      BY <1>2, DropsGone DEF Gone
    <2>2. PICK u \in Users, h \in Groups : CreateGroup(u, h)
      BY <1>2, <2>1, StepWrites DEF Writes, Creates
    <2>3. /\ live' = live \cup {h} /\ row' = [row EXCEPT ![h] = NewRow(u, now)]
          /\ newest' = [newest EXCEPT ![h] = now] /\ now' = now
      BY <2>2 DEF CreateGroup, Env
    <2>4. h = g /\ row'[g].activity = now /\ row'[g].scheduled = 0 /\ newest'[g] = now
      BY <1>2, <1>t, <2>3, IdleTyped
    <2> QED BY <1>n, <2>3, <2>4 DEF Recent, Pending
  <1> QED BY <1>1, <1>2

\* The quiet invariant, for use below.
LEMMA QuietInvariant == Spec => []QInv
  <1>1. Init => QInv
    BY DEF Init, QInv
  <1> QED BY <1>1, TypeInvariant, StepQuiet, PTL DEF Spec

\* A group that a pass found inactive had no message for InactiveAfter, up to
\* the time a request takes.
LEMMA InactiveQuiet ==
    ASSUME TInv, QInv, NEW t \in Int, t <= now, NEW g \in Inactive(t)
    PROVE  g \notin load.protected /\ newest[g] < now - InactiveAfter + Lag
  <1>0. g \notin load.protected
    BY DEF Inactive
  <1>1. /\ g \in live /\ row[g].activity < t - InactiveAfter /\ newest[g] <= row[g].activity + Lag
        /\ now \in Times /\ g \in Groups /\ row[g] \in Row /\ newest[g] \in Times
    BY DEF Inactive, TInv, TypeOK, QInv, Recent
  <1>2. row[g].activity \in Times
    BY <1>1 DEF Row
  <1>3. now \in Nat /\ newest[g] \in Nat /\ row[g].activity \in Nat /\ InactiveAfter \in Nat /\ Lag \in Nat
    BY <1>1, <1>2, TimesEnd, Constants
  <1>4. newest[g] < now - InactiveAfter + Lag
    BY ONLY <1>1, <1>3, t \in Int, t <= now
  <1> QED BY <1>0, <1>4

\* A group goes with its owner, by its owner's request, or because it was quiet;
\* the periodic pass deletes only what was announced DeleteGrace before, in the
\* quiet period that ends with the deletion.
THEOREM QuietGroupsGo == Spec => OnlyQuietGroupsGo
  <1>1. TInv /\ OInv /\ QInv /\ [Next]_vars => DeletionStep
    <2> SUFFICES ASSUME TInv, OInv, QInv, [Next]_vars, NEW g \in live \ live'
                 PROVE  \/ row[g].owner \notin users'
                        \/ \E r \in Reqs : At(r, "delete") /\ req[r].group = g /\ req[r].user = row[g].owner
                        \/ /\ g \notin load.protected /\ newest[g] < now - InactiveAfter + Lag
                           /\ \/ cleaner' = cleaner
                              \/ /\ announced[g] + DeleteGrace <= now + Lag
                                 /\ newest[g] < announced[g] - InactiveAfter + Lag
      BY DEF DeletionStep
    <2>t. /\ g \in Groups /\ row[g] \in Row /\ now \in Times /\ cleaner.at \in Times /\ cleaner.at <= now
          /\ newest[g] \in Times /\ announced[g] \in Times
      BY DEF TInv, TypeOK, CleanerOK
    <2>r. row[g].activity \in Times /\ row[g].scheduled \in Nat
      BY <2>t DEF Row
    <2>n. /\ now \in Nat /\ cleaner.at \in Nat /\ newest[g] \in Nat /\ announced[g] \in Nat /\ row[g].activity \in Nat
          /\ InactiveAfter \in Nat /\ DeleteGrace \in Nat /\ Lag \in Nat
      BY <2>t, <2>r, TimesEnd, Constants
    <2>1. Drops
      <3>1. ~Creates
        BY DEF Creates, CreateGroup
      <3> QED BY <3>1, StepWrites DEF Writes
    <2>2. ASSUME NEW r \in Reqs, DeleteGroup(r)
          PROVE  At(r, "delete") /\ req[r].group = g /\ req[r].user = row[g].owner
      <3>1. req[r].pc = "delete" /\ req[r].group = g
        BY <2>2 DEF DeleteGroup, Gone, At
      <3> QED BY <3>1 DEF OInv, Mine, At
    <2>3. ASSUME NEW u \in Users, DeleteUser(u) PROVE row[g].owner \notin users'
      BY <2>3 DEF DeleteUser, Gone
    <2>4. CASE DeleteInactiveGroupsNow
      <3>1. PICK t \in now - Lag .. now : \E B \in SUBSET Inactive(t) : Gone(B, {})
        BY <2>4 DEF DeleteInactiveGroupsNow, Batches
      <3>2. g \in Inactive(t)
        BY <3>1 DEF Gone
      <3>3. t \in Int /\ t <= now
        BY <2>n, <3>1
      <3>4. cleaner' = cleaner
        BY <2>4 DEF DeleteInactiveGroupsNow
      <3> QED BY <3>2, <3>3, <3>4, InactiveQuiet
    <2>5. CASE DeleteScheduledGroups
      <3>1. PICK B \in SUBSET Due(cleaner.at) : Gone(B, {})
        BY <2>5 DEF DeleteScheduledGroups, Batches
      <3>2. g \in Inactive(cleaner.at) /\ row[g].scheduled # 0 /\ row[g].scheduled <= cleaner.at
        BY <3>1 DEF Gone, Due
      <3>3. g \notin load.protected /\ newest[g] < now - InactiveAfter + Lag
        BY <2>t, <2>n, <3>2, InactiveQuiet
      <3>4. /\ announced[g] + DeleteGrace <= row[g].scheduled + Lag /\ row[g].activity < announced[g] - InactiveAfter
            /\ newest[g] <= row[g].activity + Lag
        BY <3>2 DEF QInv, Recent, Pending
      <3>5. announced[g] + DeleteGrace <= now + Lag /\ newest[g] < announced[g] - InactiveAfter + Lag
        BY ONLY <2>t, <2>r, <2>n, <3>2, <3>4
      <3> QED BY <3>3, <3>5
    <2> QED BY <2>1, <2>2, <2>3, <2>4, <2>5 DEF Drops
  <1> QED BY <1>1, TypeInvariant, OwnerInvariant, QuietInvariant, PTL DEF Spec, OnlyQuietGroupsGo
=============================================================================
