------------------------------- MODULE Groups -------------------------------
(***************************************************************************)
(* Groups: membership, isolation after an attack, voice rooms and the      *)
(* deletion of groups that nobody uses (groups, groups/cleanup,            *)
(* store/groups, store/group_profiles, store/group_security,               *)
(* store/voicerooms).                                                      *)
(*                                                                         *)
(* A request reads, decides and writes in separate store calls, and every  *)
(* store call is one step; other requests, the cleanup pass and the        *)
(* deletion of accounts run in between.  What a message is and whether it  *)
(* may be sent is module Messages; here a message is activity.  LiveKit is *)
(* called and its errors are ignored or end the request: it has no state.  *)
(***************************************************************************)
EXTENDS Integers, FiniteSets

CONSTANTS
    Users, Owners,  \* accounts, and those that create groups
    Groups,         \* identifiers of groups, handed out once
    Public,         \* the groups created as public
    VoiceRooms,     \* identifiers of voice rooms, handed out once
    IPs,            \* client addresses
    Reqs,           \* requests in flight at the same time
    Workloads,      \* bounds: what clients do, who they are and for how long
    MaxUserGroups,  \* MAX_USER_GROUPS
    MaxVoiceRooms,  \* maxGroupVoiceRooms
    MinAttackers,   \* the least number of new accounts that is an attack
    JoinWindow,     \* joinAnalysisWindow
    Levels, Durations,      \* isolationDurations
    InactiveAfter, DeleteGrace, BatchSize, Interval,    \* GROUP_CLEANUP_*
    DryRun,         \* GROUP_CLEANUP_DRY_RUN
    Lag,            \* bound: ticks a request or a cleanup pass may take
    None            \* no group, no voice room

\* A behaviour stays within one workload.
MaxTime  == CHOOSE t \in {w.maxTime : w \in Workloads} : \A w \in Workloads : w.maxTime <= t
Times    == 0 .. MaxTime

\* config.go and groupcleanup.Run make the durations positive.
ASSUME GroupsAssumption ==
    /\ Users # {} /\ Groups # {} /\ Owners \subseteq Users /\ Public \subseteq Groups
    /\ IsFiniteSet(Users) /\ IsFiniteSet(VoiceRooms)
    /\ None \notin Groups \cup VoiceRooms \cup Users
    /\ MaxUserGroups \in Nat \ {0} /\ MaxVoiceRooms \in Nat /\ MinAttackers \in Nat \ {0}
    /\ JoinWindow \in Nat /\ Levels \in Nat \ {0} /\ Durations \in [1 .. Levels -> Nat \ {0}]
    /\ InactiveAfter \in Nat \ {0} /\ DeleteGrace \in Nat \ {0}
    /\ BatchSize \in Nat \ {0} /\ Interval \in Nat \ {0}
    /\ DryRun \in BOOLEAN /\ Lag \in Nat
    /\ Workloads # {} /\ IsFiniteSet(Workloads)
    /\ Workloads \subseteq [ops : SUBSET STRING, users : SUBSET Users,
                            protected : SUBSET Groups, maxTime : Nat]

VARIABLES
    now,            \* the clock
    load,           \* the workload of this behaviour (rigid); protected are the
                    \* groups an operator has marked protected_from_auto_delete
    users, young,   \* rows of users; those created less than 24 hours ago
    fresh,          \* identifiers that were not handed out yet
    live, row,      \* rows of groups and their columns
    members,        \* group_members
    joins,          \* successful rows of group_join_events within the window
    voice,          \* group_voice_rooms: the group of a voice room
    inside,         \* group_voice_members: the voice room of a user
    req,            \* requests in flight
    cleaner,        \* the periodic cleanup
    announced,      \* history: when a group was last scheduled for deletion
    newest          \* history: the creation time of a group's newest message

rows  == <<live, row, members, joins, voice, inside>>
vars  == <<now, load, users, young, fresh, live, row, members, joins, voice, inside,
           req, cleaner, announced, newest>>

ReqPC == {"idle", "join.member", "join.insert", "join.record", "join.evaluate",
          "join.isolate", "attack.isolate", "post", "leave", "remove", "delete",
          "voice.create", "voice.delete", "voice.enter", "voice.leave"}

\* scheduled = 0 is SQL's NULL.
Row    == [owner : Users, activity : Times, scheduled : Nat, until : Nat,
           level : 0 .. Levels, raised : Times]
NewRow(u, t) == [owner |-> u, activity |-> t, scheduled |-> 0, until |-> 0,
                 level |-> 0, raised |-> 0]
AnyUser   == CHOOSE u \in Users : TRUE
NoRow     == NewRow(AnyUser, 0)
ReqRecord == [pc : ReqPC, user : Users, group : Groups, target : Users \cup VoiceRooms \cup {None},
              at : Times, isolated : BOOLEAN, already : BOOLEAN, who : SUBSET Users]
IdleReq   == [pc |-> "idle", user |-> AnyUser, group |-> CHOOSE g \in Groups : TRUE, target |-> None,
              at |-> 0, isolated |-> FALSE, already |-> FALSE, who |-> {}]
JoinEvent == [group : Groups, user : Users, ip : IPs, at : Times]

\* Types; rows refer to rows that exist.
TypeOK ==
    /\ now \in Times /\ load \in Workloads
    /\ users \subseteq Users /\ young \subseteq Users
    /\ fresh \subseteq Groups \cup VoiceRooms
    /\ live \subseteq Groups /\ live \cap fresh = {}
    /\ row \in [Groups -> Row]
    /\ members \in [Groups -> SUBSET users]
    /\ joins \subseteq JoinEvent
    /\ voice \in [VoiceRooms -> live \cup {None}]
    /\ inside \in [Users -> {v \in VoiceRooms : voice[v] # None} \cup {None}]
    /\ req \in [Reqs -> ReqRecord]
    /\ cleaner \in [pc : {"idle", "schedule", "delete"}, at : Times, last : Int]
    /\ announced \in [Groups -> Times] /\ newest \in [Groups -> Times]

Init ==
    /\ now = 0 /\ load \in Workloads
    /\ users = load.users /\ young = load.users
    /\ fresh = Groups \cup VoiceRooms
    /\ live = {} /\ row = [g \in Groups |-> NoRow]
    /\ members = [g \in Groups |-> {}] /\ joins = {}
    /\ voice = [v \in VoiceRooms |-> None] /\ inside = [u \in Users |-> None]
    /\ req = [r \in Reqs |-> IdleReq]
    /\ cleaner = [pc |-> "idle", at |-> 0, last |-> 0 - Interval]
    /\ announced = [g \in Groups |-> 0] /\ newest = [g \in Groups |-> 0]

-----------------------------------------------------------------------------
(* Requests.                                                               *)

At(r, pc)    == req[r].pc = pc
Done(r)      == req' = [req EXCEPT ![r] = IdleReq]
Goto(r, pc)  == req' = [req EXCEPT ![r].pc = pc]
Start(r, op, pc, u, g, t) ==
    /\ At(r, "idle") /\ op \in load.ops /\ u \in users
    /\ req' = [req EXCEPT ![r] = [IdleReq EXCEPT !.pc = pc, !.user = u, !.group = g,
                                                 !.target = t, !.at = now]]

Env   == <<now, load, users, young>>
Ghost == <<announced, newest>>
ReadOnly == UNCHANGED <<Env, fresh, rows, cleaner, Ghost>>

Isolated(g) == row[g].until > now

\* Rows of groups G and accounts U disappear, and what refers to them with
\* them (ON DELETE CASCADE).
Gone(G, U) ==
    /\ live' = live \ G
    /\ row' = [g \in Groups |-> IF g \in G THEN NoRow ELSE row[g]]
    /\ members' = [g \in Groups |-> IF g \in G THEN {} ELSE members[g] \ U]
    /\ joins' = {e \in joins : e.group \notin G /\ e.user \notin U}
    /\ voice' = [v \in VoiceRooms |-> IF voice[v] \in G THEN None ELSE voice[v]]
    /\ inside' = [u \in Users |->
                    IF u \in U \/ (inside[u] # None /\ voice[inside[u]] \in G) THEN None ELSE inside[u]]

\* group_voice_members without the rows of accounts U in voice rooms of g.
WithoutVoice(g, U) ==
    [u \in Users |-> IF u \in U /\ inside[u] # None /\ voice[inside[u]] = g THEN None ELSE inside[u]]

-----------------------------------------------------------------------------
(* Create, Delete.                                                         *)

\* One transaction counts the caller's groups and inserts group and owner.
CreateGroup(u, g) ==
    /\ "create" \in load.ops /\ u \in users \cap Owners /\ g \in fresh \cap Groups
    /\ Cardinality({h \in live : row[h].owner = u}) < MaxUserGroups
    /\ fresh' = fresh \ {g}
    /\ live' = live \cup {g}
    /\ row' = [row EXCEPT ![g] = NewRow(u, now)]
    /\ members' = [members EXCEPT ![g] = {u}]
    /\ newest' = [newest EXCEPT ![g] = now]
    /\ UNCHANGED <<Env, joins, voice, inside, req, cleaner, announced>>

DeleteCheck(r, g, u) ==
    /\ g \in live /\ row[g].owner = u
    /\ Start(r, "delete", "delete", u, g, None)
    /\ ReadOnly

DeleteGroup(r) ==
    /\ At(r, "delete")
    /\ Gone({req[r].group}, {})
    /\ Done(r)
    /\ UNCHANGED <<Env, fresh, cleaner, Ghost>>

-----------------------------------------------------------------------------
(* Join: the group is read with its isolation, then the membership, then   *)
(* the row is inserted; who joined and was not a member before is recorded *)
(* and may complete an attack.                                             *)

JoinRead(r, g, u, byInvite) ==
    /\ g \in live
    /\ byInvite \/ g \in Public
    /\ At(r, "idle") /\ "join" \in load.ops /\ u \in users
    /\ req' = [req EXCEPT ![r] = [IdleReq EXCEPT !.pc = "join.member", !.user = u, !.group = g,
                                                 !.at = now, !.isolated = Isolated(g)]]
    /\ ReadOnly

\* 423 for a group that was isolated when it was read, except for a member.
JoinMemberUnchecked(r) ==                                             \* mutant
    LET already == req[r].user \in members[req[r].group] IN
    /\ At(r, "join.member")
    /\ req' = [req EXCEPT ![r].pc = "join.insert", ![r].already = already]
    /\ ReadOnly
JoinMember(r) ==
    LET already == req[r].user \in members[req[r].group] IN
    /\ At(r, "join.member")
    /\ IF req[r].isolated /\ ~already
       THEN Done(r)
       ELSE req' = [req EXCEPT ![r].pc = "join.insert", ![r].already = already]
    /\ ReadOnly

\* JoinGroup: a row that exists, and an account that does not, count as
\* success; a group that is gone does not.
JoinGroup(r) ==
    LET g == req[r].group
        u == req[r].user IN
    /\ At(r, "join.insert")
    /\ members' = [members EXCEPT ![g] = IF g \in live /\ u \in users THEN @ \cup {u} ELSE @]
    /\ IF g \notin live \/ req[r].already THEN Done(r) ELSE Goto(r, "join.record")
    /\ UNCHANGED <<Env, fresh, live, row, joins, voice, inside, cleaner, Ghost>>

\* The event carries the time the request read first; an insert that fails is
\* ignored.
RecordJoinEvent(r, ip) ==
    LET g == req[r].group
        u == req[r].user IN
    /\ At(r, "join.record")
    /\ joins' = IF g \in live /\ u \in users
                THEN joins \cup {[group |-> g, user |-> u, ip |-> ip, at |-> req[r].at]}
                ELSE joins
    /\ Goto(r, "join.evaluate")
    /\ UNCHANGED <<Env, fresh, live, row, members, voice, inside, cleaner, Ghost>>

\* At least this many new accounts from one address are an attack.
AttackThreshold(g) ==
    LET fifth == (Cardinality(members[g]) + 4) \div 5 IN
    IF fifth > MinAttackers THEN fifth ELSE MinAttackers

JoinAttackCandidates(g) ==
    LET recent == {e \in joins : e.group = g /\ e.at >= now - JoinWindow /\ e.user \in young}
        From(ip) == {e.user : e \in {x \in recent : x.ip = ip}} IN
    {u \in young : \E ip \in IPs : u \in From(ip) /\ Cardinality(From(ip)) >= AttackThreshold(g)}

EvaluateJoinAttack(r) ==
    LET candidates == JoinAttackCandidates(req[r].group) IN
    /\ At(r, "join.evaluate")
    /\ req' = [req EXCEPT ![r].pc = IF candidates = {} THEN "post" ELSE "join.isolate",
                          ![r].who = candidates]
    /\ ReadOnly

\* isolateMessageAttack, called by the antispam guard for a member.
MessageAttack(r, g, u) ==
    /\ u \in members[g]
    /\ At(r, "idle") /\ "attack" \in load.ops
    /\ req' = [req EXCEPT ![r] = [IdleReq EXCEPT !.pc = "attack.isolate", !.user = u, !.group = g,
                                                 !.at = now, !.who = {u}]]
    /\ ReadOnly

\* The ladder starts again when the last step is longer ago than the window.
NextLevel(g) ==
    LET level == IF now - row[g].raised > JoinWindow THEN 0 ELSE row[g].level IN
    IF level < Levels THEN level + 1 ELSE Levels

\* removeCandidates: the owner and older accounts stay.
RemovedAll(g, who) == who \cap members[g] \cap young                  \* mutant
Removed(g, who) == {u \in who \cap members[g] \cap young : u # row[g].owner}

\* One transaction; a group that is gone is an error nobody hears of.  Nor does
\* removeCandidates: an account whose row it cannot delete stays a member, one
\* whose voice row it cannot delete stays in the voice room.
IsolateGroup(r) ==
    LET g   == req[r].group
        all == Removed(g, req[r].who) IN
    /\ req[r].pc \in {"join.isolate", "attack.isolate"}
    /\ IF g \in live
       THEN /\ row' = [row EXCEPT ![g].until = now + Durations[NextLevel(g)],
                                  ![g].level = NextLevel(g), ![g].raised = now]
            /\ \E out \in SUBSET all : \E silent \in SUBSET out :
                  /\ "fault" \in load.ops \/ (out = all /\ silent = all)
                  /\ members' = [members EXCEPT ![g] = @ \ out]
                  /\ inside' = WithoutVoice(g, silent)
       ELSE UNCHANGED <<row, members, inside>>
    /\ IF At(r, "join.isolate") THEN Goto(r, "post") ELSE Done(r)
    /\ UNCHANGED <<Env, fresh, live, joins, voice, cleaner, Ghost>>

-----------------------------------------------------------------------------
(* Activity: messages of members, and the system message that follows a    *)
(* join, a leave or a removal.                                             *)

\* AddMessage: the group's activity becomes the message's creation time, which
\* may be earlier than that of a message stored before; a pending deletion is
\* cancelled.  Fails for a group or an author that is gone.
TouchKeepingSchedule(g, t) == row' = [row EXCEPT ![g].activity = t]   \* mutant
Touch(g, t) == row' = [row EXCEPT ![g].activity = t, ![g].scheduled = 0]

AddMessage(g, u, t) ==
    IF g \in live /\ u \in users
    THEN /\ Touch(g, t)
         /\ newest' = [newest EXCEPT ![g] = IF t > @ THEN t ELSE @]
    ELSE UNCHANGED <<row, newest>>

SendStart(r, g, u) ==
    /\ u \in members[g]
    /\ Start(r, "send", "post", u, g, None)
    /\ ReadOnly

\* The creation time is read before the transaction, which may have to wait.
Post(r) ==
    /\ At(r, "post")
    /\ \E t \in req[r].at .. now : AddMessage(req[r].group, req[r].user, t)
    /\ Done(r)
    /\ UNCHANGED <<Env, fresh, live, members, joins, voice, inside, cleaner, announced>>

-----------------------------------------------------------------------------
(* Leave and RemoveMember.                                                 *)

LeaveCheck(r, g, u) ==
    /\ u \in members[g] /\ row[g].owner # u
    /\ Start(r, "leave", "leave", u, g, None)
    /\ ReadOnly

\* The voice room of the group is not left with the group.
LeaveGroup(r) ==
    LET g == req[r].group
        u == req[r].user IN
    /\ At(r, "leave")
    /\ members' = [members EXCEPT ![g] = @ \ {u}]
    /\ IF u \in members[g] THEN Goto(r, "post") ELSE Done(r)
    /\ UNCHANGED <<Env, fresh, live, row, joins, voice, inside, cleaner, Ghost>>

RemoveCheck(r, g, u, t) ==
    /\ g \in live /\ row[g].owner = u /\ t # u
    /\ Start(r, "remove", "remove", u, g, t)
    /\ ReadOnly

RemoveGroupMemberKeepingVoice(r) ==                                   \* mutant
    LET g == req[r].group
        u == req[r].target IN
    /\ At(r, "remove")
    /\ members' = [members EXCEPT ![g] = @ \ {u}]
    /\ IF u \in members[g] THEN Goto(r, "post") ELSE Done(r)
    /\ UNCHANGED <<Env, fresh, live, row, joins, voice, inside, cleaner, Ghost>>
RemoveGroupMember(r) ==
    LET g == req[r].group
        u == req[r].target IN
    /\ At(r, "remove")
    /\ IF u \in members[g]
       THEN /\ members' = [members EXCEPT ![g] = @ \ {u}]
            /\ inside' = WithoutVoice(g, {u})
            /\ Goto(r, "post")
       ELSE Done(r) /\ UNCHANGED <<members, inside>>
    /\ UNCHANGED <<Env, fresh, live, row, joins, voice, cleaner, Ghost>>

-----------------------------------------------------------------------------
(* Voice rooms.                                                            *)

CreateVoiceCheck(r, g, u) ==
    /\ g \in live /\ row[g].owner = u
    /\ Start(r, "voice", "voice.create", u, g, None)
    /\ ReadOnly

VoiceRoomsOf(g) == {v \in VoiceRooms : voice[v] = g}

\* One transaction counts and inserts; the row refers to its group.
BelowVoiceLimit(g) == Cardinality(VoiceRoomsOf(g)) < MaxVoiceRooms

CreateVoiceRoom(r) ==
    LET g == req[r].group IN
    /\ At(r, "voice.create")
    /\ \/ /\ BelowVoiceLimit(g) /\ g \in live
          /\ \E v \in fresh \cap VoiceRooms :
                /\ voice' = [voice EXCEPT ![v] = g]
                /\ fresh' = fresh \ {v}
       \/ /\ ~BelowVoiceLimit(g) \/ g \notin live
          /\ UNCHANGED <<voice, fresh>>
    /\ Done(r)
    /\ UNCHANGED <<Env, live, row, members, joins, inside, cleaner, Ghost>>

DeleteVoiceCheck(r, v, u) ==
    /\ voice[v] # None /\ row[voice[v]].owner = u
    /\ Start(r, "voice", "voice.delete", u, voice[v], v)
    /\ ReadOnly

DeleteVoiceRoom(r) ==
    LET v == req[r].target IN
    /\ At(r, "voice.delete")
    /\ voice' = [voice EXCEPT ![v] = None]
    /\ inside' = [u \in Users |-> IF inside[u] = v THEN None ELSE inside[u]]
    /\ Done(r)
    /\ UNCHANGED <<Env, fresh, live, row, members, joins, cleaner, Ghost>>

JoinVoiceCheck(r, v, u) ==
    /\ voice[v] # None /\ u \in members[voice[v]]
    /\ Start(r, "voice", "voice.enter", u, voice[v], v)
    /\ ReadOnly

\* Upsert: a user is in one voice room.  The membership is not read again; the
\* row refers to a voice room and an account.
EnterVoiceAnywhere(r) ==                                              \* mutant
    LET u == req[r].user IN
    /\ At(r, "voice.enter")
    /\ inside' = [inside EXCEPT ![u] = IF u \in users THEN req[r].target ELSE @]
    /\ Done(r)
    /\ UNCHANGED <<Env, fresh, live, row, members, joins, voice, cleaner, Ghost>>
EnterVoice(r) ==
    LET u == req[r].user
        v == req[r].target IN
    /\ At(r, "voice.enter")
    /\ inside' = [inside EXCEPT ![u] = IF u \in users /\ voice[v] # None THEN v ELSE @]
    /\ Done(r)
    /\ UNCHANGED <<Env, fresh, live, row, members, joins, voice, cleaner, Ghost>>

LeaveVoiceCheck(r, v, u) ==
    /\ voice[v] # None /\ u \in members[voice[v]]
    /\ Start(r, "voice", "voice.leave", u, voice[v], v)
    /\ ReadOnly

LeaveVoice(r) ==
    LET u == req[r].user IN
    /\ At(r, "voice.leave")
    /\ inside' = [inside EXCEPT ![u] = IF @ = req[r].target THEN None ELSE @]
    /\ Done(r)
    /\ UNCHANGED <<Env, fresh, live, row, members, joins, voice, cleaner, Ghost>>

\* 404: every operation on a group that does not exist.
NotFound(g) == g \notin live /\ UNCHANGED vars

\* A database or LiveKit error, a client that goes away or a crash ends a
\* request between two steps.
Abort(r) == ~At(r, "idle") /\ Done(r) /\ ReadOnly

-----------------------------------------------------------------------------
(* Cleanup of inactive groups.                                             *)

\* The rows of S, at most BatchSize of them and the ones with the least key.
Batches(S, key) ==
    {B \in SUBSET S :
        /\ Cardinality(B) <= BatchSize
        /\ Cardinality(B) < BatchSize => B = S
        /\ \A g \in B, h \in S \ B : key[g] <= key[h]}

Inactive(t) == {g \in live \ load.protected : row[g].activity < t - InactiveAfter}

InactiveGroupCandidates ==
    /\ cleaner.pc = "idle" /\ now >= cleaner.last + Interval
    /\ cleaner' = [pc |-> IF Inactive(now) = {} \/ DryRun THEN "idle" ELSE "schedule",
                   at |-> now, last |-> now]
    /\ UNCHANGED <<Env, fresh, rows, req, Ghost>>

\* Groups to schedule: the ones that are scheduled keep their date.
RescheduledToo(t) == Inactive(t)                                      \* mutant
Unscheduled(t) == {g \in Inactive(t) : row[g].scheduled = 0}

ScheduleInactiveGroups ==
    LET key == [g \in Groups |-> row[g].activity] IN
    /\ cleaner.pc = "schedule"
    /\ \E B \in Batches(Unscheduled(cleaner.at), key) :
          /\ row' = [g \in Groups |-> IF g \in B
                                      THEN [row[g] EXCEPT !.scheduled = cleaner.at + DeleteGrace]
                                      ELSE row[g]]
          /\ announced' = [g \in Groups |-> IF g \in B THEN now ELSE announced[g]]
    /\ cleaner' = [cleaner EXCEPT !.pc = "delete"]
    /\ UNCHANGED <<Env, fresh, live, members, joins, voice, inside, req, newest>>

\* What the deletion reads again in its own transaction.
Due(t) == {g \in Inactive(t) : row[g].scheduled # 0 /\ row[g].scheduled <= t}

DeleteScheduledGroups ==
    LET key == [g \in Groups |-> row[g].scheduled] IN
    /\ cleaner.pc = "delete"
    /\ \E B \in Batches(Due(cleaner.at), key) : Gone(B, {})
    /\ cleaner' = [cleaner EXCEPT !.pc = "idle"]
    /\ UNCHANGED <<Env, fresh, req, Ghost>>

\* An error ends the pass; the ticker starts the next one.
CleanupFails ==
    /\ "fault" \in load.ops /\ cleaner.pc # "idle"
    /\ cleaner' = [cleaner EXCEPT !.pc = "idle"]
    /\ UNCHANGED <<Env, fresh, rows, req, Ghost>>

\* Emergency: no announcement.  The pass has read the clock up to Lag earlier.
DeleteInactiveGroupsNow ==
    LET key == [g \in Groups |-> row[g].activity] IN
    /\ "emergency" \in load.ops
    /\ \E t \in now - Lag .. now : \E B \in Batches(Inactive(t), key) : B # {} /\ Gone(B, {})
    /\ UNCHANGED <<Env, fresh, req, cleaner, Ghost>>

-----------------------------------------------------------------------------
(* Environment.                                                            *)

\* DeleteUser of another component; the rows of the account cascade.
DeleteUser(u) ==
    /\ "account" \in load.ops /\ u \in users
    /\ users' = users \ {u}
    /\ Gone({g \in live : row[g].owner = u}, {u})
    /\ UNCHANGED <<now, load, young, fresh, req, cleaner, Ghost>>

\* An account turns 24 hours old.
GrowOld(u) ==
    /\ "age" \in load.ops /\ u \in young
    /\ young' = young \ {u}
    /\ UNCHANGED <<now, load, users, fresh, rows, req, cleaner, Ghost>>

\* The ticker starts a pass every Interval; requests end within Lag.  Events
\* that no window will contain any more are dropped.
Tick ==
    /\ now < load.maxTime
    /\ \A r \in Reqs : ~At(r, "idle") => now < req[r].at + Lag
    /\ IF cleaner.pc = "idle" THEN now < cleaner.last + Interval ELSE now < cleaner.at + Lag
    /\ now' = now + 1
    /\ joins' = {e \in joins : e.at >= now' - JoinWindow}
    /\ UNCHANGED <<load, users, young, fresh, live, row, members, voice, inside, req, cleaner, Ghost>>

RequestEnd(r) ==
    \/ JoinMember(r) \/ JoinGroup(r) \/ (\E ip \in IPs : RecordJoinEvent(r, ip))
    \/ EvaluateJoinAttack(r) \/ IsolateGroup(r)
    \/ Post(r)
    \/ LeaveGroup(r) \/ RemoveGroupMember(r) \/ DeleteGroup(r)
    \/ CreateVoiceRoom(r) \/ DeleteVoiceRoom(r) \/ EnterVoice(r) \/ LeaveVoice(r)
    \/ Abort(r)

RequestStart(r, u) ==
    \/ \E g \in Groups :
        \/ \E byInvite \in BOOLEAN : JoinRead(r, g, u, byInvite)
        \/ MessageAttack(r, g, u) \/ SendStart(r, g, u)
        \/ LeaveCheck(r, g, u) \/ DeleteCheck(r, g, u)
        \/ \E t \in Users : RemoveCheck(r, g, u, t)
        \/ CreateVoiceCheck(r, g, u)
    \/ \E v \in VoiceRooms :
        \/ DeleteVoiceCheck(r, v, u) \/ JoinVoiceCheck(r, v, u) \/ LeaveVoiceCheck(r, v, u)

Cleanup == InactiveGroupCandidates \/ ScheduleInactiveGroups \/ DeleteScheduledGroups

Next ==
    \/ \E r \in Reqs : RequestEnd(r) \/ \E u \in Users : RequestStart(r, u)
    \/ \E u \in Users : (\E g \in Groups : CreateGroup(u, g)) \/ DeleteUser(u) \/ GrowOld(u)
    \/ \E g \in Groups : NotFound(g)
    \/ Cleanup \/ CleanupFails \/ DeleteInactiveGroupsNow
    \/ Tick

Spec == Init /\ [][Next]_vars

\* The clock moves, the ticker's passes run and requests end.
FairSpec ==
    /\ Spec /\ WF_vars(Tick) /\ WF_vars(Cleanup)
    /\ \A r \in Reqs : WF_vars(RequestEnd(r))

-----------------------------------------------------------------------------
(* Properties.                                                             *)

\* The owner of a group is an account and a member of it for as long as the
\* group exists: no leave, removal, isolation or account deletion, in whatever
\* order they overlap, leaves a group without its owner.
OwnerStays == \A g \in live : row[g].owner \in users \cap members[g]

\* What one step may add to the members of an isolated group.
JoinStep ==
    \A g \in live : \A u \in members'[g] \ members[g] : Isolated(g) =>
        \E r \in Reqs : /\ At(r, "join.insert") /\ req[r].user = u /\ req[r].group = g
                        /\ req[r].already \/ req[r].at <= row[g].raised

\* Isolation keeps new members out: who becomes a member while it is in force
\* asked before it was raised, or was still a member after asking.
IsolationHolds == [][JoinStep]_vars

\* What one step may leave of the voice rows of a member it takes out.
VoiceStep ==
    \A g \in Groups : \A u \in members[g] \ members'[g] :
        \/ inside'[u] = None \/ voice'[inside'[u]] # g
        \/ \E r \in Reqs : At(r, "leave") /\ req[r].user = u /\ req[r].group = g
        \/ /\ "fault" \in load.ops
           /\ \E r \in Reqs : /\ req[r].pc \in {"join.isolate", "attack.isolate"}
                              /\ req[r].group = g /\ u \in req[r].who

\* A member who is taken out of a group, by its owner, by an isolation, or
\* because the group or the account is deleted, is taken out of its voice rooms
\* in the same transaction.  Only who leaves keeps the row, and a suspect whose
\* voice row the isolation failed to delete.
ForcedOutOfVoice == [][VoiceStep]_vars

\* What one step may do to a group that exists.
DeletionStep ==
    \A g \in live \ live' :
        \/ row[g].owner \notin users'
        \/ \E r \in Reqs : At(r, "delete") /\ req[r].group = g /\ req[r].user = row[g].owner
        \/ /\ g \notin load.protected /\ newest[g] < now - InactiveAfter + Lag
           /\ \/ cleaner' = cleaner
              \/ /\ announced[g] + DeleteGrace <= now + Lag
                 /\ newest[g] < announced[g] - InactiveAfter + Lag

\* Nobody else loses a group: a group that its owner did not delete, and whose
\* owner's account stays, goes only when it is not protected and has had no
\* message for InactiveAfter, and the periodic cleanup deletes it only
\* DeleteGrace after it was scheduled in that same quiet period.  Both hold up
\* to the time a request or a pass takes.
OnlyQuietGroupsGo == [][DeletionStep]_vars

\* The clock's bound leaves time to schedule a group and to delete it, when a
\* batch holds every group and no pass fails.
Early(g) ==
    /\ g \in live \ load.protected /\ ~DryRun /\ "fault" \notin load.ops
    /\ row[g].activity + InactiveAfter + DeleteGrace + 2 * Interval <= load.maxTime

\* A group that stays quiet is deleted, unless it is protected.
QuietGroupsDeleted == \A g \in Groups : Early(g) ~> ~Early(g)
=============================================================================
