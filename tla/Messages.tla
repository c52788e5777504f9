------------------------------ MODULE Messages ------------------------------
(***************************************************************************)
(* Messages of one group: sending with an idempotency key, the antispam    *)
(* guard with its cooldowns, warnings and its message interval, deletion,  *)
(* read receipts, expiry, and the hub that tells open event streams        *)
(* (groups/messages, antispam, store/groupmessages, store/readreceipts,    *)
(* store/rate, groups/hub).                                                *)
(*                                                                         *)
(* Requests run concurrently, every store call is one step, and a clock    *)
(* that is read before a store call may be behind when the call runs.  A   *)
(* tick is the beginning of a second: the code computes with now.Unix().   *)
(* A body is a model value, Like says which bodies count as similar, and   *)
(* whether a body looks like spam or a bucket is empty is left open.       *)
(***************************************************************************)
EXTENDS Integers, Sequences, FiniteSets, FiniteSetsExt

CONSTANTS
    Users, Owner,   \* accounts, and the one that owns the group
    Msgs,           \* identifiers of messages, handed out once
    Bodies, Like,   \* texts, and the pairs of them that are nearlySame
    NoText,         \* the body of a message that has attachments only
    Keys, NoKey,    \* idempotency keys, and a request without one
    Streams,        \* event streams, opened once
    Reqs,           \* requests in flight at the same time
    KeyTTL,         \* IdempotencyTTL
    Refill,         \* MessageLimit.Refill, the guard's window
    Cooldowns,      \* durations of the cooldown's levels
    CooldownForget, \* the level is forgotten after 24 hours
    Flood, FloodUsers,          \* similar messages, and their authors, that are an attack
    WarningLimit, WarningWindow,    \* groupSpamWarningLimit, groupSpamWindow
    BucketTTL,      \* RATE_LIMIT_BUCKET_TTL
    Second,         \* the units of MinMessageInterval that make up a second
    BanLimit,       \* the messages a ban deletes: 100
    Retention, MinAge,          \* 7 days, and what the emergency leaves alone
    ChannelSize,    \* capacity of a stream's channel: 16
    Workloads,      \* bounds: what clients do, who they are, and for how long
    None

\* A behaviour stays within one workload: operations, accounts, keys, texts,
\* how many messages, MinMessageInterval in parts of a second, how many ticks
\* a request may take, and the end of time.
MaxTime == Max({w.maxTime : w \in Workloads})
Times   == 0 .. MaxTime

ASSUME MessagesAssumption ==
    /\ Owner \in Users /\ IsFiniteSet(Users) /\ IsFiniteSet(Msgs) /\ IsFiniteSet(Streams)
    /\ NoKey \notin Keys /\ NoText \notin Bodies /\ None \notin Users \cup Msgs
    /\ Like \subseteq Bodies \X Bodies
    /\ KeyTTL \in Nat \ {0} /\ Refill \in Nat \ {0} /\ BucketTTL \in Nat \ {0}
    /\ Second \in Nat \ {0} /\ BanLimit \in Nat
    /\ Cooldowns \in Seq(Nat \ {0}) /\ Cooldowns # <<>> /\ CooldownForget \in Nat
    /\ Flood \in Nat \ {0} /\ FloodUsers \in Nat /\ WarningLimit \in Nat \ {0}
    /\ WarningWindow \in Nat /\ Retention \in Nat /\ MinAge \in Nat
    /\ ChannelSize \in Nat \ {0}
    /\ Workloads # {} /\ IsFiniteSet(Workloads)
    /\ Workloads \subseteq [ops : SUBSET STRING, users : SUBSET Users, keys : SUBSET (Keys \cup {NoKey}),
                            bodies : SUBSET (Bodies \cup {NoText}), msgs : Nat,
                            interval : Nat, lag : Nat, maxTime : Nat]
    /\ \A w \in Workloads : w.interval + w.lag * Second <= BucketTTL * Second

VARIABLES
    now,            \* the clock
    load,           \* the workload of this behaviour (rigid)
    members,        \* group_members
    fresh,          \* identifiers of messages that were not handed out yet
    stored, msg,    \* rows of group_messages and their columns
    reads,          \* group_message_reads
    keys,           \* idempotency_keys
    cooldown,       \* message_spam_cooldowns
    bucket,         \* rate_limit_buckets, scope message:interval
    warned,         \* Guard.warned, in memory: until when, 0 without an entry
    warnings,       \* group_spam_warnings: how many rows of a second
    stream, chan,   \* Hub.users: whose stream it is; its channel
    req,            \* requests in flight
    origin,         \* history: for which key, and when, a message was reserved
    passed,         \* history: when the interval last let an account pass, and how
                    \* far refused calls have set its bucket back since
    seen,           \* history: the newest second an account has marked as read
    entitled        \* history: members of the group since a message was stored

tables == <<stored, msg, reads, keys, cooldown, bucket, warnings>>
ghost  == <<origin, passed, seen, entitled>>
hub    == <<stream, chan>>
vars   == <<now, load, members, fresh, stored, msg, reads, keys, cooldown, bucket, warned,
            warnings, stream, chan, req, origin, passed, seen, entitled>>

SendPC == {"reserve", "cooldown", "interval", "repeat", "similar", "limits", "purge",
           "evaluate", "warning", "violation", "record", "isolate", "add", "ids", "publish"}
ReqPC  == SendPC \cup {"idle", "delete", "mark", "receipts"}

Texts     == Bodies \cup {NoText}
Message   == [author : Users, body : Texts, created : Times]
KeyRow    == [user : Users, key : Keys, id : Msgs, expires : Nat]
Cooldown  == [level : 0 .. Len(Cooldowns), until : Nat, last : Times]
Bucket    == [tokens : Nat, updated : Times, expires : Nat]
Event     == [type : {"created", "deleted", "read"}, id : Msgs]
Origin    == [user : Users, key : Keys \cup {NoKey}, at : Times]
Pass      == [at : Int, back : Nat]

AnyUser   == CHOOSE u \in Users : TRUE
NoMessage == [author |-> AnyUser, body |-> NoText, created |-> 0]
NoOrigin  == [user |-> AnyUser, key |-> NoKey, at |-> 0]
IdleReq   == [pc |-> "idle", user |-> AnyUser, key |-> NoKey, body |-> NoText, id |-> None, at |-> 0,
              isolate |-> FALSE, late |-> FALSE, event |-> "created", to |-> {}, todo |-> {}]
ReqRecord == [pc : ReqPC, user : Users, key : Keys \cup {NoKey}, body : Texts, id : Msgs \cup {None},
              at : Times, isolate : BOOLEAN, late : BOOLEAN, event : {"created", "deleted"},
              to : SUBSET Users, todo : SUBSET Msgs]

\* Types; rows refer to rows that exist, and no channel exceeds its capacity.
TypeOK ==
    /\ now \in Times /\ load \in Workloads
    /\ members \subseteq Users /\ fresh \subseteq Msgs
    /\ stored \subseteq Msgs \ fresh /\ msg \in [Msgs -> Message]
    /\ reads \subseteq stored \X Users
    /\ keys \subseteq KeyRow /\ \A a, b \in keys : a.user = b.user /\ a.key = b.key => a = b
    /\ cooldown \in [Users -> Cooldown] /\ bucket \in [Users -> Bucket]
    /\ warned \in [Users -> Nat] /\ warnings \in [Times -> Nat]
    /\ stream \in [Streams -> Users \cup {None}]
    /\ chan \in [Streams -> Seq(Event)] /\ \A s \in Streams : Len(chan[s]) <= ChannelSize
    /\ req \in [Reqs -> ReqRecord]
    /\ origin \in [Msgs -> Origin] /\ passed \in [Users -> Pass] /\ seen \in [Users -> Int]
    /\ entitled \in [Msgs -> SUBSET Users]

Init ==
    /\ now = 0 /\ load \in Workloads
    /\ members = load.users /\ fresh \in kSubset(load.msgs, Msgs)
    /\ stored = {} /\ msg = [m \in Msgs |-> NoMessage]
    /\ reads = {} /\ keys = {}
    /\ cooldown = [u \in Users |-> [level |-> 0, until |-> 0, last |-> 0]]
    /\ bucket = [u \in Users |-> [tokens |-> 0, updated |-> 0, expires |-> 0]]
    /\ warned = [u \in Users |-> 0] /\ warnings = [t \in Times |-> 0]
    /\ stream = [s \in Streams |-> None] /\ chan = [s \in Streams |-> <<>>]
    /\ req = [r \in Reqs |-> IdleReq]
    /\ origin = [m \in Msgs |-> NoOrigin]
    /\ passed = [u \in Users |-> [at |-> 0 - load.interval - load.lag, back |-> 0]]
    /\ seen = [u \in Users |-> 0 - 1]
    /\ entitled = [m \in Msgs |-> {}]

At(r, pc)   == req[r].pc = pc
Done(r)     == req' = [req EXCEPT ![r] = IdleReq]
Goto(r, pc) == req' = [req EXCEPT ![r].pc = pc]

\* What the clock may have said when a request read it for its next call.
Clock(r) == req[r].at .. now

-----------------------------------------------------------------------------
(* Groups.Service.send: membership, key, guard, row, event.  A message     *)
(* with attachments and without a text skips the guard.                    *)

\* The reply a request names is a message of the group when it is read.
Send(r, u, k, b) ==
    /\ At(r, "idle") /\ "send" \in load.ops /\ u \in members
    /\ k \in load.keys /\ b \in load.bodies
    /\ req' = [req EXCEPT ![r] = [IdleReq EXCEPT !.pc = "reserve", !.user = u, !.key = k,
                                                 !.body = b, !.at = now]]
    /\ UNCHANGED <<now, load, members, fresh, tables, warned, hub, ghost>>

\* Rows of idempotency_keys that are not deleted as expired at time t.
LiveEarly(t) == {k \in keys : k.expires > t + 1}                      \* mutant
Live(t) == {k \in keys : k.expires > t}

AfterReserve(b) == IF b = NoText THEN "add" ELSE "cooldown"

\* Without a key every request is new.
ReserveNothing(r) ==
    /\ At(r, "reserve") /\ req[r].key = NoKey
    /\ Goto(r, AfterReserve(req[r].body))
    /\ UNCHANGED <<now, load, members, fresh, tables, warned, hub, ghost>>

\* ReserveIdempotencyKey: a key that is known is answered with its message,
\* or with not found when there is none (not yet, refused, or deleted).
Reserve(r) ==
    LET q == req[r] IN
    /\ At(r, "reserve") /\ q.key # NoKey
    /\ \E t \in Clock(r) :
        \/ /\ \E k \in Live(t) : k.user = q.user /\ k.key = q.key
           /\ keys' = Live(t)
           /\ Done(r)
           /\ UNCHANGED <<fresh, origin>>
        \/ /\ ~\E k \in Live(t) : k.user = q.user /\ k.key = q.key
           /\ \E m \in fresh :
                /\ fresh' = fresh \ {m}
                /\ keys' = Live(t) \cup {[user |-> q.user, key |-> q.key, id |-> m,
                                          expires |-> t + KeyTTL]}
                /\ origin' = [origin EXCEPT ![m] = [user |-> q.user, key |-> q.key, at |-> t]]
                /\ req' = [req EXCEPT ![r].id = m, ![r].at = t, ![r].pc = AfterReserve(q.body)]
    /\ UNCHANGED <<now, load, members, stored, msg, reads, cooldown, bucket, warned, warnings,
                   hub, passed, seen, entitled>>

-----------------------------------------------------------------------------
(* Guard.Check.  Its clock is read once, before the cooldown; the limiter  *)
(* reads its own.                                                          *)

MessageCooldownExpired(r) ==                                          \* mutant
    /\ At(r, "cooldown")
    /\ \E t \in Clock(r) :
        IF cooldown[req[r].user].last > t
        THEN Done(r)
        ELSE req' = [req EXCEPT ![r].at = t,
                                ![r].pc = IF load.interval > 0 THEN "interval" ELSE "repeat"]
    /\ UNCHANGED <<now, load, members, fresh, tables, warned, hub, ghost>>
MessageCooldown(r) ==
    /\ At(r, "cooldown")
    /\ \E t \in Clock(r) :
        IF cooldown[req[r].user].until > t
        THEN Done(r)
        ELSE req' = [req EXCEPT ![r].at = t,
                                ![r].pc = IF load.interval > 0 THEN "interval" ELSE "repeat"]
    /\ UNCHANGED <<now, load, members, fresh, tables, warned, hub, ghost>>

\* TakeRateLimit for capacity 1.  Tokens are counted in units of 1/interval, so
\* that a second refills Second units and a message costs interval of them.  A
\* call whose clock is behind refills nothing.  A row that has expired at d, the
\* clock of the latest call for any key, is gone, and the bucket is full.
RefilledForever(b, t, d) ==                                           \* mutant
    b.tokens + IF t > b.updated THEN (t - b.updated) * Second ELSE 0
Refilled(b, t, d) ==
    LET sum == b.tokens + IF t > b.updated THEN (t - b.updated) * Second ELSE 0 IN
    IF b.expires <= d \/ sum > load.interval THEN load.interval ELSE sum

\* Every call writes its own time, one that is behind too.
TakeInterval(r) ==
    LET u == req[r].user
        b == bucket[u] IN
    /\ At(r, "interval")
    /\ \E t \in Clock(r) : \E d \in t .. now :
        LET tokens == Refilled(b, t, d)
            Upsert(n) == bucket' = [bucket EXCEPT ![u] = [tokens |-> n, updated |-> t,
                                                          expires |-> t + BucketTTL]] IN
        IF tokens < load.interval
        THEN /\ Upsert(tokens)
             /\ Done(r)
             /\ passed' = [passed EXCEPT ![u].back = @ + IF t < b.updated THEN b.updated - t ELSE 0]
        ELSE /\ Upsert(tokens - load.interval)
             /\ Goto(r, "repeat")
             /\ passed' = [passed EXCEPT ![u] = [at |-> t, back |-> 0]]
    /\ UNCHANGED <<now, load, members, fresh, stored, msg, reads, keys, cooldown, warned, warnings,
                   hub, origin, seen, entitled>>

\* Messages of the guard's window, and the author's own among them.
Recent(r) == {m \in stored : msg[m].created >= req[r].at - Refill}
OwnOrNot(r) == Recent(r)                                              \* mutant
Own(r) == {m \in Recent(r) : msg[m].author = req[r].user}

\* Rows of M are deleted, and their receipts with them.
DropKeepingReads(M) == stored' = stored \ M /\ UNCHANGED reads        \* mutant
Drop(M) ==
    /\ stored' = stored \ M
    /\ reads' = {x \in reads : x[1] \notin M}

DeleteRecentRepeatedMessages(r) ==
    LET again == {m \in Own(r) : msg[m].body = req[r].body} IN
    /\ At(r, "repeat")
    /\ Drop(again)
    /\ Goto(r, IF again # {} THEN "evaluate" ELSE "similar")
    /\ UNCHANGED <<now, load, members, fresh, msg, keys, cooldown, bucket, warned, warnings, hub, ghost>>

\* countSimilarMessages: the body itself counts, its author does not.
Flooded(r) ==
    LET similar == {m \in Recent(r) : <<req[r].body, msg[m].body>> \in Like} IN
    /\ Cardinality(similar) + 1 >= Flood
    /\ Cardinality({msg[m].author : m \in similar}) >= FloodUsers

SimilarMessages(r) ==
    /\ At(r, "similar")
    /\ Goto(r, IF Flooded(r) THEN "purge" ELSE "limits")
    /\ UNCHANGED <<now, load, members, fresh, tables, warned, hub, ghost>>

\* The text looks like spam, or the bucket of the account or of the group is
\* empty; otherwise the warning is cleared and the message is stored.
Limits(r) ==
    /\ At(r, "limits")
    /\ \/ "spam" \in load.ops /\ Goto(r, "purge") /\ UNCHANGED warned
       \/ Goto(r, "add") /\ warned' = [warned EXCEPT ![req[r].user] = 0]
    /\ UNCHANGED <<now, load, members, fresh, tables, hub, ghost>>

DeleteRecentMessagesByAuthor(r) ==
    /\ At(r, "purge")
    /\ Drop(Own(r))
    /\ Goto(r, "evaluate")
    /\ UNCHANGED <<now, load, members, fresh, msg, keys, cooldown, bucket, warned, warnings, hub, ghost>>

-----------------------------------------------------------------------------
(* What a violation leads to.                                              *)

\* evaluateGroup looks again, after the author's messages were deleted.
EvaluateGroup(r) ==
    /\ At(r, "evaluate")
    /\ Goto(r, IF Flooded(r) THEN "warning" ELSE "violation")
    /\ UNCHANGED <<now, load, members, fresh, tables, warned, hub, ghost>>

\* Rows of group_spam_warnings newer than t, and how many there are since t.
WarnedSince(t) == \E s \in Times : s > t /\ warnings[s] > 0
Count(w, t)    == SumFunction([s \in Times |-> IF s >= t THEN w[s] ELSE 0])

\* One warning per window of the guard; the last one that counts isolates.
CreateGroupSpamWarningAlways(r) ==                                    \* mutant
    LET t == req[r].at
        next == [warnings EXCEPT ![t] = @ + 1] IN
    /\ At(r, "warning")
    /\ warnings' = next
    /\ req' = [req EXCEPT ![r].pc = "violation",
                          ![r].isolate = Count(next, t - WarningWindow) >= WarningLimit]
    /\ UNCHANGED <<now, load, members, fresh, stored, msg, reads, keys, cooldown, bucket, warned, hub, ghost>>
CreateGroupSpamWarning(r) ==
    LET t    == req[r].at
        kept == [s \in Times |-> IF s < t - WarningWindow THEN 0 ELSE warnings[s]]
        next == IF WarnedSince(t - Refill) THEN kept ELSE [kept EXCEPT ![t] = @ + 1] IN
    /\ At(r, "warning")
    /\ warnings' = next
    /\ req' = [req EXCEPT ![r].pc = "violation",
                          ![r].isolate = /\ ~WarnedSince(t - Refill)
                                         /\ Count(next, t - WarningWindow) >= WarningLimit]
    /\ UNCHANGED <<now, load, members, fresh, stored, msg, reads, keys, cooldown, bucket, warned, hub, ghost>>

AfterViolation(r) == IF req[r].isolate THEN Goto(r, "isolate") ELSE Done(r)

\* warnOnce: the first violation of a window is a warning, the next one counts.
WarnOnce(r) ==
    LET u == req[r].user IN
    /\ At(r, "violation")
    /\ IF warned[u] > req[r].at
       THEN Goto(r, "record") /\ UNCHANGED warned
       ELSE warned' = [warned EXCEPT ![u] = req[r].at + Refill] /\ AfterViolation(r)
    /\ UNCHANGED <<now, load, members, fresh, tables, hub, ghost>>

\* The level of the next cooldown.
NextLevel(u, t) ==
    LET level == IF t - cooldown[u].last > CooldownForget THEN 0 ELSE cooldown[u].level IN
    IF level < Len(Cooldowns) THEN level + 1 ELSE Len(Cooldowns)

\* Requests of the author that read the cooldown before do not see it.
RecordMessageViolation(r) ==
    LET u     == req[r].user
        level == NextLevel(u, req[r].at)
        next  == IF req[r].isolate THEN "isolate" ELSE "idle"
        Late(q) == IF q.user = u /\ q.pc \in SendPC \ {"reserve", "cooldown"}
                   THEN [q EXCEPT !.late = TRUE] ELSE q IN
    /\ At(r, "record")
    /\ cooldown' = [cooldown EXCEPT ![u] = [level |-> level, until |-> req[r].at + Cooldowns[level],
                                            last |-> req[r].at]]
    /\ req' = [q \in Reqs |-> IF q # r THEN Late(req[q])
                              ELSE IF next = "idle" THEN IdleReq ELSE [req[r] EXCEPT !.pc = next]]
    /\ UNCHANGED <<now, load, members, fresh, stored, msg, reads, keys, bucket, warned, warnings, hub, ghost>>

\* isolateMessageAttack takes a new account out of the group; see Groups.
IsolateMessageAttack(r) ==
    /\ At(r, "isolate")
    /\ members' \in {members, members \ ({req[r].user} \ {Owner})}
    /\ Done(r)
    /\ UNCHANGED <<now, load, fresh, tables, warned, hub, ghost>>

-----------------------------------------------------------------------------
(* The row and its event.  Events are published after the commit, to who   *)
(* is a member by then.                                                    *)

AddMessage(r) ==
    LET q == req[r] IN
    /\ At(r, "add")
    /\ \E t \in Clock(r), m \in IF q.id = None THEN fresh ELSE {q.id} :
        /\ fresh' = fresh \ {m}
        /\ stored' = stored \cup {m}
        /\ msg' = [msg EXCEPT ![m] = [author |-> q.user, body |-> q.body, created |-> t]]
        /\ entitled' = [entitled EXCEPT ![m] = members]
        /\ req' = [req EXCEPT ![r].pc = "ids", ![r].id = m, ![r].event = "created"]
    /\ UNCHANGED <<now, load, members, reads, keys, cooldown, bucket, warned, warnings, hub,
                   origin, passed, seen>>

GroupMemberIDs(r) ==
    /\ At(r, "ids")
    /\ req' = [req EXCEPT ![r].to = members, ![r].pc = "publish"]
    /\ UNCHANGED <<now, load, members, fresh, tables, warned, hub, ghost>>

\* Hub.Publish: a channel that is full misses the event.
PublishToAll(to, e) ==                                                \* mutant
    chan' = [s \in Streams |-> IF stream[s] # None /\ Len(chan[s]) < ChannelSize
                               THEN Append(chan[s], e) ELSE chan[s]]
Publish(to, e) ==
    chan' = [s \in Streams |-> IF stream[s] \in to /\ Len(chan[s]) < ChannelSize
                               THEN Append(chan[s], e) ELSE chan[s]]

PublishGroup(r) ==
    /\ At(r, "publish")
    /\ Publish(req[r].to, [type |-> req[r].event, id |-> req[r].id])
    /\ Done(r)
    /\ UNCHANGED <<now, load, members, fresh, tables, warned, stream, ghost>>

-----------------------------------------------------------------------------
(* DeleteMessage and MarkRead.                                             *)

MayDelete(u, m) == msg[m].author = u \/ u = Owner

DeleteCheck(r, u, m) ==
    /\ At(r, "idle") /\ "delete" \in load.ops
    /\ m \in stored /\ u \in members /\ MayDelete(u, m)
    /\ req' = [req EXCEPT ![r] = [IdleReq EXCEPT !.pc = "delete", !.user = u, !.id = m, !.at = now]]
    /\ UNCHANGED <<now, load, members, fresh, tables, warned, hub, ghost>>

DeleteMessage(r) ==
    LET m == req[r].id IN
    /\ At(r, "delete")
    /\ Drop({m})
    /\ IF m \in stored THEN req' = [req EXCEPT ![r].pc = "ids", ![r].event = "deleted"] ELSE Done(r)
    /\ UNCHANGED <<now, load, members, fresh, msg, keys, cooldown, bucket, warned, warnings, hub, ghost>>

MarkCheck(r, u, m) ==
    /\ At(r, "idle") /\ "read" \in load.ops /\ u \in members
    /\ req' = [req EXCEPT ![r] = [IdleReq EXCEPT !.pc = "mark", !.user = u, !.id = m, !.at = now]]
    /\ UNCHANGED <<now, load, members, fresh, tables, warned, hub, ghost>>

\* Messages up to the second of the one that is marked.
UpToAll(m) == stored                                                  \* mutant
UpTo(m) == {n \in stored : msg[n].created <= msg[m].created}

\* Every message up to the one that is marked; its author is told each time.
Mark(r) ==
    LET m == req[r].id
        u == req[r].user IN
    /\ At(r, "mark")
    /\ IF m \in stored
       THEN /\ reads' = reads \cup (UpTo(m) \X {u})
            /\ seen' = [seen EXCEPT ![u] = IF msg[m].created > @ THEN msg[m].created ELSE @]
            /\ req' = [req EXCEPT ![r].pc = "receipts",
                                  ![r].todo = {n \in UpTo(m) : msg[n].author # u}]
       ELSE Done(r) /\ UNCHANGED <<reads, seen>>
    /\ UNCHANGED <<now, load, members, fresh, stored, msg, keys, cooldown, bucket, warned, warnings,
                   hub, origin, passed, entitled>>

PublishReceipt(r) ==
    /\ At(r, "receipts")
    /\ \/ \E m \in req[r].todo :
            /\ Publish({msg[m].author}, [type |-> "read", id |-> m])
            /\ req' = [req EXCEPT ![r].todo = @ \ {m}]
       \/ req[r].todo = {} /\ Done(r) /\ UNCHANGED chan
    /\ UNCHANGED <<now, load, members, fresh, tables, warned, stream, ghost>>

-----------------------------------------------------------------------------
(* Event streams, membership, cleanup, faults, time.                       *)

Subscribe(s, u) ==
    /\ "stream" \in load.ops /\ stream[s] = None /\ u \in load.users
    /\ stream' = [stream EXCEPT ![s] = u]
    /\ UNCHANGED <<now, load, members, fresh, tables, warned, chan, req, ghost>>

\* The handler writes an event to the client, or the client has gone.
Receive(s) ==
    /\ stream[s] # None /\ chan[s] # <<>>
    /\ chan' = [chan EXCEPT ![s] = Tail(@)]
    /\ UNCHANGED <<now, load, members, fresh, tables, warned, stream, req, ghost>>

Unsubscribe(s) ==
    /\ stream[s] # None
    /\ stream' = [stream EXCEPT ![s] = None]
    /\ chan' = [chan EXCEPT ![s] = <<>>]
    /\ UNCHANGED <<now, load, members, fresh, tables, warned, req, ghost>>

\* Join and leave, see Groups.
Join(u) ==
    /\ "members" \in load.ops /\ u \in load.users \ members
    /\ members' = members \cup {u}
    /\ entitled' = [m \in Msgs |-> IF m \in fresh THEN {} ELSE entitled[m] \cup {u}]
    /\ UNCHANGED <<now, load, fresh, tables, warned, hub, req, origin, passed, seen>>

Leave(u) ==
    /\ "members" \in load.ops /\ u \in members \ {Owner}
    /\ members' = members \ {u}
    /\ UNCHANGED <<now, load, fresh, tables, warned, hub, req, ghost>>

\* What a pass that has read the clock at t deletes.
Expired(t) == {m \in stored : msg[m].created < t - Retention}
Oldest(t)  == {m \in stored : msg[m].created < t - MinAge}

\* DeleteExpiredMessages, and in an emergency a batch of the oldest messages.
DeleteOldMessages ==
    /\ "expire" \in load.ops
    /\ \E t \in now - load.lag .. now :
        \/ Drop(Expired(t))
        \/ \E m \in Oldest(t) : Drop({n \in Oldest(t) : msg[n].created < msg[m].created \/ n = m})
    /\ UNCHANGED <<now, load, members, fresh, msg, keys, cooldown, bucket, warned, warnings, hub, req, ghost>>

\* CleanupBannedUser deletes the newest messages of an account, of all groups:
\* the messages of other groups may take up part of the limit.
CleanupBannedUser(u) ==
    LET own == {m \in stored : msg[m].author = u} IN
    /\ "ban" \in load.ops
    /\ \E M \in SUBSET own :
        /\ Cardinality(M) <= BanLimit
        /\ \A m \in M, n \in own \ M : msg[n].created <= msg[m].created
        /\ Drop(M)
    /\ UNCHANGED <<now, load, members, fresh, msg, keys, cooldown, bucket, warned, warnings, hub, req, ghost>>

\* A database error, a client that goes away, or a crash of the request.
Abort(r) ==
    /\ ~At(r, "idle") /\ Done(r)
    /\ UNCHANGED <<now, load, members, fresh, tables, warned, hub, ghost>>

\* The process starts again: requests, streams and warnings are forgotten.
Restart ==
    /\ "restart" \in load.ops
    /\ req' = [r \in Reqs |-> IdleReq]
    /\ warned' = [u \in Users |-> 0]
    /\ stream' = [s \in Streams |-> None] /\ chan' = [s \in Streams |-> <<>>]
    /\ UNCHANGED <<now, load, members, fresh, tables, ghost>>

Tick ==
    /\ now < load.maxTime
    /\ \A r \in Reqs : ~At(r, "idle") => now < req[r].at + load.lag
    /\ now' = now + 1
    /\ UNCHANGED <<load, members, fresh, tables, warned, hub, req, ghost>>

\* Lists, typing notices and requests that are refused at once change nothing.
Answer == UNCHANGED vars

SendStep(r) ==
    \/ \E u \in load.users, k \in load.keys, b \in load.bodies : Send(r, u, k, b)
    \/ ReserveNothing(r) \/ Reserve(r)
    \/ MessageCooldown(r) \/ TakeInterval(r)
    \/ DeleteRecentRepeatedMessages(r) \/ SimilarMessages(r) \/ Limits(r)
    \/ DeleteRecentMessagesByAuthor(r) \/ EvaluateGroup(r) \/ CreateGroupSpamWarning(r)
    \/ WarnOnce(r) \/ RecordMessageViolation(r) \/ IsolateMessageAttack(r)
    \/ AddMessage(r) \/ GroupMemberIDs(r) \/ PublishGroup(r)

Next ==
    \/ \E r \in Reqs :
        \/ SendStep(r)
        \/ \E u \in load.users, m \in Msgs : DeleteCheck(r, u, m) \/ MarkCheck(r, u, m)
        \/ DeleteMessage(r) \/ Mark(r) \/ PublishReceipt(r)
        \/ Abort(r)
    \/ \E s \in Streams : (\E u \in load.users : Subscribe(s, u)) \/ Receive(s) \/ Unsubscribe(s)
    \/ \E u \in load.users : Join(u) \/ Leave(u) \/ CleanupBannedUser(u)
    \/ DeleteOldMessages \/ Restart \/ Tick \/ Answer

Spec == Init /\ [][Next]_vars

-----------------------------------------------------------------------------
(* Properties.                                                             *)

\* A request that is sent again, at the same time, after an error or after a
\* restart, does not post twice: two messages of one key were reserved at
\* least KeyTTL apart, less what a request may be behind the clock (a key that
\* another request has deleted as expired is not expired yet for a late one).
Apart(a, b) == a.at + KeyTTL <= b.at + load.lag
PostedOnce ==
    \A m, n \in Msgs \ fresh :
        m # n /\ origin[m].key # NoKey /\ origin[m].user = origin[n].user /\ origin[m].key = origin[n].key
            => Apart(origin[m], origin[n]) \/ Apart(origin[n], origin[m])

\* What one step may store while its author is in cooldown.
CooldownStep ==
    \A m \in stored' \ stored :
        LET u == msg'[m].author IN
        msg'[m].body # NoText /\ cooldown[u].until > now =>
            \E r \in Reqs : At(r, "add") /\ req[r].user = u /\ req[r].late

\* A cooldown silences its author: a text is stored while it is in force only
\* by a request that had passed the check when the cooldown began.
CooldownHolds == [][CooldownStep]_vars

\* What one step may turn into an isolation of the group.
IsolationStep ==
    \A r \in Reqs : req'[r].isolate /\ ~req[r].isolate =>
        \E W \in kSubset(WarningLimit, {s \in Times : warnings'[s] > 0}) :
            \A s, t \in W : s # t => s + Refill <= t \/ t + Refill <= s

\* Texts isolate a group only after WarningLimit separate attacks: however many
\* requests see the same flood at once, it counts once per window.
IsolationEarned == [][IsolationStep]_vars

\* What one step may do to a message.
LossStep ==
    \A m \in stored \ stored' :
        \/ msg[m].created < now - (IF MinAge < Retention THEN MinAge ELSE Retention)
        \/ \E r \in Reqs : At(r, "delete") /\ req[r].id = m /\ req[r].user \in {msg[m].author, Owner}
        \/ \E r \in Reqs : /\ At(r, "repeat") \/ At(r, "purge")
                           /\ req[r].user = msg[m].author /\ req[r].at <= msg[m].created + Refill
        \/ CleanupBannedUser(msg[m].author)

\* Nobody's messages disappear for what somebody else did: a message goes when
\* it is old, when its author or the owner deletes it, when its own author
\* violates the limits while it is recent, or when its own author is banned.
\* (With the group or the author's account all its messages go, see Groups.)
OnlyOwnLosses == [][LossStep]_vars

\* A message counts as read by an account only up to the newest message the
\* account has marked, whatever is stored, deleted and marked in between.
ReadMeansSeen == \A x \in reads : msg[x[1]].created <= seen[x[2]]

\* What the interval may let pass.
IntervalStep ==
    \A r \in Reqs : At(r, "interval") /\ req'[r].pc = "repeat" =>
        LET u == req[r].user
            p == passed[u] IN
        \E t \in {bucket[u].updated, bucket'[u].updated} :
            (t - p.at + p.back) * Second >= load.interval

\* Between two messages of an account that the limiter lets pass the clock's
\* seconds add up to MinMessageInterval, whatever was refused in between and
\* whatever rows have expired.  Two things weaken the interval, and nothing
\* else does.  Seconds are counted, not time: the shipped 900 ms only keep
\* messages out of the same second, and two a moment apart on either side of its
\* end both pass.  And a refused call that is behind writes its own time, so
\* that the seconds it sets updated_at back are refilled once more.
IntervalKept == [][IntervalStep]_vars

\* A message is told only to accounts that were members of the group after it
\* was stored, although recipients are read after the commit and members come
\* and go.
OnlyMembersHear ==
    \A s \in Streams : \A i \in 1 .. Len(chan[s]) :
        chan[s][i].type = "created" => stream[s] \in entitled[chan[s][i].id]
=============================================================================
